------------------------------ MODULE EventLog ------------------------------
(***************************************************************************)
(* What an event store of this repository promises to its callers.         *)
(*                                                                         *)
(* `append` adds one event to the end of one stream; `append_with_outbox`  *)
(* adds the event and its integration-outbox row in the same instant.      *)
(* Nothing is ever changed or removed.  Events carry two numbers: their    *)
(* version in the stream (0, 1, 2, ... without a gap) and a global         *)
(* position, which grows along each stream but is otherwise only unique:   *)
(* an event of another stream may become visible later with a smaller one. *)
(*                                                                         *)
(* PgEventStore and MongoEventStore (transactions on PostgreSQL and on     *)
(* MongoDB) are shown to implement this module.  The relays and the        *)
(* subscriptions take it as the log they read from.                        *)
(***************************************************************************)
EXTENDS Integers

CONSTANTS
  Streams,  \* stream ids
  Ids,      \* event ids (one Uuid per append call)
  MaxPos    \* largest global position (a BIGINT)

ASSUME MaxPosAssumption == MaxPos \in Nat

VARIABLES
  events,   \* committed rows of the `events` table
  outbox,   \* committed rows of `integration_outbox`
  next      \* next version of each stream (`stream_versions.version`)

logVars == <<events, outbox, next>>

Event     == [id: Ids, stream: Streams, version: Nat, pos: Nat]
OutboxRow == [id: Ids, stream: Streams, pos: Nat]

LogTypeOK ==
  /\ events \subseteq Event
  /\ outbox \subseteq OutboxRow
  /\ next \in [Streams -> Nat]

\* The outbox row written for an event: id, stream and position are copied.
RowOf(e) == [id |-> e.id, stream |-> e.stream, pos |-> e.pos]

LogInit ==
  /\ events = {}
  /\ outbox = {}
  /\ next = [s \in Streams |-> 0]

\* One append call, seen from outside: the event becomes visible at the end
\* of its stream, together with its outbox row when one was asked for.
AppendEvent(i, s, p, withOutbox) ==
  /\ \A e \in events : e.id # i /\ e.pos # p /\ (e.stream = s => e.pos < p)
  /\ LET e == [id |-> i, stream |-> s, version |-> next[s], pos |-> p]
     IN  /\ events' = events \cup {e}
         /\ outbox' = IF withOutbox THEN outbox \cup {RowOf(e)} ELSE outbox
  /\ next' = [next EXCEPT ![s] = @ + 1]

LogNext ==
  \E i \in Ids, s \in Streams, p \in 0 .. MaxPos, o \in BOOLEAN : AppendEvent(i, s, p, o)

LogSpec == LogInit /\ [][LogNext]_logVars
=============================================================================
