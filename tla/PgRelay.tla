------------------------------- MODULE PgRelay -------------------------------
(***************************************************************************)
(* The integration-event relay of postgres/event_store.rs:                 *)
(* `relay_next_integration_event` and the loop around it, run by several   *)
(* workers over one `integration_outbox`, while append_with_outbox calls   *)
(* go on adding rows (EventLog).                                           *)
(*                                                                         *)
(* A relay attempt is one transaction: lock the oldest pending row nobody  *)
(* has locked, publish, mark, commit.  The publish itself is outside the   *)
(* database: rolling back does not take it back.                           *)
(***************************************************************************)
EXTENDS EventLog

CONSTANTS
  Relays,     \* relay workers
  None,       \* no row
  MaxAborts   \* bound: abandoned attempts per entry

ASSUME RelayAssumption == None \notin Ids /\ MaxAborts \in Nat

VARIABLES
  worker,      \* where each worker is in its loop
  row,         \* the entry whose row it has locked
  dispatched,  \* entries whose row says dispatched = TRUE
  delivered,   \* history: messages at the broker, per entry
  aborted      \* history: attempts that ended without a commit, per entry

relayVars == <<worker, row, dispatched, delivered, aborted>>
relayAndLog == <<logVars, relayVars>>

InTx == {"selected", "published", "marked"}

\* Types; a worker holds a row exactly while it is inside a transaction, and
\* only entries of the outbox are ever dispatched.
RelayTypeOK ==
  /\ LogTypeOK
  /\ worker \in [Relays -> {"idle", "asleep", "stopped"} \cup InTx]
  /\ row \in [Relays -> Ids \cup {None}]
  /\ \A r \in Relays : (row[r] # None) <=> (worker[r] \in InTx)
  /\ dispatched \subseteq {x.id : x \in outbox}
  /\ delivered \in [Ids -> Nat]
  /\ aborted \in [Ids -> 0 .. MaxAborts]

\* Every worker is at the given point of its loop.
WorkersAt(label) ==
  /\ worker = [r \in Relays |-> label]
  /\ row = [r \in Relays |-> None]
  /\ dispatched = {}
  /\ delivered = [i \in Ids |-> 0]
  /\ aborted = [i \in Ids |-> 0]

RelayInit == LogInit /\ WorkersAt("idle")

Goto(r, label) == worker' = [worker EXCEPT ![r] = label]

\* The end of the transaction frees the row lock, by commit or by rollback.
FreeRow(r) == row' = [row EXCEPT ![r] = None]
-----------------------------------------------------------------------------
(* The query: dispatched = FALSE ORDER BY global_position LIMIT 1          *)
(* FOR UPDATE SKIP LOCKED.                                                 *)

Locked_NotAtAll(i) == FALSE
Locked(i) == \E r \in Relays : row[r] = i

Candidates == {x \in outbox : x.id \notin dispatched /\ ~ Locked(x.id)}

Oldest_Unordered(x) == TRUE
Oldest(x) == \A y \in Candidates : x.pos <= y.pos

Select(r) ==
  /\ worker[r] = "idle"
  /\ \E x \in Candidates : Oldest(x) /\ row' = [row EXCEPT ![r] = x.id]
  /\ Goto(r, "selected")
  /\ UNCHANGED <<logVars, dispatched, delivered, aborted>>

\* Ok(false) on an empty answer and Err from BEGIN or the query: the loop
\* sleeps, 100 ms or 1 s, and tries again.
FindNothing(r) ==
  /\ worker[r] = "idle"
  /\ Goto(r, "asleep")
  /\ UNCHANGED <<logVars, row, dispatched, delivered, aborted>>

Wake_Never(r) == FALSE
Wake(r) ==
  /\ worker[r] = "asleep"
  /\ Goto(r, "idle")
  /\ UNCHANGED <<logVars, row, dispatched, delivered, aborted>>

\* publish(payload, event_type) answers Ok.
Publish(r) ==
  /\ worker[r] = "selected"
  /\ delivered' = [delivered EXCEPT ![row[r]] = @ + 1]
  /\ Goto(r, "published")
  /\ UNCHANGED <<logVars, row, dispatched, aborted>>

\* UPDATE integration_outbox SET dispatched = TRUE, private until the commit.
MarkAfter_Selecting == {"selected", "published"}
MarkAfter == {"published"}

Mark(r) ==
  /\ worker[r] \in MarkAfter
  /\ Goto(r, "marked")
  /\ UNCHANGED <<logVars, row, dispatched, delivered, aborted>>

\* The commit may take effect and still answer Err; the loop then sleeps.
Commit(r) ==
  /\ worker[r] = "marked"
  /\ dispatched' = dispatched \cup {row[r]}
  /\ FreeRow(r)
  /\ \E label \in {"idle", "asleep"} : Goto(r, label)
  /\ UNCHANGED <<logVars, delivered, aborted>>

\* An attempt ends in a rollback: publish answers Err (the broker may have
\* the message all the same), UPDATE or COMMIT fails, the process dies and
\* comes back ("asleep"), or shutdown drops the attempt ("stopped").
Abort(r) ==
  /\ worker[r] \in InTx
  /\ aborted[row[r]] < MaxAborts
  /\ aborted' = [aborted EXCEPT ![row[r]] = @ + 1]
  /\ \/ UNCHANGED delivered
     \/ worker[r] = "selected" /\ delivered' = [delivered EXCEPT ![row[r]] = @ + 1]
  /\ FreeRow(r)
  /\ \E label \in {"asleep", "stopped"} : Goto(r, label)
  /\ UNCHANGED <<logVars, dispatched>>

\* Shutdown is polled first each time around the loop.
Shutdown(r) ==
  /\ worker[r] = "idle"
  /\ Goto(r, "stopped")
  /\ UNCHANGED <<logVars, row, dispatched, delivered, aborted>>

Proceed(r) == Publish(r) \/ Mark(r) \/ Commit(r)
-----------------------------------------------------------------------------
WorkerStep(r) ==
  Select(r) \/ FindNothing(r) \/ Wake(r) \/ Proceed(r) \/ Abort(r) \/ Shutdown(r)

RelayNext ==
  \/ LogNext /\ UNCHANGED relayVars
  \/ \E r \in Relays : WorkerStep(r)

RelaySpec == RelayInit /\ [][RelayNext]_relayAndLog
-----------------------------------------------------------------------------
(* Properties.                                                             *)

\* "each worker locks a different row": no two workers are at the same entry
\* and none is at an entry already dispatched, however the attempts overlap.
RowHeldOnce ==
  \A r \in Relays : worker[r] \in InTx =>
    /\ row[r] \notin dispatched
    /\ \A q \in Relays \ {r} : row[q] # row[r]

\* Every delivery but one is paid for by an abandoned attempt at that entry:
\* concurrency alone never delivers twice.
DuplicatesNeedAborts == \A i \in Ids : delivered[i] <= 1 + aborted[i]

\* Publish before mark: an entry marked dispatched has reached the broker.
DispatchedWasDelivered == \A i \in dispatched : delivered[i] >= 1

\* An entry first reaches the broker before an older one of its stream only
\* while another worker is at the older one (SKIP LOCKED passes over it) or
\* after an attempt at the older one was abandoned.
OnlyBusyEntriesAreOvertaken ==
  \A x, y \in outbox :
    x.stream = y.stream /\ x.pos < y.pos /\ delivered[y.id] > 0
      => delivered[x.id] > 0 \/ aborted[x.id] > 0 \/ Locked(x.id)

\* Exactly-once dispatch, as the module's table of properties has it.
ExactlyOnceDispatch == \A i \in Ids : delivered[i] <= 1

\* Every outbox entry is dispatched in the end, unless all workers were told
\* to stop: a locked or failed entry is never forgotten.
EveryEntryDispatched ==
  \A i \in Ids :
    (\E x \in outbox : x.id = i)
      ~> (i \in dispatched \/ \A r \in Relays : worker[r] = "stopped")
=============================================================================
