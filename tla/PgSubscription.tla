--------------------------- MODULE PgSubscription ---------------------------
(***************************************************************************)
(* `catch_up_subscribe` of postgres/event_store.rs for one consumer id,    *)
(* with the checkpoint calls it makes, over a log that others append to    *)
(* (EventLog).                                                             *)
(*                                                                         *)
(* Phase 1 fetches every event past the checkpoint in one query and        *)
(* handles them in position order.  Phase 2 opens a connection, issues     *)
(* LISTEN, and handles the events whose positions the insert trigger       *)
(* announces.  PostgreSQL delivers a NOTIFY when its transaction commits,  *)
(* to the sessions that listen at that time, in commit order.              *)
(***************************************************************************)
EXTENDS EventLog, Sequences

CONSTANTS
  MaxRuns    \* bound: times the consumer is started

ASSUME RunAssumption == MaxRuns \in Nat \ {0}

VARIABLES
  pc,          \* where the subscription is
  from,        \* local `from`: the checkpoint loaded at the start
  batch,       \* positions of phase 1 still to handle, taken in order
  queue,       \* notifications sent to the LISTEN connection
  current,     \* position being handled
  checkpoint,  \* `checkpoints.global_position`, -1 without a row
  seen,        \* history: positions handled in this run, in order
  ever,        \* history: positions handled in any run
  runs         \* times started

subVars == <<pc, from, batch, queue, current, checkpoint, seen, ever, runs>>
history == <<seen, ever>>

Position == 0 .. MaxPos
Labels == {"down", "starting", "loaded", "catchup", "save_catchup",
           "connecting", "live", "fetched", "save_live", "reconnecting"}

\* Types of the consumer's locals and of its checkpoint row.
SubTypeOK ==
  /\ LogTypeOK
  /\ pc \in Labels
  /\ from \in Position \cup {-1}
  /\ batch \subseteq Position
  /\ queue \in Seq(Position)
  /\ current \in Position \cup {-1}
  /\ checkpoint \in Position \cup {-1}
  /\ seen \in Seq(Position)
  /\ ever \subseteq Position
  /\ runs \in 0 .. MaxRuns

\* The consumer is down and has been started n times.
SubInit(n) ==
  /\ pc = "down" /\ from = -1 /\ batch = {} /\ queue = <<>> /\ current = -1
  /\ checkpoint = -1 /\ seen = <<>> /\ ever = {} /\ runs = n

\* The session is registered for events_channel.
Listening_BeforeHistory == pc \notin {"down", "starting", "reconnecting"}
Listening == pc \in {"live", "fetched", "save_live"}
-----------------------------------------------------------------------------
\* An append commits; the AFTER INSERT trigger's NOTIFY goes to the listener.
CommitAndNotify(i, s, p, o) ==
  /\ AppendEvent(i, s, p, o)
  /\ queue' = IF Listening THEN queue \o <<p>> ELSE queue
  /\ UNCHANGED <<pc, from, batch, current, checkpoint, history, runs>>

Start ==
  /\ pc = "down"
  /\ runs < MaxRuns
  /\ runs' = runs + 1
  /\ pc' = "starting"
  /\ seen' = <<>>
  /\ UNCHANGED <<logVars, from, batch, queue, current, checkpoint, ever>>

\* load_checkpoint(consumer_id)?.unwrap_or(-1)
LoadCheckpoint ==
  /\ pc = "starting"
  /\ from' = checkpoint
  /\ pc' = "loaded"
  /\ UNCHANGED <<logVars, batch, queue, current, checkpoint, history, runs>>

\* SELECT ... WHERE global_position > $1 ORDER BY global_position, fetch_all:
\* HandleHistory takes the rows in that order.
After_NextPosition(p) == {e.pos : e \in {x \in events : x.pos > p + 1}}
After(p) == {e.pos : e \in {x \in events : x.pos > p}}

FetchHistory ==
  /\ pc = "loaded"
  /\ batch' = After(from)
  /\ pc' = "catchup"
  /\ UNCHANGED <<logVars, from, queue, current, checkpoint, history, runs>>

\* handler(envelope) answers Ok for position p.
Handle(p) ==
  /\ current' = p
  /\ seen' = seen \o <<p>>
  /\ ever' = ever \cup {p}

HandleHistory ==
  /\ pc = "catchup"
  /\ \E p \in batch :
       /\ \A q \in batch : p <= q
       /\ Handle(p)
       /\ batch' = batch \ {p}
  /\ pc' = "save_catchup"
  /\ UNCHANGED <<logVars, from, queue, checkpoint, runs>>

\* save_checkpoint: an UPSERT that overwrites whatever is there.
Saved_Next(p) == p + 1
Saved(p) == p

SaveHistory ==
  /\ pc = "save_catchup"
  /\ checkpoint' = Saved(current)
  /\ pc' = "catchup"
  /\ UNCHANGED <<logVars, from, batch, queue, current, history, runs>>

EndHistory ==
  /\ pc = "catchup"
  /\ batch = {}
  /\ pc' = "connecting"
  /\ UNCHANGED <<logVars, from, batch, queue, current, checkpoint, history, runs>>

\* PgListener::connect and LISTEN; also its silent reconnection (below).
Listen ==
  /\ pc \in {"connecting", "reconnecting"}
  /\ pc' = "live"
  /\ UNCHANGED <<logVars, from, batch, queue, current, checkpoint, history, runs>>

\* listener.recv(), then SELECT ... WHERE global_position = $1.  The row is
\* there: the notification was sent by the commit of its transaction.
Receive ==
  /\ pc = "live"
  /\ queue # <<>>
  /\ current' = Head(queue)
  /\ queue' = Tail(queue)
  /\ pc' = IF \E e \in events : e.pos = Head(queue) THEN "fetched" ELSE "live"
  /\ UNCHANGED <<logVars, from, batch, checkpoint, history, runs>>

HandleLive ==
  /\ pc = "fetched"
  /\ Handle(current)
  /\ pc' = "save_live"
  /\ UNCHANGED <<logVars, from, batch, queue, checkpoint, runs>>

SaveLive ==
  /\ pc = "save_live"
  /\ checkpoint' = Saved(current)
  /\ pc' = "live"
  /\ UNCHANGED <<logVars, from, batch, queue, current, history, runs>>

\* The LISTEN connection drops inside recv(): sqlx reconnects on its own and
\* the notifications it had not read by then are gone.
LoseConnection ==
  /\ pc = "live"
  /\ pc' = "reconnecting"
  /\ \E n \in 0 .. Len(queue) : queue' = SubSeq(queue, 1, n)
  /\ UNCHANGED <<logVars, from, batch, current, checkpoint, history, runs>>

\* Any `?` returns the error to the caller, the handler's included; a killed
\* process looks the same.  Only the tables survive.
Crash ==
  /\ pc # "down"
  /\ pc' = "down"
  /\ from' = -1 /\ batch' = {} /\ queue' = <<>> /\ current' = -1
  /\ UNCHANGED <<logVars, checkpoint, history, runs>>

Advance ==
  \/ LoadCheckpoint \/ FetchHistory \/ HandleHistory \/ SaveHistory \/ EndHistory
  \/ Listen \/ Receive \/ HandleLive \/ SaveLive

SubStep == Start \/ Advance \/ LoseConnection \/ Crash
-----------------------------------------------------------------------------
(* Properties.                                                             *)

\* The checkpoint never gets ahead of the handler: a consumer that restarts
\* from it skips nothing it had been given.
CheckpointWasHandled == checkpoint = -1 \/ checkpoint \in ever

\* One run hands over the events of a stream in stream order and none twice,
\* although events of different streams may commit out of position order,
\* across the switch from phase 1 to phase 2 and across reconnections.
StreamOrder ==
  \A i, j \in 1 .. Len(seen) :
    \A e, f \in events :
      /\ i < j /\ e.pos = seen[i] /\ f.pos = seen[j] /\ e.stream = f.stream
      => e.version < f.version

\* "Phase 1 - replays all events after the stored checkpoint": an event in
\* the table past the checkpoint when a run starts reaches the handler,
\* unless the run ends first.
HistoryIsReplayed ==
  \A p \in Position :
    (pc = "loaded" /\ p > from /\ \E e \in events : e.pos = p)
      ~> ((\E k \in 1 .. Len(seen) : seen[k] = p) \/ pc = "down")

\* "replays from checkpoint then switches to LISTEN for live events": once
\* the subscription is live and idle the handler has had every event.
NothingMissedWhenLive ==
  pc = "live" /\ queue = <<>> => \A e \in events : e.pos \in ever
=============================================================================
