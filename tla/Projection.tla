------------------------------ MODULE Projection ------------------------------
(***************************************************************************)
(* projection_bench.rs: a writer seeds a stream, starts a projector that   *)
(* keeps the last events of the stream in a view, waits until the seed has *)
(* been replayed, and then appends one event at a time, each time waiting  *)
(* until the projector's counter says that it has been projected.          *)
(*                                                                         *)
(* The three backends differ in how the projector gets the events: one     *)
(* catch-up subscription (KurrentDB), a cursor and then a change stream    *)
(* (MongoDB), polling by position (PostgreSQL).  `backend` chooses one.    *)
(*                                                                         *)
(* search_bench.rs has the same writer and an indexer for a projector:     *)
(* SearchIndex adds it.  `program` is the command that runs.               *)
(***************************************************************************)
EXTENDS Integers, SequencesExt

CONSTANTS
  Programs,     \* commands of the program, this benchmark's among them
  Seeds,        \* seed_events
  SeedBatch,    \* batch_size
  Live,         \* live_events
  PollLimit,    \* rows of one poll
  Capacities,   \* view_size, chosen at the start
  MaxLeftover   \* bound: events an earlier run left in the stream

ASSUME ProjectionAssumption ==
  /\ Seeds \in Nat /\ Live \in Nat /\ MaxLeftover \in Nat
  /\ SeedBatch \in Nat \ {0} /\ PollLimit \in Nat \ {0} /\ Capacities \subseteq Nat

VARIABLES
  program,    \* the command that runs
  backend,    \* the event store it runs against
  capacity,   \* view_size
  leftover,   \* events already in the stream
  log,        \* `seq` of the events in the stream, in the order of the appends
  writer,     \* where the writer is
  expected,   \* the count the writer waits for
  projector,  \* where the projector is
  batch,      \* places in the log of the rows it still has to push
  view,       \* the materialised view
  pushed,     \* history: places pushed, in order; `processed` is its length
  missed,     \* history: places the MongoDB projector can no longer get
  measured    \* history: places the writer has recorded a lag for

vars == <<program, backend, capacity, leftover, log, writer, expected, projector, batch,
          view, pushed, missed, measured>>

writerVars == <<log, writer, expected, measured>>
projectorVars == <<projector, batch, view, pushed, missed>>
setup == <<program, backend, capacity, leftover>>

Places == 1 .. MaxLeftover + Seeds + Live
Processed == Len(pushed)

TypeOK ==
  /\ program \in Programs
  /\ backend \in {"kurrentdb", "mongodb", "postgres"}
  /\ capacity \in Capacities /\ leftover \in 0 .. MaxLeftover
  /\ log \in Seq(0 .. Seeds + Live) /\ Len(log) <= leftover + Seeds + Live
  /\ writer \in {"seeding", "waiting", "writing", "done", "failed"}
  /\ expected \in 0 .. Seeds + Live
  /\ projector \in {"unborn", "replaying", "opening", "live", "connecting", "polling",
                    "asleep", "pushing", "dead"}
  /\ batch \in Seq(Places) /\ pushed \in Seq(Places)
  /\ missed \subseteq Places /\ measured \subseteq Places

\* MongoDB and PostgreSQL empty the table first, KurrentDB goes on with the
\* stream as it is.
Init ==
  /\ program \in Programs
  /\ backend \in {"kurrentdb", "mongodb", "postgres"}
  /\ capacity \in Capacities
  /\ leftover \in IF backend = "kurrentdb" THEN 0 .. MaxLeftover ELSE {0}
  /\ log = [n \in 1 .. leftover |-> n]
  /\ writer = "seeding" /\ expected = 0
  /\ projector = "unborn"
  /\ batch = <<>> /\ view = <<>> /\ pushed = <<>> /\ missed = {} /\ measured = {}
-----------------------------------------------------------------------------
(* The writer.                                                             *)

\* A batch of seed events, counted from 1.  The PostgreSQL rows get the
\* sequence number from before the batch, one less than the payload's.
SeedNumber(n) == IF backend = "postgres" THEN n - 1 ELSE n

Seed ==
  LET done == Len(log) - leftover
      size == IF Seeds - done < SeedBatch THEN Seeds - done ELSE SeedBatch
  IN  /\ writer = "seeding"
      /\ done < Seeds
      /\ log' = log \o [i \in 1 .. size |-> SeedNumber(done + i)]
      /\ UNCHANGED <<setup, writer, expected, measured, projectorVars>>

FirstStage ==
  CASE backend = "kurrentdb" -> "live"
    [] backend = "mongodb"   -> "replaying"
    [] backend = "postgres"  -> "connecting"

\* tokio::spawn(projector), then wait for the seed.
Spawn ==
  /\ writer = "seeding"
  /\ Len(log) = leftover + Seeds
  /\ projector' = FirstStage
  /\ writer' = "waiting"
  /\ expected' = Seeds
  /\ UNCHANGED <<setup, log, measured, batch, view, pushed, missed>>

\* A live event is acknowledged; from here its lag is measured.
AppendLive ==
  /\ writer = "writing"
  /\ log' = Append(log, expected + 1)
  /\ expected' = expected + 1
  /\ writer' = "waiting"
  /\ UNCHANGED <<setup, measured, projectorVars>>

\* An append answers an error, and the run ends; the event may be there.
FailAppend ==
  /\ writer \in {"seeding", "writing"}
  /\ writer' = "failed"
  /\ \/ UNCHANGED log
     \/ writer = "writing" /\ log' = Append(log, expected + 1)
  /\ UNCHANGED <<setup, expected, measured, projectorVars>>

\* *rx.borrow() >= expected: the seed is replayed, or a live event's lag is
\* recorded; the last of them ends the run.
Reached == Processed >= expected

StopWaiting ==
  /\ writer = "waiting"
  /\ Reached
  /\ measured' = IF expected > Seeds THEN measured \cup {Len(log)} ELSE measured
  /\ writer' = IF expected < Seeds + Live THEN "writing" ELSE "done"
  /\ UNCHANGED <<setup, log, expected, projectorVars>>

WriterStep == Seed \/ Spawn \/ AppendLive \/ StopWaiting
-----------------------------------------------------------------------------
(* The projector.                                                          *)

\* push_to_view, then tx.send(processed).
Pushed(n) ==
  Append(IF Len(view) = capacity /\ view # <<>> THEN Tail(view) ELSE view, log[n])

Push(n) ==
  /\ view' = Pushed(n)
  /\ pushed' = Append(pushed, n)

Unpushed == (1 .. Len(log)) \ (ToSet(pushed) \cup missed)

\* MongoDB, phase A.  The cursor goes by _id, which append and append_batch
\* draw at random: any event not read yet may come next.
Replay ==
  /\ projector = "replaying"
  /\ \E n \in Unpushed : Push(n)
  /\ UNCHANGED <<setup, writerVars, projector, batch, missed>>

\* The cursor is exhausted.  An event that came after its last batch, or to
\* an _id it has passed, is not in it.
EndReplay ==
  /\ projector = "replaying"
  /\ 1 .. Seeds \subseteq ToSet(pushed)
  /\ projector' = "opening"
  /\ UNCHANGED <<setup, writerVars, batch, view, pushed, missed>>

\* MongoDB, phase B: coll.watch() delivers what is inserted from now on.
Watch ==
  /\ projector = "opening"
  /\ projector' = "live"
  /\ missed' = Unpushed
  /\ UNCHANGED <<setup, writerVars, batch, view, pushed>>

\* sub.next() from the start of the stream, cs.next(): in log order.
Receive ==
  /\ projector = "live"
  /\ Unpushed # {}
  /\ Push(Min(Unpushed))
  /\ UNCHANGED <<setup, writerVars, projector, batch, missed>>

\* PostgreSQL: a connection of the projector's own.
Connect ==
  /\ projector = "connecting"
  /\ projector' = "polling"
  /\ UNCHANGED <<setup, writerVars, batch, view, pushed, missed>>

\* poll_new_events(stream, checkpoint, limit): the rows past the last one
\* pushed.  Positions are places in the log: TRUNCATE restarts the identity
\* and there is one writer.
FirstOfPoll_Inclusive == IF pushed = <<>> THEN 1 ELSE Last(pushed)
FirstOfPoll == IF pushed = <<>> THEN 1 ELSE Last(pushed) + 1

Poll ==
  /\ projector = "polling"
  /\ LET rows == [i \in 1 .. Len(log) + 1 - FirstOfPoll |-> FirstOfPoll + i - 1]
     IN  /\ rows # <<>>
         /\ batch' = SubSeq(rows, 1, IF Len(rows) < PollLimit THEN Len(rows) ELSE PollLimit)
  /\ projector' = "pushing"
  /\ UNCHANGED <<setup, writerVars, view, pushed, missed>>

\* No rows, or an error: sleep poll_ms.
PollNothing ==
  /\ projector = "polling"
  /\ projector' = "asleep"
  /\ UNCHANGED <<setup, writerVars, batch, view, pushed, missed>>

Wake ==
  /\ projector = "asleep"
  /\ projector' = "polling"
  /\ UNCHANGED <<setup, writerVars, batch, view, pushed, missed>>

PushRow ==
  /\ projector = "pushing"
  /\ Push(Head(batch))
  /\ batch' = Tail(batch)
  /\ projector' = IF Len(batch) = 1 THEN "polling" ELSE "pushing"
  /\ UNCHANGED <<setup, writerVars, missed>>

\* The loop breaks on an error, an expect fails, or the finished run aborts the
\* task.  An error of the cursor is ignored, but events it has not read never
\* come: the writer waits for them, and nothing is written.  The PostgreSQL
\* projector dies if it cannot connect; polling survives errors, so later only
\* the abort ends it.  Nobody tells the writer.
Die ==
  /\ projector \notin {"unborn", "dead"}
  /\ backend # "postgres" \/ projector = "connecting" \/ writer = "done"
  /\ projector' = "dead"
  /\ UNCHANGED <<setup, writerVars, batch, view, pushed, missed>>

ProjectorStep == Replay \/ EndReplay \/ Watch \/ Receive \/ Connect \/ Wake \/ PushRow
-----------------------------------------------------------------------------
\* The steps of the tasks, which are polled; a poll may fail.
Writing == program = "projection" /\ WriterStep
Projecting == program = "projection" /\ ProjectorStep
Polling == program = "projection" /\ Poll

Next ==
  \/ Writing \/ Projecting \/ Polling
  \/ program = "projection" /\ (FailAppend \/ PollNothing \/ Die)

Spec == Init /\ [][Next]_vars
-----------------------------------------------------------------------------
(* Properties.                                                             *)

\* "500 most-recent orders always visible": the view is the tail of what has
\* been processed, and with one subscription or with polls, across batches
\* and polls that meet new events, that is the tail of a prefix of the log.
ViewIsATail ==
  program = "projection" /\ capacity > 0 =>
    /\ Len(view) = IF Processed < capacity THEN Processed ELSE capacity
    /\ backend # "mongodb" =>
         view = SubSeq(log, Processed - Len(view) + 1, Processed)

\* The lag of an event is recorded after it has been projected, although the
\* writer only compares counts.
MeasuredIsProjected == leftover = 0 => measured \subseteq ToSet(pushed)

\* The writer waits without a timeout.  It waits for ever only for a dead
\* projector, or after an event fell between the cursor and the change stream.
Excused == writer \in {"done", "failed"} \/ projector = "dead" \/ missed # {}

\* "Phase A: replay all existing documents ordered by insertion order (_id)".
ReplayInInsertionOrder ==
  projector = "replaying" =>
    \A i, j \in 1 .. Processed : i < j => pushed[i] < pushed[j]
=============================================================================
