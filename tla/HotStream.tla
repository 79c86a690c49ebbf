------------------------------ MODULE HotStream ------------------------------
(***************************************************************************)
(* The hot-stream contention benchmark, src/rust-app/src/{postgres,mongodb,*)
(* kurrentdb}/hot_stream_contention_bench.rs, with the client calls it     *)
(* makes (append_batch_versioned, append_with_stream_version,              *)
(* read_last_stream_version; append_with_stream_state, read_last_event).   *)
(*                                                                         *)
(* Tasks race to append to one hot stream.  They share a hint, hot_rev,    *)
(* the version to write next: a task loads it, appends at it, and moves it *)
(* on with a compare-exchange; a task that lost the race reads the last    *)
(* version of the stream and stores what follows it.  PostgreSQL and       *)
(* MongoDB check only that the version is free; KurrentDB that it follows  *)
(* the last one, so its hint is the last version.                          *)
(*                                                                         *)
(* A worker is a permit of the semaphore.  Cold streams are not shared     *)
(* with hot ones; their events are counted only.                           *)
(***************************************************************************)
EXTENDS Integers, FiniteSets

CONSTANTS
  Backends,      \* a subset of {"postgres", "mongodb", "kurrentdb"}
  Workers,       \* permits of the semaphore, at most 96 in the code
  MaxRetries,    \* config.max_retries
  MaxBaseline,   \* bound: appends to the hot stream in the baseline phase
  MaxTasks,      \* bound: tasks of the contention phase
  MaxLeftover    \* bound: version counter a previous run left in PostgreSQL

ASSUME BackendsAssumption == Backends \subseteq {"postgres", "mongodb", "kurrentdb"}
ASSUME RetriesAssumption == MaxRetries \in Nat
ASSUME WorkersAssumption == IsFiniteSet(Workers)
ASSUME BoundsAssumption == MaxBaseline \in Nat /\ MaxTasks \in Nat /\ MaxLeftover \in Nat

VARIABLES
  backend,    \* which of the three programs this is
  phase,      \* of the run
  leftover,   \* stream_versions.version before the run
  counter,    \* stream_versions.version / _stream_versions.version
  seq,        \* the identity sequence / _global_seq.seq / the log position
  events,     \* what the hot stream holds
  abandoned,  \* versions a failed baseline append has taken
  hint,       \* hot_rev
  task,       \* what each worker is doing
  n           \* the counters of the report; baseline, stored, unacknowledged and
              \* brokeOff (hot tasks ended by an error that is no conflict) are
              \* history

db == <<counter, seq, events, abandoned>>
vars == <<backend, phase, leftover, db, hint, task, n>>

Idle == [pc |-> "idle", id |-> 0, attempt |-> 0, at |-> 0, pos |-> 0]
Labels == {"idle", "numbered", "positioned", "cold", "start", "loaded", "sequenced",
           "won", "conflict", "reread"}
Task == [pc : Labels, id : 0 .. MaxTasks, attempt : 0 .. MaxRetries, at : Nat, pos : Nat]
Event == [version : Nat, pos : Nat, task : 0 .. MaxTasks]
Counters == {"baseline", "spawned", "hot", "cold", "total", "conflicts", "retries",
             "retrySuccesses", "exhausted", "failed", "brokeOff", "stored", "unacknowledged"}

\* Types; the hint is an AtomicU64, never negative.
TypeOK ==
  /\ backend \in Backends
  /\ phase \in {"baseline", "running", "draining", "reported"}
  /\ leftover \in Nat /\ counter \in Nat /\ seq \in Nat /\ hint \in Nat
  /\ events \subseteq Event
  /\ abandoned \subseteq Nat
  /\ task \in [Workers -> Task]
  /\ n \in [Counters -> Nat]

\* bench_events is emptied, stream_versions is not (PostgreSQL); the database
\* is dropped (MongoDB); the stream is seeded with one event (KurrentDB).
Init ==
  /\ backend \in Backends
  /\ phase = "baseline"
  /\ leftover \in IF backend = "postgres" THEN 0 .. MaxLeftover ELSE {0}
  /\ counter = leftover
  /\ events = IF backend = "kurrentdb" THEN {[version |-> 0, pos |-> 0, task |-> 0]} ELSE {}
  /\ seq = Cardinality(events)
  /\ abandoned = {}
  /\ hint = 0
  /\ task = [w \in Workers |-> Idle]
  /\ n = [c \in Counters |-> 0]
-----------------------------------------------------------------------------
Versions == {e.version : e \in events}
LastVersion == CHOOSE v \in Versions \cup {-1} : \A u \in Versions : u <= v

Count(set) == [c \in Counters |-> IF c \in set THEN n[c] + 1 ELSE n[c]]

\* A worker goes on to a label, with a version and a position it has learnt.
Become(w, label, at, pos) ==
  task' = [task EXCEPT ![w] = [pc |-> label, id |-> task[w].id, attempt |-> task[w].attempt,
                               at |-> at, pos |-> pos]]
Goto(w, label) == Become(w, label, task[w].at, task[w].pos)
Finish(w) == task' = [task EXCEPT ![w] = Idle]

\* acquire_many of all the permits gets through.
Drained_OnePermit == \E w \in Workers : task[w].pc = "idle"
Drained == \A w \in Workers : task[w].pc = "idle"
-----------------------------------------------------------------------------
(* The baseline phase: append_batch_versioned with one event, on streams   *)
(* that include the hot ones (not with KurrentDB).                         *)

\* One statement bumps the version counter and inserts the event.
BaselineStatement(w) ==
  /\ backend = "postgres"
  /\ task[w].pc = "idle"
  /\ events' = events \cup {[version |-> counter, pos |-> seq, task |-> 0]}
  /\ counter' = counter + 1
  /\ seq' = seq + 1
  /\ UNCHANGED <<task, abandoned>>

\* Three calls: $inc of the version counter, $inc of _global_seq, insert.
BaselineNumber(w) ==
  /\ backend = "mongodb"
  /\ task[w].pc = "idle"
  /\ Become(w, "numbered", counter, 0)
  /\ counter' = counter + 1
  /\ UNCHANGED <<seq, events, abandoned>>

BaselinePosition(w) ==
  /\ task[w].pc = "numbered"
  /\ Become(w, "positioned", task[w].at, seq)
  /\ seq' = seq + 1
  /\ UNCHANGED <<counter, events, abandoned>>

BaselineInsert(w) ==
  /\ task[w].pc = "positioned"
  /\ events' = events \cup {[version |-> task[w].at, pos |-> task[w].pos, task |-> 0]}
  /\ Finish(w)
  /\ UNCHANGED <<counter, seq, abandoned>>

\* A failure between the calls: the version taken is never used.
BaselineFail(w) ==
  /\ task[w].pc \in {"numbered", "positioned"}
  /\ abandoned' = abandoned \cup {task[w].at}
  /\ Finish(w)
  /\ UNCHANGED <<counter, seq, events>>

Baseline(w) ==
  /\ phase = "baseline"
  /\ \/ /\ BaselineStatement(w) \/ BaselineNumber(w)
        /\ n.baseline < MaxBaseline
        /\ n' = Count({"baseline"})
     \/ /\ BaselinePosition(w) \/ BaselineInsert(w) \/ BaselineFail(w)
        /\ UNCHANGED n
  /\ UNCHANGED <<backend, phase, leftover, hint>>

\* acquire_many of all the permits, then the counters of the second phase.
StartContention ==
  /\ phase = "baseline"
  /\ Drained
  /\ phase' = "running"
  /\ UNCHANGED <<backend, leftover, db, hint, task, n>>
-----------------------------------------------------------------------------
(* The contention phase.                                                   *)

\* try_acquire_owned and spawn; the task flips the coin for hot or cold.
Spawn(w) ==
  /\ phase = "running"
  /\ task[w].pc = "idle"
  /\ n.spawned < MaxTasks
  /\ \/ Goto(w, "cold") /\ n' = Count({"spawned", "cold"})
     \/ /\ task' = [task EXCEPT ![w] = [pc |-> "start", id |-> n.spawned + 1, attempt |-> 0,
                                     at |-> 0, pos |-> 0]]
        /\ n' = Count({"spawned", "hot"})
  /\ UNCHANGED <<backend, phase, leftover, db, hint>>

\* append_batch_versioned or append on a cold stream; the acknowledgement may
\* be lost.
ColdWrite(w) ==
  /\ task[w].pc = "cold"
  /\ \E outcome \in {{"total", "stored"}, {"failed", "stored", "unacknowledged"}, {"failed"}} :
       n' = Count(outcome)
  /\ Finish(w)
  /\ UNCHANGED <<backend, phase, leftover, db, hint>>

\* hot_rev.load, at the head of every attempt.
Load(w) ==
  /\ task[w].pc = "start"
  /\ Become(w, "loaded", hint, task[w].pos)
  /\ UNCHANGED <<backend, phase, leftover, db, hint, n>>

\* Every append of the MongoDB client takes a position of its own first.
TakesPosition_Once(w) == backend = "mongodb" /\ task[w].attempt = 0
TakesPosition(w) == backend = "mongodb"

TakePosition(w) ==
  /\ task[w].pc = "loaded"
  /\ TakesPosition(w)
  /\ Become(w, "sequenced", task[w].at, seq)
  /\ seq' = seq + 1
  /\ UNCHANGED <<backend, phase, leftover, counter, events, abandoned, hint, n>>

AtDatabase(w) == task[w].pc = IF TakesPosition(w) THEN "sequenced" ELSE "loaded"

\* The unique key (PostgreSQL, MongoDB), or StreamRevision (KurrentDB).
Accepts(w) ==
  IF backend = "kurrentdb" THEN task[w].at = LastVersion ELSE task[w].at \notin Versions

\* The event as the database takes and numbers it.
Stored(w) ==
  [version |-> IF backend = "kurrentdb" THEN task[w].at + 1 ELSE task[w].at,
   pos     |-> IF backend = "mongodb" THEN task[w].pos ELSE seq,
   task    |-> task[w].id]

Insert(w) ==
  /\ Accepts(w)
  /\ events' = events \cup {Stored(w)}
  /\ seq' = IF backend = "mongodb" THEN seq ELSE seq + 1

\* The task gives up: `break`, and then `if !wrote`, which counts it again.
GiveUp(w, lost) ==
  /\ n' = [c \in Counters |->
             n[c] + IF c = "failed" THEN 2
                    ELSE IF c \in {"exhausted", "brokeOff"} THEN 1
                    ELSE IF c \in {"stored", "unacknowledged"} THEN lost ELSE 0]
  /\ Finish(w)

\* The append succeeds ...
AppendHot(w) ==
  /\ AtDatabase(w)
  /\ Insert(w)
  /\ Goto(w, "won")
  /\ n' = Count({"stored"})
  /\ UNCHANGED <<backend, phase, leftover, counter, abandoned, hint>>

\* ... and its acknowledgement is lost, which is not taken for a conflict ...
AfterLostAck_Retry(w) == Goto(w, "conflict") /\ n' = Count({"stored", "unacknowledged"})
AfterLostAck(w) == GiveUp(w, 1)

LoseAck(w) ==
  /\ AtDatabase(w)
  /\ Insert(w)
  /\ AfterLostAck(w)
  /\ UNCHANGED <<backend, phase, leftover, counter, abandoned, hint>>

\* ... or it loses the race ...
Conflict(w) ==
  /\ AtDatabase(w)
  /\ ~ Accepts(w)
  /\ Goto(w, "conflict")
  /\ n' = Count({"conflicts", "retries"})
  /\ UNCHANGED <<backend, phase, leftover, db, hint>>

\* ... or fails for another reason, in either of its calls.
Fail(w) ==
  /\ task[w].pc \in {"loaded", "sequenced"}
  /\ GiveUp(w, 0)
  /\ UNCHANGED <<backend, phase, leftover, db, hint>>

\* compare_exchange, then the counters: `attempt` is added to retries once more.
Moved_Increment(w) == hint + 1
Moved(w) == IF hint = task[w].at THEN task[w].at + 1 ELSE hint

Win(w) ==
  /\ task[w].pc = "won"
  /\ hint' = Moved(w)
  /\ n' = [c \in Counters |->
             n[c] + IF c = "total" THEN 1
                    ELSE IF c = "retries" THEN task[w].attempt
                    ELSE IF c = "retrySuccesses" /\ task[w].attempt > 0 THEN 1 ELSE 0]
  /\ Finish(w)
  /\ UNCHANGED <<backend, phase, leftover, db>>

\* The hint that follows from the last version read: the version to write
\* next, or the revision to expect.
HintAfter_AlwaysNext(v) == v + 1
HintAfter(v) == IF backend = "kurrentdb" THEN v ELSE v + 1

\* After the last attempt the loop ends and `if !wrote` counts the task.
NextAttempt(w) ==
  IF task[w].attempt < MaxRetries
    THEN /\ task' = [task EXCEPT ![w] = [pc |-> "start", id |-> task[w].id,
                                      attempt |-> task[w].attempt + 1,
                                      at |-> task[w].at, pos |-> task[w].pos]]
         /\ UNCHANGED n
    ELSE Finish(w) /\ n' = Count({"exhausted", "failed"})

\* read_last_stream_version, read_last_event ...
Reread(w) ==
  /\ task[w].pc = "conflict"
  /\ Become(w, "reread", LastVersion, task[w].pos)
  /\ UNCHANGED <<backend, phase, leftover, db, hint, n>>

\* ... and hot_rev.store, which may be late ...
StoreHint(w) ==
  /\ task[w].pc = "reread"
  /\ hint' = HintAfter(task[w].at)
  /\ NextAttempt(w)
  /\ UNCHANGED <<backend, phase, leftover, db>>

\* ... or the read fails: KurrentDB starts from 0, the others keep the hint.
AfterFailedRead == IF backend = "kurrentdb" THEN 0 ELSE hint

FailReread(w) ==
  /\ task[w].pc = "conflict"
  /\ hint' = AfterFailedRead
  /\ NextAttempt(w)
  /\ UNCHANGED <<backend, phase, leftover, db>>

\* The phase is over: no more tasks ...
Stop ==
  /\ phase = "running"
  /\ phase' = "draining"
  /\ UNCHANGED <<backend, leftover, db, hint, task, n>>

\* ... and when all permits are back, the counters are read.
Report ==
  /\ phase = "draining"
  /\ Drained
  /\ phase' = "reported"
  /\ UNCHANGED <<backend, leftover, db, hint, task, n>>

\* The program has ended.
Done == phase = "reported" /\ UNCHANGED vars

Hot(w) ==
  \/ Load(w) \/ TakePosition(w)
  \/ AppendHot(w) \/ LoseAck(w) \/ Conflict(w) \/ Fail(w)
  \/ Win(w) \/ Reread(w) \/ StoreHint(w) \/ FailReread(w)
-----------------------------------------------------------------------------
Next ==
  \/ \E w \in Workers : Baseline(w) \/ Spawn(w) \/ ColdWrite(w) \/ Hot(w)
  \/ StartContention \/ Stop \/ Report \/ Done

Spec == Init /\ [][Next]_vars
-----------------------------------------------------------------------------
(* Properties.                                                             *)

\* The hint may be late, never early: a stale store can move hot_rev back,
\* but it never names a version whose predecessor is not in the stream.
HintNeverAhead ==
  hint <= IF backend = "kurrentdb" THEN LastVersion ELSE LastVersion + 1

\* Appending at an explicit version, checked for uniqueness only, makes no
\* holes: a version missing below the last one is one that a failed baseline
\* append has taken, or one below the counter left by a previous run.
NoNewHoles ==
  phase # "baseline" =>
    \A v \in 0 .. LastVersion : v \in Versions \/ v \in abandoned \/ v < leftover

\* No task stores its event twice: an error that may hide a success is not
\* retried, however often a task loses the race.
OneEventPerTask ==
  \A e, f \in events : e.task = f.task /\ e.task # 0 => e = f

\* When the stream had no hole to begin with, the positions of the events of
\* the contention phase follow their versions, although MongoDB takes the
\* position before it knows whether the version is free.
PositionsFollowVersions ==
  abandoned = {} /\ leftover = 0 =>
    \A e, f \in events :
      e.task # 0 /\ f.task # 0 /\ e.version < f.version => e.pos < f.pos

\* The report adds up: every task is in it as a success or as a failure, a hot
\* task that an error other than a conflict ended is in it twice, as a failed
\* write both times, and no other is; and what it counts as written is what
\* the contention phase has stored, less the writes whose acknowledgement was
\* lost.
ReportIsComplete ==
  phase = "reported" =>
    /\ n.hot + n.cold = n.spawned
    /\ n.spawned + n.brokeOff = n.total + n.failed
    /\ n.total + n.unacknowledged = n.stored
    /\ n.retrySuccesses <= n.conflicts
=============================================================================
