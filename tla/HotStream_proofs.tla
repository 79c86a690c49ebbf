-------------------------- MODULE HotStream_proofs --------------------------
(***************************************************************************)
(* Safety of the contention benchmark for any number of permits, tasks,    *)
(* retries and baseline appends, and for the three backends.               *)
(*                                                                         *)
(* The invariant is built in layers, each proved with the ones before it:  *)
(* Basic (types, the phases, that the stream has a last version), then     *)
(* that neither the hint nor what a task has made of it is ahead of the    *)
(* stream (NeverAhead), that every version below the last one or the       *)
(* counter is accounted for (Covered), that a task's event is stored once  *)
(* (Owned), that positions taken early follow those of the versions below  *)
(* (Placed), and what the counters add up to (Balanced).                   *)
(***************************************************************************)
EXTENDS HotStream, SequenceLemmas

Numbering == {"numbered", "positioned"}
Racing == {"start", "loaded", "sequenced", "won", "conflict", "reread"}

\* The stream has a last version, or -1 stands for it.
HasLast == \E v \in Versions \cup {-1} : \A u \in Versions : u <= v

\* Which task is where: baseline appends only in their phase, numbered ones
\* and early positions only with MongoDB, and a task that has lost a race has
\* seen that the stream is not empty.
Fits(t) ==
  /\ phase = "baseline" => t.pc \in {"idle"} \cup Numbering
  /\ phase # "baseline" => t.pc \notin Numbering
  /\ phase = "reported" => t.pc = "idle"
  /\ t.pc = "idle" => t = Idle
  /\ t.pc \in Numbering => t.at < counter /\ t.id = 0
  /\ t.pc \in {"numbered", "positioned", "sequenced"} => backend = "mongodb"
  /\ t.pc \in {"conflict", "reread"} => Versions # {}
  /\ t.pc \in {"positioned", "sequenced"} => t.pos < seq

Phases ==
  /\ \A w \in Workers : Fits(task[w])
  /\ backend = "kurrentdb" => Versions # {}
  /\ \A e \in events : e.pos < seq
  /\ n.spawned <= MaxTasks

Basic == TypeOK /\ HasLast /\ Phases

\* The largest value the hint may have.
Limit == IF backend = "kurrentdb" THEN LastVersion ELSE LastVersion + 1

\* What a task has made of the hint, or of the stream, is not ahead of it.
Near(t) ==
  /\ t.pc \in {"loaded", "sequenced"} => t.at <= Limit
  /\ t.pc = "won" => t.at + 1 <= Limit
  /\ t.pc = "reread" => t.at <= LastVersion

NeverAhead == hint <= Limit /\ \A w \in Workers : Near(task[w])

\* A version below the last one, or handed out by the counter, is stored,
\* given up, left over, or about to be stored.
Accounted(v) ==
  \/ v \in Versions \/ v \in abandoned \/ v < leftover
  \/ \E w \in Workers : task[w].pc \in Numbering /\ task[w].at = v

Covered == \A v \in Nat : v <= LastVersion \/ v < counter => Accounted(v)

\* Tasks have numbers of their own, and no event as long as they may append.
Owned ==
  /\ \A w \in Workers :
       /\ task[w].pc \in Racing => task[w].id \in 1 .. n.spawned
       /\ task[w].pc \in Racing \ {"won"} => \A e \in events : e.task # task[w].id
  /\ \A u, w \in Workers :
       task[u].pc \in Racing /\ task[w].pc \in Racing /\ task[u].id = task[w].id => u = w
  /\ \A e \in events : e.task <= n.spawned
  /\ OneEventPerTask

\* A position taken before the append is past those of all lower versions.
Placed ==
  /\ abandoned = {} /\ leftover = 0 =>
       \A w \in Workers : task[w].pc = "sequenced" =>
         \A e \in events : e.version < task[w].at => e.pos < task[w].pos
  /\ PositionsFollowVersions

Won == {w \in Workers : task[w].pc = "won"}
Active == {w \in Workers : task[w].pc \in Racing \cup {"cold"}}
Beaten == {w \in Workers : task[w].pc \in Racing /\ (task[w].attempt > 0 \/ task[w].pc \in {"conflict", "reread"})}

\* The counters lag behind by the tasks that have still to be counted.
Balanced ==
  /\ n.hot + n.cold = n.spawned
  /\ n.spawned + n.brokeOff = n.total + n.failed + Cardinality(Active)
  /\ n.stored = n.total + n.unacknowledged + Cardinality(Won)
  /\ n.retrySuccesses + Cardinality(Beaten) <= n.conflicts
-----------------------------------------------------------------------------
(* The last version.                                                       *)

\* LastVersion is what its name says.
LEMMA LastVersionIs ==
  ASSUME TypeOK, HasLast
  PROVE  /\ LastVersion \in Versions \cup {-1}
         /\ LastVersion \in Int /\ LastVersion >= -1
         /\ \A u \in Versions : u <= LastVersion
         /\ Versions # {} => LastVersion \in Nat
<1>1. Versions \subseteq Nat
  BY DEF TypeOK, Versions, Event
<1>2. LastVersion \in Versions \cup {-1} /\ \A u \in Versions : u <= LastVersion
  BY DEF HasLast, LastVersion
<1>3. LastVersion \in Int /\ LastVersion >= -1
  BY <1>1, <1>2
<1>4. ASSUME NEW u \in Versions PROVE LastVersion \in Nat
  BY <1>1, <1>2, <1>3
<1> QED
  BY <1>2, <1>3, <1>4

\* Nothing but an insert changes it ...
LEMMA LastVersionKept ==
  ASSUME UNCHANGED events
  PROVE  /\ Versions' = Versions /\ LastVersion' = LastVersion
         /\ HasLast => HasLast'
<1>1. Versions' = Versions
  BY DEF Versions
<1> QED
  BY <1>1 DEF LastVersion, HasLast

\* ... which never lowers it.
LEMMA LastVersionGrows ==
  ASSUME TypeOK, HasLast, NEW e \in Event, events' = events \cup {e}
  PROVE  /\ Versions' = Versions \cup {e.version}
         /\ HasLast'
         /\ LastVersion' = IF e.version > LastVersion THEN e.version ELSE LastVersion
<1> DEFINE last == IF e.version > LastVersion THEN e.version ELSE LastVersion
<1>1. Versions' = Versions \cup {e.version}
  BY DEF Versions
<1>2. e.version \in Nat /\ Versions \subseteq Nat
  BY DEF TypeOK, Versions, Event
<1>3. /\ last \in Versions' \cup {-1}
      /\ \A u \in Versions' : u <= last
      /\ last \in Int /\ last >= e.version /\ e.version \in Versions'
  BY <1>1, <1>2, LastVersionIs
<1>4. HasLast'
  BY <1>3 DEF HasLast
<1>5. LastVersion' \in Versions' \cup {-1} /\ \A u \in Versions' : u <= LastVersion'
  BY <1>4 DEF HasLast, LastVersion
<1>6. LastVersion' = last
  <2>1. last \in Versions'
    BY <1>1, <1>2, <1>3, LastVersionIs
  <2> HIDE DEF last
  <2>2. last <= LastVersion'
    BY <1>5, <2>1
  <2>3. Versions' \subseteq Nat
    BY <1>1, <1>2
  <2>4. LastVersion' \in Int /\ (LastVersion' = -1 \/ LastVersion' <= last)
    BY <1>3, <1>5, <2>3
  <2> QED
    BY <1>2, <1>3, <2>1, <2>2, <2>3, <2>4
<1> QED
  BY <1>1, <1>4, <1>6
-----------------------------------------------------------------------------
(* Basic: types and phases.                                                *)

\* A free permit is a task record of the right type.
LEMMA IdleIsTask == Idle \in Task
BY RetriesAssumption, BoundsAssumption DEF Idle, Task, Labels

\* The program starts with typed state and no task in flight.
LEMMA InitBasic == Init => Basic
<1> SUFFICES ASSUME Init PROVE Basic
  OBVIOUS
<1> DEFINE seed == [version |-> 0, pos |-> 0, task |-> 0]
<1>1. \/ backend # "kurrentdb" /\ events = {} /\ seq = 0
      \/ backend = "kurrentdb" /\ events = {seed} /\ seq = 1
  <2>1. Cardinality({}) = 0 /\ Cardinality({seed}) = 1
    BY FS_EmptySet, FS_Singleton
  <2> QED
    BY <2>1 DEF Init
<1>2. seed \in Event /\ seed.version = 0 /\ seed.pos = 0
  BY BoundsAssumption DEF Event
<1> HIDE DEF seed
<1>3. TypeOK
  BY <1>1, <1>2, IdleIsTask, BoundsAssumption DEF Init, TypeOK, Counters
<1>4. Versions = {} \/ Versions = {0}
  BY <1>1, <1>2 DEF Versions
<1>5. HasLast
  BY <1>4 DEF HasLast
<1>6. \A w \in Workers : Fits(task[w])
  BY DEF Init, Fits, Idle, Numbering
<1>7. backend = "kurrentdb" => Versions # {}
  BY <1>1 DEF Versions
<1>8. (\A e \in events : e.pos < seq) /\ n.spawned <= MaxTasks
  BY <1>1, <1>2, BoundsAssumption DEF Init, Counters
<1> QED
  BY <1>3, <1>5, <1>6, <1>7, <1>8 DEF Basic, Phases

\* The counters stay what they are.
LEMMA CountType ==
  ASSUME TypeOK, NEW set
  PROVE  Count(set) \in [Counters -> Nat]
BY DEF TypeOK, Count

\* What a step of one worker has to show: where it leaves the worker, and
\* that the stream, the counters and the phase only move forward.
LEMMA BasicStep ==
  ASSUME Basic, NEW w \in Workers,
         task' = [task EXCEPT ![w] = task'[w]], task'[w] \in Task, Fits(task[w])',
         UNCHANGED <<backend, phase, leftover>>,
         counter' \in Nat, counter' >= counter,
         seq' \in Nat, seq' >= seq,
         hint' \in Nat, abandoned' \subseteq Nat,
         n' \in [Counters -> Nat], n'.spawned <= MaxTasks,
         events' # events => \E e \in Event : events' = events \cup {e} /\ e.pos < seq'
  PROVE  Basic'
<1>1. events' \subseteq Event /\ Versions \subseteq Versions' /\ HasLast'
      /\ \A e \in events' : e.pos < seq'
  <2>1. CASE events' = events
    BY <2>1, LastVersionKept DEF Basic, Phases, TypeOK, Event
  <2>2. CASE events' # events
    <3>1. PICK e \in Event : events' = events \cup {e} /\ e.pos < seq'
      BY <2>2
    <3> QED
      BY <3>1, LastVersionGrows DEF Basic, Phases, TypeOK, Event
  <2> QED
    BY <2>1, <2>2
<1>2. TypeOK'
  BY <1>1 DEF Basic, TypeOK
<1>3. ASSUME NEW u \in Workers PROVE Fits(task[u])'
  <2>1. CASE u # w
    <3>1. task'[u] = task[u] /\ task[u] \in Task
      BY <2>1 DEF Basic, TypeOK
    <3>2. Fits(task[u])
      BY DEF Basic, Phases
    <3> QED
      BY <1>1, <3>1, <3>2 DEF Basic, TypeOK, Fits, Task, Numbering
  <2> QED
    BY <2>1
<1> QED
  BY <1>1, <1>2, <1>3 DEF Basic, Phases

\* Where a worker is after it went on to a label.
LEMMA BecomeMoves ==
  ASSUME TypeOK, NEW w \in Workers, NEW label \in Labels, NEW at \in Nat, NEW pos \in Nat,
         Become(w, label, at, pos)
  PROVE  /\ task' = [task EXCEPT ![w] = task'[w]] /\ task'[w] \in Task
         /\ task'[w].pc = label /\ task'[w].at = at /\ task'[w].pos = pos
         /\ task'[w].id = task[w].id /\ task'[w].attempt = task[w].attempt
<1> DEFINE t == [pc |-> label, id |-> task[w].id, attempt |-> task[w].attempt,
                 at |-> at, pos |-> pos]
<1>1. task' = [task EXCEPT ![w] = t] /\ task'[w] = t
  BY DEF Become, TypeOK
<1>2. /\ t \in Task /\ t.pc = label /\ t.at = at /\ t.pos = pos
      /\ t.id = task[w].id /\ t.attempt = task[w].attempt
  BY DEF TypeOK, Task
<1> HIDE DEF t
<1> QED
  BY <1>1, <1>2

\* A move that stores no event, from what it leaves alone.
LEMMA MovesBasic ==
  ASSUME Basic, NEW w \in Workers, NEW label \in Labels, NEW at \in Nat, NEW pos \in Nat,
         Become(w, label, at, pos), Fits(task[w])',
         UNCHANGED <<backend, phase, leftover, counter, hint, abandoned, events>>,
         seq' \in Nat, seq' >= seq,
         n' \in [Counters -> Nat], n'.spawned <= MaxTasks
  PROVE  Basic'
<1>1. /\ counter' \in Nat /\ counter' >= counter /\ hint' \in Nat /\ abandoned' \subseteq Nat
      /\ TypeOK
  BY DEF Basic, TypeOK
<1>2. task' = [task EXCEPT ![w] = task'[w]] /\ task'[w] \in Task
  BY <1>1, BecomeMoves
<1> QED
  BY <1>1, <1>2, BasicStep

\* A worker that has finished is idle, which fits every phase.
LEMMA FinishFits ==
  ASSUME Basic, NEW w \in Workers, Finish(w)
  PROVE  /\ task' = [task EXCEPT ![w] = task'[w]] /\ task'[w] = Idle /\ task'[w] \in Task
         /\ Fits(task[w])'
<1>1. task'[w] = Idle
  BY DEF Finish, Basic, TypeOK
<1>2. Fits(task[w])'
  BY <1>1 DEF Fits, Idle, Numbering
<1> QED
  BY <1>1, <1>2, IdleIsTask DEF Finish

\* The baseline appends.
LEMMA BaselineBasic ==
  ASSUME Basic, NEW w \in Workers, Baseline(w)
  PROVE  Basic'
<1> USE DEF Basic
<1>1. n' \in [Counters -> Nat] /\ n'.spawned = n.spawned
  BY CountType DEF Baseline, TypeOK, Count, Counters
<1>2. n'.spawned <= MaxTasks
  BY <1>1 DEF Phases
<1>3. task[w] \in Task /\ Fits(task[w])
  BY DEF TypeOK, Phases
<1>4. CASE BaselineStatement(w)
  <2> DEFINE e == [version |-> counter, pos |-> seq, task |-> 0]
  <2>1. e \in Event /\ events' = events \cup {e} /\ e.pos < seq'
    BY <1>4, BoundsAssumption DEF BaselineStatement, TypeOK, Event
  <2>2. Versions' # {}
    BY <2>1 DEF Versions
  <2>3. Fits(task[w])'
    BY <1>3, <1>4, <2>2 DEF Baseline, BaselineStatement, Fits, TypeOK, Task, Numbering
  <2> QED
    BY <1>1, <1>2, <1>3, <1>4, <2>1, <2>3, BasicStep DEF Baseline, BaselineStatement, TypeOK
<1>5. CASE BaselineNumber(w)
  <2>1. task'[w] \in Task /\ task' = [task EXCEPT ![w] = task'[w]]
    BY <1>3, <1>5 DEF BaselineNumber, Become, TypeOK, Task, Labels
  <2>2. Fits(task[w])'
    BY <1>3, <1>5 DEF Baseline, BaselineNumber, Become, Fits, TypeOK, Task, Numbering, Idle
  <2> QED
    BY <1>1, <1>2, <1>5, <2>1, <2>2, BasicStep DEF Baseline, BaselineNumber, TypeOK
<1>6. CASE BaselinePosition(w)
  <2>1. task'[w] \in Task /\ task' = [task EXCEPT ![w] = task'[w]]
    BY <1>3, <1>6 DEF BaselinePosition, Become, TypeOK, Task, Labels
  <2>2. Fits(task[w])'
    BY <1>3, <1>6 DEF Baseline, BaselinePosition, Become, Fits, TypeOK, Task, Numbering
  <2> QED
    BY <1>1, <1>2, <1>6, <2>1, <2>2, BasicStep DEF Baseline, BaselinePosition, TypeOK
<1>7. CASE BaselineInsert(w)
  <2> DEFINE e == [version |-> task[w].at, pos |-> task[w].pos, task |-> 0]
  <2>1. e \in Event /\ events' = events \cup {e} /\ e.pos < seq'
    BY <1>3, <1>7, BoundsAssumption DEF BaselineInsert, TypeOK, Event, Task, Fits
  <2>2. Finish(w) /\ UNCHANGED <<backend, phase, leftover, counter, seq, hint, abandoned>>
    BY <1>7 DEF Baseline, BaselineInsert
  <2>3. task' = [task EXCEPT ![w] = task'[w]] /\ task'[w] \in Task /\ Fits(task[w])'
    BY <2>2, FinishFits
  <2> QED
    BY <1>1, <1>2, <2>1, <2>2, <2>3, BasicStep DEF TypeOK
<1>8. CASE BaselineFail(w)
  <2>1. abandoned' \subseteq Nat
    BY <1>3, <1>8 DEF BaselineFail, TypeOK, Task
  <2>2. Finish(w) /\ UNCHANGED <<backend, phase, leftover, counter, seq, hint, events>>
    BY <1>8 DEF Baseline, BaselineFail
  <2>3. task' = [task EXCEPT ![w] = task'[w]] /\ task'[w] \in Task /\ Fits(task[w])'
    BY <2>2, FinishFits
  <2> QED
    BY <1>1, <1>2, <2>1, <2>2, <2>3, BasicStep DEF TypeOK
<1> QED
  BY <1>4, <1>5, <1>6, <1>7, <1>8 DEF Baseline

\* The tasks of the contention phase.
LEMMA SpawnBasic ==
  ASSUME Basic, NEW w \in Workers, Spawn(w)
  PROVE  Basic'
<1> USE DEF Basic
<1>1. n' \in [Counters -> Nat] /\ n'.spawned = n.spawned + 1 /\ n.spawned \in Nat
  BY CountType DEF Spawn, TypeOK, Count, Counters
<1>2. n'.spawned <= MaxTasks
  BY <1>1, BoundsAssumption DEF Spawn
<1>3. task[w] \in Task /\ Fits(task[w])
  BY DEF TypeOK, Phases
<1>4. task'[w] \in Task /\ task' = [task EXCEPT ![w] = task'[w]]
  BY <1>1, <1>2, <1>3, RetriesAssumption, BoundsAssumption
  DEF Spawn, Goto, Become, TypeOK, Task, Labels
<1>5. Fits(task[w])'
  BY <1>3 DEF Spawn, Goto, Become, Fits, TypeOK, Task, Numbering, db
<1> QED
  BY <1>1, <1>2, <1>4, <1>5, BasicStep DEF Spawn, TypeOK, db

\* A write to a cold stream ends its task and stores nothing in the hot one.
LEMMA ColdBasic ==
  ASSUME Basic, NEW w \in Workers, ColdWrite(w)
  PROVE  Basic'
<1> USE DEF Basic
<1>1. n' \in [Counters -> Nat] /\ n'.spawned <= MaxTasks
  BY CountType DEF ColdWrite, TypeOK, Count, Counters, Phases
<1>2. Finish(w) /\ UNCHANGED <<backend, phase, leftover, counter, seq, hint, abandoned, events>>
  BY DEF ColdWrite, db
<1>3. task' = [task EXCEPT ![w] = task'[w]] /\ task'[w] \in Task /\ Fits(task[w])'
  BY <1>2, FinishFits
<1> QED
  BY <1>1, <1>2, <1>3, BasicStep DEF TypeOK

\* What the database stores is an event, with a position of its own.
LEMMA InsertBasic ==
  ASSUME Basic, NEW w \in Workers, AtDatabase(w), Insert(w)
  PROVE  /\ Stored(w) \in Event /\ events' = events \cup {Stored(w)} /\ Stored(w).pos < seq'
         /\ seq' \in Nat /\ seq' >= seq
<1>1. task[w] \in Task /\ Fits(task[w])
  BY DEF Basic, TypeOK, Phases
<1> QED
  BY <1>1 DEF Insert, Stored, Event, Task, Basic, TypeOK, Fits, AtDatabase, TakesPosition

\* Win and GiveUp add to several counters at once.
LEMMA HotCounts ==
  ASSUME Basic, NEW w \in Workers, Hot(w)
  PROVE  n' \in [Counters -> Nat] /\ n'.spawned = n.spawned
<1> USE DEF Basic
<1>1. task[w].attempt \in Nat
  BY RetriesAssumption DEF TypeOK, Task
<1>2. ASSUME NEW lost \in {0, 1}, GiveUp(w, lost)
      PROVE  n' \in [Counters -> Nat] /\ n'.spawned = n.spawned
  BY <1>2 DEF GiveUp, TypeOK, Counters
<1>3. ASSUME NEW set \in SUBSET (Counters \ {"spawned"}), n' = Count(set)
      PROVE  n' \in [Counters -> Nat] /\ n'.spawned = n.spawned
  BY <1>3 DEF Count, TypeOK, Counters
<1>4. ASSUME UNCHANGED n PROVE n' \in [Counters -> Nat] /\ n'.spawned = n.spawned
  BY <1>4 DEF TypeOK
<1>5. CASE Win(w)
  BY <1>1, <1>5 DEF Win, TypeOK, Counters
<1>6. CASE LoseAck(w) \/ Fail(w)
  BY <1>2, <1>6 DEF LoseAck, AfterLostAck, Fail
<1>7. CASE Load(w) \/ TakePosition(w) \/ Reread(w)
  BY <1>4, <1>7 DEF Load, TakePosition, Reread
<1>8. CASE AppendHot(w) \/ Conflict(w)
  BY <1>3, <1>8 DEF AppendHot, Conflict, Counters
<1>9. CASE StoreHint(w) \/ FailReread(w)
  BY <1>3, <1>4, <1>9 DEF StoreHint, FailReread, NextAttempt, Counters
<1> QED
  BY <1>5, <1>6, <1>7, <1>8, <1>9 DEF Hot

\* After a lost race a task has another attempt, or ends: both labels fit its
\* phase.
LEMMA NextAttemptFits ==
  ASSUME Basic, NEW w \in Workers, task[w].pc \in {"conflict", "reread"}, NextAttempt(w),
         UNCHANGED phase
  PROVE  /\ task' = [task EXCEPT ![w] = task'[w]] /\ task'[w] \in Task
         /\ Fits(task[w])'
<1>1. task[w] \in Task /\ Fits(task[w])
  BY DEF Basic, TypeOK, Phases
<1>2. CASE task[w].attempt < MaxRetries
  <2> DEFINE t == [pc |-> "start", id |-> task[w].id, attempt |-> task[w].attempt + 1,
                   at |-> task[w].at, pos |-> task[w].pos]
  <2>1. task' = [task EXCEPT ![w] = t]
    BY <1>2 DEF NextAttempt
  <2>2. task'[w] = t
    BY <2>1 DEF Basic, TypeOK
  <2>3. t \in Task
    BY <1>1, <1>2, RetriesAssumption DEF Task, Labels
  <2>4. Fits(task[w])'
    BY <1>1, <2>2 DEF Fits, Numbering
  <2> QED
    BY <2>1, <2>2, <2>3, <2>4
<1>3. CASE ~ (task[w].attempt < MaxRetries)
  BY <1>3, FinishFits DEF NextAttempt
<1> QED
  BY <1>2, <1>3

\* A step of a hot task keeps the types, from what it does to the task and
\* the counters.
LEMMA HotBasic ==
  ASSUME Basic, NEW w \in Workers, Hot(w)
  PROVE  Basic'
<1> USE DEF Basic
<1>1. task[w] \in Task /\ Fits(task[w]) /\ n.spawned <= MaxTasks
  BY DEF TypeOK, Phases
<1>2. n' \in [Counters -> Nat] /\ n'.spawned <= MaxTasks
  BY <1>1, HotCounts
<1>3. task[w].at \in Nat /\ task[w].pos \in Nat
  BY <1>1 DEF Task
<1>4. CASE Load(w)
  <2>1. Become(w, "loaded", hint, task[w].pos)
    BY <1>4 DEF Load
  <2>2. Fits(task[w])'
    BY <1>1, <1>3, <1>4, <2>1, BecomeMoves DEF Load, Fits, Numbering, TypeOK, Labels
  <2> QED
    BY <1>2, <1>3, <1>4, <2>1, <2>2, MovesBasic DEF Load, TypeOK, Labels, db
<1>5. CASE TakePosition(w)
  <2>1. Become(w, "sequenced", task[w].at, seq)
    BY <1>5 DEF TakePosition
  <2>2. Fits(task[w])'
    BY <1>1, <1>3, <1>5, <2>1, BecomeMoves
    DEF TakePosition, TakesPosition, Fits, Numbering, TypeOK, Labels
  <2> QED
    BY <1>2, <1>3, <1>5, <2>1, <2>2, MovesBasic DEF TakePosition, TypeOK, Labels
<1>6. ASSUME Insert(w), AtDatabase(w) PROVE Versions' # {}
  BY <1>6, InsertBasic DEF Versions
<1>7. CASE AppendHot(w)
  <2>1. Become(w, "won", task[w].at, task[w].pos)
    BY <1>7 DEF AppendHot, Goto
  <2>2. Fits(task[w])'
    BY <1>1, <1>3, <1>7, <2>1, BecomeMoves
    DEF AppendHot, AtDatabase, Fits, Numbering, TypeOK, Labels
  <2> QED
    BY <1>2, <1>3, <1>7, <2>1, <2>2, InsertBasic, BecomeMoves, BasicStep
    DEF AppendHot, TypeOK, Labels
<1>8. CASE LoseAck(w)
  BY <1>2, <1>8, InsertBasic, FinishFits, BasicStep DEF LoseAck, AfterLostAck, GiveUp, TypeOK
<1>9. CASE Conflict(w)
  <2>1. Become(w, "conflict", task[w].at, task[w].pos)
    BY <1>9 DEF Conflict, Goto
  <2>2. Versions # {}
    BY <1>1, <1>9 DEF Conflict, Accepts, Phases
  <2>3. Versions' = Versions
    BY <1>9, LastVersionKept DEF Conflict, db
  <2>4. Fits(task[w])'
    BY <1>1, <1>3, <1>9, <2>1, <2>2, <2>3, BecomeMoves
    DEF Conflict, AtDatabase, Fits, Numbering, TypeOK, Labels
  <2> QED
    BY <1>2, <1>3, <1>9, <2>1, <2>4, MovesBasic DEF Conflict, TypeOK, Labels, db
<1>10. CASE Fail(w) \/ Win(w)
  <2>1. Finish(w) /\ UNCHANGED <<backend, phase, leftover, counter, seq, events, abandoned>>
    BY <1>10 DEF Fail, Win, GiveUp, db
  <2>2. hint' \in Nat
    BY <1>3, <1>10 DEF Fail, Win, Moved, TypeOK
  <2> QED
    BY <1>2, <2>1, <2>2, FinishFits, BasicStep DEF TypeOK
<1>11. CASE Reread(w)
  <2>1. Become(w, "reread", LastVersion, task[w].pos) /\ Versions # {}
    BY <1>1, <1>11 DEF Reread, Fits
  <2>2. LastVersion \in Nat
    BY <2>1, LastVersionIs
  <2>3. Versions' = Versions
    BY <1>11, LastVersionKept DEF Reread, db
  <2>4. Fits(task[w])'
    BY <1>1, <1>3, <1>11, <2>1, <2>2, <2>3, BecomeMoves DEF Reread, Fits, Numbering, TypeOK, Labels
  <2> QED
    BY <1>2, <1>3, <1>11, <2>1, <2>2, <2>4, MovesBasic DEF Reread, TypeOK, Labels, db
<1>12. CASE StoreHint(w) \/ FailReread(w)
  <2>1. /\ NextAttempt(w) /\ task[w].pc \in {"conflict", "reread"}
        /\ UNCHANGED <<backend, phase, leftover, counter, seq, events, abandoned>>
    BY <1>12 DEF StoreHint, FailReread, db
  <2>2. hint' \in Nat
    BY <1>3, <1>12 DEF StoreHint, FailReread, HintAfter, AfterFailedRead, TypeOK
  <2> QED
    BY <1>2, <2>1, <2>2, NextAttemptFits, BasicStep DEF TypeOK
<1> QED
  BY <1>4, <1>5, <1>7, <1>8, <1>9, <1>10, <1>11, <1>12 DEF Hot

\* The first layer is inductive by itself.
LEMMA NextBasic == Basic /\ [Next]_vars => Basic'
<1> SUFFICES ASSUME Basic, [Next]_vars PROVE Basic'
  OBVIOUS
<1>1. ASSUME UNCHANGED <<backend, leftover, db, hint, task, n>>,
             phase' \in {"baseline", "running", "draining", "reported"},
             \A w \in Workers : Fits(task[w])'
      PROVE  Basic'
  BY <1>1, LastVersionKept DEF Basic, TypeOK, Phases, db
<1>2. CASE StartContention \/ Stop \/ Report
  <2>1. \A w \in Workers : Fits(task[w]) /\ task[w] \in Task
    BY DEF Basic, Phases, TypeOK
  <2>2. Versions' = Versions
    BY <1>2, LastVersionKept DEF StartContention, Stop, Report, db
  <2>3. \A w \in Workers : Fits(task[w])'
    BY <1>2, <2>1, <2>2 DEF StartContention, Stop, Report, Drained, Fits, db, Numbering
  <2> QED
    BY <1>1, <1>2, <2>3 DEF StartContention, Stop, Report
<1>3. CASE UNCHANGED vars
  <2>1. UNCHANGED <<backend, phase, leftover, db, hint, task, n>>
    BY <1>3 DEF vars
  <2>2. Versions' = Versions
    BY <2>1, LastVersionKept DEF db
  <2>3. \A w \in Workers : Fits(task[w])'
    BY <2>1, <2>2 DEF Basic, Phases, Fits, db
  <2> QED
    BY <1>1, <2>1, <2>3 DEF Basic, TypeOK
<1> QED
  BY <1>2, <1>3, BaselineBasic, SpawnBasic, ColdBasic, HotBasic DEF Next, Done

\* Types are right, the stream has a last version, and the phases are kept
\* apart, for all three backends.
THEOREM BasicHolds == Spec => []Basic
  BY InitBasic, NextBasic, PTL DEF Spec
-----------------------------------------------------------------------------
(* What the steps have in common.                                          *)

Step(w) == Baseline(w) \/ Spawn(w) \/ ColdWrite(w) \/ Hot(w)

\* A step of a worker moves no other worker, and takes nothing from the stream.
LEMMA StepFrame ==
  ASSUME Basic, NEW w \in Workers, Step(w)
  PROVE  /\ \A u \in Workers : u # w => task'[u] = task[u]
         /\ UNCHANGED <<backend, phase, leftover>>
         /\ events \subseteq events'
<1>1. \E t : task' = [task EXCEPT ![w] = t]
  <2>1. task = [task EXCEPT ![w] = task[w]]
    BY DEF Basic, TypeOK
  <2>2. ASSUME UNCHANGED task PROVE \E t : task' = [task EXCEPT ![w] = t]
    BY <2>1, <2>2
  <2>3. CASE Baseline(w)
    BY <2>2, <2>3 DEF Baseline, BaselineStatement, BaselineNumber, BaselinePosition,
       BaselineInsert, BaselineFail, Become, Finish
  <2>4. CASE Spawn(w) \/ ColdWrite(w)
    BY <2>4 DEF Spawn, ColdWrite, Goto, Become, Finish
  <2>5. CASE Hot(w)
    BY <2>5 DEF Hot, Load, TakePosition, AppendHot, LoseAck, AfterLostAck, GiveUp, Conflict,
       Fail, Win, Reread, StoreHint, FailReread, NextAttempt, Goto, Become, Finish
  <2> QED
    BY <2>3, <2>4, <2>5 DEF Step
<1>2. UNCHANGED <<backend, phase, leftover>>
  BY DEF Step, Baseline, Spawn, ColdWrite, Hot, Load, TakePosition, AppendHot, LoseAck, Conflict,
     Fail, Win, Reread, StoreHint, FailReread
<1>3. events \subseteq events'
  BY DEF Step, Baseline, BaselineStatement, BaselineNumber, BaselinePosition, BaselineInsert,
     BaselineFail, Spawn, ColdWrite, Hot, Load, TakePosition, AppendHot, LoseAck, Insert, Conflict,
     Fail, Win, Reread, StoreHint, FailReread, db
<1> QED
  BY <1>1, <1>2, <1>3 DEF Basic, TypeOK

\* Where each step of a task leaves it.
LEMMA TaskAfter ==
  ASSUME Basic, NEW w \in Workers
  PROVE  /\ Finish(w) => task'[w] = Idle
         /\ Baseline(w) => task'[w].pc \in {"idle"} \cup Numbering
         /\ Spawn(w) => \/ task'[w].pc = "cold" /\ n' = Count({"spawned", "cold"})
                        \/ /\ task'[w].pc = "start" /\ task'[w].id = n.spawned + 1
                           /\ task'[w].attempt = 0 /\ n' = Count({"spawned", "hot"})
         /\ Load(w) => /\ task'[w].pc = "loaded" /\ task'[w].at = hint
                       /\ task'[w].id = task[w].id /\ task'[w].attempt = task[w].attempt
         /\ TakePosition(w) => /\ task'[w].pc = "sequenced" /\ task'[w].pos = seq
                               /\ task'[w].at = task[w].at /\ task'[w].id = task[w].id
                               /\ task'[w].attempt = task[w].attempt
         /\ AppendHot(w) => /\ task'[w].pc = "won"
                            /\ task'[w].at = task[w].at /\ task'[w].id = task[w].id
                            /\ task'[w].attempt = task[w].attempt
         /\ Conflict(w) => /\ task'[w].pc = "conflict"
                           /\ task'[w].id = task[w].id /\ task'[w].attempt = task[w].attempt
         /\ Reread(w) => /\ task'[w].pc = "reread" /\ task'[w].at = LastVersion
                         /\ task'[w].id = task[w].id /\ task'[w].attempt = task[w].attempt
         /\ NextAttempt(w) =>
              \/ /\ task'[w].pc = "start" /\ task'[w].id = task[w].id
                 /\ task'[w].attempt = task[w].attempt + 1 /\ UNCHANGED n
              \/ task'[w] = Idle /\ n' = Count({"exhausted", "failed"})
<1> DEFINE T == task \in [Workers -> Task]
<1>1. T
  BY DEF Basic, TypeOK
<1>2. ASSUME NEW t, task' = [task EXCEPT ![w] = t] PROVE task'[w] = t
  BY <1>1, <1>2
<1>3. Finish(w) => task'[w] = Idle
  BY <1>2 DEF Finish
<1>4. ASSUME NEW label, NEW at, NEW pos, Become(w, label, at, pos)
      PROVE  /\ task'[w].pc = label /\ task'[w].at = at /\ task'[w].pos = pos
             /\ task'[w].id = task[w].id /\ task'[w].attempt = task[w].attempt
  BY <1>2, <1>4 DEF Become
<1>5. ASSUME Baseline(w) PROVE task'[w].pc \in {"idle"} \cup Numbering
  BY <1>3, <1>4, <1>5 DEF Baseline, BaselineStatement, BaselineNumber, BaselinePosition,
     BaselineInsert, BaselineFail, Numbering, Idle
<1>6. ASSUME Spawn(w)
      PROVE  \/ task'[w].pc = "cold" /\ n' = Count({"spawned", "cold"})
             \/ /\ task'[w].pc = "start" /\ task'[w].id = n.spawned + 1
                /\ task'[w].attempt = 0 /\ n' = Count({"spawned", "hot"})
  BY <1>2, <1>4, <1>6 DEF Spawn, Goto
<1>7. ASSUME NextAttempt(w)
      PROVE  \/ /\ task'[w].pc = "start" /\ task'[w].id = task[w].id
                /\ task'[w].attempt = task[w].attempt + 1 /\ UNCHANGED n
             \/ task'[w] = Idle /\ n' = Count({"exhausted", "failed"})
  BY <1>2, <1>3, <1>7 DEF NextAttempt
<1> QED
  BY <1>3, <1>4, <1>5, <1>6, <1>7 DEF Load, TakePosition, AppendHot, Conflict, Reread, Goto

\* The steps of the run itself, and steps that do nothing.
LEMMA OtherSteps ==
  ASSUME Basic, [Next]_vars, \A w \in Workers : ~ Step(w)
  PROVE  /\ UNCHANGED <<backend, leftover, counter, seq, events, abandoned, hint, task, n>>
         /\ phase' = "baseline" => phase = "baseline"
         /\ phase' = "reported" => phase = "reported" \/ Drained
BY DEF Next, StartContention, Stop, Report, Done, vars, db, Step
-----------------------------------------------------------------------------
(* NeverAhead.                                                             *)

\* What the hint may be at most never shrinks, as no event is ever removed.
LEMMA LimitGrows ==
  ASSUME Basic, Basic', events \subseteq events', backend' = backend
  PROVE  /\ LastVersion \in Int /\ LastVersion' \in Int /\ LastVersion' >= LastVersion
         /\ Limit \in Int /\ Limit' \in Int /\ Limit' >= Limit
<1>1. Versions \subseteq Versions' /\ Versions' \subseteq Nat
  BY DEF Versions, Basic, TypeOK, Event
<1>2. LastVersion' \in Versions' \cup {-1} /\ \A u \in Versions' : u <= LastVersion'
  BY DEF Basic, HasLast, LastVersion
<1>3. /\ LastVersion \in Versions \cup {-1} /\ LastVersion \in Int /\ LastVersion >= -1
  BY LastVersionIs DEF Basic
<1>4. LastVersion' \in Int /\ LastVersion' >= LastVersion
  BY <1>1, <1>2, <1>3
<1>5. CASE backend = "kurrentdb"
  BY <1>3, <1>4, <1>5 DEF Limit
<1>6. CASE backend # "kurrentdb"
  <2>1. Limit = LastVersion + 1 /\ Limit' = LastVersion' + 1
    BY <1>6 DEF Limit
  <2>2. LastVersion \in Int /\ LastVersion + 1 \in Int
    BY <1>3
  <2>3. \A a, b \in Int : b >= a => b + 1 \in Int /\ b + 1 >= a + 1
    OBVIOUS
  <2> QED
    BY <1>4, <2>1, <2>2, <2>3, Zenon
<1> QED
  BY <1>5, <1>6

\* Without tasks and events the hint is at most its limit.
LEMMA InitAhead == Init => NeverAhead
<1> SUFFICES ASSUME Init PROVE NeverAhead
  OBVIOUS
<1>1. LastVersion \in Int /\ LastVersion >= -1 /\ (Versions # {} => LastVersion \in Nat)
  BY InitBasic, LastVersionIs DEF Basic
<1>2. backend = "kurrentdb" => Versions # {}
  BY InitBasic DEF Basic, Phases
<1>3. 0 <= Limit
  <2>1. CASE backend = "kurrentdb"
    BY <1>1, <1>2, <2>1 DEF Limit
  <2>2. CASE backend # "kurrentdb"
    BY <1>1, <2>2 DEF Limit
  <2> QED
    BY <2>1, <2>2
<1> QED
  BY <1>3 DEF Init, NeverAhead, Near, Idle

\* A stale store moves the hint back, but what was a last version once is
\* never ahead of the stream.
LEMMA StepAhead ==
  ASSUME Basic, Basic', NeverAhead, NEW w \in Workers, Step(w)
  PROVE  NeverAhead'
<1>1. /\ LastVersion \in Int /\ LastVersion' \in Int /\ LastVersion' >= LastVersion
      /\ Limit \in Int /\ Limit' \in Int /\ Limit' >= Limit
  BY StepFrame, LimitGrows
<1>2. \A u \in Workers : task[u] \in Task /\ task'[u] \in Task /\ task[u].at \in Nat
  BY DEF Basic, TypeOK, Task
<1>3. \A u \in Workers : u # w => task'[u] = task[u]
  BY StepFrame
<1>4. ASSUME NEW u \in Workers, u # w PROVE Near(task[u])'
  BY <1>1, <1>2, <1>3, <1>4 DEF NeverAhead, Near
<1>5. hint \in Nat /\ hint <= Limit /\ Near(task[w])
  BY DEF Basic, TypeOK, NeverAhead
<1>6. SUFFICES hint' <= Limit' /\ Near(task[w])'
  BY <1>4 DEF NeverAhead
<1>7. UNCHANGED hint => hint' <= Limit'
  BY <1>1, <1>5
<1>8. task'[w].pc \notin {"loaded", "sequenced", "won", "reread"} => Near(task[w])'
  BY DEF Near
<1>9. Finish(w) => Near(task[w])'
  BY <1>8, TaskAfter DEF Idle
<1>10. CASE Baseline(w)
  BY <1>7, <1>8, <1>10, TaskAfter DEF Baseline, Numbering
<1>11. CASE Spawn(w)
  BY <1>7, <1>8, <1>11, TaskAfter DEF Spawn
<1>12. CASE ColdWrite(w)
  BY <1>7, <1>9, <1>12 DEF ColdWrite
<1>13. CASE Load(w)
  <2>1. task'[w].pc = "loaded" /\ task'[w].at = hint /\ hint' = hint
    BY <1>13, TaskAfter DEF Load
  <2> QED
    BY <1>1, <1>5, <2>1 DEF Near
<1>14. CASE TakePosition(w)
  <2>1. /\ task'[w].pc = "sequenced" /\ task'[w].at = task[w].at /\ hint' = hint
        /\ task[w].pc = "loaded"
    BY <1>14, TaskAfter DEF TakePosition
  <2> QED
    BY <1>1, <1>2, <1>5, <2>1 DEF Near
<1>15. CASE AppendHot(w)
  <2>1. task'[w].pc = "won" /\ task'[w].at = task[w].at /\ hint' = hint /\ UNCHANGED backend
    BY <1>15, TaskAfter DEF AppendHot
  <2>2. events' = events \cup {Stored(w)} /\ Stored(w) \in Event
    BY <1>15, InsertBasic DEF AppendHot
  <2>3. Stored(w).version <= LastVersion'
    BY <1>1, <2>2, LastVersionGrows DEF Basic, Event
  <2>4. Stored(w).version = IF backend = "kurrentdb" THEN task[w].at + 1 ELSE task[w].at
    BY DEF Stored
  <2>5. task[w].at + 1 <= Limit'
    <3>1. CASE backend = "kurrentdb"
      BY <1>2, <2>1, <2>3, <2>4, <3>1 DEF Limit
    <3>2. CASE backend # "kurrentdb"
      BY <1>1, <1>2, <2>1, <2>3, <2>4, <3>2 DEF Limit
    <3> QED
      BY <3>1, <3>2
  <2> QED
    BY <1>7, <2>1, <2>5 DEF Near
<1>16. CASE LoseAck(w) \/ Fail(w)
  BY <1>7, <1>9, <1>16 DEF LoseAck, AfterLostAck, Fail, GiveUp
<1>17. CASE Conflict(w)
  BY <1>7, <1>8, <1>17, TaskAfter DEF Conflict
<1>18. CASE Win(w)
  BY <1>1, <1>2, <1>5, <1>9, <1>18 DEF Win, Moved, Near
<1>19. CASE Reread(w)
  <2>1. task'[w].pc = "reread" /\ task'[w].at = LastVersion /\ hint' = hint
    BY <1>19, TaskAfter DEF Reread
  <2> QED
    BY <1>1, <1>7, <2>1 DEF Near
<1>20. ASSUME NextAttempt(w) PROVE Near(task[w])'
  BY <1>8, <1>20, TaskAfter DEF Idle
<1>21. CASE StoreHint(w)
  <2>1. task[w].at <= LastVersion /\ hint' = HintAfter(task[w].at)
    BY <1>5, <1>21 DEF StoreHint, Near
  <2>2. hint' <= Limit
    BY <1>1, <1>2, <2>1 DEF HintAfter, Limit
  <2>3. hint' \in Nat
    BY DEF Basic, TypeOK
  <2> QED
    BY <1>1, <1>20, <1>21, <2>2, <2>3 DEF StoreHint
<1>22. CASE FailReread(w)
  <2>1. hint' = hint \/ (backend = "kurrentdb" /\ hint' = 0)
    BY <1>22 DEF FailReread, AfterFailedRead
  <2>2. backend = "kurrentdb" => 0 <= Limit
    BY LastVersionIs DEF Basic, Phases, Limit
  <2> QED
    BY <1>1, <1>5, <1>20, <1>22, <2>1, <2>2 DEF FailReread
<1> QED
  BY <1>10, <1>11, <1>12, <1>13, <1>14, <1>15, <1>16, <1>17, <1>18, <1>19, <1>21, <1>22
  DEF Step, Hot

\* The second layer is preserved, given the first before and after the step.
LEMMA NextAhead == Basic /\ Basic' /\ NeverAhead /\ [Next]_vars => NeverAhead'
<1> SUFFICES ASSUME Basic, Basic', NeverAhead, [Next]_vars PROVE NeverAhead'
  OBVIOUS
<1>1. CASE \A w \in Workers : ~ Step(w)
  <2>1. UNCHANGED <<backend, events, hint, task>>
    BY <1>1, OtherSteps
  <2> QED
    BY <2>1, LastVersionKept DEF NeverAhead, Near, Limit
<1> QED
  BY <1>1, StepAhead

\* The hint may be late, never early: the stale stores of tasks that lost a
\* race, and the compare-exchanges of those that won one, never name a version
\* whose predecessor is not in the stream.
THEOREM HintSafe == Spec => []HintNeverAhead
<1>1. NeverAhead => HintNeverAhead
  BY DEF NeverAhead, HintNeverAhead, Limit
<1> QED
  BY <1>1, BasicHolds, InitAhead, NextAhead, PTL DEF Spec
-----------------------------------------------------------------------------
(* Covered.                                                                *)

\* At the start only the left-over counter is above the stream.
LEMMA InitCovered == Init => Covered
<1> SUFFICES ASSUME Init, NEW v \in Nat, v <= LastVersion \/ v < counter PROVE Accounted(v)
  BY DEF Covered
<1>1. LastVersion \in Versions \cup {-1} /\ LastVersion \in Int
  BY InitBasic, LastVersionIs DEF Basic
<1>2. Versions \subseteq {0}
  BY DEF Init, Versions
<1>3. v <= LastVersion => v \in Versions
  BY <1>1, <1>2
<1> QED
  BY <1>3 DEF Init, Accounted

\* What an insert does to the last version, with the database's own check.
LEMMA InsertAtEnd ==
  ASSUME Basic, NeverAhead, NEW w \in Workers, AtDatabase(w), Insert(w)
  PROVE  /\ LastVersion' \in Int
         /\ \A v \in Nat : v <= LastVersion' => v <= LastVersion \/ v = Stored(w).version
         /\ Stored(w).version \in Versions'
         /\ Stored(w).version \notin Versions
<1> DEFINE version == Stored(w).version
<1>1. Stored(w) \in Event /\ events' = events \cup {Stored(w)}
  BY InsertBasic
<1>2. version = IF backend = "kurrentdb" THEN task[w].at + 1 ELSE task[w].at
  BY DEF Stored
<1>3. task[w].at \in Nat /\ task[w].at <= Limit
  BY DEF Basic, TypeOK, Task, NeverAhead, Near, AtDatabase
<1>4. LastVersion \in Int /\ LastVersion >= -1 /\ \A u \in Versions : u <= LastVersion
  BY LastVersionIs DEF Basic
<1>5. version \in Nat /\ version <= LastVersion + 1 /\ version \notin Versions
  <2>1. CASE backend = "kurrentdb"
    BY <1>2, <1>3, <1>4, <2>1 DEF Insert, Accepts
  <2>2. CASE backend # "kurrentdb"
    BY <1>2, <1>3, <1>4, <2>2 DEF Insert, Accepts, Limit
  <2> QED
    BY <2>1, <2>2
<1>6. version \in Versions' /\ LastVersion' = IF version > LastVersion THEN version ELSE LastVersion
  BY <1>1, LastVersionGrows DEF Basic
<1> HIDE DEF version
<1>7. LastVersion' \in Int
  BY <1>4, <1>5, <1>6
<1>8. ASSUME NEW v \in Nat, v <= LastVersion' PROVE v <= LastVersion \/ v = version
  <2>1. CASE version > LastVersion
    BY <1>4, <1>5, <1>6, <1>8, <2>1
  <2>2. CASE ~ (version > LastVersion)
    BY <1>4, <1>5, <1>6, <1>8, <2>2
  <2> QED
    BY <2>1, <2>2
<1> QED
  BY <1>5, <1>6, <1>7, <1>8 DEF version

\* What is accounted for stays so, unless it is the version of the very
\* baseline append that moves.
LEMMA AccountedKept ==
  ASSUME Basic, NEW w \in Workers, Step(w), NEW v, Accounted(v),
         abandoned \subseteq abandoned'
  PROVE  Accounted(v)' \/ (task[w].pc \in Numbering /\ task[w].at = v)
<1>1. Versions \subseteq Versions' /\ leftover' = leftover
  BY StepFrame DEF Versions
<1>2. \A u \in Workers : u # w => task'[u] = task[u]
  BY StepFrame
<1> QED
  BY <1>1, <1>2 DEF Accounted

\* A task moves the end of the stream only to the version next to it.
LEMMA StepCovered ==
  ASSUME Basic, NeverAhead, Covered, NEW w \in Workers, Step(w)
  PROVE  Covered'
<1> SUFFICES ASSUME NEW v \in Nat, v <= LastVersion' \/ v < counter' PROVE Accounted(v)'
  BY DEF Covered
<1>1. task[w] \in Task /\ task[w].at \in Nat /\ counter \in Nat /\ seq \in Nat /\ Fits(task[w])
  BY DEF Basic, TypeOK, Task, Phases
<1>2. LastVersion \in Int
  BY LastVersionIs DEF Basic
<1>3. UNCHANGED events => LastVersion' = LastVersion /\ Versions' = Versions
  BY LastVersionKept
<1>4. ASSUME UNCHANGED counter, abandoned \subseteq abandoned', task[w].pc \notin Numbering,
             v <= LastVersion' => v <= LastVersion \/ v \in Versions'
      PROVE  Accounted(v)'
  <2>1. CASE v \in Versions'
    BY <2>1 DEF Accounted
  <2>2. CASE v <= LastVersion \/ v < counter
    BY <1>4, <2>2, AccountedKept DEF Covered
  <2> QED
    BY <1>4, <2>1, <2>2
<1>5. CASE BaselineStatement(w) /\ Baseline(w)
  <2> DEFINE e == [version |-> counter, pos |-> seq, task |-> 0]
  <2>1. e \in Event /\ events' = events \cup {e} /\ e.version = counter
    BY <1>1, <1>5, BoundsAssumption DEF BaselineStatement, Event
  <2> HIDE DEF e
  <2>2. counter \in Versions' /\ LastVersion' = IF counter > LastVersion THEN counter ELSE LastVersion
    BY <2>1, LastVersionGrows DEF Basic
  <2>3. v <= LastVersion \/ v < counter \/ v = counter
    BY <1>1, <1>2, <1>5, <2>2 DEF BaselineStatement
  <2>4. v = counter => Accounted(v)'
    BY <2>2 DEF Accounted
  <2>5. task[w].pc \notin Numbering /\ abandoned' = abandoned
    BY <1>5 DEF BaselineStatement, Numbering
  <2> QED
    BY <2>3, <2>4, <2>5, AccountedKept DEF Covered
<1>6. CASE BaselineNumber(w)
  <2>1. task'[w].pc \in Numbering /\ task'[w].at = counter
    BY <1>1, <1>6, BecomeMoves DEF BaselineNumber, Basic, Labels, Numbering
  <2>2. v <= LastVersion \/ v < counter \/ v = counter
    BY <1>1, <1>3, <1>6 DEF BaselineNumber
  <2>3. v = counter => Accounted(v)'
    BY <2>1 DEF Accounted
  <2>4. task[w].pc \notin Numbering /\ abandoned' = abandoned
    BY <1>6 DEF BaselineNumber, Numbering
  <2> QED
    BY <2>2, <2>3, <2>4, AccountedKept DEF Covered
<1>7. CASE BaselinePosition(w)
  <2>1. task'[w].pc \in Numbering /\ task'[w].at = task[w].at
    BY <1>1, <1>7, BecomeMoves DEF BaselinePosition, Basic, Labels, Numbering
  <2>2. v = task[w].at => Accounted(v)'
    BY <2>1 DEF Accounted
  <2>3. UNCHANGED <<events, counter, abandoned>>
    BY <1>7 DEF BaselinePosition
  <2> QED
    BY <1>3, <2>2, <2>3, AccountedKept DEF Covered
<1>8. CASE BaselineInsert(w)
  <2> DEFINE e == [version |-> task[w].at, pos |-> task[w].pos, task |-> 0]
  <2>1. e \in Event /\ events' = events \cup {e} /\ e.version = task[w].at
    BY <1>1, <1>8, BoundsAssumption DEF BaselineInsert, Event, Task
  <2> HIDE DEF e
  <2>2. /\ task[w].at \in Versions'
        /\ LastVersion' = IF task[w].at > LastVersion THEN task[w].at ELSE LastVersion
    BY <2>1, LastVersionGrows DEF Basic
  <2>3. task[w].at < counter /\ UNCHANGED <<counter, abandoned>>
    BY <1>1, <1>8 DEF BaselineInsert, Fits, Numbering
  <2>4. v <= LastVersion \/ v < counter
    BY <1>1, <1>2, <2>2, <2>3
  <2>5. v = task[w].at => Accounted(v)'
    BY <2>2 DEF Accounted
  <2> QED
    BY <2>3, <2>4, <2>5, AccountedKept DEF Covered
<1>9. CASE BaselineFail(w)
  <2>1. abandoned' = abandoned \cup {task[w].at} /\ UNCHANGED <<events, counter>>
    BY <1>9 DEF BaselineFail
  <2>2. v = task[w].at => Accounted(v)'
    BY <2>1 DEF Accounted
  <2> QED
    BY <1>3, <2>1, <2>2, AccountedKept DEF Covered
<1>10. CASE AppendHot(w) \/ LoseAck(w)
  <2>1. /\ AtDatabase(w) /\ Insert(w) /\ UNCHANGED <<counter, abandoned>>
        /\ task[w].pc \notin Numbering
    BY <1>10 DEF AppendHot, LoseAck, AtDatabase, Numbering
  <2> QED
    BY <1>4, <2>1, InsertAtEnd
<1>11. CASE Spawn(w) \/ ColdWrite(w) \/ (Hot(w) /\ ~ AppendHot(w) /\ ~ LoseAck(w))
  <2>1. UNCHANGED <<counter, abandoned, events>> /\ task[w].pc \notin Numbering
    BY <1>11 DEF Spawn, ColdWrite, Hot, Load, TakePosition, Conflict, AtDatabase, Fail, Win,
       Reread, StoreHint, FailReread, db, Numbering
  <2> QED
    BY <1>3, <1>4, <2>1
<1> QED
  BY <1>5, <1>6, <1>7, <1>8, <1>9, <1>10, <1>11 DEF Step, Baseline

\* The third layer is preserved: versions below the last are accounted for.
LEMMA NextCovered == Basic /\ NeverAhead /\ Covered /\ [Next]_vars => Covered'
<1> SUFFICES ASSUME Basic, NeverAhead, Covered, [Next]_vars PROVE Covered'
  OBVIOUS
<1>1. CASE \A w \in Workers : ~ Step(w)
  <2>1. UNCHANGED <<leftover, counter, abandoned, events, task>>
    BY <1>1, OtherSteps DEF Next, StartContention, Stop, Report, Done, vars, Step
  <2> QED
    BY <2>1, LastVersionKept DEF Covered, Accounted
<1> QED
  BY <1>1, StepCovered

\* Appending at an explicit version makes no holes in the stream that were not
\* there when the contention phase began.
THEOREM HolesAreOld == Spec => []NoNewHoles
<1>1. Basic /\ Covered => NoNewHoles
  <2> SUFFICES ASSUME Basic, Covered, phase # "baseline", NEW v \in 0 .. LastVersion
               PROVE  v \in Versions \/ v \in abandoned \/ v < leftover
    BY DEF NoNewHoles
  <2>1. LastVersion \in Int
    BY LastVersionIs DEF Basic
  <2>2. Accounted(v)
    BY <2>1 DEF Covered
  <2> QED
    BY <2>2 DEF Accounted, Basic, Phases, Fits
<1> QED
  BY <1>1, BasicHolds, InitAhead, NextAhead, InitCovered, NextCovered, PTL DEF Spec
-----------------------------------------------------------------------------
(* Owned.                                                                  *)

\* No event belongs to a task yet.
LEMMA InitOwned == Init => Owned
<1> SUFFICES ASSUME Init PROVE Owned
  OBVIOUS
<1>1. \A w \in Workers : task[w].pc \notin Racing
  BY DEF Init, Idle, Racing
<1>2. \A e \in events : e.task = 0
  BY DEF Init
<1>3. n.spawned = 0
  BY DEF Init, Counters
<1> QED
  BY <1>1, <1>2, <1>3 DEF Owned, OneEventPerTask

\* Only Spawn counts tasks.
LEMMA SpawnedAfter ==
  ASSUME Basic, NEW w \in Workers, Step(w)
  PROVE  /\ n.spawned \in Nat /\ n'.spawned \in Nat
         /\ n'.spawned = IF Spawn(w) THEN n.spawned + 1 ELSE n.spawned
<1>1. n \in [Counters -> Nat] /\ n.spawned \in Nat
  BY DEF Basic, TypeOK, Counters
<1>2. Spawn(w) => n'.spawned = n.spawned + 1
  BY <1>1 DEF Spawn, Count, Counters
<1>3. Baseline(w) \/ ColdWrite(w) => n'.spawned = n.spawned
  BY <1>1 DEF Baseline, ColdWrite, Count, Counters
<1>4. Hot(w) => n'.spawned = n.spawned
  BY HotCounts
<1> QED
  BY <1>1, <1>2, <1>3, <1>4 DEF Step

\* What an insert adds is the event of the task that makes it; nothing else
\* adds events but the baseline, whose events are no task's.
LEMMA EventsAfter ==
  ASSUME Basic, NEW w \in Workers, Step(w)
  PROVE  \/ events' = events
         \/ Baseline(w) /\ \E e \in Event : events' = events \cup {e} /\ e.task = 0
         \/ /\ AppendHot(w) \/ LoseAck(w)
            /\ Stored(w) \in Event /\ events' = events \cup {Stored(w)}
            /\ Stored(w).task = task[w].id
<1>1. task[w] \in Task /\ counter \in Nat /\ seq \in Nat
  BY DEF Basic, TypeOK
<1>2. CASE Baseline(w) /\ BaselineStatement(w)
  <2> DEFINE e == [version |-> counter, pos |-> seq, task |-> 0]
  <2>1. e \in Event /\ e.task = 0 /\ events' = events \cup {e}
    BY <1>1, <1>2, BoundsAssumption DEF BaselineStatement, Event
  <2> QED
    BY <1>2, <2>1
<1>3. CASE Baseline(w) /\ BaselineInsert(w)
  <2> DEFINE e == [version |-> task[w].at, pos |-> task[w].pos, task |-> 0]
  <2>1. e \in Event /\ e.task = 0 /\ events' = events \cup {e}
    BY <1>1, <1>3, BoundsAssumption DEF BaselineInsert, Event, Task
  <2> QED
    BY <1>3, <2>1
<1>4. CASE AppendHot(w) \/ LoseAck(w)
  BY <1>4, InsertBasic DEF AppendHot, LoseAck, Stored
<1>5. CASE Baseline(w) /\ ~ BaselineStatement(w) /\ ~ BaselineInsert(w)
  BY <1>5 DEF Baseline, BaselineNumber, BaselinePosition, BaselineFail
<1>6. CASE Spawn(w) \/ ColdWrite(w) \/ (Hot(w) /\ ~ AppendHot(w) /\ ~ LoseAck(w))
  BY <1>6 DEF Spawn, ColdWrite, Hot, Load, TakePosition, Conflict, Fail, Win, Reread,
     StoreHint, FailReread, db
<1> QED
  BY <1>2, <1>3, <1>4, <1>5, <1>6 DEF Step

\* A task keeps its number; a worker gets one with the task.
LEMMA RacingAfter ==
  ASSUME Basic, NEW w \in Workers, Step(w), task'[w].pc \in Racing
  PROVE  \/ Spawn(w) /\ task'[w].id = n.spawned + 1
         \/ /\ Hot(w) /\ task[w].pc \in Racing /\ task'[w].id = task[w].id
            /\ task[w].pc # "won"
            /\ AppendHot(w) \/ LoseAck(w) => AppendHot(w) /\ task'[w].pc = "won"
<1>1. task'[w] # Idle
  BY DEF Racing, Idle
<1>2. ~ Baseline(w) /\ ~ ColdWrite(w)
  BY <1>1, TaskAfter DEF Racing, Numbering, ColdWrite
<1>3. CASE Spawn(w)
  BY <1>3, TaskAfter DEF Racing
<1>4. CASE Hot(w)
  <2>1. ~ Win(w) /\ ~ LoseAck(w) /\ ~ Fail(w)
    BY <1>1, TaskAfter DEF Win, LoseAck, AfterLostAck, Fail, GiveUp
  <2>2. CASE StoreHint(w) \/ FailReread(w)
    <3>1. NextAttempt(w) /\ task[w].pc \in {"conflict", "reread"}
      BY <2>2 DEF StoreHint, FailReread
    <3>2. task'[w].pc = "start" /\ task'[w].id = task[w].id
      BY <1>1, <3>1, TaskAfter
    <3>3. ~ AppendHot(w)
      BY <3>1 DEF AppendHot, AtDatabase
    <3> QED
      BY <1>4, <2>1, <3>1, <3>2, <3>3 DEF Racing
  <2>3. CASE Load(w) \/ TakePosition(w) \/ Conflict(w) \/ Reread(w)
    <3>1. task'[w].id = task[w].id /\ task'[w].pc # "won"
      BY <2>3, TaskAfter
    <3>2. task[w].pc \in Racing /\ task[w].pc # "won"
      BY <2>3 DEF Load, TakePosition, Conflict, AtDatabase, Reread, Racing
    <3>3. ~ AppendHot(w)
      BY <3>1, TaskAfter
    <3> QED
      BY <1>4, <2>1, <3>1, <3>2, <3>3
  <2>4. CASE AppendHot(w)
    <3>1. task'[w].id = task[w].id /\ task'[w].pc = "won"
      BY <2>4, TaskAfter
    <3>2. task[w].pc \in Racing /\ task[w].pc # "won"
      BY <2>4 DEF AppendHot, AtDatabase, Racing
    <3> QED
      BY <1>4, <2>4, <3>1, <3>2
  <2> QED
    BY <1>4, <2>1, <2>2, <2>3, <2>4 DEF Hot
<1> QED
  BY <1>2, <1>3, <1>4 DEF Step

\* A step stores an event only for the task that makes it, and then leaves
\* the retry loop.
LEMMA StepOwned ==
  ASSUME Basic, Basic', Owned, NEW w \in Workers, Step(w)
  PROVE  Owned'
<1>1. /\ n.spawned \in Nat /\ n'.spawned \in Nat
      /\ n'.spawned = IF Spawn(w) THEN n.spawned + 1 ELSE n.spawned
  BY SpawnedAfter
<1>2. \A u \in Workers : u # w => task'[u] = task[u]
  BY StepFrame
<1>3. \A u \in Workers : task[u].pc \in Racing => task[u].id \in 1 .. n.spawned
  BY DEF Owned
<1>4. \A e \in events : e.task \in Nat /\ e.task <= n.spawned
  BY BoundsAssumption DEF Owned, Basic, TypeOK, Event
<1>5. Spawn(w) => UNCHANGED events
  BY DEF Spawn, db
<1>6. AppendHot(w) \/ LoseAck(w) => ~ Spawn(w) /\ task[w].pc \in Racing \ {"won"}
  BY DEF Spawn, AppendHot, LoseAck, AtDatabase, Racing
<1>7. \A u \in Workers : task'[u].pc \in Racing =>
        \/ u = w /\ Spawn(w) /\ task'[u].id = n.spawned + 1
        \/ task[u].pc \in Racing /\ task'[u].id = task[u].id
  BY <1>2, RacingAfter
<1>8. ASSUME NEW u \in Workers, task'[u].pc \in Racing PROVE task'[u].id \in 1 .. n'.spawned
  BY <1>1, <1>3, <1>7, <1>8
<1>9. ASSUME NEW u \in Workers, NEW v \in Workers, task'[u].pc \in Racing,
             task'[v].pc \in Racing, task'[u].id = task'[v].id
      PROVE  u = v
  <2>1. CASE task[u].pc \in Racing /\ task'[u].id = task[u].id
             /\ task[v].pc \in Racing /\ task'[v].id = task[v].id
    BY <1>9, <2>1 DEF Owned
  <2>2. CASE u = w /\ task'[u].id = n.spawned + 1
    BY <1>1, <1>3, <1>7, <1>9, <2>2
  <2>3. CASE v = w /\ task'[v].id = n.spawned + 1
    BY <1>1, <1>3, <1>7, <1>9, <2>3
  <2> QED
    BY <1>7, <1>9, <2>1, <2>2, <2>3
<1>10. ASSUME NEW u \in Workers, task'[u].pc \in Racing \ {"won"}, NEW e \in events'
       PROVE  e.task # task'[u].id
  <2>1. task'[u].id \in Nat /\ task'[u].id # 0
    BY <1>1, <1>8, <1>10
  <2>2. CASE e \in events
    <3>1. CASE task'[u].id = n.spawned + 1
      BY <1>1, <1>4, <2>2, <3>1
    <3>2. CASE task[u].pc \in Racing \ {"won"} /\ task'[u].id = task[u].id
      BY <2>2, <3>2 DEF Owned
    <3> QED
      BY <1>2, <1>7, <1>10, <3>1, <3>2, RacingAfter
  <2>3. CASE e \notin events
    <3>1. CASE e.task = 0
      BY <2>1, <3>1
    <3>2. CASE (AppendHot(w) \/ LoseAck(w)) /\ e.task = task[w].id
      <4>1. u # w
        BY <1>6, <1>10, <3>2, RacingAfter
      <4>2. task[u].pc \in Racing /\ task[w].pc \in Racing /\ task'[u].id = task[u].id
        BY <1>2, <1>6, <1>10, <3>2, <4>1
      <4> QED
        BY <3>2, <4>1, <4>2 DEF Owned
    <3> QED
      BY <2>3, <3>1, <3>2, EventsAfter
  <2> QED
    BY <2>2, <2>3
<1>11. ASSUME NEW e \in events' PROVE e.task <= n'.spawned
  <2>1. CASE e \in events
    BY <1>1, <1>4, <2>1
  <2>2. CASE e \notin events
    BY <1>1, <1>3, <1>6, <2>2, EventsAfter
  <2> QED
    BY <2>1, <2>2
<1>12. ASSUME NEW e \in events', NEW f \in events', e.task = f.task, e.task # 0 PROVE e = f
  <2>1. CASE e \in events /\ f \in events
    BY <1>12, <2>1 DEF Owned, OneEventPerTask
  <2>2. ASSUME NEW g \in events, NEW h \in events', h \notin events, h.task # 0
        PROVE  g.task # h.task
    <3>1. (AppendHot(w) \/ LoseAck(w)) /\ h.task = task[w].id
      BY <2>2, EventsAfter
    <3> QED
      BY <1>6, <3>1 DEF Owned
  <2>3. CASE e \notin events /\ f \notin events
    BY <2>3, <1>12, EventsAfter
  <2> QED
    BY <1>12, <2>1, <2>2, <2>3
<1> QED
  BY <1>8, <1>9, <1>10, <1>11, <1>12 DEF Owned, OneEventPerTask

\* The fourth layer is preserved: a task owns at most one event.
LEMMA NextOwned == Basic /\ Basic' /\ Owned /\ [Next]_vars => Owned'
<1> SUFFICES ASSUME Basic, Basic', Owned, [Next]_vars PROVE Owned'
  OBVIOUS
<1>1. CASE \A w \in Workers : ~ Step(w)
  <2>1. UNCHANGED <<events, task, n>>
    BY <1>1, OtherSteps
  <2> QED
    BY <2>1 DEF Owned, OneEventPerTask
<1> QED
  BY <1>1, StepOwned

\* No task stores its event twice, however often it loses the race or its
\* connection.
THEOREM TasksStoreOnce == Spec => []OneEventPerTask
<1>1. Owned => OneEventPerTask
  BY DEF Owned
<1> QED
  BY <1>1, BasicHolds, InitOwned, NextOwned, PTL DEF Spec
-----------------------------------------------------------------------------
(* Placed.                                                                 *)

\* No event is out of place yet.
LEMMA InitPlaced == Init => Placed
<1> SUFFICES ASSUME Init PROVE Placed
  OBVIOUS
<1>1. \A w \in Workers : task[w].pc = "idle"
  BY DEF Init, Idle
<1>2. \A e \in events : e.task = 0
  BY DEF Init
<1> QED
  BY <1>1, <1>2 DEF Placed, PositionsFollowVersions

\* Without holes only the version after the last one is free.
LEMMA InsertIsNext ==
  ASSUME Basic, NeverAhead, NoNewHoles, abandoned = {}, leftover = 0,
         NEW w \in Workers, AtDatabase(w), Insert(w)
  PROVE  Stored(w).version = LastVersion + 1 /\ LastVersion \in Int
<1>1. task[w].at \in Nat /\ task[w].at <= Limit /\ phase # "baseline"
  BY DEF Basic, TypeOK, Task, NeverAhead, Near, AtDatabase, Phases, Fits, Numbering
<1>2. LastVersion \in Int /\ LastVersion >= -1 /\ (Versions # {} => LastVersion \in Nat)
  BY LastVersionIs DEF Basic
<1>3. \A v \in 0 .. LastVersion : v \in Versions
  BY <1>1 DEF NoNewHoles
<1>4. CASE backend = "kurrentdb"
  BY <1>1, <1>2, <1>4 DEF Stored, Insert, Accepts
<1>5. CASE backend # "kurrentdb"
  <2>1. task[w].at \notin Versions /\ Stored(w).version = task[w].at
    BY <1>5 DEF Stored, Insert, Accepts
  <2>2. Limit = LastVersion + 1
    BY <1>5 DEF Limit
  <2>3. ~ (task[w].at <= LastVersion)
    BY <1>1, <1>2, <1>3, <2>1
  <2> QED
    BY <1>1, <1>2, <2>1, <2>2, <2>3
<1> QED
  BY <1>4, <1>5

\* A position taken before the insert is above those of all lower versions.
LEMMA StepPlaced ==
  ASSUME Basic, NeverAhead, NoNewHoles, Placed, NEW w \in Workers, Step(w)
  PROVE  Placed'
<1> SUFFICES ASSUME abandoned' = {}, leftover' = 0
             PROVE  /\ \A u \in Workers : task'[u].pc = "sequenced" =>
                         \A e \in events' : e.version < task'[u].at => e.pos < task'[u].pos
                    /\ \A e, f \in events' :
                         e.task # 0 /\ f.task # 0 /\ e.version < f.version => e.pos < f.pos
  BY DEF Placed, PositionsFollowVersions
<1>1. abandoned = {} /\ leftover = 0
  <2>1. abandoned \subseteq abandoned'
    BY DEF Step, Baseline, BaselineStatement, BaselineNumber, BaselinePosition, BaselineInsert,
       BaselineFail, Spawn, ColdWrite, Hot, Load, TakePosition, AppendHot, LoseAck, Conflict,
       Fail, Win, Reread, StoreHint, FailReread, db
  <2> QED
    BY <2>1, StepFrame
<1>2. \A u \in Workers : u # w => task'[u] = task[u]
  BY StepFrame
<1>3. \A e \in events : e.pos \in Nat /\ e.version \in Nat /\ e.pos < seq /\ e.version <= LastVersion
  <2>1. \A u \in Versions : u <= LastVersion
    BY LastVersionIs DEF Basic
  <2> QED
    BY <2>1 DEF Basic, TypeOK, Event, Phases, Versions
<1>4. \A u \in Workers : task[u] \in Task /\ Fits(task[u]) /\ Near(task[u])
  BY DEF Basic, TypeOK, Phases, NeverAhead
<1>5. \A u \in Workers : task[u].pc = "sequenced" =>
        \A e \in events : e.version < task[u].at => e.pos < task[u].pos
  BY <1>1 DEF Placed
<1>6. \A e, f \in events :
        e.task # 0 /\ f.task # 0 /\ e.version < f.version => e.pos < f.pos
  BY <1>1 DEF Placed, PositionsFollowVersions
\* Only TakePosition makes a task sequenced.
<1>7. task'[w].pc = "sequenced" => TakePosition(w)
  <2>1. Baseline(w) \/ Spawn(w) \/ ColdWrite(w) => task'[w].pc # "sequenced"
    BY TaskAfter DEF Numbering, ColdWrite, Idle
  <2>2. Hot(w) => TakePosition(w) \/ task'[w].pc # "sequenced"
    BY TaskAfter DEF Hot, LoseAck, AfterLostAck, Fail, Win, GiveUp, StoreHint, FailReread, Idle
  <2> QED
    BY <2>1, <2>2 DEF Step
<1>8. TakePosition(w) => task'[w].pos = seq /\ UNCHANGED events
  BY TaskAfter DEF TakePosition
<1>9. CASE events' = events
  BY <1>2, <1>3, <1>5, <1>6, <1>7, <1>8, <1>9
<1>10. CASE Baseline(w) /\ \E e \in Event : events' = events \cup {e} /\ e.task = 0
  <2>1. \A u \in Workers : task[u].pc # "sequenced"
    BY <1>4, <1>10 DEF Baseline, Fits, Numbering
  <2>2. \A u \in Workers : task'[u].pc # "sequenced"
    BY <1>2, <1>10, <2>1, TaskAfter DEF Numbering
  <2>3. \A e \in events' : e.task # 0 => e \in events
    BY <1>10
  <2> QED
    BY <1>6, <2>2, <2>3
<1>11. CASE AppendHot(w) \/ LoseAck(w)
  <2> DEFINE d == Stored(w)
  <2>1. AtDatabase(w) /\ Insert(w) /\ d \in Event /\ events' = events \cup {d}
    BY <1>11, InsertBasic DEF AppendHot, LoseAck
  <2>2. d.version = LastVersion + 1 /\ LastVersion \in Int
    BY <1>1, <2>1, InsertIsNext
  <2>3. \A e \in events : e.pos < d.pos
    <3>1. CASE backend = "mongodb"
      <4>1. d.pos = task[w].pos /\ d.version = task[w].at /\ task[w].pc = "sequenced"
        BY <2>1, <3>1 DEF Stored, AtDatabase, TakesPosition
      <4>2. \A e \in events : e.version < task[w].at
        BY <1>3, <2>2, <4>1
      <4> QED
        BY <1>5, <4>1, <4>2
    <3>2. CASE backend # "mongodb"
      BY <1>3, <3>2 DEF Stored
    <3> QED
      BY <3>1, <3>2
  <2> HIDE DEF d
  <2>4. d.version \in Nat /\ d.pos \in Nat
    BY <2>1 DEF Event
  <2>5. \A e \in events : ~ (d.version < e.version)
    BY <1>3, <2>2, <2>4
  <2>6. ~ (d.version < d.version)
    BY <2>4
  <2>7. ASSUME NEW u \in Workers, task'[u].pc = "sequenced", NEW e \in events',
               e.version < task'[u].at
        PROVE  e.pos < task'[u].pos
    <3>1. u # w /\ task'[u] = task[u]
      BY <1>2, <1>7, <1>11, <2>7, TaskAfter DEF LoseAck, AfterLostAck, GiveUp, Idle
    <3>2. e \in events
      <4>1. task[u].at <= LastVersion + 1 /\ task[u].at \in Nat
        BY <1>4, <2>7, <3>1 DEF Near, Fits, Limit, Task
      <4>2. ~ (d.version < task[u].at)
        BY <2>2, <2>4, <4>1
      <4> QED
        BY <2>1, <2>7, <3>1, <4>2
    <3> QED
      BY <1>5, <2>7, <3>1, <3>2
  <2>8. ASSUME NEW e \in events', NEW f \in events', e.task # 0, f.task # 0, e.version < f.version
        PROVE  e.pos < f.pos
    BY <1>6, <2>1, <2>3, <2>5, <2>6, <2>8
  <2> QED
    BY <2>7, <2>8
<1> QED
  BY <1>9, <1>10, <1>11, EventsAfter

\* The fifth layer is preserved, given that no new holes appear.
LEMMA NextPlaced == Basic /\ NeverAhead /\ NoNewHoles /\ Placed /\ [Next]_vars => Placed'
<1> SUFFICES ASSUME Basic, NeverAhead, NoNewHoles, Placed, [Next]_vars PROVE Placed'
  OBVIOUS
<1>1. CASE \A w \in Workers : ~ Step(w)
  <2>1. UNCHANGED <<leftover, abandoned, events, task>>
    BY <1>1, OtherSteps DEF Next, StartContention, Stop, Report, Done, vars, Step
  <2> QED
    BY <2>1 DEF Placed, PositionsFollowVersions
<1> QED
  BY <1>1, StepPlaced

\* Where the stream had no holes, the positions of the contention phase follow
\* its versions, although MongoDB takes a position before it knows whether the
\* version is free: of the tasks that do so at one version only one goes on.
THEOREM PositionsAgree == Spec => []PositionsFollowVersions
<1>1. Placed => PositionsFollowVersions
  BY DEF Placed
<1> QED
  BY <1>1, BasicHolds, InitAhead, NextAhead, HolesAreOld, InitPlaced, NextPlaced, PTL DEF Spec
-----------------------------------------------------------------------------
(* Balanced.                                                               *)

\* A step of one worker lets it join or leave the three sets, no other.
LEMMA SetsAfter ==
  ASSUME Basic, NEW w \in Workers, Step(w)
  PROVE  /\ Active' \ {w} = Active \ {w} /\ IsFiniteSet(Active)
         /\ Won' \ {w} = Won \ {w} /\ IsFiniteSet(Won)
         /\ Beaten' \ {w} = Beaten \ {w} /\ IsFiniteSet(Beaten)
<1>1. \A u \in Workers : u # w => task'[u] = task[u]
  BY StepFrame
<1>2. IsFiniteSet(Active) /\ IsFiniteSet(Won) /\ IsFiniteSet(Beaten)
  BY WorkersAssumption, FS_Subset DEF Active, Won, Beaten
<1>3. Active' \ {w} = Active \ {w}
  BY <1>1 DEF Active
<1>4. Won' \ {w} = Won \ {w}
  BY <1>1 DEF Won
<1>5. Beaten' \ {w} = Beaten \ {w}
  BY <1>1 DEF Beaten
<1> QED
  BY <1>2, <1>3, <1>4, <1>5

\* All counters and all sets of workers start empty.
LEMMA InitBalanced == Init => Balanced
<1> SUFFICES ASSUME Init PROVE Balanced
  OBVIOUS
<1>1. Active = {} /\ Won = {} /\ Beaten = {}
  BY DEF Init, Active, Won, Beaten, Racing, Idle
<1>2. Cardinality(Active) = 0 /\ Cardinality(Won) = 0 /\ Cardinality(Beaten) = 0
  BY <1>1, FS_EmptySet
<1>3. /\ n.hot = 0 /\ n.cold = 0 /\ n.spawned = 0 /\ n.total = 0 /\ n.failed = 0 /\ n.brokeOff = 0
      /\ n.stored = 0 /\ n.unacknowledged = 0 /\ n.retrySuccesses = 0 /\ n.conflicts = 0
  BY DEF Init, Counters
<1> QED
  BY <1>2, <1>3 DEF Balanced

\* What each step has to show of the counters: they change as the sets do.
LEMMA CountersAreNumbers ==
  ASSUME Basic, Basic'
  PROVE  /\ n.hot \in Nat /\ n.cold \in Nat /\ n.spawned \in Nat /\ n.total \in Nat
         /\ n.failed \in Nat /\ n.brokeOff \in Nat /\ n.stored \in Nat /\ n.unacknowledged \in Nat
         /\ n.retrySuccesses \in Nat /\ n.conflicts \in Nat
         /\ n'.hot \in Nat /\ n'.cold \in Nat /\ n'.spawned \in Nat /\ n'.total \in Nat
         /\ n'.failed \in Nat /\ n'.brokeOff \in Nat /\ n'.stored \in Nat /\ n'.unacknowledged \in Nat
         /\ n'.retrySuccesses \in Nat /\ n'.conflicts \in Nat
<1>1. \A k \in Counters : n[k] \in Nat /\ n'[k] \in Nat
  BY DEF Basic, TypeOK
<1> QED
  BY <1>1 DEF Counters

\* Hot and cold tasks are all the tasks.
LEMMA KindsSum ==
  ASSUME Basic, Basic', Balanced,
         (n'.hot - n.hot) + (n'.cold - n.cold) = n'.spawned - n.spawned
  PROVE  n'.hot + n'.cold = n'.spawned
<1>1. n.hot + n.cold = n.spawned
  BY DEF Balanced
<1> QED
  BY <1>1, CountersAreNumbers

\* A task is counted as a success or a failure, or is still under way; one
\* that broke off is counted twice.
LEMMA ActiveSum ==
  ASSUME Basic, Basic', NEW w \in Workers, Step(w), Balanced, NEW a \in {-1, 0, 1},
         a = (IF w \in Active' THEN 1 ELSE 0) - (IF w \in Active THEN 1 ELSE 0),
         (n'.spawned - n.spawned) + (n'.brokeOff - n.brokeOff)
           = (n'.total - n.total) + (n'.failed - n.failed) + a
  PROVE  n'.spawned + n'.brokeOff = n'.total + n'.failed + Cardinality(Active')
<1>1. Cardinality(Active) \in Nat /\ Cardinality(Active') = Cardinality(Active) + a
  BY SetsAfter, OneJoinsOrLeaves
<1>2. n.spawned + n.brokeOff = n.total + n.failed + Cardinality(Active)
  BY DEF Balanced
<1>3. /\ n.spawned \in Int /\ n.brokeOff \in Int /\ n.total \in Int /\ n.failed \in Int
      /\ n'.spawned \in Int /\ n'.brokeOff \in Int /\ n'.total \in Int /\ n'.failed \in Int
      /\ a \in Int /\ Cardinality(Active) \in Int
  BY <1>1, CountersAreNumbers
<1> QED
  BY <1>1, <1>2, <1>3

\* A stored event is acknowledged, lost its acknowledgement, or waits to be
\* counted.
LEMMA WonSum ==
  ASSUME Basic, Basic', NEW w \in Workers, Step(w), Balanced, NEW b \in {-1, 0, 1},
         b = (IF w \in Won' THEN 1 ELSE 0) - (IF w \in Won THEN 1 ELSE 0),
         n'.stored - n.stored = (n'.total - n.total) + (n'.unacknowledged - n.unacknowledged) + b
  PROVE  n'.stored = n'.total + n'.unacknowledged + Cardinality(Won')
<1>1. Cardinality(Won) \in Nat /\ Cardinality(Won') = Cardinality(Won) + b
  BY SetsAfter, OneJoinsOrLeaves
<1>2. n.stored = n.total + n.unacknowledged + Cardinality(Won)
  BY DEF Balanced
<1>3. /\ n.stored \in Int /\ n.total \in Int /\ n.unacknowledged \in Int
      /\ n'.stored \in Int /\ n'.total \in Int /\ n'.unacknowledged \in Int
      /\ b \in Int /\ Cardinality(Won) \in Int
  BY <1>1, CountersAreNumbers
<1>4. n'.stored - n.stored
        = (n'.total - n.total) + (n'.unacknowledged - n.unacknowledged)
          + (Cardinality(Won') - Cardinality(Won))
  BY <1>1, <1>3
<1> QED
  BY <1>1, <1>2, <1>3, <1>4

\* A conflict is counted before the success after it.
LEMMA BeatenSum ==
  ASSUME Basic, Basic', NEW w \in Workers, Step(w), Balanced, NEW c \in {-1, 0, 1},
         c = (IF w \in Beaten' THEN 1 ELSE 0) - (IF w \in Beaten THEN 1 ELSE 0),
         (n'.retrySuccesses - n.retrySuccesses) + c <= n'.conflicts - n.conflicts
  PROVE  n'.retrySuccesses + Cardinality(Beaten') <= n'.conflicts
<1>1. Cardinality(Beaten) \in Nat /\ Cardinality(Beaten') = Cardinality(Beaten) + c
  BY SetsAfter, OneJoinsOrLeaves
<1>2. n.retrySuccesses + Cardinality(Beaten) <= n.conflicts
  BY DEF Balanced
<1> QED
  BY <1>1, <1>2, CountersAreNumbers

\* The five counters that make the sums; the others do not matter here.
LEMMA CountedAre ==
  ASSUME Basic, NEW set, n' = Count(set)
  PROVE  \A k \in Counters : n'[k] = IF k \in set THEN n[k] + 1 ELSE n[k]
BY DEF Basic, TypeOK, Count

\* A step of a worker, from what it does to the sets and to the counters.
LEMMA BalancedStep ==
  ASSUME Basic, Basic', NEW w \in Workers, Step(w), Balanced,
         NEW a \in {-1, 0, 1}, NEW b \in {-1, 0, 1}, NEW c \in {-1, 0, 1},
         a = (IF w \in Active' THEN 1 ELSE 0) - (IF w \in Active THEN 1 ELSE 0),
         b = (IF w \in Won' THEN 1 ELSE 0) - (IF w \in Won THEN 1 ELSE 0),
         c = (IF w \in Beaten' THEN 1 ELSE 0) - (IF w \in Beaten THEN 1 ELSE 0),
         (n'.hot - n.hot) + (n'.cold - n.cold) = n'.spawned - n.spawned,
         (n'.spawned - n.spawned) + (n'.brokeOff - n.brokeOff)
           = (n'.total - n.total) + (n'.failed - n.failed) + a,
         n'.stored - n.stored = (n'.total - n.total) + (n'.unacknowledged - n.unacknowledged) + b,
         (n'.retrySuccesses - n.retrySuccesses) + c <= n'.conflicts - n.conflicts
  PROVE  Balanced'
BY KindsSum, ActiveSum, WonSum, BeatenSum DEF Balanced

\* One case for each step of a task, by what it does to the sets and the
\* counters.
LEMMA StepBalanced ==
  ASSUME Basic, Basic', Balanced, NEW w \in Workers, Step(w)
  PROVE  Balanced'
<1>1. /\ w \in Active <=> task[w].pc \in Racing \cup {"cold"}
      /\ w \in Won <=> task[w].pc = "won"
      /\ w \in Beaten <=> task[w].pc \in Racing /\ (task[w].attempt > 0 \/ task[w].pc \in {"conflict", "reread"})
      /\ w \in Active' <=> task'[w].pc \in Racing \cup {"cold"}
      /\ w \in Won' <=> task'[w].pc = "won"
      /\ w \in Beaten' <=> task'[w].pc \in Racing /\ (task'[w].attempt > 0 \/ task'[w].pc \in {"conflict", "reread"})
  BY DEF Active, Won, Beaten
<1>2. task[w].attempt \in Nat
  BY RetriesAssumption DEF Basic, TypeOK, Task
<1>3. Finish(w) => w \notin Active' /\ w \notin Won' /\ w \notin Beaten'
  BY <1>1, TaskAfter DEF Idle, Racing
<1>4. CASE Baseline(w)
  <2>1. /\ w \notin Active /\ w \notin Won /\ w \notin Beaten
        /\ w \notin Active' /\ w \notin Won' /\ w \notin Beaten'
    BY <1>1, <1>4, TaskAfter DEF Baseline, BaselineStatement, BaselineNumber, BaselinePosition,
       BaselineInsert, BaselineFail, Racing, Numbering
  <2>2. n' = Count({"baseline"}) \/ UNCHANGED n
    BY <1>4 DEF Baseline
  <2>3. /\ n'.hot = n.hot /\ n'.cold = n.cold /\ n'.spawned = n.spawned /\ n'.total = n.total
        /\ n'.failed = n.failed /\ n'.stored = n.stored /\ n'.unacknowledged = n.unacknowledged
        /\ n'.brokeOff = n.brokeOff
        /\ n'.retrySuccesses = n.retrySuccesses /\ n'.conflicts = n.conflicts
    BY <2>2, CountedAre DEF Counters
  <2> QED
    BY <2>1, <2>3, BalancedStep, CountersAreNumbers
<1>5. CASE Spawn(w)
  <2>1. w \notin Active /\ w \notin Won /\ w \notin Beaten
    BY <1>1, <1>5 DEF Spawn, Racing
  <2>2. w \in Active' /\ w \notin Won' /\ w \notin Beaten'
    BY <1>1, <1>5, TaskAfter DEF Racing
  <2>3. n' = Count({"spawned", "cold"}) \/ n' = Count({"spawned", "hot"})
    BY <1>5, TaskAfter
  <2>4. /\ n'.spawned = n.spawned + 1
        /\ \/ n'.cold = n.cold + 1 /\ n'.hot = n.hot
           \/ n'.hot = n.hot + 1 /\ n'.cold = n.cold
        /\ n'.total = n.total
        /\ n'.failed = n.failed /\ n'.stored = n.stored /\ n'.unacknowledged = n.unacknowledged
        /\ n'.brokeOff = n.brokeOff
        /\ n'.retrySuccesses = n.retrySuccesses /\ n'.conflicts = n.conflicts
    BY <2>3, CountedAre DEF Counters
  <2> QED
    BY <2>1, <2>2, <2>4, BalancedStep, CountersAreNumbers
<1>6. CASE ColdWrite(w)
  <2>1. w \in Active /\ w \notin Won /\ w \notin Beaten
    BY <1>1, <1>6 DEF ColdWrite, Racing
  <2>2. w \notin Active' /\ w \notin Won' /\ w \notin Beaten'
    BY <1>3, <1>6 DEF ColdWrite
  <2>3. \/ n' = Count({"total", "stored"}) \/ n' = Count({"failed"})
        \/ n' = Count({"failed", "stored", "unacknowledged"})
    BY <1>6 DEF ColdWrite
  <2>4. /\ n'.hot = n.hot /\ n'.cold = n.cold /\ n'.spawned = n.spawned
        /\ \/ /\ n'.total = n.total + 1 /\ n'.failed = n.failed
              /\ n'.stored = n.stored + 1 /\ n'.unacknowledged = n.unacknowledged
           \/ /\ n'.total = n.total /\ n'.failed = n.failed + 1
              /\ n'.stored = n.stored /\ n'.unacknowledged = n.unacknowledged
           \/ /\ n'.total = n.total /\ n'.failed = n.failed + 1
              /\ n'.stored = n.stored + 1 /\ n'.unacknowledged = n.unacknowledged + 1
        /\ n'.brokeOff = n.brokeOff
        /\ n'.retrySuccesses = n.retrySuccesses /\ n'.conflicts = n.conflicts
    BY <2>3, CountedAre DEF Counters
  <2> QED
    BY <2>1, <2>2, <2>4, BalancedStep, CountersAreNumbers
\* Steps that move a racing task on, counting nothing that matters here.
<1>7. CASE Load(w) \/ TakePosition(w) \/ Reread(w)
  <2>1. UNCHANGED n
    BY <1>7 DEF Load, TakePosition, Reread
  <2>2. \/ task[w].pc \in {"start", "loaded"} /\ task'[w].pc \in {"loaded", "sequenced"}
        \/ task[w].pc = "conflict" /\ task'[w].pc = "reread"
    BY <1>7, TaskAfter DEF Load, TakePosition, Reread
  <2>3. task'[w].attempt = task[w].attempt
    BY <1>7, TaskAfter
  <2>4. /\ w \in Active /\ w \notin Won /\ w \in Active' /\ w \notin Won'
        /\ w \in Beaten <=> w \in Beaten'
    BY <1>1, <2>2, <2>3 DEF Racing
  <2> QED
    BY <2>1, <2>4, BalancedStep, CountersAreNumbers
<1>8. CASE AppendHot(w)
  <2>1. task[w].pc \in {"loaded", "sequenced"}
    BY <1>8 DEF AppendHot, AtDatabase
  <2>2. task'[w].pc = "won" /\ task'[w].attempt = task[w].attempt
    BY <1>8, TaskAfter
  <2>3. /\ w \in Active /\ w \notin Won /\ w \in Active' /\ w \in Won'
        /\ w \in Beaten <=> w \in Beaten'
    BY <1>1, <2>1, <2>2 DEF Racing
  <2>4. n' = Count({"stored"})
    BY <1>8 DEF AppendHot
  <2>5. /\ n'.hot = n.hot /\ n'.cold = n.cold /\ n'.spawned = n.spawned /\ n'.total = n.total
        /\ n'.failed = n.failed /\ n'.stored = n.stored + 1 /\ n'.unacknowledged = n.unacknowledged
        /\ n'.brokeOff = n.brokeOff
        /\ n'.retrySuccesses = n.retrySuccesses /\ n'.conflicts = n.conflicts
    BY <2>4, CountedAre DEF Counters
  <2> QED
    BY <2>3, <2>5, BalancedStep, CountersAreNumbers
<1>9. CASE Conflict(w)
  <2>1. task[w].pc \in {"loaded", "sequenced"}
    BY <1>9 DEF Conflict, AtDatabase
  <2>2. task'[w].pc = "conflict" /\ task'[w].attempt = task[w].attempt
    BY <1>9, TaskAfter
  <2>3. w \in Active /\ w \notin Won /\ w \in Active' /\ w \notin Won' /\ w \in Beaten'
    BY <1>1, <2>1, <2>2 DEF Racing
  <2>4. n' = Count({"conflicts", "retries"})
    BY <1>9 DEF Conflict
  <2>5. /\ n'.hot = n.hot /\ n'.cold = n.cold /\ n'.spawned = n.spawned /\ n'.total = n.total
        /\ n'.failed = n.failed /\ n'.stored = n.stored /\ n'.unacknowledged = n.unacknowledged
        /\ n'.brokeOff = n.brokeOff
        /\ n'.retrySuccesses = n.retrySuccesses /\ n'.conflicts = n.conflicts + 1
    BY <2>4, CountedAre DEF Counters
  <2> QED
    BY <2>3, <2>5, BalancedStep, CountersAreNumbers
<1>10. ASSUME NEW lost \in {0, 1}, GiveUp(w, lost), task[w].pc \in {"loaded", "sequenced"}
       PROVE  Balanced'
  <2>1. w \in Active /\ w \notin Won
    BY <1>1, <1>10 DEF Racing
  <2>2. w \notin Active' /\ w \notin Won' /\ w \notin Beaten'
    BY <1>3, <1>10 DEF GiveUp
  <2>3. /\ n'.hot = n.hot /\ n'.cold = n.cold /\ n'.spawned = n.spawned /\ n'.total = n.total
        /\ n'.failed = n.failed + 2 /\ n'.stored = n.stored + lost
        /\ n'.unacknowledged = n.unacknowledged + lost
        /\ n'.brokeOff = n.brokeOff + 1
        /\ n'.retrySuccesses = n.retrySuccesses /\ n'.conflicts = n.conflicts
    <3>1. \A k \in Counters : n[k] \in Nat
      BY DEF Basic, TypeOK
    <3> QED
      BY <1>10, <3>1 DEF GiveUp, Counters
  <2>4. CASE lost = 0
    <3>1. n'.stored = n.stored /\ n'.unacknowledged = n.unacknowledged
      BY <2>3, <2>4, CountersAreNumbers
    <3>2. /\ n'.hot = n.hot /\ n'.cold = n.cold /\ n'.spawned = n.spawned /\ n'.total = n.total
          /\ n'.failed = n.failed + 2
          /\ n'.brokeOff = n.brokeOff + 1
          /\ n'.retrySuccesses = n.retrySuccesses /\ n'.conflicts = n.conflicts
      BY <2>3
    <3> QED
      BY <2>1, <2>2, <3>1, <3>2, BalancedStep, CountersAreNumbers
  <2>5. CASE lost = 1
    BY <2>1, <2>2, <2>3, <2>5, BalancedStep, CountersAreNumbers
  <2> QED
    BY <2>4, <2>5
<1>11. CASE LoseAck(w) \/ Fail(w)
  BY <1>10, <1>11 DEF LoseAck, AfterLostAck, Fail, AtDatabase
<1>12. CASE Win(w)
  <2>1. w \in Active /\ w \in Won /\ (w \in Beaten <=> task[w].attempt > 0)
    BY <1>1, <1>12 DEF Win, Racing
  <2>2. w \notin Active' /\ w \notin Won' /\ w \notin Beaten'
    BY <1>3, <1>12 DEF Win
  <2>3. /\ n'.hot = n.hot /\ n'.cold = n.cold /\ n'.spawned = n.spawned
        /\ n'.total = n.total + 1 /\ n'.failed = n.failed /\ n'.brokeOff = n.brokeOff
        /\ n'.stored = n.stored /\ n'.unacknowledged = n.unacknowledged
        /\ n'.retrySuccesses = IF task[w].attempt > 0 THEN n.retrySuccesses + 1
                                                     ELSE n.retrySuccesses
        /\ n'.conflicts = n.conflicts
    <3>1. \A k \in Counters : n[k] \in Nat
      BY DEF Basic, TypeOK
    <3> QED
      BY <1>12, <3>1 DEF Win, Counters
  <2> QED
    BY <2>1, <2>2, <2>3, BalancedStep, CountersAreNumbers
<1>13. CASE StoreHint(w) \/ FailReread(w)
  <2>1. NextAttempt(w) /\ task[w].pc \in {"conflict", "reread"}
    BY <1>13 DEF StoreHint, FailReread
  <2>2. w \in Active /\ w \notin Won /\ w \in Beaten
    BY <1>1, <2>1 DEF Racing
  <2>3. CASE task'[w].pc = "start" /\ task'[w].attempt = task[w].attempt + 1 /\ UNCHANGED n
    <3>1. w \in Active' /\ w \notin Won' /\ w \in Beaten'
      BY <1>1, <1>2, <2>3 DEF Racing
    <3> QED
      BY <2>2, <2>3, <3>1, BalancedStep, CountersAreNumbers
  <2>4. CASE task'[w] = Idle /\ n' = Count({"exhausted", "failed"})
    <3>1. w \notin Active' /\ w \notin Won' /\ w \notin Beaten'
      BY <1>1, <2>4 DEF Idle, Racing
    <3>2. /\ n'.hot = n.hot /\ n'.cold = n.cold /\ n'.spawned = n.spawned /\ n'.total = n.total
          /\ n'.failed = n.failed + 1 /\ n'.stored = n.stored
          /\ n'.unacknowledged = n.unacknowledged
          /\ n'.brokeOff = n.brokeOff
          /\ n'.retrySuccesses = n.retrySuccesses /\ n'.conflicts = n.conflicts
      BY <2>4, CountedAre DEF Counters
    <3> QED
      BY <2>2, <3>1, <3>2, BalancedStep, CountersAreNumbers
  <2> QED
    BY <2>1, <2>3, <2>4, TaskAfter
<1> QED
  BY <1>4, <1>5, <1>6, <1>7, <1>8, <1>9, <1>11, <1>12, <1>13 DEF Step, Hot

\* The last layer is preserved, baseline steps included.
LEMMA NextBalanced == Basic /\ Basic' /\ Balanced /\ [Next]_vars => Balanced'
<1> SUFFICES ASSUME Basic, Basic', Balanced, [Next]_vars PROVE Balanced'
  OBVIOUS
<1>1. CASE \A w \in Workers : ~ Step(w)
  <2>1. UNCHANGED <<task, n>>
    BY <1>1, OtherSteps
  <2> QED
    BY <2>1 DEF Balanced, Active, Won, Beaten
<1> QED
  BY <1>1, StepBalanced

\* When the report is made, every task is in it once, or twice if an error that
\* is no conflict ended it; what it counts as written is what was stored and
\* acknowledged, and no more tasks succeeded on a retry than conflicts were
\* counted: acquire_many waits for all of them.
THEOREM ReportAddsUp == Spec => []ReportIsComplete
<1>1. Basic /\ Balanced => ReportIsComplete
  <2> SUFFICES ASSUME Basic, Balanced, phase = "reported" PROVE ReportIsComplete
    BY DEF ReportIsComplete
  <2>1. \A w \in Workers : task[w].pc = "idle"
    BY DEF Basic, Phases, Fits
  <2>2. Active = {} /\ Won = {}
    BY <2>1 DEF Active, Won, Racing
  <2>3. Cardinality(Active) = 0 /\ Cardinality(Won) = 0
    BY <2>2, FS_EmptySet
  <2>4. Cardinality(Beaten) \in Nat
    BY WorkersAssumption, FS_Subset, FS_CardinalityType DEF Beaten
  <2>5. \A k \in Counters : n[k] \in Nat
    BY DEF Basic, TypeOK
  <2>6. /\ n.total \in Nat /\ n.failed \in Nat /\ n.brokeOff \in Nat /\ n.unacknowledged \in Nat
        /\ n.retrySuccesses \in Nat /\ n.conflicts \in Nat /\ n.stored \in Nat
    BY <2>5 DEF Counters
  <2>7. n.spawned + n.brokeOff = n.total + n.failed /\ n.total + n.unacknowledged = n.stored
    BY <2>3, <2>6 DEF Balanced
  <2>8. n.retrySuccesses <= n.conflicts
    BY <2>4, <2>6 DEF Balanced
  <2> QED
    BY <2>7, <2>8 DEF Balanced, ReportIsComplete
<1> QED
  BY <1>1, BasicHolds, InitBalanced, NextBalanced, PTL DEF Spec
====
