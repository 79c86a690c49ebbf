------------------------- MODULE PgEventStore_proofs -------------------------
(***************************************************************************)
(* Safety of PgEventStore for any streams, calls, pool and position range. *)
(*                                                                         *)
(* The properties are not inductive by themselves: that the versions of a  *)
(* stream have no gap rests on the counter value a transaction has read    *)
(* being still the committed one when it commits, which rests on at most   *)
(* one transaction holding the counter row.  Inv adds these two facts, the *)
(* places the position of an uncommitted event can take, and that an event *)
(* stays what its transaction wrote.                                       *)
(***************************************************************************)
EXTENDS PgEventStore, TLAPS

Committed == {"ok", "unknown"}
Written   == {"inserted", "outboxed"}

\* A transaction past the UPSERT is alone on its stream's counter row ...
OneHolder ==
  \A c, d \in Calls :
    /\ pc[c] \in HoldsCounter /\ pc[d] \in HoldsCounter
    /\ call[c].stream = call[d].stream
    => c = d

\* ... so that the value it read back is still the committed counter.
HolderIsCurrent ==
  \A c \in Calls :
    pc[c] \in HoldsCounter => version[c] = streamVersions[call[c].stream]

\* Positions come from the identity sequence and are never issued twice; the
\* position of a row about to commit is past those of its own stream.
PositionsFresh ==
  /\ identity <= MaxPos
  /\ \A e \in events : e.pos <= identity
  /\ \A c \in Calls : pc[c] \in Written =>
       /\ pos[c] <= identity
       /\ \A e \in events : e.pos # pos[c] /\ (e.stream = call[c].stream => e.pos < pos[c])
  /\ \A c, d \in Calls : pc[c] \in Written /\ pc[d] \in Written /\ c # d => pos[c] # pos[d]

\* The table holds exactly the events of the committed calls, unaltered.
EventsOfCalls ==
  /\ \A e \in events : pc[e.id] \in Committed /\ e = NewEvent(e.id)
  /\ \A c \in Calls : pc[c] \in Committed => NewEvent(c) \in events

OutboxedWhenAsked == \A c \in Calls : pc[c] = "outboxed" => call[c].outbox

Inv ==
  /\ TypeOK
  /\ OneHolder
  /\ HolderIsCurrent
  /\ PositionsFresh
  /\ EventsOfCalls
  /\ OutboxedWhenAsked
  /\ OutboxAtomic
  /\ StreamsGapless
  /\ NoConflict
  /\ RehydrateSeesPrefix
-----------------------------------------------------------------------------
\* The empty store satisfies the invariant.
LEMMA InitInv == Init => Inv
<1> SUFFICES ASSUME Init PROVE Inv
  OBVIOUS
<1>1. TypeOK
  BY MaxPosAssumption DEF Init, TypeOK, Request, View, Unread
<1>2. OneHolder /\ HolderIsCurrent /\ OutboxedWhenAsked /\ NoConflict
  BY DEF Init, OneHolder, HolderIsCurrent, OutboxedWhenAsked, NoConflict, HoldsCounter
<1>3. PositionsFresh /\ EventsOfCalls
  BY MaxPosAssumption DEF Init, PositionsFresh, EventsOfCalls, Written, Committed
<1>4. OutboxAtomic
  BY DEF Init, OutboxAtomic
<1>5. StreamsGapless
  <2>1. \A s \in Streams : VersionsOf(s) = {} /\ 0 .. (streamVersions[s] - 1) = {}
    BY DEF Init, VersionsOf
  <2> QED
    BY <2>1 DEF Init, StreamsGapless
<1>6. RehydrateSeesPrefix
  <2>1. 0 .. -1 = {}
    OBVIOUS
  <2> QED
    BY <2>1 DEF Init, RehydrateSeesPrefix, Unread
<1> QED
  BY <1>1, <1>2, <1>3, <1>4, <1>5, <1>6 DEF Inv

\* What a step that leaves the tables alone has to check.
LEMMA TablesAlone ==
  ASSUME Inv, UNCHANGED <<tables, call, view>>
  PROVE  StreamsGapless' /\ RehydrateSeesPrefix' /\ OutboxAtomic'
<1>1. \A s \in Streams : VersionsOf(s)' = VersionsOf(s)
  BY DEF VersionsOf, tables
<1>2. \A e : RowOf(e)' = RowOf(e)
  BY DEF RowOf
<1> QED
  BY <1>1, <1>2 DEF Inv, StreamsGapless, RehydrateSeesPrefix, OutboxAtomic, tables

\* Taking a connection (pool.begin) disturbs nothing.
LEMMA BeginInv ==
  ASSUME Inv, NEW c \in Calls, Begin(c)
  PROVE  Inv'
<1> USE DEF Inv, Begin, tables
<1>1. TypeOK'
  BY DEF TypeOK, InTx
<1>2. OneHolder' /\ HolderIsCurrent' /\ OutboxedWhenAsked' /\ NoConflict'
  BY DEF TypeOK, OneHolder, HolderIsCurrent, OutboxedWhenAsked, NoConflict, HoldsCounter
<1>3. PositionsFresh' /\ EventsOfCalls'
  BY DEF TypeOK, PositionsFresh, EventsOfCalls, Written, Committed, NewEvent
<1> QED
  BY <1>1, <1>2, <1>3, TablesAlone

\* The UPSERT: the caller becomes the one holder of its counter row and has
\* the committed counter in hand.
LEMMA BumpVersionInv ==
  ASSUME Inv, NEW c \in Calls, BumpVersion(c)
  PROVE  Inv'
<1> USE DEF Inv, BumpVersion, tables, NextVersion
<1>1. TypeOK'
  BY DEF TypeOK, InTx, Request
<1>2. OneHolder'
  BY DEF TypeOK, OneHolder, CounterLocked, HoldsCounter
<1>3. HolderIsCurrent' /\ OutboxedWhenAsked' /\ NoConflict'
  BY DEF TypeOK, HolderIsCurrent, OutboxedWhenAsked, NoConflict, HoldsCounter
<1>4. PositionsFresh'
  BY DEF TypeOK, PositionsFresh, Written
<1>5. EventsOfCalls'
  BY DEF TypeOK, EventsOfCalls, Event, Committed, NewEvent
<1> QED
  BY <1>1, <1>2, <1>3, <1>4, <1>5, TablesAlone

\* The INSERT meets no row with its key: the versions of the stream stop
\* short of the counter it has read.
LEMMA InsertEventInv ==
  ASSUME Inv, NEW c \in Calls, InsertEvent(c)
  PROVE  Inv'
<1> USE DEF Inv, InsertEvent, tables
<1>1. ~ KeyTaken(c)
  <2>1. pc[c] \in HoldsCounter
    BY DEF HoldsCounter
  <2>2. version[c] = streamVersions[call[c].stream] /\ call[c].stream \in Streams
    BY <2>1 DEF HolderIsCurrent, TypeOK, Request
  <2>3. VersionsOf(call[c].stream) = 0 .. (version[c] - 1)
    BY <2>2 DEF StreamsGapless
  <2>4. version[c] \notin VersionsOf(call[c].stream)
    BY <2>3 DEF TypeOK
  <2> QED
    BY <2>4 DEF KeyTaken, VersionsOf
<1>2. pc' = [pc EXCEPT ![c] = "inserted"]
  BY <1>1
<1>3. TypeOK'
  BY <1>2 DEF TypeOK, InTx
<1>4. OneHolder' /\ HolderIsCurrent' /\ OutboxedWhenAsked' /\ NoConflict'
  BY <1>2 DEF TypeOK, OneHolder, HolderIsCurrent, OutboxedWhenAsked, NoConflict, HoldsCounter
<1>5. PositionsFresh'
  <2>1. identity' <= MaxPos /\ \A e \in events' : e.pos <= identity'
    BY MaxPosAssumption DEF PositionsFresh, TypeOK, Event
  <2>2. \A d \in Calls : pc'[d] \in Written =>
          /\ pos'[d] <= identity'
          /\ \A e \in events' : e.pos # pos'[d] /\ (e.stream = call'[d].stream => e.pos < pos'[d])
    BY <1>2 DEF PositionsFresh, TypeOK, Event, Written
  <2>3. \A d, f \in Calls : pc'[d] \in Written /\ pc'[f] \in Written /\ d # f => pos'[d] # pos'[f]
    BY <1>2 DEF PositionsFresh, TypeOK, Written
  <2> QED
    BY <2>1, <2>2, <2>3 DEF PositionsFresh
<1>6. EventsOfCalls'
  BY <1>2 DEF TypeOK, EventsOfCalls, Event, Committed, NewEvent
<1> QED
  BY <1>3, <1>4, <1>5, <1>6, TablesAlone

\* The outbox INSERT is private to the transaction.
LEMMA InsertOutboxInv ==
  ASSUME Inv, NEW c \in Calls, InsertOutbox(c)
  PROVE  Inv'
<1> USE DEF Inv, InsertOutbox, tables
<1>1. TypeOK'
  BY DEF TypeOK, InTx
<1>2. OneHolder' /\ HolderIsCurrent' /\ OutboxedWhenAsked' /\ NoConflict'
  BY DEF TypeOK, OneHolder, HolderIsCurrent, OutboxedWhenAsked, NoConflict, HoldsCounter
<1>3. PositionsFresh'
  BY DEF TypeOK, PositionsFresh, Written
<1>4. EventsOfCalls'
  BY DEF TypeOK, EventsOfCalls, Event, Committed, NewEvent
<1> QED
  BY <1>1, <1>2, <1>3, <1>4, TablesAlone
\* The event added by a commit takes the next version of its stream, and its
\* row enters the outbox in the same step.
LEMMA CommitInv ==
  ASSUME Inv, NEW c \in Calls, Commit(c)
  PROVE  Inv'
<1> DEFINE s == call[c].stream
<1> DEFINE n == NewEvent(c)
<1> USE DEF Inv, tables
<1>1. /\ pc[c] \in HoldsCounter /\ pc[c] \in Written
      /\ pc[c] = "outboxed" <=> call[c].outbox
  BY DEF Commit, ReadyToCommit, HoldsCounter, Written, OutboxedWhenAsked, TypeOK, Request
<1>2. s \in Streams /\ version[c] = streamVersions[s] /\ version[c] \in Nat /\ pos[c] \in Nat
  BY <1>1 DEF HolderIsCurrent, TypeOK, Request
<1>3. PICK result \in Committed : pc' = [pc EXCEPT ![c] = result]
  BY DEF Commit, Committed
<1>4. n = [id |-> c, stream |-> s, version |-> streamVersions[s], pos |-> pos[c]]
  BY <1>2 DEF NewEvent
<1>5. /\ events' = events \cup {n}
      /\ streamVersions' = [streamVersions EXCEPT ![s] = version[c] + 1]
      /\ UNCHANGED <<call, version, pos, identity, view>>
  BY DEF Commit
<1>6. \A e \in events : e.id # c
  BY <1>1 DEF EventsOfCalls, Committed, Written
<1>7. TypeOK'
  <2>1. n \in Event /\ RowOf(n) \in Row
    BY <1>2, <1>4 DEF Event, Row, RowOf
  <2>2. events' \subseteq Event /\ outbox' \subseteq Row
    BY <2>1, <1>5 DEF Commit, TypeOK
  <2> QED
    BY <2>2, <1>2, <1>3, <1>5 DEF TypeOK, Committed, Done
<1>8. OneHolder' /\ OutboxedWhenAsked' /\ NoConflict'
  BY <1>3, <1>5 DEF TypeOK, OneHolder, OutboxedWhenAsked, NoConflict, HoldsCounter, Committed
<1>9. HolderIsCurrent'
  <2> SUFFICES ASSUME NEW d \in Calls, pc'[d] \in HoldsCounter
               PROVE  version'[d] = streamVersions'[call'[d].stream]
    BY DEF HolderIsCurrent
  <2>1. d # c /\ pc[d] \in HoldsCounter
    BY <1>3 DEF TypeOK, HoldsCounter, Committed
  <2>2. call[d].stream # s /\ call[d].stream \in Streams
    BY <2>1, <1>1 DEF OneHolder, TypeOK, Request
  <2> QED
    BY <2>1, <2>2, <1>5 DEF HolderIsCurrent, TypeOK
<1>10. PositionsFresh'
  <2>1. \A e \in events' : e.pos <= identity'
    BY <1>1, <1>4, <1>5 DEF PositionsFresh
  <2>2. ASSUME NEW d \in Calls, pc'[d] \in Written
        PROVE  /\ pos'[d] <= identity'
               /\ \A e \in events' : e.pos # pos'[d] /\ (e.stream = call'[d].stream => e.pos < pos'[d])
    <3>1. d # c /\ pc[d] \in Written
      BY <2>2, <1>3 DEF TypeOK, Written, Committed
    <3>2. call[d].stream # s /\ pos[c] # pos[d]
      BY <3>1, <1>1 DEF OneHolder, HoldsCounter, Written, PositionsFresh
    <3> QED
      BY <3>1, <3>2, <1>4, <1>5 DEF PositionsFresh
  <2>3. \A d, f \in Calls : pc'[d] \in Written /\ pc'[f] \in Written /\ d # f => pos'[d] # pos'[f]
    BY <1>3, <1>5 DEF PositionsFresh, TypeOK, Written, Committed
  <2> QED
    BY <2>1, <2>2, <2>3, <1>5 DEF PositionsFresh
<1>11. EventsOfCalls'
  <2>1. \A d \in Calls : NewEvent(d)' = NewEvent(d)
    BY <1>5 DEF NewEvent
  <2>2. \A e \in events' : e.id \in Calls /\ pc'[e.id] \in Committed /\ e = NewEvent(e.id)
    BY <1>3, <1>4, <1>5, <1>6 DEF EventsOfCalls, TypeOK, Event
  <2>3. \A d \in Calls : pc'[d] \in Committed => NewEvent(d) \in events'
    BY <1>3, <1>5 DEF EventsOfCalls, TypeOK
  <2> QED
    BY <2>1, <2>2, <2>3 DEF EventsOfCalls
<1>12. OutboxAtomic'
  <2> DEFINE asked == {x \in events : call[x.id].outbox}
  <2>1. {x \in events' : call'[x.id].outbox} = IF call[c].outbox THEN asked \cup {n} ELSE asked
    BY <1>4, <1>5 DEF TypeOK, Request
  <2>2. outbox' = IF call[c].outbox THEN outbox \cup {RowOf(n)} ELSE outbox
    BY <1>1 DEF Commit
  <2>3. \A e : RowOf(e)' = RowOf(e)
    BY DEF RowOf
  <2>4. {RowOf(e) : e \in asked \cup {n}} = {RowOf(e) : e \in asked} \cup {RowOf(n)}
    OBVIOUS
  <2> QED
    BY <2>1, <2>2, <2>3, <2>4 DEF OutboxAtomic
<1>13. StreamsGapless'
  <2>1. \A r \in Streams : VersionsOf(r)' = IF r = s THEN VersionsOf(r) \cup {streamVersions[s]}
                                                     ELSE VersionsOf(r)
    BY <1>4, <1>5 DEF VersionsOf
  <2>2. ASSUME NEW r \in Streams
        PROVE  VersionsOf(r)' = 0 .. (streamVersions'[r] - 1)
    <3>1. CASE r = s
      <4>1. streamVersions'[r] = streamVersions[s] + 1 /\ streamVersions[s] \in Nat
        BY <3>1, <1>2, <1>5 DEF TypeOK
      <4>2. VersionsOf(r)' = (0 .. (streamVersions[s] - 1)) \cup {streamVersions[s]}
        BY <3>1, <2>1, <1>2 DEF StreamsGapless
      <4> QED
        BY <4>1, <4>2
    <3>2. CASE r # s
      BY <3>2, <2>1, <1>2, <1>5 DEF StreamsGapless, TypeOK
    <3> QED
      BY <3>1, <3>2
  <2>3. \A e \in events : e.stream = s => e.version # streamVersions[s]
    <3>1. streamVersions[s] \notin VersionsOf(s)
      BY <1>2 DEF StreamsGapless, TypeOK
    <3> QED
      BY <3>1 DEF VersionsOf
  <2>4. \A e, f \in events' : e.stream = f.stream /\ e.version = f.version => e = f
    BY <2>3, <1>4, <1>5 DEF StreamsGapless
  <2> QED
    BY <2>2, <2>4 DEF StreamsGapless
<1>14. RehydrateSeesPrefix'
  <2> SUFFICES ASSUME NEW r \in Streams
               PROVE  /\ view[r].last < streamVersions'[r]
                      /\ view[r].applied \cup view[r].skipped = 0 .. view[r].last
                      /\ \A e \in events' : e.stream = r /\ e.version <= view[r].last =>
                           e.version \in IF e.id \in Unreadable THEN view[r].skipped \ view[r].applied
                                                                ELSE view[r].applied \ view[r].skipped
    BY <1>5 DEF RehydrateSeesPrefix
  <2>1. streamVersions[r] \in Nat /\ view[r].last \in Nat \cup {-1}
    BY DEF TypeOK, View
  <2>2. streamVersions'[r] = IF r = s THEN streamVersions[s] + 1 ELSE streamVersions[r]
    BY <1>2, <1>5 DEF TypeOK
  <2>3. view[r].last < streamVersions[r]
    BY DEF RehydrateSeesPrefix
  <2>4. n.stream = r => ~ (n.version <= view[r].last)
    BY <1>2, <1>4, <2>1, <2>3
  <2>5. view[r].last < streamVersions'[r]
    BY <1>2, <2>1, <2>2, <2>3
  <2>6. \A e \in events' : e.stream = r /\ e.version <= view[r].last => e \in events
    BY <1>5, <2>4
  <2> QED
    BY <2>5, <2>6 DEF RehydrateSeesPrefix
<1> QED
  BY <1>7, <1>8, <1>9, <1>10, <1>11, <1>12, <1>13, <1>14

\* A rollback leaves every table as it was and lets go of the counter row.
LEMMA FailInv ==
  ASSUME Inv, NEW c \in Calls, Fail(c)
  PROVE  Inv'
<1> USE DEF Inv, Fail, tables
<1>1. TypeOK'
  BY DEF TypeOK, Done
<1>2. OneHolder' /\ HolderIsCurrent' /\ OutboxedWhenAsked' /\ NoConflict'
  BY DEF TypeOK, OneHolder, HolderIsCurrent, OutboxedWhenAsked, NoConflict, HoldsCounter
<1>3. PositionsFresh'
  BY DEF TypeOK, PositionsFresh, Written
<1>4. EventsOfCalls'
  BY DEF TypeOK, EventsOfCalls, Event, Committed, NewEvent, Abortable, InTx
<1> QED
  BY <1>1, <1>2, <1>3, <1>4, TablesAlone

\* A rehydration goes through a gapless stream, so the version of the last row
\* tells its length; the rows are split by what can be read.
LEMMA RehydrateInv ==
  ASSUME Inv, NEW s \in Streams, Rehydrate(s)
  PROVE  Inv'
<1> USE DEF Inv, Rehydrate, tables
<1>1. VersionsOf(s) = 0 .. (streamVersions[s] - 1) /\ streamVersions[s] \in Nat
  BY DEF StreamsGapless, TypeOK
<1>2. LastOf(Reached(s)) = streamVersions[s] - 1
  <2>1. CASE streamVersions[s] = 0
    BY <2>1, <1>1 DEF LastOf, Reached
  <2>2. CASE streamVersions[s] # 0
    <3> DEFINE k == streamVersions[s]
    <3>1. k - 1 \in 0 .. (k - 1) /\ \A w \in 0 .. (k - 1) : w <= k - 1
      BY <2>2, <1>1
    <3>2. \A v \in 0 .. (k - 1) : (\A w \in 0 .. (k - 1) : w <= v) => v = k - 1
      BY <3>1
    <3>3. (CHOOSE v \in 0 .. (k - 1) : \A w \in 0 .. (k - 1) : w <= v) = k - 1
      BY <3>1, <3>2
    <3> QED
      BY <2>2, <1>1, <3>1, <3>3 DEF LastOf, Reached
  <2> QED
    BY <2>1, <2>2
<1>3. /\ AppliedOf(s) \cup SkippedOf(s) = VersionsOf(s)
      /\ \A e \in events : e.stream = s =>
           e.version \in IF e.id \in Unreadable THEN SkippedOf(s) \ AppliedOf(s)
                                                ELSE AppliedOf(s) \ SkippedOf(s)
  BY DEF AppliedOf, SkippedOf, VersionsOf, StreamsGapless
<1> DEFINE v == [applied |-> AppliedOf(s), skipped |-> SkippedOf(s), last |-> streamVersions[s] - 1]
<1>4. view' = [view EXCEPT ![s] = v]
  BY <1>2
<1>5. TypeOK'
  <2>1. v \in View
    BY <1>1, <1>3 DEF View
  <2> QED
    BY <1>4, <2>1 DEF TypeOK
<1>6. RehydrateSeesPrefix'
  <2> SUFFICES ASSUME NEW r \in Streams
               PROVE  /\ view'[r].last < streamVersions[r]
                      /\ view'[r].applied \cup view'[r].skipped = 0 .. view'[r].last
                      /\ \A e \in events : e.stream = r /\ e.version <= view'[r].last =>
                           e.version \in IF e.id \in Unreadable THEN view'[r].skipped \ view'[r].applied
                                                                ELSE view'[r].applied \ view'[r].skipped
    BY DEF RehydrateSeesPrefix
  <2>1. CASE r = s
    <3>1. view'[r] = v
      BY <2>1, <1>4 DEF TypeOK
    <3>2. streamVersions[s] - 1 < streamVersions[s]
      BY <1>1
    <3> QED
      BY <2>1, <3>1, <3>2, <1>1, <1>3
  <2>2. CASE r # s
    <3>1. view'[r] = view[r]
      BY <2>2, <1>4 DEF TypeOK
    <3> QED
      BY <3>1 DEF RehydrateSeesPrefix
  <2> QED
    BY <2>1, <2>2
<1>7. \A r \in Streams : VersionsOf(r)' = VersionsOf(r)
  BY DEF VersionsOf
<1>8. StreamsGapless' /\ OutboxAtomic'
  BY <1>7 DEF StreamsGapless, OutboxAtomic, RowOf
<1>9. OneHolder' /\ HolderIsCurrent' /\ OutboxedWhenAsked' /\ NoConflict'
  BY DEF OneHolder, HolderIsCurrent, OutboxedWhenAsked, NoConflict
<1>10. PositionsFresh' /\ EventsOfCalls'
  BY DEF PositionsFresh, EventsOfCalls, NewEvent
<1> QED
  BY <1>5, <1>6, <1>8, <1>9, <1>10
-----------------------------------------------------------------------------
\* The invariant holds in every reachable state.
THEOREM Invariance == Spec => []Inv
<1>1. Inv /\ [Next]_vars => Inv'
  <2> SUFFICES ASSUME Inv, [Next]_vars PROVE Inv'
    OBVIOUS
  <2>1. ASSUME NEW c \in Calls, Step(c) \/ Fail(c) PROVE Inv'
    BY <2>1, BeginInv, BumpVersionInv, InsertEventInv, InsertOutboxInv, CommitInv, FailInv DEF Step
  <2>2. ASSUME NEW s \in Streams, Rehydrate(s) PROVE Inv'
    BY <2>2, RehydrateInv
  <2>3. CASE UNCHANGED vars
    <3>1. \A r \in Streams : VersionsOf(r)' = VersionsOf(r)
      BY <2>3 DEF VersionsOf, vars, tables
    <3> QED
      BY <2>3, <3>1 DEF vars, tables, Inv, TypeOK, OneHolder, HolderIsCurrent, PositionsFresh,
         EventsOfCalls, NewEvent, OutboxedWhenAsked, OutboxAtomic, RowOf, StreamsGapless,
         NoConflict, RehydrateSeesPrefix
  <2> QED
    BY <2>1, <2>2, <2>3 DEF Next
<1> QED
  BY InitInv, <1>1, PTL DEF Spec
\* Types: every table, call and view keeps its shape.
THEOREM TypeCorrect == Spec => []TypeOK
BY Invariance, PTL DEF Inv

\* Stream versions are gapless and unique for every interleaving of appends.
THEOREM GaplessStreams == Spec => []StreamsGapless
BY Invariance, PTL DEF Inv

\* append never answers ConcurrencyConflict.
THEOREM ConflictNeverReported == Spec => []NoConflict
BY Invariance, PTL DEF Inv

\* An event and its outbox row are written together or not at all.
THEOREM NoDualWrite == Spec => []OutboxAtomic
BY Invariance, PTL DEF Inv

\* rehydrate always goes through a whole prefix of the stream, and the version
\* it returns tells its length, whichever of the events it cannot read.
THEOREM RehydratedPrefix == Spec => []RehydrateSeesPrefix
BY Invariance, PTL DEF Inv

\* Ok means stored as returned; an error before COMMIT means not stored.
THEOREM TruthfulAnswers == Spec => []AnswerIsTruthful
<1>1. Inv => AnswerIsTruthful
  BY DEF Inv, AnswerIsTruthful, EventsOfCalls, Committed
<1> QED
  BY <1>1, Invariance, PTL
-----------------------------------------------------------------------------
\* A commit is an append of the abstract log; every other step is invisible.
LEMMA StepRefines ==
  ASSUME Inv, [Next]_vars
  PROVE  [Log!LogNext]_(Log!logVars)
<1>1. ASSUME NEW c \in Calls, Commit(c) PROVE Log!LogNext
  <2> DEFINE s == call[c].stream
  <2>1. /\ pc[c] \in HoldsCounter /\ pc[c] \in Written
        /\ pc[c] = "outboxed" <=> call[c].outbox
    BY <1>1 DEF Inv, Commit, ReadyToCommit, HoldsCounter, Written, OutboxedWhenAsked, TypeOK, Request
  <2>2. s \in Streams /\ call[c].outbox \in BOOLEAN /\ version[c] = streamVersions[s]
    BY <2>1 DEF Inv, HolderIsCurrent, TypeOK, Request
  <2>3. pos[c] \in 0 .. MaxPos
    BY <2>1, MaxPosAssumption DEF Inv, PositionsFresh, TypeOK
  <2>4. \A e \in events : e.id # c /\ e.pos # pos[c] /\ (e.stream = s => e.pos < pos[c])
    BY <2>1 DEF Inv, PositionsFresh, EventsOfCalls, Committed, Written
  <2>5. NewEvent(c) = [id |-> c, stream |-> s, version |-> streamVersions[s], pos |-> pos[c]]
    BY <2>2 DEF NewEvent
  <2>6. Log!RowOf(NewEvent(c)) = RowOf(NewEvent(c))
    BY DEF RowOf, Log!RowOf
  <2>7. Log!AppendEvent(c, s, pos[c], call[c].outbox)
    BY <1>1, <2>1, <2>2, <2>4, <2>5, <2>6 DEF Commit, Log!AppendEvent, Inv, TypeOK
  <2> QED
    BY <2>2, <2>3, <2>7 DEF Log!LogNext
<1>2. ASSUME NEW c \in Calls, Begin(c) \/ BumpVersion(c) \/ InsertEvent(c) \/ InsertOutbox(c) \/ Fail(c)
      PROVE  UNCHANGED Log!logVars
  BY <1>2 DEF Begin, BumpVersion, InsertEvent, InsertOutbox, Fail, tables, Log!logVars
<1>3. ASSUME NEW s \in Streams, Rehydrate(s) PROVE UNCHANGED Log!logVars
  BY <1>3 DEF Rehydrate, tables, Log!logVars
<1>4. CASE UNCHANGED vars
  BY <1>4 DEF vars, tables, Log!logVars
<1> QED
  BY <1>1, <1>2, <1>3, <1>4 DEF Next, Step

\* The transactions of PgEventStore implement the one-step append of EventLog.
THEOREM Refinement == Spec => ImplementsEventLog
<1>1. Init => Log!LogInit
  BY DEF Init, Log!LogInit
<1>2. Inv /\ [Next]_vars => [Log!LogNext]_(Log!logVars)
  BY StepRefines
<1> QED
  BY <1>1, <1>2, Invariance, PTL DEF Spec, ImplementsEventLog, Log!LogSpec
=============================================================================
