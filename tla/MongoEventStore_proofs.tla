------------------------ MODULE MongoEventStore_proofs ------------------------
(***************************************************************************)
(* Safety of MongoEventStore for any streams and any finite set of calls.  *)
(*                                                                         *)
(* Everything rests on two facts about the open transactions: one at most  *)
(* has written the counter document of a stream, and one at most that of   *)
(* `_global_seq`; what it has read there is still the committed value.     *)
(* Inv adds to them what the committed documents are, and that a refusal   *)
(* has always somebody to blame who is open or has got through.            *)
(***************************************************************************)
EXTENDS MongoEventStore, FiniteSetTheorems, TLAPS

\* A transaction that has written a stream's counter is alone with it and
\* holds the committed version ...
OneWriter ==
  \A c, d \in Calls :
    pc[c] \in Open /\ pc[d] \in Open /\ call[c].stream = call[d].stream => c = d
WriterIsCurrent ==
  \A c \in Calls : pc[c] \in Open => version[c] = streamVersions[call[c].stream]

\* ... and so is one that has written the global counter.
OneSequencer == \A c, d \in Calls : pc[c] \in Sequenced /\ pc[d] \in Sequenced => c = d
SequencerIsCurrent == \A c \in Calls : pc[c] \in Sequenced => pos[c] = globalSeq

\* Snapshots are taken of the past.
SnapshotsArePast == \A c \in Calls : pc[c] = "versioned" => snapshot[c] <= globalSeq

\* The committed documents are exactly those of the committed calls.
EventsOfCalls ==
  /\ \A e \in events : pc[e.id] = "committed" /\ e = NewEvent(e.id)
  /\ \A c \in Calls : pc[c] = "committed" => NewEvent(c) \in events
RowsOfCalls ==
  /\ \A r \in outbox : pc[r.id] = "committed" /\ call[r.id].outbox /\ r = RowOf(NewEvent(r.id))
  /\ \A c \in Calls : pc[c] = "committed" /\ call[c].outbox => RowOf(NewEvent(c)) \in outbox
OutboxedWhenAsked == \A c \in Calls : pc[c] = "outboxed" => call[c].outbox

\* A transaction without an answer, or one the caller has given up.
Answered ==
  /\ \A c \in Calls : answer[c] # "conflict"
  /\ \A c \in Calls : pc[c] \in Open => answer[c] \in {"none", "failed"}

\* Who is refused has met somebody.
SomeoneToBlame ==
  (\E c \in Calls : answer[c] = "refused") =>
    \E c \in Calls : answer[c] \in {"ok", "unknown", "failed"} \/ pc[c] \in Open

Inv ==
  /\ TypeOK /\ IsFiniteSet(events)
  /\ OneWriter /\ WriterIsCurrent
  /\ OneSequencer /\ SequencerIsCurrent /\ SnapshotsArePast
  /\ EventsOfCalls /\ RowsOfCalls /\ OutboxedWhenAsked
  /\ Answered /\ SomeoneToBlame
  /\ StreamsGapless
  /\ RehydrateSeesPrefix

VersionsOf(s) == {e.version : e \in {x \in events : x.stream = s}}
-----------------------------------------------------------------------------
\* The empty store satisfies the invariant.
LEMMA InitInv == Init => Inv
<1> SUFFICES ASSUME Init PROVE Inv
  OBVIOUS
<1>1. TypeOK /\ IsFiniteSet(events)
  BY FS_EmptySet DEF Init, TypeOK, View, Unread, Answers
<1>2. OneWriter /\ WriterIsCurrent /\ OneSequencer /\ SequencerIsCurrent /\ SnapshotsArePast
  BY DEF Init, OneWriter, WriterIsCurrent, OneSequencer, SequencerIsCurrent, SnapshotsArePast,
     Open, Sequenced
<1>3. EventsOfCalls /\ RowsOfCalls /\ OutboxedWhenAsked /\ Answered /\ SomeoneToBlame
  BY DEF Init, EventsOfCalls, RowsOfCalls, OutboxedWhenAsked, Answered, SomeoneToBlame, Open
<1>4. StreamsGapless
  <2>1. 0 .. (0 - 1) = {}
    OBVIOUS
  <2>2. \A s \in Streams : {e.version : e \in {x \in events : x.stream = s}} = {}
    BY DEF Init
  <2>3. {e.pos : e \in events} = {} /\ Cardinality(events) = 0
    BY FS_EmptySet DEF Init
  <2> QED
    BY <2>1, <2>2, <2>3 DEF Init, StreamsGapless
<1>5. RehydrateSeesPrefix
  <2>1. 0 .. -1 = {}
    OBVIOUS
  <2> QED
    BY <2>1 DEF Init, RehydrateSeesPrefix, Unread
<1> QED
  BY <1>1, <1>2, <1>3, <1>4, <1>5 DEF Inv

\* What a step that commits nothing need not look at.
LEMMA NothingCommitted ==
  ASSUME Inv, UNCHANGED <<call, db, view>>,
         \A c \in Calls : pc[c] = "committed" <=> pc'[c] = "committed",
         \A c \in Calls : pc[c] = "committed" => version'[c] = version[c] /\ pos'[c] = pos[c]
  PROVE  /\ IsFiniteSet(events)' /\ EventsOfCalls' /\ RowsOfCalls'
         /\ StreamsGapless' /\ RehydrateSeesPrefix'
<1>1. \A c \in Calls : pc[c] = "committed" => NewEvent(c)' = NewEvent(c)
  BY DEF NewEvent
<1>2. \A e : RowOf(e)' = RowOf(e)
  BY DEF RowOf
<1>3. \A x \in events \cup outbox : x.id \in Calls
  BY DEF Inv, TypeOK, Event, Row
<1>4. EventsOfCalls'
  BY <1>1, <1>3 DEF Inv, EventsOfCalls, db
<1>5. RowsOfCalls'
  <2>1. \A c \in Calls : pc[c] = "committed" => RowOf(NewEvent(c))' = RowOf(NewEvent(c))
    BY <1>1 DEF RowOf
  <2> QED
    BY <1>3, <2>1 DEF Inv, RowsOfCalls, db
<1>6. StreamsGapless' /\ RehydrateSeesPrefix' /\ IsFiniteSet(events)'
  BY DEF Inv, StreamsGapless, RehydrateSeesPrefix, db
<1> QED
  BY <1>4, <1>5, <1>6

\* An operation that is refused ends the transaction.
LEMMA RefuseInv ==
  ASSUME Inv, NEW c \in Calls, Refuse(c, "refused"), pc[c] \in {"idle"} \cup Open, answer[c] = "none",
         \E d \in Calls \ {c} : answer[d] \in {"ok", "unknown", "failed"} \/ pc[d] \in Open,
         UNCHANGED <<call, tx, db, view>>
  PROVE  Inv'
<1> USE DEF Inv, Refuse, tx, db
<1>1. TypeOK'
  BY DEF TypeOK, Answers, Open
<1>2. OneWriter' /\ WriterIsCurrent' /\ OneSequencer' /\ SequencerIsCurrent' /\ SnapshotsArePast'
  BY DEF TypeOK, OneWriter, WriterIsCurrent, OneSequencer, SequencerIsCurrent, SnapshotsArePast,
     Open, Sequenced
<1>3. OutboxedWhenAsked' /\ Answered'
  BY DEF TypeOK, OutboxedWhenAsked, Answered, Open
<1>4. SomeoneToBlame'
  BY DEF TypeOK, SomeoneToBlame
<1>5. \A d \in Calls : pc[d] = "committed" <=> pc'[d] = "committed"
  BY DEF TypeOK, Open
<1> QED
  BY <1>1, <1>2, <1>3, <1>4, <1>5, NothingCommitted

\* An operation that succeeds moves an open transaction on.
LEMMA AdvanceInv ==
  ASSUME Inv, NEW c \in Calls, NEW label \in Open, Advance(c, label), pc[c] \in {"idle"} \cup Open,
         answer[c] = "none", UNCHANGED <<call, db, view>>,
         version' \in [Calls -> Nat], pos' \in [Calls -> Nat], snapshot' \in [Calls -> Nat],
         \A d \in Calls : d # c => version'[d] = version[d] /\ pos'[d] = pos[d] /\ snapshot'[d] = snapshot[d],
         version'[c] = streamVersions[call[c].stream],
         \A d \in Calls : pc[d] \in Open /\ call[d].stream = call[c].stream => d = c,
         label \in Sequenced => pos'[c] = globalSeq /\ \A d \in Calls : pc[d] \in Sequenced => d = c,
         label = "versioned" => snapshot'[c] <= globalSeq,
         label = "outboxed" => call[c].outbox
  PROVE  Inv'
<1> USE DEF Inv, Advance, db
<1>1. TypeOK'
  BY DEF TypeOK, Open
<1>2. OneWriter' /\ WriterIsCurrent'
  BY DEF TypeOK, OneWriter, WriterIsCurrent, Open
<1>3. OneSequencer' /\ SequencerIsCurrent' /\ SnapshotsArePast'
  BY DEF TypeOK, OneSequencer, SequencerIsCurrent, SnapshotsArePast, Sequenced
<1>4. OutboxedWhenAsked' /\ Answered' /\ SomeoneToBlame'
  BY DEF TypeOK, OutboxedWhenAsked, Answered, SomeoneToBlame, Open
<1>5. \A d \in Calls : pc[d] = "committed" <=> pc'[d] = "committed"
  BY DEF TypeOK, Open
<1>6. \A d \in Calls : pc[d] = "committed" => version'[d] = version[d] /\ pos'[d] = pos[d]
  BY DEF Open
<1> QED
  BY <1>1, <1>2, <1>3, <1>4, <1>5, <1>6, NothingCommitted

\* The first operation: the writer of the stream's counter is alone with it.
LEMMA BumpVersionInv ==
  ASSUME Inv, NEW c \in Calls, BumpVersion(c)
  PROVE  Inv'
<1> USE DEF Inv, BumpVersion
<1>1. call[c].stream \in Streams
  BY DEF TypeOK, Request
<1>2. CASE StreamBusy(call[c].stream)
  <2>1. \E d \in Calls \ {c} : pc[d] \in Open
    BY <1>2 DEF StreamBusy, Open
  <2> QED
    BY <1>2, <2>1, RefuseInv
<1>3. CASE ~ StreamBusy(call[c].stream)
  <2>1. /\ version' = [version EXCEPT ![c] = streamVersions[call[c].stream]]
        /\ snapshot' = [snapshot EXCEPT ![c] = globalSeq] /\ pos' = pos
        /\ Advance(c, "versioned")
    BY <1>3 DEF Before
  <2>2. version' \in [Calls -> Nat] /\ pos' \in [Calls -> Nat] /\ snapshot' \in [Calls -> Nat]
    BY <1>1, <2>1 DEF TypeOK
  <2>3. /\ \A d \in Calls : d # c =>
             version'[d] = version[d] /\ pos'[d] = pos[d] /\ snapshot'[d] = snapshot[d]
        /\ version'[c] = streamVersions[call[c].stream] /\ snapshot'[c] <= globalSeq
    BY <2>1 DEF TypeOK
  <2>4. \A d \in Calls : pc[d] \in Open /\ call[d].stream = call[c].stream => d = c
    BY <1>3 DEF StreamBusy
  <2> QED
    BY <2>1, <2>2, <2>3, <2>4, AdvanceInv DEF Open, Sequenced
<1> QED
  BY <1>2, <1>3

\* The second: so is that of the global counter, which is still that of the
\* snapshot.
LEMMA BumpSequenceInv ==
  ASSUME Inv, NEW c \in Calls, BumpSequence(c)
  PROVE  Inv'
<1> USE DEF Inv, BumpSequence
<1>1. pc[c] \in Open /\ pc[c] \notin Sequenced
  BY DEF Open, Sequenced
<1>2. CASE SequenceBusy(c)
  <2>1. CASE \E d \in Calls : pc[d] \in Sequenced
    BY <1>1, <1>2, <2>1, RefuseInv DEF Open, Sequenced, tx
  <2>2. CASE globalSeq # snapshot[c]
    <3>1. globalSeq \in Nat /\ snapshot[c] \in Nat /\ snapshot[c] <= globalSeq
      BY DEF TypeOK, SnapshotsArePast
    <3>2. 0 \in 0 .. (globalSeq - 1)
      BY <2>2, <3>1
    <3>3. events # {}
      BY <3>2 DEF StreamsGapless
    <3>4. \E d \in Calls : pc[d] = "committed"
      BY <3>3 DEF EventsOfCalls, TypeOK, Event
    <3>5. \E d \in Calls \ {c} : answer[d] \in {"ok", "unknown", "failed"}
      BY <3>4 DEF TypeOK
    <3> QED
      BY <1>1, <1>2, <3>5, RefuseInv DEF tx
  <2> QED
    BY <1>2, <2>1, <2>2 DEF SequenceBusy
<1>3. CASE ~ SequenceBusy(c)
  <2>1. /\ pos' = [pos EXCEPT ![c] = globalSeq] /\ UNCHANGED <<version, snapshot>>
        /\ Advance(c, "sequenced")
    BY <1>3 DEF Before, SequenceBusy
  <2>2. pos' \in [Calls -> Nat] /\ pos'[c] = globalSeq /\ \A d \in Calls : d # c => pos'[d] = pos[d]
    BY <2>1 DEF TypeOK
  <2>3. \A d \in Calls : pc[d] \notin Sequenced
    BY <1>3 DEF SequenceBusy
  <2>4. \A d \in Calls : pc[d] \in Open /\ call[d].stream = call[c].stream => d = c
    BY <1>1 DEF OneWriter
  <2>5. version[c] = streamVersions[call[c].stream]
    BY <1>1 DEF WriterIsCurrent
  <2> QED
    BY <1>1, <2>1, <2>2, <2>3, <2>4, <2>5, AdvanceInv DEF TypeOK, Open, Sequenced
<1> QED
  BY <1>2, <1>3

\* The inserts are private to the transaction; the event's key is free, since
\* the versions of the stream stop short of the counter read.
LEMMA InsertInv ==
  ASSUME Inv, NEW c \in Calls, InsertEvent(c) \/ InsertOutbox(c)
  PROVE  Inv'
<1> USE DEF Inv
<1>1. /\ pc[c] \in Open /\ pc[c] \in Sequenced /\ answer[c] = "none"
      /\ UNCHANGED <<call, tx, db, view>>
  BY DEF InsertEvent, InsertOutbox, Open, Sequenced
<1>2. version[c] = streamVersions[call[c].stream] /\ call[c].stream \in Streams /\ pos[c] = globalSeq
  BY <1>1 DEF WriterIsCurrent, SequencerIsCurrent, TypeOK, Request
<1>3. ~ KeyTaken(c)
  <2>1. VersionsOf(call[c].stream) = 0 .. (version[c] - 1)
    BY <1>2 DEF StreamsGapless, VersionsOf
  <2>2. version[c] \notin VersionsOf(call[c].stream)
    BY <2>1 DEF TypeOK
  <2> QED
    BY <2>2 DEF KeyTaken, VersionsOf
<1>4. \E label \in {"inserted", "outboxed"} :
        Advance(c, label) /\ (label = "outboxed" => call[c].outbox)
  BY <1>3 DEF InsertEvent, InsertOutbox
<1>5. PICK label \in {"inserted", "outboxed"} :
        Advance(c, label) /\ (label = "outboxed" => call[c].outbox)
  BY <1>4
<1>6. /\ \A d \in Calls : pc[d] \in Open /\ call[d].stream = call[c].stream => d = c
      /\ \A d \in Calls : pc[d] \in Sequenced => d = c
  BY <1>1 DEF OneWriter, OneSequencer
<1>7. label \in Open /\ label # "versioned"
  BY DEF Open
<1> QED
  BY <1>1, <1>2, <1>5, <1>6, <1>7, AdvanceInv DEF TypeOK, tx

\* An error outside the transaction, and the abort that follows it.
LEMMA FailInv ==
  ASSUME Inv, NEW c \in Calls, Fail(c) \/ Reap(c)
  PROVE  Inv'
<1> USE DEF Inv, Fail, Reap, tx, db
<1>1. TypeOK'
  BY DEF TypeOK, Answers, Open
<1>2. OneWriter' /\ WriterIsCurrent' /\ OneSequencer' /\ SequencerIsCurrent' /\ SnapshotsArePast'
  BY DEF TypeOK, OneWriter, WriterIsCurrent, OneSequencer, SequencerIsCurrent, SnapshotsArePast,
     Open, Sequenced
<1>3. OutboxedWhenAsked' /\ Answered'
  BY DEF TypeOK, OutboxedWhenAsked, Answered, Open
<1>4. SomeoneToBlame'
  BY DEF TypeOK, SomeoneToBlame, Answered
<1>5. \A d \in Calls : pc[d] = "committed" <=> pc'[d] = "committed"
  BY DEF TypeOK, Open
<1> QED
  BY <1>1, <1>2, <1>3, <1>4, <1>5, NothingCommitted

\* The commit adds the next version of the stream at the next position, and
\* the outbox document with it.
LEMMA CommitInv ==
  ASSUME Inv, NEW c \in Calls, Commit(c)
  PROVE  Inv'
<1> DEFINE s == call[c].stream
<1> DEFINE n == NewEvent(c)
<1> USE DEF Inv
<1>1. pc[c] \in Sequenced /\ pc[c] \in Open /\ (pc[c] = "outboxed" <=> call[c].outbox)
  BY DEF Commit, ReadyToCommit, Sequenced, Open, OutboxedWhenAsked, TypeOK, Request
<1>2. /\ s \in Streams /\ version[c] = streamVersions[s] /\ pos[c] = globalSeq
      /\ streamVersions[s] \in Nat /\ globalSeq \in Nat
  BY <1>1 DEF WriterIsCurrent, SequencerIsCurrent, TypeOK, Request
<1>3. PICK told \in {"ok", "unknown"} : answer' = [answer EXCEPT ![c] = told]
  BY DEF Commit
<1>4. n = [id |-> c, stream |-> s, version |-> streamVersions[s], pos |-> globalSeq]
  BY <1>2 DEF NewEvent
<1>5. /\ events' = events \cup {n} /\ pc' = [pc EXCEPT ![c] = "committed"]
      /\ streamVersions' = [streamVersions EXCEPT ![s] = streamVersions[s] + 1]
      /\ globalSeq' = globalSeq + 1
      /\ outbox' = IF call[c].outbox THEN outbox \cup {RowOf(n)} ELSE outbox
      /\ UNCHANGED <<call, tx, view>>
  BY <1>1, <1>2 DEF Commit, Incremented
<1>6. \A e \in events : e.id # c /\ e.id \in Calls
  BY <1>1 DEF EventsOfCalls, Open, TypeOK, Event
<1>7. n \in Event /\ RowOf(n) \in Row /\ n \notin events /\ n.id = c
  BY <1>2, <1>4, <1>6 DEF Event, Row, RowOf
<1> HIDE DEF n
<1>8. TypeOK'
  <2>1. events' \subseteq Event /\ outbox' \subseteq Row
    BY <1>5, <1>7 DEF TypeOK
  <2>2. streamVersions' \in [Streams -> Nat] /\ globalSeq' \in Nat
    BY <1>2, <1>5 DEF TypeOK
  <2> QED
    BY <2>1, <2>2, <1>3, <1>5 DEF TypeOK, Answers, Open, tx
<1>9. OneWriter' /\ WriterIsCurrent'
  <2>1. OneWriter'
    BY <1>5 DEF TypeOK, OneWriter, Open
  <2>2. ASSUME NEW d \in Calls, pc'[d] \in Open PROVE version'[d] = streamVersions'[call'[d].stream]
    <3>1. d # c /\ pc[d] \in Open
      BY <1>5, <2>2 DEF TypeOK, Open
    <3>2. call[d].stream # s /\ call[d].stream \in Streams
      BY <1>1, <3>1 DEF OneWriter, TypeOK, Request
    <3> QED
      BY <1>5, <3>1, <3>2 DEF WriterIsCurrent, TypeOK, tx
  <2> QED
    BY <2>1, <2>2 DEF WriterIsCurrent
<1>10. OneSequencer' /\ SequencerIsCurrent' /\ SnapshotsArePast'
  <2>1. \A d \in Calls : pc'[d] \notin Sequenced
    BY <1>1, <1>5 DEF OneSequencer, TypeOK, Sequenced
  <2>2. SnapshotsArePast'
    BY <1>2, <1>5 DEF SnapshotsArePast, TypeOK, tx
  <2> QED
    BY <2>1, <2>2 DEF OneSequencer, SequencerIsCurrent
<1>11. OutboxedWhenAsked' /\ Answered' /\ SomeoneToBlame'
  BY <1>3, <1>5 DEF TypeOK, OutboxedWhenAsked, Answered, SomeoneToBlame, Open
<1>12. \A d \in Calls : NewEvent(d)' = NewEvent(d) /\ RowOf(NewEvent(d))' = RowOf(NewEvent(d))
  BY <1>5 DEF NewEvent, RowOf, tx
<1>13. EventsOfCalls'
  <2>1. \A e \in events' : e.id \in Calls /\ pc'[e.id] = "committed" /\ e = NewEvent(e.id)
    BY <1>5, <1>6, <1>7 DEF EventsOfCalls, TypeOK, n
  <2>2. \A d \in Calls : pc'[d] = "committed" => NewEvent(d) \in events'
    BY <1>5 DEF EventsOfCalls, TypeOK, n
  <2> QED
    BY <1>12, <2>1, <2>2 DEF EventsOfCalls
<1>14. RowsOfCalls'
  <2>1. RowOf(n).id = c
    BY <1>7 DEF RowOf
  <2>2. \A r \in outbox : r.id # c /\ r.id \in Calls
    BY <1>1 DEF RowsOfCalls, Open, TypeOK, Row
  <2>3. \A r \in outbox' : /\ r.id \in Calls /\ pc'[r.id] = "committed" /\ call[r.id].outbox
                           /\ r = RowOf(NewEvent(r.id))
    BY <1>5, <2>1, <2>2 DEF RowsOfCalls, TypeOK, n
  <2>4. \A d \in Calls : pc'[d] = "committed" /\ call[d].outbox => RowOf(NewEvent(d)) \in outbox'
    BY <1>5 DEF RowsOfCalls, TypeOK, n
  <2> QED
    BY <1>5, <1>12, <2>3, <2>4 DEF RowsOfCalls
<1>15. StreamsGapless' /\ IsFiniteSet(events)'
  <2>1. IsFiniteSet(events') /\ Cardinality(events') = globalSeq'
    BY <1>5, <1>7, FS_AddElement DEF StreamsGapless
  <2>2. {e.pos : e \in events'} = 0 .. (globalSeq' - 1)
    <3>1. {e.pos : e \in events'} = {e.pos : e \in events} \cup {globalSeq}
      BY <1>4, <1>5 DEF n
    <3>2. 0 .. globalSeq = (0 .. (globalSeq - 1)) \cup {globalSeq}
      BY <1>2
    <3>3. globalSeq' - 1 = globalSeq
      BY <1>2, <1>5
    <3> QED
      BY <3>1, <3>2, <3>3 DEF StreamsGapless
  <2>3. ASSUME NEW r \in Streams
        PROVE  {e.version : e \in {x \in events' : x.stream = r}} = 0 .. (streamVersions'[r] - 1)
    <3>1. CASE r = s
      <4>1. {e.version : e \in {x \in events' : x.stream = r}}
              = {e.version : e \in {x \in events : x.stream = r}} \cup {streamVersions[s]}
        BY <1>4, <1>5, <3>1 DEF n
      <4>2. {e.version : e \in {x \in events : x.stream = r}} = 0 .. (streamVersions[s] - 1)
        BY <3>1 DEF StreamsGapless
      <4>3. 0 .. streamVersions[s] = (0 .. (streamVersions[s] - 1)) \cup {streamVersions[s]}
        BY <1>2
      <4>4. streamVersions'[r] - 1 = streamVersions[s]
        BY <1>2, <1>5, <3>1 DEF TypeOK
      <4> QED
        BY <4>1, <4>2, <4>3, <4>4
    <3>2. CASE r # s
      <4>1. {x \in events' : x.stream = r} = {x \in events : x.stream = r}
        BY <1>4, <1>5, <3>2 DEF n
      <4>2. streamVersions'[r] = streamVersions[r]
        BY <1>5, <3>2 DEF TypeOK
      <4> QED
        BY <4>1, <4>2 DEF StreamsGapless
    <3> QED
      BY <3>1, <3>2
  <2>4. \A e, f \in events' : e.stream = f.stream /\ e.version = f.version => e = f
    <3>1. \A e \in events : e.stream = s => e.version # streamVersions[s]
      <4>1. streamVersions[s] \notin {e.version : e \in {x \in events : x.stream = s}}
        BY <1>2 DEF StreamsGapless
      <4> QED
        BY <4>1
    <3> QED
      BY <3>1, <1>4, <1>5 DEF StreamsGapless, n
  <2> QED
    BY <2>1, <2>2, <2>3, <2>4 DEF StreamsGapless
<1>16. RehydrateSeesPrefix'
  <2> SUFFICES ASSUME NEW r \in Streams
               PROVE  /\ view[r].last < streamVersions'[r]
                      /\ view[r].applied \cup view[r].skipped = 0 .. view[r].last
                      /\ \A e \in events' : e.stream = r /\ e.version <= view[r].last =>
                           e.version \in IF e.id \in Unreadable THEN view[r].skipped \ view[r].applied
                                                                ELSE view[r].applied \ view[r].skipped
    BY <1>5 DEF RehydrateSeesPrefix
  <2>1. streamVersions[r] \in Nat /\ view[r].last \in Nat \cup {-1}
    BY DEF TypeOK, View
  <2>2. streamVersions'[r] = IF r = s THEN streamVersions[s] + 1 ELSE streamVersions[r]
    BY <1>2, <1>5 DEF TypeOK
  <2>3. view[r].last < streamVersions[r]
    BY DEF RehydrateSeesPrefix
  <2>4. n.stream = r => ~ (n.version <= view[r].last)
    BY <1>2, <1>4, <2>1, <2>3
  <2>5. view[r].last < streamVersions'[r]
    BY <1>2, <2>1, <2>2, <2>3
  <2>6. \A e \in events' : e.stream = r /\ e.version <= view[r].last => e \in events
    BY <1>5, <2>4
  <2> QED
    BY <2>5, <2>6 DEF RehydrateSeesPrefix
<1> QED
  BY <1>8, <1>9, <1>10, <1>11, <1>13, <1>14, <1>15, <1>16

\* The cursor finds the version after the one it has read, or nothing.
LEMMA RehydrateInv ==
  ASSUME Inv, NEW s \in Streams, OpenCursor(s) \/ ReadNext(s)
  PROVE  Inv'
<1> USE DEF Inv
<1>1. UNCHANGED <<call, pc, answer, tx, db>>
  BY DEF OpenCursor, ReadNext
<1> DEFINE Fits(v) ==
             /\ v.last < streamVersions[s]
             /\ v.applied \cup v.skipped = 0 .. v.last
             /\ \A e \in events : e.stream = s /\ e.version <= v.last =>
                  e.version \in IF e.id \in Unreadable THEN v.skipped \ v.applied
                                                       ELSE v.applied \ v.skipped
<1>2. ASSUME NEW v \in View, Fits(v), view' = [view EXCEPT ![s] = v]
      PROVE  view' \in [Streams -> View] /\ RehydrateSeesPrefix'
  <2>1. view' \in [Streams -> View]
    BY <1>2 DEF TypeOK
  <2>2. view'[s] = v /\ \A r \in Streams : r # s => view'[r] = view[r]
    BY <1>2 DEF TypeOK
  <2> QED
    BY <1>1, <1>2, <2>1, <2>2 DEF RehydrateSeesPrefix, db
<1>3. ASSUME OpenCursor(s) PROVE view' \in [Streams -> View] /\ RehydrateSeesPrefix'
  <2>1. Unread \in View
    BY DEF View, Unread
  <2>2. /\ Unread.last = -1 /\ Unread.applied = {} /\ Unread.skipped = {}
        /\ streamVersions[s] \in Nat /\ 0 .. (-1) = {}
    BY DEF Unread, TypeOK
  <2>3. \A e \in events : ~ (e.version <= -1)
    BY DEF TypeOK, Event
  <2>4. Fits(Unread)
    BY <2>2, <2>3
  <2> QED
    BY <1>2, <1>3, <2>1, <2>4 DEF OpenCursor
<1>4. ASSUME ReadNext(s) PROVE view' \in [Streams -> View] /\ RehydrateSeesPrefix'
  <2>1. PICK e \in Following(s) : view' = [view EXCEPT ![s] = Reach(view[s], e)]
    BY <1>4 DEF ReadNext
  <2> DEFINE v == view[s]
             k == streamVersions[s]
             w == Reach(v, e)
  <2>2. v \in View /\ k \in Nat /\ v.last \in Nat \cup {-1}
    BY DEF TypeOK, View
  <2>3. Fits(v)
    BY DEF RehydrateSeesPrefix
  <2>4. /\ e \in events /\ e.stream = s /\ e.version \in Nat /\ e.version > v.last
        /\ \A f \in events : f.stream = s /\ f.version > v.last => e.version <= f.version
    BY <2>1 DEF Following, After, TypeOK, Event
  <2>5. VersionsOf(s) = 0 .. (k - 1)
    BY DEF StreamsGapless, VersionsOf
  <2>6. e.version \in 0 .. (k - 1)
    BY <2>4, <2>5 DEF VersionsOf
  <2>7. v.last + 1 \in 0 .. (k - 1)
    BY <2>2, <2>4, <2>6
  <2>8. \E f \in events : f.stream = s /\ f.version = v.last + 1
    BY <2>5, <2>7 DEF VersionsOf
  <2>9. e.version = v.last + 1
    BY <2>2, <2>4, <2>8
  <2>10. /\ w.last = e.version
         /\ w.applied = IF e.id \in Unreadable THEN v.applied ELSE v.applied \cup {e.version}
         /\ w.skipped = IF e.id \in Unreadable THEN v.skipped \cup {e.version} ELSE v.skipped
         /\ w \in View
    BY <2>2, <2>4 DEF Reach, View
  <2>11. v.applied \subseteq 0 .. v.last /\ v.skipped \subseteq 0 .. v.last
    BY <2>3
  <2> HIDE DEF w, k, v
  <2>12. w.last < streamVersions[s]
    BY <2>2, <2>6, <2>10 DEF k
  <2>13. w.applied \cup w.skipped = 0 .. w.last
    <3>1. 0 .. e.version = (0 .. v.last) \cup {e.version}
      BY <2>2, <2>9
    <3> QED
      BY <2>3, <2>10, <3>1
  <2>14. ASSUME NEW f \in events, f.stream = s, f.version <= w.last
         PROVE  f.version \in IF f.id \in Unreadable THEN w.skipped \ w.applied
                                                     ELSE w.applied \ w.skipped
    <3>1. e.version \notin v.applied /\ e.version \notin v.skipped
      BY <2>2, <2>4, <2>11
    <3>2. CASE f.version = e.version
      <4>1. f = e
        BY <2>4, <2>14, <3>2 DEF StreamsGapless
      <4> QED
        BY <4>1, <3>1, <2>10
    <3>3. CASE f.version # e.version
      <4>1. f.version \in Nat
        BY DEF TypeOK, Event
      <4>2. f.version <= v.last
        BY <4>1, <3>3, <2>2, <2>9, <2>10, <2>14
      <4>3. f.version \in IF f.id \in Unreadable THEN v.skipped \ v.applied
                                                 ELSE v.applied \ v.skipped
        BY <4>2, <2>3, <2>14
      <4> QED
        BY <4>3, <3>3, <2>10
    <3> QED
      BY <3>2, <3>3
  <2>15. Fits(w)
    BY <2>12, <2>13, <2>14
  <2> QED
    BY <1>2, <2>1, <2>10, <2>15 DEF w, v
<1>5. TypeOK' /\ RehydrateSeesPrefix'
  BY <1>1, <1>3, <1>4 DEF TypeOK, tx, db
<1>6. OneWriter' /\ WriterIsCurrent' /\ OneSequencer' /\ SequencerIsCurrent' /\ SnapshotsArePast'
  BY <1>1 DEF OneWriter, WriterIsCurrent, OneSequencer, SequencerIsCurrent, SnapshotsArePast, tx, db
<1>7. EventsOfCalls' /\ RowsOfCalls' /\ OutboxedWhenAsked' /\ Answered' /\ SomeoneToBlame'
  BY <1>1 DEF EventsOfCalls, RowsOfCalls, NewEvent, RowOf, OutboxedWhenAsked, Answered,
     SomeoneToBlame, tx, db
<1>8. StreamsGapless' /\ IsFiniteSet(events)'
  BY <1>1 DEF StreamsGapless, db
<1> QED
  BY <1>5, <1>6, <1>7, <1>8
-----------------------------------------------------------------------------
\* The invariant holds in every reachable state.
THEOREM Invariance == Spec => []Inv
<1>1. Inv /\ [Next]_vars => Inv'
  <2> SUFFICES ASSUME Inv, [Next]_vars PROVE Inv'
    OBVIOUS
  <2>1. ASSUME NEW c \in Calls, Step(c) \/ Fail(c) \/ Reap(c) PROVE Inv'
    BY <2>1, BumpVersionInv, BumpSequenceInv, InsertInv, CommitInv, FailInv DEF Step
  <2>2. ASSUME NEW s \in Streams, OpenCursor(s) \/ ReadNext(s) PROVE Inv'
    BY <2>2, RehydrateInv
  <2>3. CASE UNCHANGED vars
    BY <2>3 DEF vars, tx, db, Inv, TypeOK, OneWriter, WriterIsCurrent, OneSequencer,
       SequencerIsCurrent, SnapshotsArePast, EventsOfCalls, RowsOfCalls, NewEvent, RowOf,
       OutboxedWhenAsked, Answered, SomeoneToBlame, StreamsGapless, RehydrateSeesPrefix
  <2> QED
    BY <2>1, <2>2, <2>3 DEF Next
<1> QED
  BY InitInv, <1>1, PTL DEF Spec

\* Types, and that an answer of success and a commit are the same thing.
THEOREM TypeCorrect == Spec => []TypeOK
BY Invariance, PTL DEF Inv

\* Versions and positions have no gaps at any moment: an aborted transaction
\* gives both back, and events become visible in position order.
THEOREM GaplessStreams == Spec => []StreamsGapless
BY Invariance, PTL DEF Inv

\* rehydrate has gone through a whole prefix of the stream at every point of
\* its cursor, and has applied exactly the events of it that it can read.
THEOREM RehydratedPrefix == Spec => []RehydrateSeesPrefix
BY Invariance, PTL DEF Inv

\* Success means stored, with the outbox document that was asked for; any
\* other answer means that neither is there, or ever will be.
THEOREM TruthfulAnswers == Spec => []AnswerIsTruthful
<1>1. Inv => AnswerIsTruthful
  <2> SUFFICES ASSUME Inv, NEW c \in Calls
               PROVE  /\ pc[c] = "committed" =>
                           NewEvent(c) \in events /\ (RowOf(NewEvent(c)) \in outbox <=> call[c].outbox)
                      /\ answer[c] \in {"refused", "conflict", "failed"} =>
                           \A x \in events \cup outbox : x.id # c
    BY DEF AnswerIsTruthful
  <2>1. RowOf(NewEvent(c)).id = c
    BY DEF RowOf, NewEvent
  <2>2. ASSUME pc[c] = "committed"
        PROVE  NewEvent(c) \in events /\ (RowOf(NewEvent(c)) \in outbox <=> call[c].outbox)
    <3>1. call[c].outbox \in BOOLEAN
      BY DEF Inv, TypeOK, Request
    <3>2. RowOf(NewEvent(c)) \in outbox => call[RowOf(NewEvent(c)).id].outbox
      BY DEF Inv, RowsOfCalls
    <3> QED
      BY <2>1, <2>2, <3>1, <3>2 DEF Inv, EventsOfCalls, RowsOfCalls
  <2>3. ASSUME answer[c] \in {"refused", "conflict", "failed"}, NEW x \in events \cup outbox
        PROVE  x.id # c
    <3>1. pc[c] # "committed"
      BY <2>3 DEF Inv, TypeOK
    <3>2. pc[x.id] = "committed"
      BY DEF Inv, EventsOfCalls, RowsOfCalls
    <3> QED
      BY <3>1, <3>2
  <2> QED
    BY <2>2, <2>3
<1> QED
  BY <1>1, Invariance, PTL

\* The caller never gets ConcurrencyConflict, and the races are not lost by
\* all: where one was refused, another got through or failed by itself.
THEOREM NotAllLose == Spec => []SomeoneWins
<1>1. Inv => SomeoneWins
  <2> SUFFICES ASSUME Inv, \A c \in Calls : answer[c] # "none", \E c \in Calls : answer[c] = "refused"
               PROVE  \E c \in Calls : answer[c] \in {"ok", "unknown", "failed"}
    BY DEF SomeoneWins, Inv, Answered
  <2>1. \E c \in Calls : answer[c] \in {"ok", "unknown", "failed"} \/ pc[c] \in Open
    BY DEF Inv, SomeoneToBlame
  <2> QED
    BY <2>1 DEF Inv, Answered
<1> QED
  BY <1>1, Invariance, PTL
-----------------------------------------------------------------------------
\* There are no more events than calls, so a position is within the bound.
LEMMA PositionInRange ==
  ASSUME Inv
  PROVE  globalSeq <= Cardinality(Calls) /\ Cardinality(Calls) \in Nat
<1> DEFINE f == [e \in events |-> e.id]
<1>1. f \in [events -> Calls]
  BY DEF Inv, TypeOK, Event
<1>2. \A e, d \in events : f[e] = f[d] => e = d
  BY DEF Inv, EventsOfCalls
<1>3. f \in Injection(events, Calls)
  BY <1>1, <1>2 DEF Injection, IsInjective
<1> QED
  BY <1>3, CallsAssumption, FS_Injection, FS_CardinalityType DEF Inv, StreamsGapless

\* A commit is an append of the abstract log; every other step is invisible.
LEMMA StepRefines ==
  ASSUME Inv, [Next]_vars
  PROVE  [Log!LogNext]_(Log!logVars)
<1>1. ASSUME NEW c \in Calls, Commit(c) PROVE Log!LogNext
  <2> DEFINE s == call[c].stream
  <2>1. pc[c] \in Sequenced /\ pc[c] \in Open /\ (pc[c] = "outboxed" <=> call[c].outbox)
    BY <1>1 DEF Inv, Commit, ReadyToCommit, Sequenced, Open, OutboxedWhenAsked, TypeOK, Request
  <2>2. /\ s \in Streams /\ call[c].outbox \in BOOLEAN
        /\ version[c] = streamVersions[s] /\ pos[c] = globalSeq /\ globalSeq \in Nat
    BY <2>1 DEF Inv, WriterIsCurrent, SequencerIsCurrent, TypeOK, Request
  <2>3. pos[c] \in 0 .. Cardinality(Calls)
    BY <2>2, PositionInRange
  <2>4. \A e \in events : e.pos \in 0 .. (globalSeq - 1)
    BY DEF Inv, StreamsGapless
  <2>5. \A e \in events : e.id # c /\ e.pos # pos[c] /\ e.pos < pos[c]
    BY <2>1, <2>2, <2>4 DEF Inv, EventsOfCalls, Open
  <2>6. NewEvent(c) = [id |-> c, stream |-> s, version |-> streamVersions[s], pos |-> pos[c]]
    BY <2>2 DEF NewEvent
  <2>7. Log!RowOf(NewEvent(c)) = RowOf(NewEvent(c))
    BY DEF RowOf, Log!RowOf
  <2>8. Log!AppendEvent(c, s, pos[c], call[c].outbox)
    BY <1>1, <2>1, <2>2, <2>5, <2>6, <2>7 DEF Commit, Incremented, Log!AppendEvent, Inv, TypeOK
  <2> QED
    BY <2>2, <2>3, <2>8 DEF Log!LogNext
<1>2. ASSUME NEW c \in Calls, ~ Commit(c), Step(c) \/ Fail(c) \/ Reap(c)
      PROVE  UNCHANGED Log!logVars
  BY <1>2 DEF Step, BumpVersion, BumpSequence, InsertEvent, InsertOutbox, Fail, Reap, db, Log!logVars
<1>3. ASSUME NEW s \in Streams, OpenCursor(s) \/ ReadNext(s) PROVE UNCHANGED Log!logVars
  BY <1>3 DEF OpenCursor, ReadNext, db, Log!logVars
<1>4. CASE UNCHANGED vars
  BY <1>4 DEF vars, db, Log!logVars
<1> QED
  BY <1>1, <1>2, <1>3, <1>4 DEF Next

\* The transactions of MongoEventStore implement the one-step append of
\* EventLog, at positions in the order of the commits.
THEOREM Refinement == Spec => ImplementsEventLog
<1>1. Init => Log!LogInit
  BY DEF Init, Log!LogInit
<1>2. Inv /\ [Next]_vars => [Log!LogNext]_(Log!logVars)
  BY StepRefines
<1> QED
  BY <1>1, <1>2, Invariance, PTL DEF Spec, ImplementsEventLog, Log!LogSpec
=============================================================================
