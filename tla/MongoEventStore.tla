--------------------------- MODULE MongoEventStore ---------------------------
(***************************************************************************)
(* The append path of src/rust-app/src/mongodb/event_store.rs: `append`,   *)
(* `append_with_outbox` and the `append_in_session` they share, each call  *)
(* in a multi-document transaction of its own; and `rehydrate`.            *)
(*                                                                         *)
(* Nothing waits here.  A transaction works on the snapshot of its first   *)
(* operation, and an operation on a document that another open transaction *)
(* has written, or that has changed since the snapshot, is refused with a  *)
(* WriteConflict: the server aborts the transaction and the caller gets    *)
(* EventStoreError::Io.  All the appends of the database meet at one       *)
(* document, the counter of `_global_seq`.                                 *)
(*                                                                         *)
(* The caller's view (answer) and the server's (pc) are separate: a call   *)
(* that returns an error drops its session, and the transaction stays open *)
(* at the server until the abort, sent in the background, has been done.   *)
(*                                                                         *)
(* A definition with a suffix (Name_Variant) is a wrong version of the one *)
(* it precedes; no specification uses it (see PgEventStore).               *)
(***************************************************************************)
EXTENDS Integers, FiniteSets

CONSTANTS
  Streams,     \* stream ids
  Calls,       \* append calls; each makes one event, whose id it stands for
  Unreadable   \* calls whose event the upcasters or the aggregate do not know

ASSUME CallsAssumption == IsFiniteSet(Calls)

VARIABLES
  call,            \* arguments of each call: stream, and outbox or not
  pc,              \* how far the transaction of each call has got
  answer,          \* what the caller has been told
  version,         \* stream_version read by the $inc of `_stream_versions`
  pos,             \* global_position read by the $inc of `_global_seq`
  snapshot,        \* committed value of `_global_seq` at the first operation
  events,          \* committed documents of `events`
  outbox,          \* committed documents of `_integration_outbox`
  streamVersions,  \* committed `_stream_versions.version`, 0 without a document
  globalSeq,       \* committed `_global_seq.seq`
  view             \* what the current `rehydrate` of each stream has applied,
                   \* skipped, and reached

db == <<events, outbox, streamVersions, globalSeq>>
tx == <<version, pos, snapshot>>
vars == <<call, pc, answer, tx, db, view>>

Request == [stream: Streams, outbox: BOOLEAN]
Open    == {"versioned", "sequenced", "inserted", "outboxed"}
Answers == {"none", "ok", "unknown", "refused", "conflict", "failed"}
Event   == [id: Calls, stream: Streams, version: Nat, pos: Nat]
Row     == [id: Calls, stream: Streams, pos: Nat]
View    == [applied: SUBSET Nat, skipped: SUBSET Nat, last: Nat \cup {-1}]
Unread  == [applied |-> {}, skipped |-> {}, last |-> -1]

\* Types; a transaction is over when its caller has been told it committed.
TypeOK ==
  /\ call \in [Calls -> Request]
  /\ pc \in [Calls -> {"idle", "committed", "aborted"} \cup Open]
  /\ answer \in [Calls -> Answers]
  /\ \A c \in Calls : answer[c] \in {"ok", "unknown"} <=> pc[c] = "committed"
  /\ version \in [Calls -> Nat] /\ pos \in [Calls -> Nat] /\ snapshot \in [Calls -> Nat]
  /\ events \subseteq Event
  /\ outbox \subseteq Row
  /\ streamVersions \in [Streams -> Nat]
  /\ globalSeq \in Nat
  /\ view \in [Streams -> View]

Init ==
  /\ call \in [Calls -> Request]
  /\ pc = [c \in Calls |-> "idle"]
  /\ answer = [c \in Calls |-> "none"]
  /\ version = [c \in Calls |-> 0]
  /\ pos = [c \in Calls |-> 0]
  /\ snapshot = [c \in Calls |-> 0]
  /\ events = {} /\ outbox = {}
  /\ streamVersions = [s \in Streams |-> 0]
  /\ globalSeq = 0
  /\ view = [s \in Streams |-> Unread]
-----------------------------------------------------------------------------
(* Write conflicts.                                                        *)

\* An open transaction has written the counter of the stream.  The operation
\* on it is the first of its transaction, so the snapshot cannot be stale.
StreamBusy(s) == \E c \in Calls : call[c].stream = s /\ pc[c] \in Open

Sequenced == {"sequenced", "inserted", "outboxed"}

\* The global counter is written by an open transaction, or was by one that
\* has committed since the snapshot of c.
SequenceBusy_LockOnly(c) == \E d \in Calls : pc[d] \in Sequenced
SequenceBusy_EvenAborted(c) == \E d \in Calls \ {c} : pc[d] \notin {"idle", "versioned"}
SequenceBusy(c) ==
  \/ \E d \in Calls : pc[d] \in Sequenced
  \/ globalSeq # snapshot[c]

\* The unique index on (stream_id, stream_version).
KeyTaken(c) ==
  \E e \in events : e.stream = call[c].stream /\ e.version = version[c]

NewEvent(c) ==
  [id |-> c, stream |-> call[c].stream, version |-> version[c], pos |-> pos[c]]

RowOf_VersionAsPosition(e) == [id |-> e.id, stream |-> e.stream, pos |-> e.version]
RowOf(e) == [id |-> e.id, stream |-> e.stream, pos |-> e.pos]
-----------------------------------------------------------------------------
(* The operations of one append call, each asked for by a caller that has  *)
(* no answer yet.                                                          *)

\* The operation succeeds and the transaction goes on.
Advance(c, label) ==
  /\ pc' = [pc EXCEPT ![c] = label]
  /\ UNCHANGED answer

\* The server aborts the transaction and the caller gets an error.
Refuse(c, error) ==
  /\ pc' = [pc EXCEPT ![c] = "aborted"]
  /\ answer' = [answer EXCEPT ![c] = error]

\* What `ReturnDocument::Before` yields; no document counts as 0.
Before(n) == n

\* $inc by the batch size, 1; private to the transaction until it commits.
Incremented(n) == n + 1

\* find_one_and_update({_id: stream}, $inc version), upserting.
BumpVersion(c) ==
  /\ pc[c] = "idle" /\ answer[c] = "none"
  /\ IF StreamBusy(call[c].stream)
       THEN Refuse(c, "refused") /\ UNCHANGED tx
       ELSE /\ version' = [version EXCEPT ![c] = Before(streamVersions[call[c].stream])]
            /\ snapshot' = [snapshot EXCEPT ![c] = globalSeq]
            /\ Advance(c, "versioned")
            /\ UNCHANGED pos
  /\ UNCHANGED <<call, db, view>>

\* find_one_and_update({_id: "counter"}, $inc seq), which reads the snapshot.
BumpSequence(c) ==
  /\ pc[c] = "versioned" /\ answer[c] = "none"
  /\ IF SequenceBusy(c)
       THEN Refuse(c, "refused") /\ UNCHANGED pos
       ELSE pos' = [pos EXCEPT ![c] = Before(snapshot[c])] /\ Advance(c, "sequenced")
  /\ UNCHANGED <<call, version, snapshot, db, view>>

\* insert_one(event); error 11000 is ConcurrencyConflict.
InsertEvent(c) ==
  /\ pc[c] = "sequenced" /\ answer[c] = "none"
  /\ IF KeyTaken(c) THEN Refuse(c, "conflict") ELSE Advance(c, "inserted")
  /\ UNCHANGED <<call, tx, db, view>>

\* insert_one(outbox document), of append_with_outbox only.
InsertOutbox(c) ==
  /\ pc[c] = "inserted" /\ answer[c] = "none"
  /\ call[c].outbox
  /\ Advance(c, "outboxed")
  /\ UNCHANGED <<call, tx, db, view>>

ReadyToCommit_BeforeOutbox(c) == pc[c] = "inserted"
ReadyToCommit(c) == pc[c] = IF call[c].outbox THEN "outboxed" ELSE "inserted"

\* commit_transaction; the acknowledgement may be lost.
Commit(c) ==
  /\ ReadyToCommit(c) /\ answer[c] = "none"
  /\ events' = events \cup {NewEvent(c)}
  /\ outbox' = IF pc[c] = "outboxed" THEN outbox \cup {RowOf(NewEvent(c))} ELSE outbox
  /\ streamVersions' = [streamVersions EXCEPT ![call[c].stream] = Incremented(version[c])]
  /\ globalSeq' = Incremented(pos[c])
  /\ pc' = [pc EXCEPT ![c] = "committed"]
  /\ \E told \in {"ok", "unknown"} : answer' = [answer EXCEPT ![c] = told]
  /\ UNCHANGED <<call, tx, view>>

\* Any other error, or a dropped future: the caller has its answer at once,
\* the transaction is still open at the server ...
Fail(c) ==
  /\ answer[c] = "none"
  /\ answer' = [answer EXCEPT ![c] = "failed"]
  /\ UNCHANGED <<call, pc, tx, db, view>>

\* ... until the abort of the dropped session, or its time limit, gets there.
Reap(c) ==
  /\ answer[c] # "none"
  /\ pc[c] \in Open
  /\ pc' = [pc EXCEPT ![c] = "aborted"]
  /\ UNCHANGED <<call, answer, tx, db, view>>

Step(c) ==
  BumpVersion(c) \/ BumpSequence(c) \/ InsertEvent(c) \/ InsertOutbox(c) \/ Commit(c)
-----------------------------------------------------------------------------
(* rehydrate: a cursor in stream_version order, not a snapshot; appends    *)
(* that commit while it is read may or may not be seen.                    *)

After(s, v) == {e \in events : e.stream = s /\ e.version > v}

Following_Latest(s) ==
  {e \in After(s, view[s].last) : \A f \in After(s, view[s].last) : f.version <= e.version}
Following(s) ==
  {e \in After(s, view[s].last) : \A f \in After(s, view[s].last) : e.version <= f.version}

OpenCursor(s) ==
  /\ view' = [view EXCEPT ![s] = Unread]
  /\ UNCHANGED <<call, pc, answer, tx, db>>

\* The next document has been reached, whatever becomes of it: an event the
\* upcasters answer Unrecognised for, or that does not deserialise, is passed
\* over, any other is applied.  (A document that is no envelope, or a cursor
\* error, ends the call: it takes no further step.)
Reach(v, e) ==
  IF e.id \in Unreadable
    THEN [v EXCEPT !.skipped = @ \cup {e.version}, !.last = e.version]
    ELSE [v EXCEPT !.applied = @ \cup {e.version}, !.last = e.version]

ReadNext(s) ==
  /\ \E e \in Following(s) : view' = [view EXCEPT ![s] = Reach(@, e)]
  /\ UNCHANGED <<call, pc, answer, tx, db>>
-----------------------------------------------------------------------------
Next ==
  \/ \E c \in Calls : Step(c) \/ Fail(c) \/ Reap(c)
  \/ \E s \in Streams : OpenCursor(s) \/ ReadNext(s)

Spec == Init /\ [][Next]_vars
-----------------------------------------------------------------------------
(* Properties.                                                             *)

\* The versions of each stream are 0, 1, 2, ... without gap or repetition,
\* and so are the global positions, at every moment: an aborted transaction
\* gives both back, and events become visible in position order, so that a
\* consumer that goes on from a position never has one appear behind it.
StreamsGapless ==
  /\ \A s \in Streams :
       {e.version : e \in {x \in events : x.stream = s}} = 0 .. (streamVersions[s] - 1)
  /\ \A e, f \in events : e.stream = f.stream /\ e.version = f.version => e = f
  /\ {e.pos : e \in events} = 0 .. (globalSeq - 1)
  /\ Cardinality(events) = globalSeq

\* A committed call has left its event, with an outbox document exactly when
\* one was asked for; any other call that has its answer leaves neither.
AnswerIsTruthful ==
  \A c \in Calls :
    /\ pc[c] = "committed" =>
         NewEvent(c) \in events /\ (RowOf(NewEvent(c)) \in outbox <=> call[c].outbox)
    /\ answer[c] \in {"refused", "conflict", "failed"} =>
         \A x \in events \cup outbox : x.id # c

\* A lost race is a write conflict at a counter, never the ConcurrencyConflict
\* that the doc of append promises; and the races are not lost by all: when
\* every call has its answer and one was refused, another one committed or
\* failed for a reason of its own.
SomeoneWins ==
  /\ \A c \in Calls : answer[c] # "conflict"
  /\ (\A c \in Calls : answer[c] # "none") /\ (\E c \in Calls : answer[c] = "refused")
       => \E c \in Calls : answer[c] \in {"ok", "unknown", "failed"}

\* At every point of its cursor rehydrate has gone through a prefix of the
\* stream, up to the version it would return: every readable event of it has
\* been applied, every other one passed over.  The version is that of
\* the last event seen, which need not be the last one applied.
RehydrateSeesPrefix ==
  \A s \in Streams :
    /\ view[s].last < streamVersions[s]
    /\ view[s].applied \cup view[s].skipped = 0 .. view[s].last
    /\ \A e \in events : e.stream = s /\ e.version <= view[s].last =>
         e.version \in IF e.id \in Unreadable THEN view[s].skipped \ view[s].applied
                                              ELSE view[s].applied \ view[s].skipped

\* The transactions implement the one-step append of EventLog, with the
\* positions in commit order.
Log == INSTANCE EventLog
  WITH Ids <- Calls, next <- streamVersions, MaxPos <- Cardinality(Calls)
ImplementsEventLog == Log!LogSpec
=============================================================================
