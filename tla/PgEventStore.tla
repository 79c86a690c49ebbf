---------------------------- MODULE PgEventStore ----------------------------
(***************************************************************************)
(* The append path of src/rust-app/src/postgres/event_store.rs:            *)
(* `append`, `append_with_outbox` and the `append_in_tx` they share, run   *)
(* by several callers at once, each in a PostgreSQL transaction of its own *)
(* (READ COMMITTED) on a connection of the pool; and `rehydrate`.          *)
(*                                                                         *)
(* One step per statement.  What a transaction has written is private to   *)
(* it (version, pos, pc) until Commit adds it to the tables; a statement   *)
(* that fails, a dropped connection and a dropped future all end in the    *)
(* rollback of the transaction (Fail).                                     *)
(*                                                                         *)
(* A definition with a suffix (Name_Variant) is a plausible wrong version  *)
(* of the definition it precedes: no specification uses it, a property     *)
(* listed in PROJECT.json fails when it takes the place of Name.           *)
(***************************************************************************)
EXTENDS Integers, FiniteSets

CONSTANTS
  Streams,     \* stream ids
  Calls,       \* append calls; each makes one event, whose id it stands for
  Unreadable,  \* calls whose event the upcasters or the aggregate do not know
  PoolSize,    \* connections of the pool (16 in the code)
  MaxPos       \* last value of the global_position identity (a BIGINT)

ASSUME PoolAssumption == PoolSize \in Nat \ {0}
ASSUME MaxPosAssumption == MaxPos \in Nat

VARIABLES
  call,            \* arguments of each call: stream, and outbox or not
  pc,              \* where each call is
  version,         \* stream_version read back by the counter UPSERT
  pos,             \* global_position read back by the event INSERT
  events,          \* committed rows of `events`
  outbox,          \* committed rows of `integration_outbox`
  streamVersions,  \* committed `stream_versions.version`, 0 without a row
  identity,        \* last value of the global_position identity sequence
  view             \* what the last `rehydrate` of each stream applied, skipped, returned

vars == <<call, pc, version, pos, events, outbox, streamVersions, identity, view>>

Request == [stream: Streams, outbox: BOOLEAN]
InTx    == {"begun", "versioned", "inserted", "outboxed"}
Done    == {"ok", "unknown", "conflict", "failed"}
Event   == [id: Calls, stream: Streams, version: Nat, pos: Nat]
Row     == [id: Calls, stream: Streams, pos: Nat]
View    == [applied: SUBSET Nat, skipped: SUBSET Nat, last: Nat \cup {-1}]
Unread  == [applied |-> {}, skipped |-> {}, last |-> -1]

\* Types of the tables, of the calls in flight and of the rehydrated views.
TypeOK ==
  /\ call \in [Calls -> Request]
  /\ pc \in [Calls -> {"idle"} \cup InTx \cup Done]
  /\ version \in [Calls -> Nat]
  /\ pos \in [Calls -> Nat]
  /\ events \subseteq Event
  /\ outbox \subseteq Row
  /\ streamVersions \in [Streams -> Nat]
  /\ identity \in Nat
  /\ view \in [Streams -> View]

Init ==
  /\ call \in [Calls -> Request]
  /\ pc = [c \in Calls |-> "idle"]
  /\ version = [c \in Calls |-> 0]
  /\ pos = [c \in Calls |-> 0]
  /\ events = {}
  /\ outbox = {}
  /\ streamVersions = [s \in Streams |-> 0]
  /\ identity = 0
  /\ view = [s \in Streams |-> Unread]

tables == <<events, outbox, streamVersions>>
-----------------------------------------------------------------------------
(* Locks and unique keys.                                                  *)

\* Calls whose transaction has updated its stream's counter row and has not
\* ended: PostgreSQL holds the row lock to the end of the transaction.
HoldsCounter_KeptAfterError == {"versioned", "inserted", "outboxed", "failed"}
HoldsCounter == {"versioned", "inserted", "outboxed"}

CounterLocked_PlainRead(s) == FALSE
CounterLocked(s) == \E c \in Calls : call[c].stream = s /\ pc[c] \in HoldsCounter

\* UNIQUE (stream_id, stream_version): a committed row with the key of c.
KeyTaken(c) ==
  \E e \in events : e.stream = call[c].stream /\ e.version = version[c]

\* An uncommitted row with the key of c makes the INSERT wait for its end.
KeyPending(c) ==
  \E d \in Calls \ {c} :
    /\ pc[d] \in {"inserted", "outboxed"}
    /\ call[d].stream = call[c].stream
    /\ version[d] = version[c]

Connections == {c \in Calls : pc[c] \in InTx}

\* What `RETURNING version - 1` yields: the committed counter, before the
\* increment that stays private to the transaction.
NextVersion_AfterIncrement(s) == streamVersions[s] + 1
NextVersion(s) == streamVersions[s]

\* What the transaction of c adds to the tables.
NewEvent(c) ==
  [id |-> c, stream |-> call[c].stream, version |-> version[c], pos |-> pos[c]]

RowOf_VersionAsPosition(e) == [id |-> e.id, stream |-> e.stream, pos |-> e.version]
RowOf(e) == [id |-> e.id, stream |-> e.stream, pos |-> e.pos]

-----------------------------------------------------------------------------
(* The steps of one append call.                                           *)

\* pool.begin(): needs a free connection.
Begin(c) ==
  /\ pc[c] = "idle"
  /\ Cardinality(Connections) < PoolSize
  /\ pc' = [pc EXCEPT ![c] = "begun"]
  /\ UNCHANGED <<call, version, pos, tables, identity, view>>

\* INSERT ... ON CONFLICT DO UPDATE ... RETURNING version - 1.
BumpVersion(c) ==
  /\ pc[c] = "begun"
  /\ ~ CounterLocked(call[c].stream)
  /\ version' = [version EXCEPT ![c] = NextVersion(call[c].stream)]
  /\ pc' = [pc EXCEPT ![c] = "versioned"]
  /\ UNCHANGED <<call, pos, tables, identity, view>>

\* INSERT INTO events ... RETURNING global_position.  The identity value is
\* taken whatever becomes of the row; error 23505 is ConcurrencyConflict,
\* and returning it drops the transaction.
InsertEvent(c) ==
  /\ pc[c] = "versioned"
  /\ ~ KeyPending(c)
  /\ identity < MaxPos
  /\ identity' = identity + 1
  /\ pos' = [pos EXCEPT ![c] = identity + 1]
  /\ pc' = [pc EXCEPT ![c] = IF KeyTaken(c) THEN "conflict" ELSE "inserted"]
  /\ UNCHANGED <<call, version, tables, view>>

\* INSERT INTO integration_outbox, of append_with_outbox only.
InsertOutbox(c) ==
  /\ pc[c] = "inserted"
  /\ call[c].outbox
  /\ pc' = [pc EXCEPT ![c] = "outboxed"]
  /\ UNCHANGED <<call, version, pos, tables, identity, view>>

ReadyToCommit_BeforeOutbox(c) == pc[c] = "inserted"
ReadyToCommit(c) ==
  pc[c] = IF call[c].outbox THEN "outboxed" ELSE "inserted"

\* tx.commit(): everything becomes visible at once.  The acknowledgement may
\* be lost, in which case the caller gets an error for an event that exists.
Commit(c) ==
  /\ ReadyToCommit(c)
  /\ events' = events \cup {NewEvent(c)}
  /\ outbox' = IF pc[c] = "outboxed" THEN outbox \cup {RowOf(NewEvent(c))} ELSE outbox
  /\ streamVersions' = [streamVersions EXCEPT ![call[c].stream] = version[c] + 1]
  /\ \E result \in {"ok", "unknown"} : pc' = [pc EXCEPT ![c] = result]
  /\ UNCHANGED <<call, version, pos, identity, view>>

\* Before its COMMIT has been executed.
Abortable_LostAck == {"idle", "unknown"} \cup InTx
Abortable == {"idle"} \cup InTx

\* A statement fails or the connection is lost: the `?` drops the
\* transaction and everything it wrote but the identity value is undone.
Fail(c) ==
  /\ pc[c] \in Abortable
  /\ pc' = [pc EXCEPT ![c] = "failed"]
  /\ UNCHANGED <<call, version, pos, tables, identity, view>>

Step(c) ==
  Begin(c) \/ BumpVersion(c) \/ InsertEvent(c) \/ InsertOutbox(c) \/ Commit(c)
-----------------------------------------------------------------------------
(* rehydrate: one SELECT ... ORDER BY stream_version, that is a snapshot.  *)

VersionsOf(s) == {e.version : e \in {x \in events : x.stream = s}}
SkippedOf(s) == {e.version : e \in {x \in events : x.stream = s /\ x.id \in Unreadable}}
AppliedOf(s) == {e.version : e \in {x \in events : x.stream = s /\ x.id \notin Unreadable}}

\* last_version is that of the last row, set before the row can be skipped;
\* -1 for an empty stream.
Reached_AppliedOnly(s) == AppliedOf(s)
Reached(s) == VersionsOf(s)
LastOf(V) == IF V = {} THEN -1 ELSE CHOOSE v \in V : \A w \in V : w <= v

\* An event the upcasters answer Unrecognised for is passed over, one that
\* does not deserialise is passed over with a warning; the others are applied.
Rehydrate(s) ==
  /\ view' = [view EXCEPT ![s] =
       [applied |-> AppliedOf(s), skipped |-> SkippedOf(s), last |-> LastOf(Reached(s))]]
  /\ UNCHANGED <<call, pc, version, pos, tables, identity>>
-----------------------------------------------------------------------------
Next ==
  \/ \E c \in Calls : Step(c) \/ Fail(c)
  \/ \E s \in Streams : Rehydrate(s)

Spec == Init /\ [][Next]_vars

\* The server and the runtime keep every call moving; failures need not happen.
FairSpec == Spec /\ \A c \in Calls : WF_vars(Step(c))
-----------------------------------------------------------------------------
(* Properties.                                                             *)

\* The versions of each stream are 0, 1, 2, ... with no gap and no version
\* twice, whatever mix of calls failed, waited or lost their acknowledgement:
\* an aborted call gives its version back with the counter row.
StreamsGapless ==
  /\ \A s \in Streams : VersionsOf(s) = 0 .. (streamVersions[s] - 1)
  /\ \A e, f \in events : e.stream = f.stream /\ e.version = f.version => e = f

\* append never reports ConcurrencyConflict: the row lock on the counter puts
\* the appends to a stream in line before the unique index can object.
NoConflict == \A c \in Calls : pc[c] # "conflict"

\* "Either both records exist after commit or neither does": the outbox holds
\* exactly one row, with the same id, stream and position, for each event of
\* append_with_outbox, and none for the events of append.
OutboxAtomic == outbox = {RowOf(e) : e \in {x \in events : call[x.id].outbox}}

\* An envelope returned to a caller is the row in the table, an error other
\* than a lost acknowledgement of COMMIT leaves nothing behind.
AnswerIsTruthful ==
  \A c \in Calls :
    /\ pc[c] = "ok" => NewEvent(c) \in events
    /\ pc[c] \in {"conflict", "failed"} => \A e \in events : e.id # c

\* rehydrate goes through a whole prefix of the stream, up to the version it
\* returns: it has applied every readable event of it, has passed over every
\* other one, and the version tells the length of the prefix, not the
\* number of events the state is made of.
RehydrateSeesPrefix ==
  \A s \in Streams :
    /\ view[s].last < streamVersions[s]
    /\ view[s].applied \cup view[s].skipped = 0 .. view[s].last
    /\ \A e \in events : e.stream = s /\ e.version <= view[s].last =>
         e.version \in IF e.id \in Unreadable THEN view[s].skipped \ view[s].applied
                                              ELSE view[s].applied \ view[s].skipped

\* The transactions implement the one-step append of EventLog.
Log == INSTANCE EventLog WITH Ids <- Calls, next <- streamVersions
ImplementsEventLog == Log!LogSpec

\* Every call returns: it waits for a connection of the pool and for the
\* counter row of its stream, and no failure of another call keeps either.
EveryCallReturns == \A c \in Calls : <>(pc[c] \in Done)
=============================================================================
