------------------------------ MODULE RateBench ------------------------------
(***************************************************************************)
(* The rate benchmark, src/rust-app/src/{postgres,mongodb,kurrentdb}/      *)
(* benchmark.rs, with the batch appends of the three clients.              *)
(*                                                                         *)
(* A loop starts one write per tick while there is a permit, the streams   *)
(* in turn; a write that fails is skipped.  When the time is up, the loop  *)
(* takes back all permits and reports how many events were written.        *)
(* Nothing keeps two writes to one stream apart.                           *)
(*                                                                         *)
(* With event_store_mode, PostgreSQL and MongoDB number a batch from a     *)
(* counter and insert it afterwards, in separate calls; KurrentDB is told  *)
(* the last revision, as the program remembers it.                         *)
(***************************************************************************)
EXTENDS Integers, FiniteSets

CONSTANTS
  Concurrency,  \* config.concurrency: streams, and permits up to 96
  BatchSizes,   \* config.batch_size, chosen at the start
  MaxWrites,    \* bound: writes started
  MaxOld        \* bound: events, or version numbers, of earlier runs

ASSUME RateAssumption ==
  /\ Concurrency \in Nat \ {0} /\ BatchSizes \subseteq Nat \ {0} /\ BatchSizes # {}
  /\ MaxWrites \in Nat /\ MaxOld \in Nat

VARIABLES
  bench,     \* backend, event_store_mode, batch_size, and what was there
  stage,     \* of the run
  started,   \* `seq`: writes started
  inFlight,  \* writes that hold a permit
  top,       \* per stream: the version counter, or the length of the stream
  rows,      \* what this run has stored
  known,     \* `stream_versions` of the KurrentDB program: the last revision
  total,     \* total_events
  failed     \* history: the writes that answered an error

tables == <<top, rows>>
rateVars == <<bench, stage, started, inFlight, tables, known, total, failed>>

Targets == 0 .. Concurrency - 1
StreamOf(w) == w.seq % Concurrency
Permits == IF Concurrency < 96 THEN Concurrency ELSE 96

Bench == [backend : {"postgres", "mongodb", "kurrentdb"}, versioned : BOOLEAN,
          size : BatchSizes, old : 0 .. MaxOld]
Write == [seq : 0 .. MaxWrites - 1, pc : {"spawned", "numbered", "stored"}, first : Int]

RateTypeOK ==
  /\ bench \in Bench
  /\ stage \in {"ticking", "draining", "reported"}
  /\ started \in 0 .. MaxWrites
  /\ inFlight \subseteq Write /\ failed \subseteq Write
  /\ top \in [Targets -> Nat] /\ known \in [Targets -> Int] /\ total \in Nat
  /\ rows \subseteq [seq : 0 .. MaxWrites - 1, part : Nat, version : Int]

\* The setup: the PostgreSQL table is made anew but stream_versions is not,
\* init_stream_versions leaves a counter as it is; a MongoDB database may be
\* kept; a KurrentDB stream is never emptied.
RateInit(benches) ==
  /\ bench \in benches
  /\ stage = "ticking" /\ started = 0 /\ inFlight = {}
  /\ top = [s \in Targets |-> bench.old]
  /\ rows = {}
  /\ known = [s \in Targets |-> 0]
  /\ total = 0 /\ failed = {}
-----------------------------------------------------------------------------
Goes(w, pc, first) == (inFlight \ {w}) \cup {[w EXCEPT !.pc = pc, !.first = first]}

\* try_acquire_owned: without a permit the tick is skipped and seq stays.
StartWrite ==
  /\ stage = "ticking"
  /\ started < MaxWrites
  /\ Cardinality(inFlight) < Permits
  /\ inFlight' = inFlight \cup {[seq |-> started, pc |-> "spawned", first |-> -1]}
  /\ started' = started + 1
  /\ UNCHANGED <<bench, stage, tables, known, total, failed>>

TimeIsUp ==
  /\ stage = "ticking"
  /\ stage' = "draining"
  /\ UNCHANGED <<bench, started, inFlight, tables, known, total, failed>>

Counted == bench.versioned /\ bench.backend \in {"postgres", "mongodb"}
Expecting == bench.versioned /\ bench.backend = "kurrentdb"

\* One event goes to PostgreSQL with its number in a single statement.
NumbersFirst == Counted /\ (bench.backend = "mongodb" \/ bench.size > 1)

\* The rows of a write whose first version is v; a part of them, for
\* insert_many, which may fail half way.
Batch(w, v, parts) == {[seq |-> w.seq, part |-> i, version |-> v + i] : i \in 0 .. parts - 1}

VersionsIn(s) == {r.version : r \in {x \in rows : StreamOf(x) = s}}

\* PostgreSQL and MongoDB: the counter goes up by the size of the batch, in a
\* statement of its own.
First_AfterLastRow(s) ==
  IF VersionsIn(s) = {} THEN bench.old
  ELSE 1 + CHOOSE v \in VersionsIn(s) : \A u \in VersionsIn(s) : u <= v
First(s) == top[s]

Numbering(w) ==
  /\ NumbersFirst
  /\ w.pc = "spawned"
  /\ inFlight' = Goes(w, "numbered", First(StreamOf(w)))
  /\ top' = [top EXCEPT ![StreamOf(w)] = @ + bench.size]
  /\ UNCHANGED <<bench, stage, started, rows, known, total, failed>>

\* KurrentDB: the remembered revision; the lock is not held over the append.
Expect(w) ==
  /\ Expecting
  /\ w.pc = "spawned"
  /\ inFlight' = Goes(w, "numbered", known[StreamOf(w)])
  /\ UNCHANGED <<bench, stage, started, tables, known, total, failed>>

Ready(w) == w.pc = IF NumbersFirst \/ Expecting THEN "numbered" ELSE "spawned"

\* Where the batch goes: at its number, or at the end.
At(w) == IF NumbersFirst THEN w.first ELSE top[StreamOf(w)]

\* The unique key of PostgreSQL and MongoDB; the revision KurrentDB expects.
Takes(w) ==
  /\ Counted => \A i \in 0 .. bench.size - 1 : At(w) + i \notin VersionsIn(StreamOf(w))
  /\ Expecting => w.first = top[StreamOf(w)] - 1

Store(w, parts) ==
  /\ rows' = rows \cup Batch(w, At(w), parts)
  /\ top' = IF NumbersFirst THEN top ELSE [top EXCEPT ![StreamOf(w)] = @ + bench.size]

\* The append answers Ok: next_expected_version is the new last revision.
StoreBatch(w) ==
  /\ Ready(w) /\ Takes(w)
  /\ Store(w, bench.size)
  /\ inFlight' = Goes(w, "stored", top'[StreamOf(w)] - 1)
  /\ UNCHANGED <<bench, stage, started, known, total, failed>>

\* "append failed, skipping".
Skip(w) ==
  /\ inFlight' = inFlight \ {w}
  /\ failed' = failed \cup {w}
  /\ UNCHANGED <<bench, stage, started, known, total>>

Refuse(w) == Ready(w) /\ ~ Takes(w) /\ Skip(w) /\ UNCHANGED tables

\* Any other failure, before or after the database has done its part.
FailWrite(w) ==
  /\ w.pc # "stored"
  /\ Skip(w)
  /\ \/ UNCHANGED tables
     \/ Ready(w) /\ Takes(w) /\ Store(w, bench.size)
     \/ bench.backend = "mongodb" /\ Ready(w) /\ \E k \in 1 .. bench.size - 1 : Store(w, k)

\* versions.insert(stream, next_version), fetch_add, and the permit returns.
Remembered_Length(w) == w.first + 1
Remembered(w) == w.first

Acknowledge(w) ==
  /\ w.pc = "stored"
  /\ known' = IF Expecting THEN [known EXCEPT ![StreamOf(w)] = Remembered(w)] ELSE known
  /\ total' = total + bench.size
  /\ inFlight' = inFlight \ {w}
  /\ UNCHANGED <<bench, stage, started, tables, failed>>

\* acquire_many(max_in_flight), then the counter is read.
AllBack_TimeIsUp == stage = "draining"
AllBack == stage = "draining" /\ inFlight = {}

ReportRate ==
  /\ AllBack
  /\ stage' = "reported"
  /\ UNCHANGED <<bench, started, inFlight, tables, known, total, failed>>

RateStep ==
  \/ StartWrite \/ TimeIsUp \/ ReportRate
  \/ \E w \in inFlight :
       Numbering(w) \/ Expect(w) \/ StoreBatch(w) \/ Refuse(w) \/ FailWrite(w) \/ Acknowledge(w)
-----------------------------------------------------------------------------
(* Properties.                                                             *)

\* The counter hands out every version once, although numbering and insert
\* are two calls and batches of one stream overlap: what a write has been
\* given is free, and a version missing below the counter is one that a write
\* in flight holds or a failed write has lost (a hole of up to a batch).
NumbersAreUsedOnce ==
  Counted => \A s \in Targets : \A v \in bench.old .. top[s] - 1 :
    LET Has(w) == StreamOf(w) = s /\ w.pc = "numbered" /\ v \in w.first .. w.first + bench.size - 1
        holders == {w \in inFlight : Has(w)}
    IN  IF v \in VersionsIn(s)
          THEN holders = {} /\ Cardinality({r \in rows : StreamOf(r) = s /\ r.version = v}) = 1
          ELSE Cardinality(holders \cup {w \in failed : Has(w)}) = 1

\* KurrentDB: the remembered revision is that of the stream while its writes
\* are acknowledged, however they overlap.  A lost acknowledgement, and a
\* stream that does not begin with one event, leave it behind for good.
RevisionIsKnown ==
  Expecting => \A s \in Targets :
    \/ known[s] = top[s] - 1
    \/ bench.old # 1
    \/ \E w \in inFlight : StreamOf(w) = s /\ w.pc = "stored"
    \/ \E w \in failed : \E r \in rows : r.seq = w.seq /\ StreamOf(w) = s

\* The report counts the stored events of the writes that were acknowledged,
\* all of them: the drain lets the last writes be counted.
ReportCountsStored ==
  stage = "reported" =>
    total = Cardinality({r \in rows : \A w \in failed : w.seq # r.seq})

\* "Each task writes to its own dedicated stream, so optimistic-concurrency
\* conflicts never occur": no write is refused.
ConflictsNeverOccur ==
  \A w \in inFlight : Ready(w) => Takes(w)
=============================================================================
