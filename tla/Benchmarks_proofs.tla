-------------------------- MODULE Benchmarks_proofs --------------------------
(***************************************************************************)
(* The safety properties of the commands, for every size, number of        *)
(* streams and number of processes.  The process runs one command: what    *)
(* another command's module says of its own variables is untouched by it,  *)
(* so each section proves an invariant over the steps of one module, and   *)
(* its theorem carries it to the program as a whole.                       *)
(***************************************************************************)
EXTENDS Benchmarks, SequenceLemmas

\* A step of the program is a step of one command, or leaves its variables.
LEMMA StepsOfCommands ==
  ASSUME [RunNext]_runVars
  PROVE  /\ (program = "projection" /\ Next) \/ (program = "search" /\ SearchNext)
              \/ UNCHANGED searchBenchVars
         /\ HotColdStep \/ UNCHANGED hotColdVars
         /\ RateStep \/ UNCHANGED rateVars
         /\ CacheStep \/ UNCHANGED cacheVars
         /\ SnapshotStep \/ UNCHANGED snapshotVars
         /\ BootStep \/ UNCHANGED bootVars
BY DEF RunNext, ProjectionCommand, SearchCommand, HotColdCommand, RateCommand, CacheCommand,
       SnapshotCommand, BootstrapCommand, Ended, runVars, searchBenchVars, otherVars,
       Next, Writing, Projecting, Polling, SearchNext, WritingSearchable, Indexing, PollingForIndexing
-----------------------------------------------------------------------------
(* Bootstrap.  A process that is past a statement has executed it or has   *)
(* found its object, and whoever creates the collection of MongoDB is at   *)
(* the indexes next, or abandons them.                                     *)

HasPassed ==
  \A p \in Services : \A i \in 1 .. Len(Statements) :
    i < booting[p] => Statements[i] \in schema \/ (store = "mongodb" /\ i = 2)

IndexesToCome ==
  store = "mongodb" /\ Statements[1] \in schema =>
    Statements[2] \in schema \/ abandoned \/ \E q \in Services : booting[q] = 2

SchemaInv == BootTypeOK /\ HasPassed /\ IndexesToCome

\* The statements of the two stores, by their number.
LEMMA StatementsOf ==
  ASSUME store \in DOMAIN Objects
  PROVE  /\ Len(Statements) \in Nat /\ Len(Statements) >= 3 /\ Complete = Len(Statements) + 1
         /\ ToSet(Statements) = {Statements[i] : i \in 1 .. Len(Statements)}
         /\ store = "mongodb" => Len(Statements) = 3
         /\ Statements[1] = "events"
         /\ store = "mongodb" =>
              \A i \in 1 .. Len(Statements) : Statements[i] = Statements[1] => i = 1
<1> USE DEF Statements, Objects
<1>1. store \in {"postgres", "mongodb"}
  OBVIOUS
<1>2. CASE store = "postgres"
  <2>1. Len(Statements) = 6 /\ Statements[1] = "events"
    BY <1>2
  <2> QED
    BY <1>2, <2>1 DEF Complete, ToSet
<1>3. CASE store = "mongodb"
  <2>1. /\ Len(Statements) = 3 /\ Statements[1] = "events"
        /\ Statements[2] = "event indexes" /\ Statements[3] = "auxiliary collections"
    BY <1>3
  <2>2. \A i \in 1 .. 3 : i = 1 \/ i = 2 \/ i = 3
    OBVIOUS
  <2> HIDE DEF Statements, Objects
  <2>3. \A i \in 1 .. 3 : Statements[i] = Statements[1] => i = 1
    BY <2>1, <2>2
  <2>4. ToSet(Statements) = {Statements[i] : i \in 1 .. Len(Statements)}
    BY <1>3 DEF ToSet, Statements, Objects
  <2>5. Len(Statements) \in Nat /\ Len(Statements) >= 3 /\ 1 .. Len(Statements) = 1 .. 3
    <3> DEFINE l == Len(Statements)
    <3>1. l = 3
      BY <2>1
    <3> HIDE DEF l
    <3>2. l \in Nat /\ l >= 3 /\ 1 .. l = 1 .. 3
      BY <3>1
    <3> QED
      BY <3>2 DEF l
  <2>6. \A i \in 1 .. Len(Statements) : Statements[i] = Statements[1] => i = 1
    BY <2>3, <2>5
  <2>7. Complete = Len(Statements) + 1
    BY DEF Complete
  <2> QED
    BY <2>1, <2>4, <2>5, <2>6, <2>7
<1> QED
  BY <1>1, <1>2, <1>3

\* Nobody has booted yet.
LEMMA InitSchema == ASSUME NEW S, S \subseteq DOMAIN Objects, BootInit(S) PROVE SchemaInv
<1>1. store \in DOMAIN Objects /\ schema = {} /\ booting = [p \in Services |-> 0] /\ abandoned = FALSE
  BY DEF BootInit
<1>2. Complete \in Nat /\ Len(Statements) \in Nat
  BY <1>1, StatementsOf
<1>3. BootTypeOK
  <2>1. 0 \in 0 .. Complete
    BY <1>2
  <2>2. booting \in [Services -> 0 .. Complete]
    BY <1>1, <2>1
  <2> QED
    BY <1>1, <2>2 DEF BootTypeOK
<1>4. HasPassed /\ IndexesToCome
  BY <1>1, <1>2 DEF HasPassed, IndexesToCome
<1> QED
  BY <1>3, <1>4 DEF SchemaInv

\* A start takes nothing away, and the process has not passed anything.
LEMMA BootSchema == ASSUME SchemaInv, NEW p \in Services, Boot(p) PROVE SchemaInv'
<1>1. store \in DOMAIN Objects /\ Statements' = Statements /\ Complete' = Complete
  BY DEF SchemaInv, BootTypeOK, Boot, Statements, Complete
<1>2. booting' = [booting EXCEPT ![p] = 1] /\ booting[p] # 2 /\ UNCHANGED <<store, schema, abandoned>>
  BY <1>1, StatementsOf DEF Boot, SchemaInv, BootTypeOK
<1>3. BootTypeOK'
  BY <1>1, <1>2, StatementsOf DEF SchemaInv, BootTypeOK
<1>4. HasPassed'
  BY <1>1, <1>2, StatementsOf DEF SchemaInv, BootTypeOK, HasPassed
<1>5. IndexesToCome'
  BY <1>1, <1>2 DEF SchemaInv, BootTypeOK, IndexesToCome
<1> QED
  BY <1>3, <1>4, <1>5 DEF SchemaInv

\* The object is there afterwards; only the indexes are passed over.
LEMMA ExecuteSchema == ASSUME SchemaInv, NEW p \in Services, Execute(p) PROVE SchemaInv'
<1>1. store \in DOMAIN Objects /\ Statements' = Statements /\ Complete' = Complete
  BY DEF SchemaInv, BootTypeOK, Execute, Statements, Complete
<1> DEFINE i == booting[p]
<1>2. /\ i \in 1 .. Len(Statements) /\ i \in Nat
      /\ schema' = schema \cup {Statements[i]}
      /\ booting' = [booting EXCEPT ![p] = After(i)] /\ booting'[p] = After(i)
      /\ UNCHANGED <<store, abandoned>>
  BY <1>1, StatementsOf DEF Execute, SchemaInv, BootTypeOK
<1>3. /\ After(i) \in 0 .. Complete /\ (After(i) = i + 1 \/ (store = "mongodb" /\ i = 1 /\ After(i) = 3))
      /\ Statements[1] \notin schema => After(i) = i + 1
  BY <1>1, <1>2, StatementsOf DEF After, FindsCollection
<1>4. BootTypeOK'
  BY <1>1, <1>2, <1>3, StatementsOf DEF SchemaInv, BootTypeOK
<1>5. HasPassed'
  <2> SUFFICES ASSUME NEW q \in Services, NEW k \in 1 .. Len(Statements), k < booting'[q]
               PROVE  Statements[k] \in schema' \/ (store' = "mongodb" /\ k = 2)
    BY <1>1 DEF HasPassed
  <2>1. CASE q # p
    BY <1>2, <2>1 DEF SchemaInv, BootTypeOK, HasPassed
  <2>2. CASE q = p /\ k < i
    BY <1>2, <2>2 DEF SchemaInv, BootTypeOK, HasPassed
  <2>3. CASE q = p /\ ~ (k < i)
    <3>1. k = i \/ (store = "mongodb" /\ k = 2)
      BY <1>1, <1>2, <1>3, <2>3, StatementsOf
    <3> QED
      BY <1>2, <3>1
  <2> QED
    BY <2>1, <2>2, <2>3
<1>6. IndexesToCome'
  <2> SUFFICES ASSUME store = "mongodb", Statements[1] \in schema', Statements[2] \notin schema', ~ abandoned'
               PROVE  \E q \in Services : booting'[q] = 2
    BY <1>1, <1>2 DEF IndexesToCome
  <2>1. i # 2
    BY <1>2
  <2>2. CASE Statements[1] \notin schema
    <3>1. i = 1
      BY <1>1, <1>2, <2>2, StatementsOf
    <3> QED
      BY <1>2, <1>3, <2>2, <3>1
  <2>3. CASE Statements[1] \in schema
    <3>1. PICK q \in Services : booting[q] = 2
      BY <1>2, <2>3 DEF SchemaInv, IndexesToCome
    <3> QED
      BY <1>2, <2>1, <3>1 DEF SchemaInv, BootTypeOK
  <2> QED
    BY <2>2, <2>3
<1> QED
  BY <1>4, <1>5, <1>6 DEF SchemaInv

\* A bootstrap that ends early has passed nothing, and is noted when it
\* leaves the indexes undone.
LEMMA CutShortSchema == ASSUME SchemaInv, NEW p \in Services, CutShort(p) PROVE SchemaInv'
<1>1. store \in DOMAIN Objects /\ Statements' = Statements /\ Complete' = Complete
  BY DEF SchemaInv, BootTypeOK, CutShort, Statements, Complete
<1> DEFINE i == booting[p]
<1>2. /\ i \in 1 .. Len(Statements) /\ i \in Nat
      /\ schema' = schema \/ schema' = schema \cup {Statements[i]}
      /\ booting' = [booting EXCEPT ![p] = 0] /\ store' = store
  BY <1>1, StatementsOf DEF CutShort, SchemaInv, BootTypeOK
<1>3. abandoned' \in BOOLEAN /\ (abandoned => abandoned')
  BY Zenon DEF CutShort, SchemaInv, BootTypeOK
<1>4. BootTypeOK'
  BY <1>1, <1>2, <1>3, StatementsOf DEF SchemaInv, BootTypeOK
<1>5. HasPassed'
  BY <1>1, <1>2 DEF SchemaInv, BootTypeOK, HasPassed
<1>6. IndexesToCome'
  <2> SUFFICES ASSUME store = "mongodb", Statements[1] \in schema', Statements[2] \notin schema', ~ abandoned'
               PROVE  \E q \in Services : booting'[q] = 2
    BY <1>1, <1>2 DEF IndexesToCome
  <2>1. i # 2 /\ (i = 1 => schema' = schema)
    BY <1>2 DEF CutShort
  <2>2. Statements[1] \in schema
    BY <1>1, <1>2, <2>1, StatementsOf
  <2>3. PICK q \in Services : booting[q] = 2
    BY <1>2, <1>3, <2>2 DEF SchemaInv, IndexesToCome
  <2> QED
    BY <1>2, <2>1, <2>3 DEF SchemaInv, BootTypeOK
<1> QED
  BY <1>5, <1>6, <1>4 DEF SchemaInv

\* A bootstrap that answers Ok leaves the whole schema behind, but for the
\* MongoDB indexes that another process is about to create or has abandoned,
\* for any number of processes (Bootstrap: OkMeansSchema).
THEOREM OkIsComplete == RunSpec => []OkMeansSchema
<1>1. RunInit => SchemaInv
  BY InitSchema DEF RunInit, Objects
<1>2. SchemaInv /\ [RunNext]_runVars => SchemaInv'
  <2> SUFFICES ASSUME SchemaInv, [RunNext]_runVars PROVE SchemaInv'
    OBVIOUS
  <2>1. CASE BootStep
    BY <2>1, BootSchema, ExecuteSchema, CutShortSchema DEF BootStep
  <2>2. CASE UNCHANGED bootVars
    BY <2>2 DEF bootVars, SchemaInv, BootTypeOK, HasPassed, IndexesToCome, Statements, Complete
  <2> QED
    BY <2>1, <2>2, StepsOfCommands
<1>3. SchemaInv => OkMeansSchema
  <2> SUFFICES ASSUME SchemaInv, NEW p \in Services, booting[p] = Complete,
                      NEW i \in 1 .. Len(Statements), Statements[i] \notin schema
               PROVE  store = "mongodb" /\ i = 2 /\ (abandoned \/ \E q \in Services : booting[q] = 2)
    BY DEF OkMeansSchema
  <2>1. Len(Statements) \in Nat /\ Complete = Len(Statements) + 1 /\ (store = "mongodb" => Len(Statements) = 3)
    BY StatementsOf DEF SchemaInv, BootTypeOK
  <2>2. store = "mongodb" /\ i = 2
    BY <2>1 DEF SchemaInv, HasPassed
  <2>3. Statements[1] \in schema
    BY <2>1, <2>2 DEF SchemaInv, HasPassed
  <2> QED
    BY <2>2, <2>3 DEF SchemaInv, IndexesToCome
<1> QED
  BY <1>1, <1>2, <1>3, PTL DEF RunSpec
-----------------------------------------------------------------------------
(* The rate benchmark.  A write keeps its number `seq` whatever happens to *)
(* it (SeqsOnce).  The ranges of versions that were handed out and the     *)
(* rows divide what the counter has passed (Numbers).  A write that was    *)
(* stored and is not acknowledged is the last of its stream, and the       *)
(* program's revision is behind until then (Revisions).                    *)

Tried == inFlight \cup failed

SeqsOnce ==
  /\ \A w \in Tried : w.seq < started
  /\ \A r \in rows : r.seq < started
  /\ \A w, x \in Tried : w.seq = x.seq => w = x
  /\ inFlight \cap failed = {}
  /\ \A w \in inFlight : w.pc # "stored" => \A r \in rows : r.seq # w.seq

Holders == {w \in Tried : w.pc = "numbered"}
Holds(w, v) == w.first <= v /\ v < w.first + bench.size
Free(w, x) == w.first + bench.size <= x.first \/ x.first + bench.size <= w.first

Numbers ==
  Counted =>
    /\ ~ NumbersFirst => Holders = {}
    /\ \A w \in Holders : bench.old <= w.first /\ w.first + bench.size <= top[StreamOf(w)]
    /\ \A w, x \in Holders : StreamOf(w) = StreamOf(x) /\ w # x => Free(w, x)
    /\ \A r \in rows : bench.old <= r.version /\ r.version < top[StreamOf(r)]
    /\ \A r \in rows : \A w \in Holders :
         StreamOf(r) = StreamOf(w) /\ Holds(w, r.version) => r.seq = w.seq
    /\ \A r, q \in rows : StreamOf(r) = StreamOf(q) /\ r.version = q.version => r = q
    /\ \A s \in Targets : bench.old <= top[s]
    /\ \A s \in Targets : \A v \in Nat : bench.old <= v /\ v < top[s] =>
         \/ \E r \in rows : StreamOf(r) = s /\ r.version = v
         \/ \E w \in Holders : StreamOf(w) = s /\ Holds(w, v)

RowsOf(q) == {r \in rows : r.seq = q}
Settled == {r \in rows : \A w \in Tried : r.seq # w.seq}

Totals ==
  /\ IsFiniteSet(rows) /\ total = Cardinality(Settled)
  /\ \A w \in inFlight : w.pc = "stored" => Cardinality(RowsOf(w.seq)) = bench.size

Unacknowledged(s) == {w \in inFlight : StreamOf(w) = s /\ w.pc = "stored"}
NothingLost(s) == \A w \in failed : \A r \in rows : r.seq = w.seq => StreamOf(w) # s

UpToDate(s) ==
  /\ known[s] <= top[s] - 1
  /\ Unacknowledged(s) = {} => known[s] = top[s] - 1
  /\ \A w \in Unacknowledged(s) : w.first = top[s] - 1 /\ known[s] < top[s] - 1
  /\ \A w, x \in Unacknowledged(s) : w = x
  /\ \A w \in inFlight : StreamOf(w) = s /\ w.pc = "numbered" => w.first <= known[s]

Revisions ==
  Expecting /\ bench.old = 1 => \A s \in Targets : NothingLost(s) => UpToDate(s)

RateInv == RateTypeOK /\ SeqsOnce /\ Numbers /\ Totals /\ Revisions
\* Every write has a stream, and so has every row.
LEMMA StreamsAreTargets ==
  ASSUME NEW w, w.seq \in Nat
  PROVE  StreamOf(w) \in Targets
BY RateAssumption DEF StreamOf, Targets

\* A write in flight is one, and the batches have a size.
LEMMA InFlightTypes ==
  ASSUME RateTypeOK, NEW w \in inFlight
  PROVE  /\ w \in Write /\ w.seq \in Nat /\ w.first \in Int /\ StreamOf(w) \in Targets
         /\ bench.size \in Nat \ {0} /\ bench.old \in Nat
<1>1. w \in Write
  BY DEF RateTypeOK
<1>2. w.seq \in 0 .. MaxWrites - 1 /\ w.first \in Int
  BY <1>1 DEF Write
<1>3. w.seq \in Nat
  BY <1>2, RateAssumption
<1>4. bench.size \in BatchSizes /\ bench.old \in 0 .. MaxOld
  BY DEF RateTypeOK, Bench
<1>5. \A b \in BatchSizes : b \in Nat \ {0}
  BY RateAssumption
<1>6. \A b \in 0 .. MaxOld : b \in Nat
  BY RateAssumption
<1> QED
  BY <1>1, <1>2, <1>3, <1>4, <1>5, <1>6, StreamsAreTargets

\* The rows of a batch: their seq is that of the write, they are numbered from
\* its first version on, and there are as many as it has parts.
LEMMA BatchRows ==
  ASSUME NEW w \in Write, NEW v \in Int, NEW k \in Nat
  PROVE  /\ Batch(w, v, k) \subseteq [seq : 0 .. MaxWrites - 1, part : Nat, version : Int]
         /\ \A r \in Batch(w, v, k) :
              r.seq = w.seq /\ StreamOf(r) = StreamOf(w) /\ v <= r.version /\ r.version < v + k
         /\ \A r, q \in Batch(w, v, k) : r.version = q.version => r = q
         /\ \A u \in Int : v <= u /\ u < v + k => \E r \in Batch(w, v, k) : r.version = u
         /\ IsFiniteSet(Batch(w, v, k)) /\ Cardinality(Batch(w, v, k)) = k
<1> DEFINE B == Batch(w, v, k)
           P == 0 .. k - 1
           row == [i \in P |-> [seq |-> w.seq, part |-> i, version |-> v + i]]
<1>1. B = {row[i] : i \in P}
  BY DEF Batch
<1>2. /\ \A i \in P : row[i] \in [seq : 0 .. MaxWrites - 1, part : Nat, version : Int]
      /\ \A i \in P : row[i].seq = w.seq /\ row[i].version = v + i /\ row[i].part = i
  BY DEF Write
<1>3. \A r \in B : \E i \in P : r = row[i]
  BY <1>1
<1>4. \A i \in P : i \in Int /\ 0 <= i /\ i < k
  OBVIOUS
<1>5. \A u \in Int : v <= u /\ u < v + k => u - v \in P /\ v + (u - v) = u
  OBVIOUS
<1>6. row \in [P -> B]
  BY <1>1
<1>7. row \in Bijection(P, B)
  <2> HIDE DEF row, P
  <2>1. row \in Injection(P, B)
    <3>1. \A i, j \in P : row[i] = row[j] => i = j
      BY <1>2
    <3> QED
      BY <1>6, <3>1 DEF Injection, IsInjective
  <2>2. row \in Surjection(P, B)
    BY <1>3, <1>6 DEF Surjection
  <2> QED
    BY <2>1, <2>2 DEF Bijection
<1>8. IsFiniteSet(P) /\ Cardinality(P) = k
  BY FS_Interval
<1>9. IsFiniteSet(B) /\ Cardinality(B) = k
  BY <1>7, <1>8, FS_Bijection DEF ExistsBijection
<1> HIDE DEF row, P
<1>10. \A r \in B :
         /\ r.seq = w.seq /\ v <= r.version /\ r.version < v + k
         /\ r \in [seq : 0 .. MaxWrites - 1, part : Nat, version : Int]
  BY <1>2, <1>3, <1>4
<1>11. \A r \in B : StreamOf(r) = StreamOf(w)
  BY <1>10 DEF StreamOf
<1>12. \A r, q \in B : r.version = q.version => r = q
  BY <1>2, <1>3, <1>4
<1>13. \A u \in Int : v <= u /\ u < v + k => \E r \in B : r.version = u
  BY <1>1, <1>2, <1>5
<1> QED
  BY <1>9, <1>10, <1>11, <1>12, <1>13
\* What Store adds: the rows of a batch, and the length of the stream when
\* the counter has not been moved before.
LEMMA Stores ==
  ASSUME RateTypeOK, NEW w \in inFlight, NEW k \in Nat, Store(w, k)
  PROVE  /\ w \in Write /\ StreamOf(w) \in Targets /\ At(w) \in Int
         /\ rows' = rows \cup Batch(w, At(w), k)
         /\ rows' \subseteq [seq : 0 .. MaxWrites - 1, part : Nat, version : Int]
         /\ \A r \in rows' : r \in rows \/ r \in Batch(w, At(w), k)
         /\ \A r \in rows' \ rows : r.seq = w.seq
         /\ top' \in [Targets -> Nat]
         /\ \A s \in Targets : s # StreamOf(w) => top'[s] = top[s]
         /\ top'[StreamOf(w)] = IF NumbersFirst THEN top[StreamOf(w)] ELSE top[StreamOf(w)] + bench.size
<1>1. w \in Write /\ w.seq \in Nat /\ w.first \in Int /\ bench.size \in Nat
  BY InFlightTypes
<1>2. StreamOf(w) \in Targets
  BY InFlightTypes
<1>3. At(w) \in Int
  BY <1>1, <1>2 DEF At, RateTypeOK
<1>4. top' \in [Targets -> Nat]
  BY <1>1, <1>2 DEF Store, RateTypeOK
<1>5. /\ rows' = rows \cup Batch(w, At(w), k)
      /\ \A s \in Targets : s # StreamOf(w) => top'[s] = top[s]
      /\ top'[StreamOf(w)] = IF NumbersFirst THEN top[StreamOf(w)] ELSE top[StreamOf(w)] + bench.size
  BY <1>2 DEF Store, RateTypeOK
<1> QED
  BY <1>1, <1>2, <1>3, <1>4, <1>5, BatchRows DEF RateTypeOK

\* A failed write has stored nothing, or its batch, or a part of it.
LEMMA Fails ==
  ASSUME RateTypeOK, NEW w \in inFlight, Refuse(w) \/ FailWrite(w)
  PROVE  /\ w.pc # "stored"
         /\ inFlight' = inFlight \ {w} /\ failed' = failed \cup {w}
         /\ UNCHANGED <<bench, stage, started, known, total>>
         /\ \/ UNCHANGED tables
            \/ \E k \in 1 .. bench.size : Ready(w) /\ Store(w, k)
<1>1. bench.size \in Nat \ {0}
  BY InFlightTypes
<1>2. bench.size \in 1 .. bench.size /\ \A k \in 1 .. bench.size - 1 : k \in 1 .. bench.size
  BY <1>1
<1>3. CASE Refuse(w)
  BY <1>3 DEF Refuse, Skip, Ready
<1>4. CASE FailWrite(w)
  <2>1. /\ w.pc # "stored"
        /\ inFlight' = inFlight \ {w} /\ failed' = failed \cup {w}
        /\ UNCHANGED <<bench, stage, started, known, total>>
    BY <1>4 DEF FailWrite, Skip
  <2>2. \/ UNCHANGED tables
        \/ Ready(w) /\ Takes(w) /\ Store(w, bench.size)
        \/ Ready(w) /\ \E k \in 1 .. bench.size - 1 : Store(w, k)
    BY <1>4 DEF FailWrite
  <2> QED
    BY <1>2, <2>1, <2>2
<1> QED
  BY <1>3, <1>4

\* What becomes of a write that is given a number, a revision to expect, or
\* an answer.
LEMMA Advances ==
  ASSUME RateTypeOK, NEW w \in inFlight
  PROVE  /\ Numbering(w) => \E x \in Write :
              /\ inFlight' = (inFlight \ {w}) \cup {x} /\ x.seq = w.seq /\ x.pc = "numbered"
              /\ x.first = top[StreamOf(w)] /\ StreamOf(x) = StreamOf(w)
         /\ Expect(w) => \E x \in Write :
              /\ inFlight' = (inFlight \ {w}) \cup {x} /\ x.seq = w.seq /\ x.pc = "numbered"
              /\ x.first = known[StreamOf(w)] /\ StreamOf(x) = StreamOf(w)
         /\ StoreBatch(w) => \E x \in Write :
              /\ inFlight' = (inFlight \ {w}) \cup {x} /\ x.seq = w.seq /\ x.pc = "stored"
              /\ x.first = top'[StreamOf(w)] - 1 /\ StreamOf(x) = StreamOf(w)
<1>1. w \in Write /\ top[StreamOf(w)] \in Int /\ known[StreamOf(w)] \in Int /\ bench.size \in Nat
  BY InFlightTypes DEF RateTypeOK
<1>2. ASSUME Numbering(w) PROVE inFlight' = Goes(w, "numbered", top[StreamOf(w)])
  BY <1>2 DEF Numbering, First
<1>3. ASSUME Expect(w) PROVE inFlight' = Goes(w, "numbered", known[StreamOf(w)])
  BY <1>3 DEF Expect
<1>4. ASSUME StoreBatch(w)
      PROVE  \E last \in Int : last = top'[StreamOf(w)] - 1 /\ inFlight' = Goes(w, "stored", last)
  <2>1. top'[StreamOf(w)] \in Int
    BY <1>1, <1>4, InFlightTypes, Stores DEF StoreBatch
  <2> QED
    BY <1>4, <2>1 DEF StoreBatch
<1>5. ASSUME NEW first \in Int, NEW pc \in {"spawned", "numbered", "stored"}, inFlight' = Goes(w, pc, first)
      PROVE  \E x \in Write :
               /\ inFlight' = (inFlight \ {w}) \cup {x} /\ x.seq = w.seq /\ x.pc = pc
               /\ x.first = first /\ StreamOf(x) = StreamOf(w)
  <2> DEFINE x == [w EXCEPT !.pc = pc, !.first = first]
  <2>1. x \in Write /\ x.seq = w.seq /\ x.pc = pc /\ x.first = first
    BY <1>1 DEF Write
  <2>2. inFlight' = (inFlight \ {w}) \cup {x}
    BY <1>5 DEF Goes
  <2>3. StreamOf(x) = StreamOf(w)
    BY <2>1 DEF StreamOf
  <2> QED
    BY <2>1, <2>2, <2>3
<1>6. ASSUME StoreBatch(w)
      PROVE  \E x \in Write :
             /\ inFlight' = (inFlight \ {w}) \cup {x} /\ x.seq = w.seq /\ x.pc = "stored"
             /\ x.first = top'[StreamOf(w)] - 1 /\ StreamOf(x) = StreamOf(w)
  <2>1. PICK last \in Int : last = top'[StreamOf(w)] - 1 /\ inFlight' = Goes(w, "stored", last)
    BY <1>4, <1>6
  <2>2. PICK x \in Write :
          /\ inFlight' = (inFlight \ {w}) \cup {x} /\ x.seq = w.seq /\ x.pc = "stored"
          /\ x.first = last /\ StreamOf(x) = StreamOf(w)
    BY <1>5, <2>1
  <2> QED
    BY <2>1, <2>2
<1> QED
  BY <1>1, <1>2, <1>3, <1>5, <1>6

\* The types, step by step.
LEMMA RateTypes ==
  ASSUME RateTypeOK, RateStep
  PROVE  RateTypeOK' /\ bench' = bench
<1>1. CASE StartWrite
  <2>1. started \in 0 .. MaxWrites - 1 /\ started + 1 \in 0 .. MaxWrites
    BY <1>1, RateAssumption DEF StartWrite, RateTypeOK
  <2>2. [seq |-> started, pc |-> "spawned", first |-> -1] \in Write
    BY <2>1 DEF Write
  <2> QED
    BY <1>1, <2>1, <2>2 DEF StartWrite, RateTypeOK, tables
<1>2. CASE TimeIsUp \/ ReportRate
  BY <1>2 DEF TimeIsUp, ReportRate, RateTypeOK, tables
<1>3. ASSUME NEW w \in inFlight PROVE /\ w \in Write /\ StreamOf(w) \in Targets
                                      /\ bench.size \in Nat
  BY <1>3, InFlightTypes
<1>4. ASSUME NEW w \in inFlight, Numbering(w) PROVE RateTypeOK' /\ bench' = bench
  <2>1. inFlight' \subseteq Write
    BY <1>4, Advances DEF RateTypeOK
  <2>2. top' \in [Targets -> Nat]
    BY <1>3, <1>4 DEF Numbering, RateTypeOK
  <2> QED
    BY <1>4, <2>1, <2>2 DEF Numbering, RateTypeOK
<1>5. ASSUME NEW w \in inFlight, Expect(w) PROVE RateTypeOK' /\ bench' = bench
  <2>1. inFlight' \subseteq Write
    BY <1>5, Advances DEF RateTypeOK
  <2> QED
    BY <1>5, <2>1 DEF Expect, RateTypeOK, tables
<1>6. ASSUME NEW w \in inFlight, StoreBatch(w) PROVE RateTypeOK' /\ bench' = bench
  <2>1. Store(w, bench.size)
    BY <1>6 DEF StoreBatch
  <2>2. top' \in [Targets -> Nat] /\ rows' \subseteq [seq : 0 .. MaxWrites - 1, part : Nat, version : Int]
    BY <1>3, <2>1, Stores
  <2>3. inFlight' \subseteq Write
    BY <1>6, Advances DEF RateTypeOK
  <2> QED
    BY <1>6, <2>2, <2>3 DEF StoreBatch, RateTypeOK
<1>7. ASSUME NEW w \in inFlight, Refuse(w) \/ FailWrite(w) PROVE RateTypeOK' /\ bench' = bench
  <2>1. CASE UNCHANGED tables
    BY <1>7, <2>1, Fails DEF RateTypeOK, tables
  <2>2. ASSUME NEW k \in 1 .. bench.size, Store(w, k) PROVE RateTypeOK' /\ bench' = bench
    BY <1>7, <2>2, Fails, Stores DEF RateTypeOK
  <2> QED
    BY <1>7, <2>1, <2>2, Fails
<1>8. ASSUME NEW w \in inFlight, Acknowledge(w) PROVE RateTypeOK' /\ bench' = bench
  <2>1. known' \in [Targets -> Int]
    BY <1>3, <1>8 DEF Acknowledge, Remembered, RateTypeOK, Write
  <2> QED
    BY <1>3, <1>8, <2>1 DEF Acknowledge, RateTypeOK, tables
<1> QED
  BY <1>1, <1>2, <1>4, <1>5, <1>6, <1>7, <1>8 DEF RateStep

\* A write in flight goes on: no two writes have its number, as before.
LEMMA SeqsGoOn ==
  ASSUME RateTypeOK, SeqsOnce, NEW w \in inFlight, NEW x \in Write,
         x.seq = w.seq, x.pc = "stored" \/ rows' = rows, w.pc # "stored",
         inFlight' = (inFlight \ {w}) \cup {x}, failed' = failed, started' = started,
         \A r \in rows' \ rows : r.seq = w.seq
  PROVE  SeqsOnce'
<1>1. \A y \in Tried' : y \in Tried \/ (y = x /\ w \notin inFlight')  \/ y = x
  BY DEF Tried
<1>2. \A y \in inFlight' : y = x \/ (y \in inFlight /\ y # w /\ y.seq # w.seq)
  BY DEF SeqsOnce, Tried
<1>3. \A y \in failed' : y \in failed /\ y # w /\ y.seq # w.seq
  BY DEF SeqsOnce, Tried
<1>4. \A y \in Tried' : y.seq < started'
  BY <1>2, <1>3 DEF SeqsOnce, Tried
<1>5. \A r \in rows' : r.seq < started'
  BY DEF SeqsOnce, Tried
<1>6. \A y, z \in Tried' : y.seq = z.seq => y = z
  BY <1>2, <1>3 DEF SeqsOnce, Tried
<1>7. inFlight' \cap failed' = {}
  BY <1>2, <1>3 DEF SeqsOnce
<1>8. \A y \in inFlight' : y.pc # "stored" => \A r \in rows' : r.seq # y.seq
  BY <1>2 DEF SeqsOnce
<1> QED
  BY <1>4, <1>5, <1>6, <1>7, <1>8 DEF SeqsOnce

\* A write ends, as a success or as a failure.
LEMMA SeqsEnd ==
  ASSUME RateTypeOK, SeqsOnce, NEW w \in inFlight,
         inFlight' = inFlight \ {w}, failed' = failed \/ failed' = failed \cup {w}, started' = started,
         rows \subseteq rows', \A r \in rows' \ rows : r.seq = w.seq
  PROVE  SeqsOnce'
<1>1. Tried' \subseteq Tried
  BY DEF Tried
<1>2. \A y \in inFlight' : y \in inFlight /\ y.seq # w.seq
  BY DEF SeqsOnce, Tried
<1>3. \A r \in rows' : r.seq < started'
  BY DEF SeqsOnce, Tried
<1>4. \A y \in inFlight' : y.pc # "stored" => \A r \in rows' : r.seq # y.seq
  BY <1>2 DEF SeqsOnce
<1>5. inFlight' \cap failed' = {}
  BY DEF SeqsOnce
<1> QED
  BY <1>1, <1>3, <1>4, <1>5 DEF SeqsOnce

\* A write keeps its number, and its rows carry it.
LEMMA RateSeqs ==
  ASSUME RateTypeOK, SeqsOnce, RateStep
  PROVE  SeqsOnce'
<1>1. CASE StartWrite
  <2> DEFINE x == [seq |-> started, pc |-> "spawned", first |-> -1]
  <2>1. /\ inFlight' = inFlight \cup {x} /\ failed' = failed /\ rows' = rows
        /\ started' = started + 1 /\ x.seq = started /\ started \in Int
    BY <1>1 DEF StartWrite, tables, RateTypeOK
  <2>2. \A y \in Tried' : y = x \/ (y \in Tried /\ y.seq < started)
    BY <2>1 DEF SeqsOnce, Tried
  <2>3. \A y \in Tried : y.seq \in Int
    BY DEF Tried, RateTypeOK, Write
  <2>4. \A r \in rows : r.seq \in Int /\ r.seq < started
    BY DEF RateTypeOK, SeqsOnce
  <2> HIDE DEF x
  <2>5. \A y \in Tried' : y.seq < started'
    BY <2>1, <2>2, <2>3
  <2>6. \A y, z \in Tried' : y.seq = z.seq => y = z
    BY <2>1, <2>2, <2>3 DEF SeqsOnce
  <2>7. inFlight' \cap failed' = {}
    BY <2>1, <2>3 DEF SeqsOnce, Tried
  <2>8. \A y \in inFlight' : y.pc # "stored" => \A r \in rows' : r.seq # y.seq
    BY <2>1, <2>4 DEF SeqsOnce
  <2>9. \A r \in rows' : r.seq < started'
    BY <2>1, <2>4
  <2> QED
    BY <2>5, <2>6, <2>7, <2>8, <2>9 DEF SeqsOnce
<1>2. CASE TimeIsUp \/ ReportRate
  BY <1>2 DEF TimeIsUp, ReportRate, SeqsOnce, Tried, tables
<1>3. ASSUME NEW w \in inFlight
      PROVE  w \in Write /\ StreamOf(w) \in Targets /\ bench.size \in Nat
  BY <1>3, InFlightTypes
<1>4. ASSUME NEW w \in inFlight, Numbering(w) \/ Expect(w) PROVE SeqsOnce'
  <2>1. PICK x \in Write : x.seq = w.seq /\ inFlight' = (inFlight \ {w}) \cup {x}
    BY <1>4, Advances
  <2> QED
    BY <1>4, <2>1, SeqsGoOn DEF Numbering, Expect, tables
<1>5. ASSUME NEW w \in inFlight, StoreBatch(w) PROVE SeqsOnce'
  <2>1. \A r \in rows' \ rows : r.seq = w.seq
    BY <1>3, <1>5, Stores DEF StoreBatch
  <2>2. PICK x \in Write : x.seq = w.seq /\ x.pc = "stored" /\ inFlight' = (inFlight \ {w}) \cup {x}
    BY <1>5, Advances
  <2> QED
    BY <1>5, <2>1, <2>2, SeqsGoOn DEF StoreBatch, Ready
<1>6. ASSUME NEW w \in inFlight, Refuse(w) \/ FailWrite(w) PROVE SeqsOnce'
  <2>1. CASE UNCHANGED tables
    BY <1>6, <2>1, Fails, SeqsEnd DEF tables
  <2>2. ASSUME NEW k \in 1 .. bench.size, Store(w, k) PROVE SeqsOnce'
    <3>1. rows \subseteq rows' /\ \A r \in rows' \ rows : r.seq = w.seq
      BY <2>2, Stores
    <3> QED
      BY <1>6, <3>1, Fails, SeqsEnd
  <2> QED
    BY <1>6, <2>1, <2>2, Fails
<1>7. ASSUME NEW w \in inFlight, Acknowledge(w) PROVE SeqsOnce'
  BY <1>7, SeqsEnd DEF Acknowledge, tables
<1> QED
  BY <1>1, <1>2, <1>4, <1>5, <1>6, <1>7 DEF RateStep
\* Rows and ranges stay apart when neither changes.
LEMMA NumbersKept ==
  ASSUME Numbers, bench' = bench, UNCHANGED tables, Counted => Holders' = Holders
  PROVE  Numbers'
BY DEF Numbers, tables, Counted, NumbersFirst, Targets, Holds, Free

\* The next range begins where the counter stands, past all that was given.
LEMMA NumbersGiven ==
  ASSUME RateTypeOK, SeqsOnce, Numbers, NEW w \in inFlight, Numbering(w)
  PROVE  Numbers'
<1>1. PICK x \in Write :
        /\ inFlight' = (inFlight \ {w}) \cup {x} /\ x.seq = w.seq /\ x.pc = "numbered"
        /\ x.first = top[StreamOf(w)] /\ StreamOf(x) = StreamOf(w)
  BY Advances
<1> DEFINE s == StreamOf(w)
           size == bench.size
<1>2. /\ s \in Targets /\ size \in Nat \ {0} /\ bench.old \in Nat
      /\ top[s] \in Nat /\ top' = [top EXCEPT ![s] = @ + size]
      /\ bench' = bench /\ rows' = rows /\ failed' = failed /\ w.pc = "spawned" /\ NumbersFirst
  BY InFlightTypes DEF Numbering, RateTypeOK
<1>3. /\ top'[s] = top[s] + size /\ \A t \in Targets : t # s => top'[t] = top[t]
      /\ \A t \in Targets : top[t] \in Nat /\ top'[t] \in Nat /\ top[t] <= top'[t]
  BY <1>2 DEF RateTypeOK
<1>4. Holders' = Holders \cup {x}
  BY <1>1, <1>2 DEF Holders, Tried
<1>5. \A y \in Holders : y.first \in Int /\ StreamOf(y) \in Targets
  BY StreamsAreTargets, RateAssumption DEF Holders, Tried, RateTypeOK, Write
<1>6. \A r \in rows : r.version \in Int /\ StreamOf(r) \in Targets
  BY StreamsAreTargets, RateAssumption DEF RateTypeOK
<1>7. Counted
  BY <1>2 DEF NumbersFirst
<1>8. /\ \A y \in Holders : bench.old <= y.first /\ y.first + size <= top[StreamOf(y)]
      /\ \A r \in rows : bench.old <= r.version /\ r.version < top[StreamOf(r)]
      /\ bench.old <= top[s]
  BY <1>2, <1>7 DEF Numbers
<1> HIDE DEF s, size
<1>9. \A y \in Holders' : bench.old <= y.first /\ y.first + size <= top'[StreamOf(y)]
  <2>1. bench.old <= x.first /\ x.first + size <= top'[StreamOf(x)]
    BY <1>1, <1>2, <1>3, <1>8 DEF s
  <2>2. ASSUME NEW y \in Holders PROVE y.first + size <= top'[StreamOf(y)]
    BY <1>2, <1>3, <1>5, <1>8, <2>2
  <2> QED
    BY <1>4, <1>8, <2>1, <2>2
<1>10. ASSUME NEW y \in Holders, StreamOf(y) = s PROVE y.first + size <= x.first
  BY <1>1, <1>8, <1>10 DEF s
<1>11. \A y, z \in Holders' : StreamOf(y) = StreamOf(z) /\ y # z => Free(y, z)
  BY <1>1, <1>4, <1>7, <1>10 DEF Numbers, Free, s, size
<1>12. \A r \in rows : r.version < top'[StreamOf(r)]
  BY <1>3, <1>6, <1>8
<1>13. \A r \in rows : StreamOf(r) = s => ~ Holds(x, r.version)
  BY <1>1, <1>2, <1>3, <1>6, <1>8 DEF Holds, s
<1>14. \A r \in rows : \A y \in Holders' :
         StreamOf(r) = StreamOf(y) /\ Holds(y, r.version) => r.seq = y.seq
  BY <1>1, <1>4, <1>7, <1>13 DEF Numbers, s
<1>15. ASSUME NEW t \in Targets, NEW v \in Nat, bench.old <= v, v < top'[t]
       PROVE  \/ \E r \in rows : StreamOf(r) = t /\ r.version = v
              \/ \E y \in Holders' : StreamOf(y) = t /\ Holds(y, v)
  <2>1. CASE v < top[t]
    BY <1>4, <1>7, <1>15, <2>1 DEF Numbers
  <2>2. CASE ~ (v < top[t])
    <3>1. t = s /\ x.first <= v /\ v < x.first + size
      BY <1>1, <1>2, <1>3, <1>15, <2>2 DEF s
    <3> QED
      BY <1>1, <1>4, <3>1 DEF Holds, s, size
  <2> QED
    BY <2>1, <2>2
<1>16. \A t \in Targets : bench.old <= top'[t]
  BY <1>2, <1>3, <1>7 DEF Numbers
<1>17. /\ Numbers => \A r, q \in rows : StreamOf(r) = StreamOf(q) /\ r.version = q.version => r = q
       /\ \A r \in rows : bench.old <= r.version
  BY <1>7, <1>8 DEF Numbers
<1>18. NumbersFirst' /\ Targets' = Targets /\ \A y, v : Holds(y, v)' <=> Holds(y, v)
  BY <1>2 DEF NumbersFirst, Counted, Targets, Holds
<1>19. \A y, z : Free(y, z)' <=> Free(y, z)
  BY <1>2 DEF Free
<1> QED
  BY <1>2, <1>9, <1>11, <1>12, <1>14, <1>15, <1>16, <1>17, <1>18, <1>19 DEF Numbers, size

\* A batch goes where its range is; a write that has no range goes on top.
LEMMA NumbersStored ==
  ASSUME RateTypeOK, SeqsOnce, Numbers, NEW w \in inFlight, NEW k \in 1 .. bench.size,
         Ready(w), Store(w, k), bench' = bench,
         Holders' = Holders \/ (Holders' = Holders \ {w} /\ k = bench.size)
  PROVE  Numbers'
<1> SUFFICES ASSUME Counted PROVE Numbers'
  BY DEF Numbers, Counted
<1> DEFINE s == StreamOf(w)
           B == Batch(w, At(w), k)
<1>1. /\ w \in Write /\ s \in Targets /\ bench.size \in Nat \ {0} /\ bench.old \in Nat
      /\ k \in Nat /\ k \in Int /\ k <= bench.size /\ w.first \in Int /\ w \in Tried /\ w.pc # "stored"
  BY InFlightTypes DEF Ready, Tried
<1>2. /\ rows' = rows \cup B /\ At(w) \in Int
      /\ top' \in [Targets -> Nat] /\ \A t \in Targets : t # s => top'[t] = top[t]
      /\ top'[s] = IF NumbersFirst THEN top[s] ELSE top[s] + bench.size
  BY <1>1, Stores
<1>3. /\ \A r \in B : r.seq = w.seq /\ StreamOf(r) = s /\ At(w) <= r.version /\ r.version < At(w) + k
      /\ \A r, q \in B : r.version = q.version => r = q
      /\ \A u \in Int : At(w) <= u /\ u < At(w) + k => \E r \in B : r.version = u
      /\ \A r \in B : r.version \in Int
  BY <1>1, <1>2, BatchRows
<1>4. \A r \in rows : r.seq # w.seq /\ r.version \in Int /\ StreamOf(r) \in Targets
  BY <1>1, StreamsAreTargets, RateAssumption DEF SeqsOnce, RateTypeOK
<1>5. \A y \in Holders : y.first \in Int /\ StreamOf(y) \in Targets
  BY StreamsAreTargets, RateAssumption DEF Holders, Tried, RateTypeOK, Write
<1>6. \A t \in Targets : top[t] \in Nat /\ top'[t] \in Nat /\ top[t] <= top'[t]
  BY <1>1, <1>2 DEF RateTypeOK
<1>7. ASSUME NumbersFirst
      PROVE  /\ w \in Holders /\ At(w) = w.first /\ bench.old <= w.first
             /\ w.first + bench.size <= top[s] /\ top'[s] = top[s]
  BY <1>1, <1>2, <1>7 DEF Ready, Holders, At, Numbers
<1>8. ASSUME ~ NumbersFirst
      PROVE  /\ Holders = {} /\ At(w) = top[s] /\ bench.size = 1 /\ k = 1 /\ top'[s] = top[s] + 1
             /\ bench.old <= top[s]
  <2>1. bench.size = 1
    BY <1>1, <1>8 DEF NumbersFirst, Counted
  <2> QED
    BY <1>1, <1>2, <1>8, <2>1 DEF At, Numbers
<1> HIDE DEF s, B
\* The new rows lie within what was given, or at the end.
<1>9. \A r \in B : bench.old <= r.version /\ r.version < top'[s]
  BY <1>1, <1>2, <1>3, <1>6, <1>7, <1>8
<1>10. \A r \in rows' : bench.old <= r.version /\ r.version < top'[StreamOf(r)]
  <2>1. ASSUME NEW r \in rows PROVE bench.old <= r.version /\ r.version < top'[StreamOf(r)]
    BY <1>4, <1>6, <2>1 DEF Numbers
  <2> QED
    BY <1>2, <1>3, <1>9, <2>1
<1>11. \A y \in Holders' : bench.old <= y.first /\ y.first + bench.size <= top'[StreamOf(y)]
  <2>1. ASSUME NEW y \in Holders PROVE bench.old <= y.first /\ y.first + bench.size <= top'[StreamOf(y)]
    BY <1>1, <1>5, <1>6, <2>1 DEF Numbers
  <2> QED
    BY <2>1
\* A version in the batch is in no other range, and no row had it.
<1>12. ASSUME NEW r \in B, NEW y \in Holders, StreamOf(y) = s, y # w PROVE ~ Holds(y, r.version)
  <2>1. NumbersFirst
    BY <1>8, <1>12
  <2>2. Free(w, y)
    BY <1>7, <1>12, <2>1 DEF Numbers, s
  <2>3. w.first <= r.version /\ r.version < w.first + bench.size /\ r.version \in Int
    BY <1>1, <1>3, <1>7, <2>1
  <2> QED
    BY <1>1, <1>5, <2>2, <2>3 DEF Free, Holds
<1>13. ASSUME NEW r \in B, NEW q \in rows, StreamOf(q) = s PROVE q.version # r.version
  <2>1. CASE NumbersFirst
    <3>1. q.seq # w.seq
      BY <1>4
    <3>2. ~ Holds(w, q.version)
      BY <1>7, <1>13, <2>1, <3>1 DEF Numbers, s
    <3> QED
      BY <1>1, <1>3, <1>4, <1>7, <2>1, <3>2 DEF Holds
  <2>2. CASE ~ NumbersFirst
    BY <1>3, <1>4, <1>6, <1>8, <1>13, <2>2 DEF Numbers
  <2> QED
    BY <2>1, <2>2
<1>14. \A r \in rows' : \A y \in Holders' :
         StreamOf(r) = StreamOf(y) /\ Holds(y, r.version) => r.seq = y.seq
  <2>1. \A r \in rows : \A y \in Holders : StreamOf(r) = StreamOf(y) /\ Holds(y, r.version) => r.seq = y.seq
    BY DEF Numbers
  <2>2. \A r \in B : \A y \in Holders : StreamOf(r) = StreamOf(y) /\ Holds(y, r.version) => r.seq = y.seq
    BY <1>3, <1>12
  <2> QED
    BY <1>2, <2>1, <2>2
<1>15. \A r, q \in rows' : StreamOf(r) = StreamOf(q) /\ r.version = q.version => r = q
  <2>1. \A r, q \in rows : StreamOf(r) = StreamOf(q) /\ r.version = q.version => r = q
    BY DEF Numbers
  <2> QED
    BY <1>2, <1>3, <1>13, <2>1
<1>16. ASSUME NEW t \in Targets, NEW v \in Nat, bench.old <= v, v < top'[t]
       PROVE  \/ \E r \in rows' : StreamOf(r) = t /\ r.version = v
              \/ \E y \in Holders' : StreamOf(y) = t /\ Holds(y, v)
  <2>1. CASE v < top[t]
    <3>1. CASE \E r \in rows : StreamOf(r) = t /\ r.version = v
      BY <1>2, <3>1
    <3>2. CASE \E y \in Holders : StreamOf(y) = t /\ Holds(y, v)
      <4>1. PICK y \in Holders : StreamOf(y) = t /\ Holds(y, v)
        BY <3>2
      <4>2. CASE y \in Holders'
        BY <4>1, <4>2
      <4>3. CASE y \notin Holders'
        <5>1. y = w /\ k = bench.size /\ NumbersFirst
          BY <1>8, <4>1, <4>3
        <5>2. At(w) <= v /\ v < At(w) + k
          BY <1>7, <4>1, <5>1 DEF Holds
        <5>3. PICK r \in B : r.version = v
          BY <1>3, <5>2
        <5> QED
          BY <1>2, <1>3, <4>1, <5>1, <5>3 DEF s
      <4> QED
        BY <4>2, <4>3
    <3> QED
      BY <1>16, <2>1, <3>1, <3>2 DEF Numbers
  <2>2. CASE ~ (v < top[t])
    <3>1. ~ NumbersFirst /\ t = s /\ v = top[s]
      BY <1>2, <1>6, <1>7, <1>8, <1>16, <2>2
    <3>2. PICK r \in B : r.version = v
      BY <1>3, <1>8, <3>1
    <3> QED
      BY <1>2, <1>3, <3>1, <3>2
  <2> QED
    BY <2>1, <2>2
<1>17. \A t \in Targets : bench.old <= top'[t]
  BY <1>1, <1>6 DEF Numbers
<1>18. \A y, z \in Holders' : StreamOf(y) = StreamOf(z) /\ y # z => Free(y, z)
  BY DEF Numbers
<1>19. ~ NumbersFirst => Holders' = {}
  BY <1>8
<1>20. /\ NumbersFirst' = NumbersFirst /\ Targets' = Targets
       /\ \A y, v : Holds(y, v)' <=> Holds(y, v)
       /\ \A y, z : Free(y, z)' <=> Free(y, z)
  BY DEF NumbersFirst, Counted, Targets, Holds, Free
<1> QED
  BY <1>10, <1>11, <1>14, <1>15, <1>16, <1>17, <1>18, <1>19, <1>20 DEF Numbers

\* The ranges and the rows, step by step.
LEMMA RateNumbers ==
  ASSUME RateTypeOK, SeqsOnce, Numbers, RateStep
  PROVE  Numbers'
<1>1. CASE StartWrite
  <2> DEFINE x == [seq |-> started, pc |-> "spawned", first |-> -1]
  <2>1. x.pc # "numbered"
    OBVIOUS
  <2>2. inFlight' = inFlight \cup {x} /\ UNCHANGED <<bench, tables, failed>>
    BY <1>1 DEF StartWrite
  <2> HIDE DEF x
  <2>3. Holders' = Holders
    BY <2>1, <2>2 DEF Holders, Tried
  <2> QED
    BY <2>2, <2>3, NumbersKept
<1>2. CASE TimeIsUp \/ ReportRate
  <2>1. UNCHANGED <<bench, tables, failed, inFlight>>
    BY <1>2 DEF TimeIsUp, ReportRate
  <2> QED
    BY <2>1, NumbersKept DEF Holders, Tried
<1>3. ASSUME NEW w \in inFlight, Numbering(w) PROVE Numbers'
  BY <1>3, NumbersGiven
<1>4. ASSUME NEW w \in inFlight, Expect(w) PROVE Numbers'
  <2>1. ~ Counted /\ bench' = bench /\ UNCHANGED tables
    BY <1>4 DEF Expect, Expecting, Counted
  <2> QED
    BY <2>1, NumbersKept
<1>5. ASSUME NEW w \in inFlight, StoreBatch(w) PROVE Numbers'
  <2>1. PICK x \in Write : inFlight' = (inFlight \ {w}) \cup {x} /\ x.pc = "stored"
    BY <1>5, Advances
  <2>2. failed' = failed /\ w \notin failed /\ bench' = bench /\ Ready(w) /\ Store(w, bench.size)
    BY <1>5 DEF StoreBatch, SeqsOnce
  <2>3. Holders' = Holders \ {w}
    BY <2>1, <2>2 DEF Holders, Tried
  <2>4. bench.size \in 1 .. bench.size
    BY InFlightTypes
  <2> QED
    BY <2>2, <2>3, <2>4, NumbersStored
<1>6. ASSUME NEW w \in inFlight, Refuse(w) \/ FailWrite(w) PROVE Numbers'
  <2>1. Holders' = Holders /\ bench' = bench
    BY <1>6, Fails DEF Holders, Tried
  <2>2. CASE UNCHANGED tables
    BY <2>1, <2>2, NumbersKept
  <2>3. ASSUME NEW k \in 1 .. bench.size, Ready(w), Store(w, k) PROVE Numbers'
    BY <2>1, <2>3, NumbersStored
  <2> QED
    BY <1>6, <2>2, <2>3, Fails
<1>7. ASSUME NEW w \in inFlight, Acknowledge(w) PROVE Numbers'
  <2>1. /\ inFlight' = inFlight \ {w} /\ w.pc = "stored"
        /\ UNCHANGED <<bench, tables, failed>>
    BY <1>7 DEF Acknowledge
  <2>2. Holders' = Holders
    BY <2>1 DEF Holders, Tried
  <2> QED
    BY <2>1, <2>2, NumbersKept
<1> QED
  BY <1>1, <1>2, <1>3, <1>4, <1>5, <1>6, <1>7 DEF RateStep

\* The settled rows are the same when every new row, and every old one that
\* belonged to a write, belongs to a write.
LEMMA SettledKept ==
  ASSUME rows \subseteq rows', \A r \in rows' \ rows : \E y \in Tried' : r.seq = y.seq,
         \A r \in rows : (\E y \in Tried : r.seq = y.seq) <=> (\E y \in Tried' : r.seq = y.seq)
  PROVE  Settled' = Settled
BY DEF Settled

\* A finite number of rows stays one.
LEMMA RowsAreFinite ==
  ASSUME RateTypeOK, IsFiniteSet(rows), NEW w \in inFlight, NEW k \in Nat, Store(w, k)
  PROVE  /\ IsFiniteSet(rows') /\ rows \subseteq rows'
         /\ \A r \in rows' \ rows : r.seq = w.seq
         /\ rows' = rows \cup Batch(w, At(w), k) /\ Cardinality(Batch(w, At(w), k)) = k
         /\ \A r \in Batch(w, At(w), k) : r.seq = w.seq
<1>1. /\ w \in Write /\ At(w) \in Int /\ rows' = rows \cup Batch(w, At(w), k)
      /\ \A r \in rows' \ rows : r.seq = w.seq
  BY Stores
<1>2. IsFiniteSet(Batch(w, At(w), k)) /\ Cardinality(Batch(w, At(w), k)) = k
  BY <1>1, BatchRows
<1>3. \A r \in Batch(w, At(w), k) : r.seq = w.seq
  BY <1>1, BatchRows
<1>4. IsFiniteSet(rows')
  BY <1>1, <1>2, FS_Union
<1> QED
  BY <1>1, <1>2, <1>3, <1>4

\* What is counted is what was stored by the writes that are over and well.
LEMMA RateTotals ==
  ASSUME RateTypeOK, SeqsOnce, Totals, RateStep
  PROVE  Totals'
<1>0. \A q : RowsOf(q) = {r \in rows : r.seq = q} /\ RowsOf(q)' = {r \in rows' : r.seq = q}
  BY DEF RowsOf
<1>1. CASE StartWrite
  <2> DEFINE x == [seq |-> started, pc |-> "spawned", first |-> -1]
  <2>1. x.seq = started /\ x.pc # "stored"
    OBVIOUS
  <2>2. inFlight' = inFlight \cup {x} /\ UNCHANGED <<bench, rows, total, failed>>
    BY <1>1 DEF StartWrite, tables
  <2> HIDE DEF x
  <2>3. \A r \in rows : r.seq # x.seq
    BY <2>1 DEF SeqsOnce, RateTypeOK
  <2>4. Tried' = Tried \cup {x}
    BY <2>2 DEF Tried
  <2>5. Settled' = Settled
    BY <2>2, <2>3, <2>4, SettledKept
  <2>6. \A w \in inFlight' : w.pc = "stored" => w \in inFlight /\ RowsOf(w.seq)' = RowsOf(w.seq)
    BY <1>0, <2>1, <2>2
  <2> QED
    BY <1>0, <2>2, <2>5, <2>6 DEF Totals
<1>2. CASE TimeIsUp \/ ReportRate
  BY <1>2 DEF TimeIsUp, ReportRate, Totals, Settled, RowsOf, Tried, tables
<1>3. ASSUME NEW w \in inFlight, Numbering(w) \/ Expect(w) PROVE Totals'
  <2>1. PICK x \in Write : inFlight' = (inFlight \ {w}) \cup {x} /\ x.seq = w.seq /\ x.pc # "stored"
    BY <1>3, Advances
  <2>2. UNCHANGED <<bench, rows, total, failed>>
    BY <1>3 DEF Numbering, Expect, tables
  <2>3. Settled' = Settled
    BY <2>1, <2>2, SettledKept DEF Tried
  <2>4. \A y \in inFlight' : y.pc = "stored" => y \in inFlight /\ RowsOf(y.seq)' = RowsOf(y.seq)
    BY <1>0, <2>1, <2>2
  <2> QED
    BY <1>0, <2>2, <2>3, <2>4 DEF Totals
<1>4. ASSUME NEW w \in inFlight, StoreBatch(w) PROVE Totals'
  <2>1. PICK x \in Write : inFlight' = (inFlight \ {w}) \cup {x} /\ x.seq = w.seq
    BY <1>4, Advances
  <2>2. /\ UNCHANGED <<bench, total, failed>> /\ Store(w, bench.size) /\ w.pc # "stored"
        /\ bench.size \in Nat
    BY <1>4, InFlightTypes DEF StoreBatch, Ready
  <2> DEFINE B == Batch(w, At(w), bench.size)
  <2>3. /\ IsFiniteSet(rows') /\ rows \subseteq rows' /\ \A r \in rows' \ rows : r.seq = w.seq
        /\ rows' = rows \cup B /\ Cardinality(B) = bench.size /\ \A r \in B : r.seq = w.seq
    BY <2>2, RowsAreFinite DEF Totals
  <2> HIDE DEF B
  <2>4. Settled' = Settled
    BY <2>1, <2>2, <2>3, SettledKept DEF Tried
  <2>5. RowsOf(x.seq)' = B
    BY <1>0, <2>1, <2>2, <2>3 DEF SeqsOnce
  <2>6. ASSUME NEW y \in inFlight', y.pc = "stored" PROVE Cardinality(RowsOf(y.seq)') = bench'.size
    <3>1. CASE y = x
      BY <2>2, <2>3, <2>5, <3>1
    <3>2. CASE y # x
      <4>1. y \in inFlight /\ y.seq # w.seq
        BY <2>1, <2>6, <3>2 DEF SeqsOnce, Tried
      <4>2. RowsOf(y.seq)' = RowsOf(y.seq)
        BY <1>0, <2>3, <4>1
      <4> QED
        BY <2>2, <2>6, <4>1, <4>2 DEF Totals
    <3> QED
      BY <3>1, <3>2
  <2> QED
    BY <1>0, <2>2, <2>3, <2>4, <2>6 DEF Totals
<1>5. ASSUME NEW w \in inFlight, Refuse(w) \/ FailWrite(w) PROVE Totals'
  <2>1. inFlight' = inFlight \ {w} /\ Tried' = Tried /\ w \in Tried' /\ bench' = bench /\ total' = total
    BY <1>5, Fails DEF Tried
  <2>2. IsFiniteSet(rows') /\ rows \subseteq rows' /\ \A r \in rows' \ rows : r.seq = w.seq
    <3>1. CASE UNCHANGED tables
      BY <3>1 DEF tables, Totals
    <3>2. ASSUME NEW k \in 1 .. bench.size, Store(w, k)
          PROVE  IsFiniteSet(rows') /\ rows \subseteq rows' /\ \A r \in rows' \ rows : r.seq = w.seq
      BY <3>2, RowsAreFinite DEF Totals
    <3> QED
      BY <1>5, <3>1, <3>2, Fails
  <2>3. Settled' = Settled
    BY <2>1, <2>2, SettledKept
  <2>4. ASSUME NEW y \in inFlight' PROVE y \in inFlight /\ RowsOf(y.seq)' = RowsOf(y.seq)
    <3>1. y \in inFlight /\ y.seq # w.seq
      BY <2>1 DEF SeqsOnce, Tried
    <3>2. \A r \in rows' : r.seq = y.seq => r \in rows
      BY <2>2, <3>1
    <3>3. {r \in rows' : r.seq = y.seq} = {r \in rows : r.seq = y.seq}
      BY <2>2, <3>2
    <3> QED
      BY <1>0, <3>1, <3>3
  <2> QED
    BY <1>0, <2>1, <2>2, <2>3, <2>4 DEF Totals
<1>6. ASSUME NEW w \in inFlight, Acknowledge(w) PROVE Totals'
  <2>1. /\ inFlight' = inFlight \ {w} /\ w.pc = "stored" /\ total' = total + bench.size
        /\ UNCHANGED <<bench, rows, failed>>
    BY <1>6 DEF Acknowledge, tables
  <2>2. \A q : RowsOf(q)' = RowsOf(q)
    BY <1>0, <2>1
  <2>3. \A y \in Tried : y \in Tried' \/ y = w
    BY <2>1 DEF Tried
  <2>4. \A y \in Tried' : y \in Tried /\ y.seq # w.seq
    BY <2>1 DEF Tried, SeqsOnce
  <2>5. Settled' = Settled \cup RowsOf(w.seq)
    BY <1>0, <2>1, <2>3, <2>4 DEF Settled
  <2>6. Settled \cap RowsOf(w.seq) = {} /\ Settled \subseteq rows /\ RowsOf(w.seq) \subseteq rows
    BY <1>0 DEF Settled, Tried
  <2>7. IsFiniteSet(Settled) /\ IsFiniteSet(RowsOf(w.seq))
    BY <2>6, FS_Subset DEF Totals
  <2>8. Cardinality(Settled') = Cardinality(Settled) + Cardinality(RowsOf(w.seq))
    <3>1. Cardinality(Settled \cap RowsOf(w.seq)) = 0
      BY <2>6, FS_EmptySet
    <3>2. Cardinality(Settled) \in Nat /\ Cardinality(RowsOf(w.seq)) \in Nat
      BY <2>7, FS_CardinalityType
    <3>3. Cardinality(Settled \cup RowsOf(w.seq)) = Cardinality(Settled) + Cardinality(RowsOf(w.seq)) - 0
      BY <2>7, <3>1, FS_Union
    <3> QED
      BY <2>5, <3>2, <3>3
  <2> QED
    BY <2>1, <2>2, <2>8 DEF Totals
<1> QED
  BY <1>1, <1>2, <1>3, <1>4, <1>5, <1>6 DEF RateStep

\* Nothing changes for a stream when its revisions and its stored writes stay
\* and no write of it expects more than before.
LEMMA UpToDateKept ==
  ASSUME NEW s, UpToDate(s), known'[s] = known[s], top'[s] = top[s],
         Unacknowledged(s)' = Unacknowledged(s),
         \A y \in inFlight' : StreamOf(y) = s /\ y.pc = "numbered" => y \in inFlight \/ y.first <= known[s]
  PROVE  UpToDate(s)'
BY DEF UpToDate

\* What is lost stays lost.
LEMMA LostIsLost ==
  ASSUME RateTypeOK, RateStep, NEW s, NothingLost(s)' PROVE NothingLost(s)
<1>1. failed \subseteq failed' /\ rows \subseteq rows'
  <2>1. CASE StartWrite \/ TimeIsUp \/ ReportRate
    BY <2>1 DEF StartWrite, TimeIsUp, ReportRate, tables
  <2>2. ASSUME NEW w \in inFlight, Numbering(w) \/ Expect(w) \/ Acknowledge(w)
        PROVE  failed \subseteq failed' /\ rows \subseteq rows'
    BY <2>2 DEF Numbering, Expect, Acknowledge, tables
  <2>3. ASSUME NEW w \in inFlight, StoreBatch(w)
        PROVE  failed \subseteq failed' /\ rows \subseteq rows'
    BY <2>3 DEF StoreBatch, Store
  <2>4. ASSUME NEW w \in inFlight, Refuse(w) \/ FailWrite(w)
        PROVE  failed \subseteq failed' /\ rows \subseteq rows'
    BY <2>4, Fails DEF Store, tables
  <2> QED
    BY <2>1, <2>2, <2>3, <2>4 DEF RateStep
<1> QED
  BY <1>1 DEF NothingLost

\* Only a write that expects the last revision is stored, so that none was
\* waiting for its answer, and the answer brings the program up to date.
LEMMA RateRevisions ==
  ASSUME RateTypeOK, SeqsOnce, Revisions, RateStep
  PROVE  Revisions'
<1> SUFFICES ASSUME Expecting, bench.old = 1, NEW s \in Targets, NothingLost(s)'
             PROVE  UpToDate(s)'
  BY RateTypes DEF Revisions, Expecting, Targets
<1>0. UpToDate(s)
  BY LostIsLost DEF Revisions
<1>1. /\ top[s] \in Int /\ known[s] \in Int /\ ~ NumbersFirst
      /\ Unacknowledged(s) = {w \in inFlight : StreamOf(w) = s /\ w.pc = "stored"}
      /\ Unacknowledged(s)' = {w \in inFlight' : StreamOf(w) = s /\ w.pc = "stored"}
  BY DEF RateTypeOK, NumbersFirst, Counted, Expecting, Unacknowledged
<1>2. CASE StartWrite
  <2> DEFINE x == [seq |-> started, pc |-> "spawned", first |-> -1]
  <2>1. x.pc = "spawned" /\ inFlight' = inFlight \cup {x} /\ UNCHANGED <<top, known>>
    BY <1>2 DEF StartWrite, tables
  <2> HIDE DEF x
  <2>2. Unacknowledged(s)' = Unacknowledged(s)
    BY <1>1, <2>1
  <2>3. \A y \in inFlight' : y.pc = "numbered" => y \in inFlight
    BY <2>1
  <2> QED
    BY <1>0, <2>1, <2>2, <2>3, UpToDateKept
<1>3. CASE TimeIsUp \/ ReportRate
  <2>1. UNCHANGED <<inFlight, top, known>>
    BY <1>3 DEF TimeIsUp, ReportRate, tables
  <2> QED
    BY <1>0, <1>1, <2>1, UpToDateKept
<1>4. ASSUME NEW w \in inFlight, Numbering(w) PROVE FALSE
  BY <1>1, <1>4 DEF Numbering
<1>5. ASSUME NEW w \in inFlight, Expect(w) PROVE UpToDate(s)'
  <2>1. PICK x \in Write :
          /\ inFlight' = (inFlight \ {w}) \cup {x} /\ x.pc = "numbered"
          /\ x.first = known[StreamOf(w)] /\ StreamOf(x) = StreamOf(w)
    BY <1>5, Advances
  <2>2. w.pc = "spawned" /\ UNCHANGED <<top, known>>
    BY <1>5 DEF Expect, tables
  <2>3. Unacknowledged(s)' = Unacknowledged(s)
    BY <1>1, <2>1, <2>2
  <2>4. StreamOf(x) = s => x.first <= known[s]
    BY <1>1, <2>1
  <2> QED
    BY <1>0, <2>1, <2>2, <2>3, <2>4, UpToDateKept
<1>6. ASSUME NEW w \in inFlight, StoreBatch(w) PROVE UpToDate(s)'
  <2>1. PICK x \in Write :
          /\ inFlight' = (inFlight \ {w}) \cup {x} /\ x.pc = "stored"
          /\ x.first = top'[StreamOf(w)] - 1 /\ StreamOf(x) = StreamOf(w)
    BY <1>6, Advances
  <2>2. /\ known' = known /\ w.pc = "numbered" /\ w.first = top[StreamOf(w)] - 1
        /\ Store(w, bench.size) /\ bench.size \in Nat \ {0}
    BY <1>6, InFlightTypes DEF StoreBatch, Ready, Takes
  <2>3. /\ \A t \in Targets : t # StreamOf(w) => top'[t] = top[t]
        /\ top'[StreamOf(w)] = top[StreamOf(w)] + bench.size
    BY <1>1, <2>2, Stores
  <2>4. CASE StreamOf(w) # s
    <3>1. top'[s] = top[s] /\ Unacknowledged(s)' = Unacknowledged(s)
      BY <1>1, <2>1, <2>3, <2>4
    <3> QED
      BY <1>0, <2>1, <2>2, <3>1, UpToDateKept
  <2>5. CASE StreamOf(w) = s
    <3>1. known[s] = top[s] - 1
      BY <1>0, <1>1, <2>2, <2>5 DEF UpToDate
    <3>2. Unacknowledged(s) = {}
      BY <1>0, <1>1, <3>1 DEF UpToDate
    <3>3. Unacknowledged(s)' = {x}
      BY <1>1, <2>1, <2>2, <2>5, <3>2
    <3>4. top'[s] = top[s] + bench.size /\ x.first = top'[s] - 1 /\ top'[s] \in Int
      BY <1>1, <2>1, <2>2, <2>3, <2>5
    <3>5. \A y \in inFlight' : StreamOf(y) = s /\ y.pc = "numbered" => y.first <= known'[s]
      BY <1>0, <2>1, <2>2 DEF UpToDate
    <3>6. known'[s] < top'[s] - 1
      BY <1>1, <2>2, <3>1, <3>4
    <3> QED
      BY <1>1, <2>2, <3>3, <3>4, <3>5, <3>6 DEF UpToDate
  <2> QED
    BY <2>4, <2>5
<1>7. ASSUME NEW w \in inFlight, Refuse(w) \/ FailWrite(w) PROVE UpToDate(s)'
  <2>1. w.pc # "stored" /\ inFlight' = inFlight \ {w} /\ known' = known /\ failed' = failed \cup {w}
    BY <1>7, Fails
  <2>2. Unacknowledged(s)' = Unacknowledged(s)
    BY <1>1, <2>1
  <2>3. top'[s] = top[s]
    <3>1. CASE UNCHANGED tables
      BY <3>1 DEF tables
    <3>2. ASSUME NEW k \in 1 .. bench.size, Store(w, k) PROVE top'[s] = top[s]
      <4>1. k \in Nat /\ k \in Int /\ 0 < k /\ bench.size \in Nat
        BY InFlightTypes
      <4>2. /\ w \in Write /\ At(w) \in Int /\ rows' = rows \cup Batch(w, At(w), k)
            /\ \A t \in Targets : t # StreamOf(w) => top'[t] = top[t]
        BY <3>2, <4>1, Stores
      <4>3. \E r \in Batch(w, At(w), k) : r.seq = w.seq
        <5>1. At(w) <= At(w) /\ At(w) < At(w) + k
          BY <4>1, <4>2
        <5> QED
          BY <4>1, <4>2, <5>1, BatchRows
      <4>4. StreamOf(w) # s
        BY <2>1, <4>2, <4>3 DEF NothingLost
      <4> QED
        BY <4>2, <4>4
    <3> QED
      BY <1>7, <3>1, <3>2, Fails
  <2> QED
    BY <1>0, <2>1, <2>2, <2>3, UpToDateKept
<1>8. ASSUME NEW w \in inFlight, Acknowledge(w) PROVE UpToDate(s)'
  <2>1. /\ w.pc = "stored" /\ inFlight' = inFlight \ {w} /\ top' = top
        /\ known' = [known EXCEPT ![StreamOf(w)] = w.first]
    BY <1>8 DEF Acknowledge, Remembered, tables
  <2>2. CASE StreamOf(w) # s
    <3>1. known'[s] = known[s] /\ Unacknowledged(s)' = Unacknowledged(s)
      BY <1>1, <2>1, <2>2 DEF RateTypeOK
    <3> QED
      BY <1>0, <2>1, <3>1, UpToDateKept
  <2>3. CASE StreamOf(w) = s
    <3>1. w \in Unacknowledged(s)
      BY <1>1, <2>1, <2>3
    <3>2. w.first = top[s] - 1 /\ known[s] < top[s] - 1
      BY <1>0, <3>1 DEF UpToDate
    <3>3. Unacknowledged(s)' = {}
      BY <1>0, <1>1, <2>1, <3>1 DEF UpToDate
    <3>4. known'[s] = top'[s] - 1 /\ known'[s] \in Int /\ top'[s] \in Int
      BY <1>1, <2>1, <2>3, <3>2 DEF RateTypeOK
    <3>5. \A y \in inFlight' : StreamOf(y) = s /\ y.pc = "numbered" => y.first <= known'[s]
      <4>1. ASSUME NEW y \in inFlight', StreamOf(y) = s, y.pc = "numbered" PROVE y.first <= known'[s]
        <5>1. y \in inFlight /\ y.first <= known[s]
          BY <1>0, <2>1, <4>1 DEF UpToDate
        <5>2. y.first \in Int
          BY <5>1, InFlightTypes
        <5> QED
          BY <1>1, <2>1, <3>2, <3>4, <5>1, <5>2
      <4> QED
        BY <4>1
    <3> QED
      BY <3>3, <3>4, <3>5 DEF UpToDate
  <2> QED
    BY <2>2, <2>3
<1> QED
  BY <1>2, <1>3, <1>4, <1>5, <1>6, <1>7, <1>8 DEF RateStep

\* Nothing was written, and a KurrentDB stream of one event is what the
\* program believes it to be.
LEMMA InitRate == ASSUME NEW benches, benches \subseteq Bench, RateInit(benches) PROVE RateInv
<1>1. /\ bench \in Bench /\ stage = "ticking" /\ started = 0 /\ inFlight = {} /\ failed = {}
      /\ top = [s \in Targets |-> bench.old] /\ rows = {}
      /\ known = [s \in Targets |-> 0] /\ total = 0
  BY DEF RateInit
<1>2. bench.old \in Nat
  <2>1. \A b \in 0 .. MaxOld : b \in Nat
    BY RateAssumption
  <2> QED
    BY <1>1, <2>1 DEF Bench
<1>3. RateTypeOK
  BY <1>1, <1>2, RateAssumption DEF RateTypeOK
<1>4. Tried = {} /\ Holders = {} /\ Settled = {}
  BY <1>1 DEF Tried, Holders, Settled
<1>5. SeqsOnce
  BY <1>1, <1>4 DEF SeqsOnce
<1>6. \A s \in Targets : top[s] = bench.old /\ known[s] = 0
  BY <1>1
<1>7. Numbers
  BY <1>1, <1>2, <1>4, <1>6 DEF Numbers
<1>8. Totals
  BY <1>1, <1>4, FS_EmptySet DEF Totals
<1>9. Revisions
  <2> SUFFICES ASSUME bench.old = 1, NEW s \in Targets PROVE UpToDate(s)
    BY DEF Revisions
  <2>1. Unacknowledged(s) = {} /\ known[s] = 0 /\ top[s] = 1
    BY <1>1, <1>6 DEF Unacknowledged
  <2> QED
    BY <1>1, <2>1 DEF UpToDate
<1> QED
  BY <1>3, <1>5, <1>7, <1>8, <1>9 DEF RateInv

\* The invariant of the rate benchmark holds throughout.
LEMMA RateHolds == RunSpec => []RateInv
<1>1. RunInit => RateInv
  <2> SUFFICES ASSUME RunInit PROVE RateInv
    OBVIOUS
  <2>1. Bench # {}
    <3>1. PICK b \in BatchSizes : TRUE
      BY RateAssumption
    <3>2. 0 \in 0 .. MaxOld
      BY RateAssumption
    <3>3. [backend |-> "postgres", versioned |-> FALSE, size |-> b, old |-> 0] \in Bench
      BY <3>2 DEF Bench
    <3> QED
      BY <3>3
  <2>2. OneOf(Bench) \subseteq Bench
    BY <2>1 DEF OneOf
  <2> QED
    BY <2>2, InitRate DEF RunInit
<1>2. RateInv /\ [RunNext]_runVars => RateInv'
  <2> SUFFICES ASSUME RateInv, [RunNext]_runVars PROVE RateInv'
    OBVIOUS
  <2>1. CASE RateStep
    BY <2>1, RateTypes, RateSeqs, RateNumbers, RateTotals, RateRevisions DEF RateInv
  <2>2. CASE UNCHANGED rateVars
    <3>1. UNCHANGED <<bench, stage, started, inFlight, top, rows, known, total, failed>>
      BY <2>2 DEF rateVars, tables
    <3>2. RateTypeOK' /\ SeqsOnce' /\ Totals'
      BY <3>1 DEF RateInv, RateTypeOK, SeqsOnce, Totals, Tried, Settled, RowsOf
    <3>3. Holders' = Holders
      BY <3>1 DEF Holders, Tried
    <3>4. Numbers'
      BY <3>1, <3>3, NumbersKept DEF RateInv, tables
    <3>5. Revisions'
      BY <3>1 DEF RateInv, Revisions, Expecting, NothingLost, UpToDate, Unacknowledged
    <3> QED
      BY <3>2, <3>4, <3>5 DEF RateInv
  <2> QED
    BY <2>1, <2>2, StepsOfCommands
<1> QED
  BY <1>1, <1>2, PTL DEF RunSpec

\* The counter hands out every version once, for any number of streams and
\* any size of the batches, although numbering and insert are two calls
\* (RateBench: NumbersAreUsedOnce).
THEOREM VersionsAreUsedOnce == RunSpec => []NumbersAreUsedOnce
<1>1. RateInv => NumbersAreUsedOnce
  <2> SUFFICES ASSUME RateInv, Counted, NEW s \in Targets, NEW v \in bench.old .. top[s] - 1
               PROVE  LET Has(w) == StreamOf(w) = s /\ w.pc = "numbered"
                                      /\ v \in w.first .. w.first + bench.size - 1
                          holders == {w \in inFlight : Has(w)}
                      IN  IF v \in VersionsIn(s)
                            THEN holders = {}
                                 /\ Cardinality({r \in rows : StreamOf(r) = s /\ r.version = v}) = 1
                            ELSE Cardinality(holders \cup {w \in failed : Has(w)}) = 1
    BY DEF NumbersAreUsedOnce
  <2> DEFINE Has(w) == StreamOf(w) = s /\ w.pc = "numbered" /\ v \in w.first .. w.first + bench.size - 1
             holders == {w \in inFlight : Has(w)}
             lost == {w \in failed : Has(w)}
             R == {r \in rows : StreamOf(r) = s /\ r.version = v}
  <2>1. /\ bench.old \in Nat /\ bench.size \in Nat /\ top[s] \in Nat
        /\ \A w \in Tried : w \in Write /\ w.first \in Int
    <3>1. bench.size \in BatchSizes /\ bench.old \in 0 .. MaxOld
      BY DEF RateInv, RateTypeOK, Bench
    <3>2. (\A b \in BatchSizes : b \in Nat) /\ \A b \in 0 .. MaxOld : b \in Nat
      BY RateAssumption
    <3> QED
      BY <3>1, <3>2 DEF RateInv, RateTypeOK, Tried, Write
  <2>2. v \in Nat /\ bench.old <= v /\ v < top[s]
    BY <2>1
  <2>3. \A w \in Tried : Has(w) <=> w \in Holders /\ StreamOf(w) = s /\ Holds(w, v)
    BY <2>1, <2>2 DEF Holders, Holds
  <2> HIDE DEF Has
  <2>4. ASSUME v \in VersionsIn(s) PROVE holders = {} /\ Cardinality(R) = 1
    <3>1. PICK r \in rows : StreamOf(r) = s /\ r.version = v
      BY <2>4 DEF VersionsIn
    <3>2. R = {r}
      BY <3>1 DEF RateInv, Numbers
    <3>3. Cardinality(R) = 1
      BY <3>2, FS_Singleton
    <3>4. ASSUME NEW w \in inFlight, Has(w) PROVE FALSE
      <4>1. w \in Holders /\ StreamOf(w) = s /\ Holds(w, r.version)
        BY <2>3, <3>1, <3>4 DEF Tried
      <4>2. r.seq = w.seq
        BY <3>1, <4>1 DEF RateInv, Numbers
      <4> QED
        BY <4>1, <4>2 DEF RateInv, SeqsOnce, Holders
    <3> QED
      BY <3>3, <3>4
  <2>5. ASSUME v \notin VersionsIn(s) PROVE Cardinality(holders \cup lost) = 1
    <3>1. PICK w \in Holders : StreamOf(w) = s /\ Holds(w, v)
      BY <2>2, <2>5 DEF RateInv, Numbers, VersionsIn
    <3>2. w \in holders \cup lost
      BY <2>3, <3>1 DEF Holders, Tried
    <3>3. ASSUME NEW x \in holders \cup lost PROVE x = w
      <4>1. x \in Holders /\ StreamOf(x) = s /\ Holds(x, v)
        BY <2>3, <3>3 DEF Tried
      <4>2. x = w \/ Free(w, x)
        BY <3>1, <4>1 DEF RateInv, Numbers
      <4> QED
        BY <2>1, <2>2, <3>1, <4>1, <4>2 DEF Free, Holds, Holders
    <3>4. holders \cup lost = {w}
      BY <3>2, <3>3
    <3> QED
      BY <3>4, FS_Singleton
  <2> QED
    BY <2>4, <2>5 DEF Has
<1> QED
  BY <1>1, RateHolds, PTL

\* The remembered revision is that of the stream while its writes are
\* acknowledged, however many streams and writes there are (RateBench:
\* RevisionIsKnown).
THEOREM RevisionsAreKnown == RunSpec => []RevisionIsKnown
<1>1. RateInv => RevisionIsKnown
  <2> SUFFICES ASSUME RateInv, Expecting, bench.old = 1, NEW s \in Targets,
                      Unacknowledged(s) = {}, NothingLost(s)
               PROVE  known[s] = top[s] - 1
    BY DEF RevisionIsKnown, Unacknowledged, NothingLost
  <2> QED
    BY DEF RateInv, Revisions, UpToDate
<1> QED
  BY <1>1, RateHolds, PTL

\* The report counts the stored events of the writes that were acknowledged:
\* all permits are back by then and no write starts any more (RateBench:
\* ReportCountsStored).
THEOREM ReportsCountStored == RunSpec => []ReportCountsStored
<1> DEFINE Drained == stage = "reported" => inFlight = {}
<1>1. RunInit => Drained
  BY DEF RunInit, RateInit
<1>2. Drained /\ [RunNext]_runVars => Drained'
  <2> SUFFICES ASSUME Drained, [RunNext]_runVars PROVE Drained'
    OBVIOUS
  <2>1. CASE RateStep
    <3>1. CASE StartWrite \/ TimeIsUp \/ ReportRate
      BY <3>1 DEF StartWrite, TimeIsUp, ReportRate, AllBack
    <3>2. ASSUME NEW w \in inFlight PROVE stage # "reported"
      BY <3>2
    <3>3. ASSUME NEW w \in inFlight,
                 \/ Numbering(w) \/ Expect(w) \/ StoreBatch(w)
                 \/ Refuse(w) \/ FailWrite(w) \/ Acknowledge(w)
          PROVE  stage' = stage
      BY <3>3 DEF Numbering, Expect, StoreBatch, Refuse, FailWrite, Skip, Acknowledge
    <3> QED
      BY <2>1, <3>1, <3>2, <3>3 DEF RateStep
  <2>2. CASE UNCHANGED rateVars
    BY <2>2 DEF rateVars
  <2> QED
    BY <2>1, <2>2, StepsOfCommands
<1>3. RateInv /\ Drained => ReportCountsStored
  <2> SUFFICES ASSUME RateInv, inFlight = {}
               PROVE  total = Cardinality({r \in rows : \A w \in failed : w.seq # r.seq})
    BY DEF ReportCountsStored
  <2>1. Settled = {r \in rows : \A w \in failed : w.seq # r.seq}
    BY DEF Settled, Tried
  <2> QED
    BY <2>1 DEF RateInv, Totals
<1> QED
  BY <1>1, <1>2, <1>3, RateHolds, PTL DEF RunSpec
-----------------------------------------------------------------------------
(* The hot and cold views.  The lags that wait in the channel come after   *)
(* those that were recorded and belong to events of this run's writes, so  *)
(* that a lag taken while no wait has timed out can only be the next one.  *)

LagTypes ==
  /\ old \in Nat /\ cold \in Nat /\ hot \in Nat /\ position \in Nat
  /\ lags \in Seq(Int) /\ recorded \in Seq(Int)

\* Where the cold stream stands, section by section.
Written ==
  /\ section = "seeding" => cold = old + hot /\ hot <= ViewSeeds
  /\ section \in {"rewriting", "replaying"} => cold = Base
  /\ section = "writing" => cold = Base + Len(recorded)
  /\ section = "receiving" => cold = Base + Len(recorded) + 1

\* No lag is sent before the second projector is subscribed.
NoLagYet ==
  /\ section \in {"seeding", "rewriting", "replaying"} =>
       recorded = <<>> /\ lags = <<>> /\ task \in {"unborn", "replaying", "gone"}
  /\ task \in {"subscribing", "live"} => cold >= Base
  /\ task = "subscribing" => lags = <<>> /\ \A i \in 1 .. Len(recorded) : recorded[i] = TimedOut
  /\ task = "live" => position >= Base

Waiting ==
  /\ Ascending(lags)
  /\ \A j \in 1 .. Len(lags) : Base < lags[j] /\ lags[j] <= cold /\ lags[j] <= position

Taken ==
  /\ \A i, j \in 1 .. Len(recorded) :
       i < j /\ recorded[i] # TimedOut /\ recorded[j] # TimedOut => recorded[i] < recorded[j]
  /\ \A i \in 1 .. Len(recorded) : recorded[i] # TimedOut =>
       /\ Base < recorded[i] /\ recorded[i] <= Base + i /\ recorded[i] <= position
       /\ \A j \in 1 .. Len(lags) : recorded[i] < lags[j]
  /\ \A i \in 1 .. Len(recorded) :
       (\A k \in 1 .. i : recorded[k] # TimedOut) => recorded[i] = Base + i

LagInv == LagTypes /\ Written /\ NoLagYet /\ Waiting /\ Taken

\* A step that only moves the program on, or the streams ahead, leaves the
\* lags in their order.
LEMMA LagsKept ==
  ASSUME LagInv, old' = old, cold' \in Nat, cold' >= cold, UNCHANGED <<position, lags, recorded>>
  PROVE  Waiting' /\ Taken'
<1>1. Base' = Base /\ Base \in Nat
  BY HotColdAssumption DEF Base, LagInv, LagTypes
<1>2. \A j \in 1 .. Len(lags) : lags[j] \in Int
  BY DEF LagInv, LagTypes
<1>3. Waiting'
  BY <1>1, <1>2 DEF LagInv, LagTypes, Waiting, Ascending
<1>4. Taken'
  BY <1>1 DEF LagInv, Taken, TimedOut
<1> QED
  BY <1>3, <1>4

\* The program before the first write, and where it fails or ends.
LEMMA MovesLags ==
  ASSUME LagInv,
         \/ SeedBoth \/ ReadBoth \/ WriteAndRead \/ SpawnReplay \/ ReplayComplete
         \/ ReplayFails \/ AppendForLag \/ EndLags \/ HotColdFails \/ ProjectorDies
  PROVE  LagInv'
<1>1. /\ old' = old /\ cold' \in Nat /\ cold' >= cold /\ UNCHANGED <<position, lags, recorded>>
      /\ hot' \in Nat
  BY HotColdAssumption
  DEF SeedBoth, ReadBoth, WriteAndRead, SpawnReplay, ReplayComplete, ReplayFails, AppendForLag,
      EndLags, HotColdFails, ProjectorDies, streams, LagInv, LagTypes
<1>2. LagTypes' /\ Base' = Base /\ Base \in Nat /\ Len(recorded) \in Nat
  BY <1>1, HotColdAssumption DEF LagInv, LagTypes, Base
<1>3. Waiting' /\ Taken'
  BY <1>1, LagsKept
<1> DEFINE n == Len(recorded)
<1>4. n \in Nat /\ Len(recorded') = n
  BY <1>1, <1>2
<1> HIDE DEF n
<1>5. Written' /\ NoLagYet'
  <2>1. CASE SeedBoth
    <3>1. /\ section = "seeding" /\ task' = task /\ cold = old + hot /\ hot <= ViewSeeds
          /\ old \in Nat /\ hot \in Nat /\ ViewSeeds \in Nat /\ ViewBatch \in Nat
      BY <2>1, HotColdAssumption DEF SeedBoth, LagInv, LagTypes, Written
    <3>2. PICK size \in Nat :
            /\ size <= ViewSeeds - hot /\ cold' = cold + size
            /\ \/ hot' = hot + size /\ section' = section
               \/ section' = "failed"
      BY <2>1, <3>1 DEF SeedBoth
    <3>3. Written'
      <4>1. old' = old /\ cold' = old + hot + size
        BY <1>1, <3>1, <3>2
      <4>2. CASE section' = "failed"
        BY <4>2 DEF Written
      <4>3. CASE section' = "seeding" /\ hot' = hot + size
        <5>1. cold' = old' + hot' /\ hot' <= ViewSeeds
          BY <3>1, <3>2, <4>1, <4>3
        <5> QED
          BY <4>3, <5>1 DEF Written
      <4> QED
        BY <3>1, <3>2, <4>2, <4>3
    <3>4. task' \notin {"subscribing", "live"} /\ recorded' = <<>> /\ lags' = <<>> /\ task' \in {"unborn", "replaying", "gone"}
      BY <1>1, <3>1 DEF LagInv, NoLagYet
    <3> QED
      BY <3>3, <3>4 DEF NoLagYet
  <2>2. CASE ReadBoth \/ WriteAndRead \/ SpawnReplay \/ ReplayFails
    BY <1>1, <1>2, <2>2
    DEF ReadBoth, WriteAndRead, SpawnReplay, ReplayFails, streams, LagInv, LagTypes, Written, NoLagYet, Base
  <2>3. CASE ReplayComplete
    <3>1. /\ section = "replaying" /\ section' = "writing" /\ task' = "subscribing"
          /\ recorded' = <<>> /\ lags' = <<>> /\ cold' = Base
      BY <1>1, <2>3 DEF ReplayComplete, streams, LagInv, Written, NoLagYet
    <3> QED
      BY <1>2, <3>1 DEF Written, NoLagYet
  <2>4. CASE AppendForLag
    <3>1. /\ section = "writing" /\ section' = "receiving" /\ task' = task
          /\ cold' = Base + n + 1
      BY <2>4 DEF AppendForLag, LagInv, Written, n
    <3> QED
      BY <1>1, <1>2, <1>4, <3>1 DEF LagInv, Written, NoLagYet, n, TimedOut
  <2>5. CASE EndLags
    BY <1>1, <1>2, <2>5 DEF EndLags, LagInv, Written, NoLagYet
  <2>6. CASE HotColdFails
    <3>1. section' = "failed" /\ task' = task
      BY <2>6 DEF HotColdFails
    <3> QED
      BY <1>1, <1>2, <3>1 DEF LagInv, LagTypes, Written, NoLagYet, TimedOut
  <2>7. CASE ProjectorDies
    <3>1. section' = section /\ task' = "gone" /\ cold' = cold /\ hot' = hot
      BY <2>7 DEF ProjectorDies, streams
    <3> QED
      BY <1>1, <1>2, <3>1 DEF LagInv, LagTypes, Written, NoLagYet
  <2> QED
    BY <2>1, <2>2, <2>3, <2>4, <2>5, <2>6, <2>7
<1> QED
  BY <1>2, <1>3, <1>5 DEF LagInv

\* A wait ends, with a lag or without.
LEMMA TakesLag ==
  ASSUME LagInv, ReceiveLag \/ TimeOut
  PROVE  LagInv'
<1> DEFINE n == Len(recorded)
<1>1. PICK x \in Int :
        /\ recorded' = recorded \o <<x>>
        /\ \/ /\ lags # <<>> /\ x = Head(lags) /\ lags' = Tail(lags)
           \/ /\ lags' = lags /\ x = TimedOut
  <2>1. \A x \in Int : Append(recorded, x) = recorded \o <<x>>
    BY DEF LagInv, LagTypes
  <2>2. lags # <<>> => Head(lags) \in Int
    BY OneLess DEF LagInv, LagTypes
  <2>3. TimedOut \in Int
    BY DEF TimedOut
  <2> QED
    BY <2>1, <2>2, <2>3 DEF ReceiveLag, TimeOut
<1>2. /\ section = "receiving" /\ section' = "writing"
      /\ UNCHANGED <<old, cold, hot, task, position, replayed>>
  BY DEF ReceiveLag, TimeOut, streams
<1>3. /\ recorded' \in Seq(Int) /\ n \in Nat /\ Len(recorded') = n + 1
      /\ \A i \in 1 .. n : recorded'[i] = recorded[i]
      /\ recorded'[n + 1] = x
  BY <1>1, OneMore DEF LagInv, LagTypes
<1>4. Base' = Base /\ Base \in Nat /\ cold = Base + n + 1 /\ cold \in Nat
  BY <1>2, HotColdAssumption DEF LagInv, LagTypes, Written, Base
<1> HIDE DEF n
\* Everything that waits comes after what was taken.
<1>5. /\ lags' \in Seq(Int) /\ Ascending(lags')
      /\ \A j \in 1 .. Len(lags') : \E i \in 1 .. Len(lags) : lags'[j] = lags[i]
      /\ x # TimedOut => \A j \in 1 .. Len(lags') : x < lags'[j]
  <2>1. CASE lags' = lags /\ x = TimedOut
    BY <2>1 DEF LagInv, LagTypes, Waiting
  <2>2. CASE lags # <<>> /\ x = Head(lags) /\ lags' = Tail(lags)
    <3>1. lags \in Seq(Int) /\ Ascending(lags)
      BY DEF LagInv, LagTypes, Waiting
    <3>2. Ascending(Tail(lags)) /\ \A j \in 1 .. Len(Tail(lags)) : Head(lags) < Tail(lags)[j]
      BY <2>2, <3>1, OneLessAscends
    <3>3. /\ Tail(lags) \in Seq(Int)
          /\ \A j \in 1 .. Len(Tail(lags)) : j + 1 \in 1 .. Len(lags) /\ Tail(lags)[j] = lags[j + 1]
      BY <2>2, <3>1, OneLess
    <3> QED
      BY <2>2, <3>2, <3>3
  <2> QED
    BY <1>1, <2>1, <2>2
<1>6. x # TimedOut =>
        /\ Base < x /\ x <= cold /\ x <= position
        /\ \A i \in 1 .. n : recorded[i] # TimedOut => recorded[i] < x
  <2>1. ASSUME x # TimedOut PROVE x = lags[1] /\ 1 \in 1 .. Len(lags)
    BY <1>1, <2>1, OneLess DEF LagInv, LagTypes
  <2> QED
    BY <2>1 DEF LagInv, Waiting, Taken, n
<1>7. LagTypes' /\ Written' /\ NoLagYet'
  <2>1. LagTypes'
    BY <1>2, <1>3, <1>5 DEF LagInv, LagTypes
  <2>2. Written'
    BY <1>2, <1>3, <1>4 DEF Written
  <2>3. task = "subscribing" => x = TimedOut /\ lags' = <<>>
    BY <1>1 DEF LagInv, NoLagYet
  <2>4. task = "subscribing" => \A i \in 1 .. n + 1 : recorded'[i] = TimedOut
    BY <1>3, <2>3 DEF LagInv, NoLagYet, n
  <2>5. TimedOut' = TimedOut
    BY DEF TimedOut
  <2>6. NoLagYet'
    BY <1>2, <1>3, <1>4, <2>3, <2>4, <2>5 DEF LagInv, NoLagYet
  <2> QED
    BY <2>1, <2>2, <2>6
<1>8. Waiting'
  BY <1>2, <1>4, <1>5 DEF LagInv, Waiting
<1>9. Taken'
  <2>1. \A i \in 1 .. n + 1 : i = n + 1 \/ i \in 1 .. n
    BY <1>3
  <2>2. ASSUME NEW i \in 1 .. n + 1, NEW j \in 1 .. n + 1, i < j,
               recorded'[i] # TimedOut, recorded'[j] # TimedOut
        PROVE  recorded'[i] < recorded'[j]
    <3>1. i \in 1 .. n
      BY <1>3, <2>2
    <3> QED
      BY <1>3, <1>6, <2>1, <2>2, <3>1 DEF LagInv, Taken, n
  <2>3. ASSUME NEW i \in 1 .. n + 1, recorded'[i] # TimedOut
        PROVE  /\ Base < recorded'[i] /\ recorded'[i] <= Base + i /\ recorded'[i] <= position
               /\ \A j \in 1 .. Len(lags') : recorded'[i] < lags'[j]
    <3>1. CASE i \in 1 .. n
      BY <1>3, <1>5, <2>3, <3>1 DEF LagInv, Taken, n
    <3>2. CASE i = n + 1
      BY <1>3, <1>4, <1>5, <1>6, <2>3, <3>2
    <3> QED
      BY <2>1, <3>1, <3>2
  <2>4. ASSUME NEW i \in 1 .. n + 1, \A k \in 1 .. i : recorded'[k] # TimedOut
        PROVE  recorded'[i] = Base + i
    <3>1. CASE i \in 1 .. n
      <4>1. \A k \in 1 .. i : k \in 1 .. n /\ recorded[k] # TimedOut
        BY <1>3, <2>4, <3>1
      <4> QED
        BY <1>3, <3>1, <4>1 DEF LagInv, Taken, n
    <3>2. CASE i = n + 1
      <4>1. x # TimedOut /\ x \in Int /\ Base < x /\ x <= Base + n + 1
        BY <1>3, <1>4, <1>6, <2>4, <3>2
      <4>2. CASE n = 0
        BY <1>3, <1>4, <3>2, <4>1, <4>2
      <4>3. CASE n # 0
        <5>1. n \in 1 .. n /\ \A k \in 1 .. n : recorded[k] # TimedOut
          BY <1>3, <2>4, <3>2, <4>3
        <5>2. recorded[n] = Base + n /\ recorded[n] < x
          BY <1>6, <4>1, <5>1 DEF LagInv, Taken, n
        <5> QED
          BY <1>3, <1>4, <3>2, <4>1, <5>2
      <4> QED
        BY <4>2, <4>3
    <3> QED
      BY <2>1, <3>1, <3>2
  <2>5. TimedOut' = TimedOut /\ position' = position
    BY <1>2 DEF TimedOut
  <2> QED
    BY <1>3, <1>4, <2>2, <2>3, <2>4, <2>5 DEF Taken
<1> QED
  BY <1>7, <1>8, <1>9 DEF LagInv

\* The projectors: the first sends no lags, the second those of later events.
LEMMA SendsLag ==
  ASSUME LagInv, HotColdTask
  PROVE  LagInv'
<1>1. /\ UNCHANGED <<section, old, cold, hot, recorded>>
      /\ Base' = Base /\ Base \in Nat /\ TimedOut' = TimedOut
  BY HotColdAssumption
  DEF HotColdTask, ReplayEvent, Subscribe, SendLag, streams, Base, TimedOut, LagInv, LagTypes
<1>2. Written'
  BY <1>1 DEF LagInv, Written
<1>3. CASE ReplayEvent
  <2>1. lags' = lags /\ position' \in Nat /\ position' >= position /\ task = "replaying" /\ task' \in {"replaying", "gone"}
    BY <1>3 DEF ReplayEvent, LagInv, LagTypes
  <2>2. LagTypes' /\ NoLagYet'
    BY <1>1, <2>1 DEF LagInv, LagTypes, NoLagYet
  <2>3. \A j \in 1 .. Len(lags) : lags[j] \in Int
    BY DEF LagInv, LagTypes
  <2>4. Waiting'
    BY <1>1, <2>1, <2>3 DEF LagInv, LagTypes, Waiting
  <2>5. \A i \in 1 .. Len(recorded) : recorded[i] \in Int
    BY DEF LagInv, LagTypes
  <2>6. \A i \in 1 .. Len(recorded) : recorded[i] <= position => recorded[i] <= position'
    BY <2>1, <2>5 DEF LagInv, LagTypes
  <2>7. Taken'
    BY <1>1, <2>1, <2>6 DEF LagInv, Taken
  <2> QED
    BY <1>2, <2>2, <2>4, <2>7 DEF LagInv
<1>4. CASE Subscribe
  <2>1. lags = <<>> /\ lags' = lags /\ position' = cold /\ task = "subscribing" /\ task' = "live"
    BY <1>4 DEF Subscribe, Origin, LagInv, NoLagYet
  <2>2. LagTypes' /\ NoLagYet'
    BY <1>1, <2>1 DEF LagInv, LagTypes, NoLagYet
  <2>3. Waiting'
    BY <2>1 DEF Waiting, Ascending
  <2>4. \A i \in 1 .. Len(recorded) : recorded[i] = TimedOut
    BY <2>1 DEF LagInv, NoLagYet
  <2>5. Taken'
    BY <1>1, <2>1, <2>4 DEF LagInv, Taken
  <2> QED
    BY <1>2, <2>2, <2>3, <2>5 DEF LagInv
<1>5. CASE SendLag
  <2> DEFINE x == position + 1
  <2>1. /\ position' = x /\ lags' = lags \o <<x>> /\ task = "live" /\ task' = task
        /\ x <= cold /\ x \in Nat /\ Base < x /\ position \in Nat /\ cold \in Nat
    BY <1>1, <1>5 DEF SendLag, LagInv, LagTypes, NoLagYet
  <2>2. /\ lags \in Seq(Int) /\ Len(lags) \in Nat /\ Len(lags') = Len(lags) + 1 /\ lags' \in Seq(Int)
        /\ \A j \in 1 .. Len(lags) : lags'[j] = lags[j] /\ lags[j] \in Int /\ lags[j] < x
        /\ lags'[Len(lags) + 1] = x
    <3>1. \A j \in 1 .. Len(lags) : lags[j] \in Int /\ lags[j] <= position
      BY DEF LagInv, LagTypes, Waiting
    <3>2. x \in Int /\ lags \in Seq(Int)
      BY <2>1 DEF LagInv, LagTypes
    <3> QED
      BY <2>1, <3>1, <3>2, OneMore
  <2>3. \A j \in 1 .. Len(lags') : j = Len(lags) + 1 \/ j \in 1 .. Len(lags)
    BY <2>2
  <2>4. Ascending(lags')
    <3>1. Ascending(lags) /\ x \in Int
      BY <2>1 DEF LagInv, Waiting
    <3> HIDE DEF x
    <3>2. Ascending(lags \o <<x>>)
      BY <2>2, <3>1, OneMoreAscends
    <3> QED
      BY <2>1, <3>2
  <2>5. Waiting'
    BY <1>1, <2>1, <2>2, <2>3, <2>4 DEF LagInv, Waiting
  <2>6. LagTypes' /\ NoLagYet'
    BY <1>1, <2>1, <2>2 DEF LagInv, LagTypes, NoLagYet
  <2>7. \A i \in 1 .. Len(recorded) : recorded[i] # TimedOut =>
          /\ recorded[i] <= position' /\ recorded[i] < x
          /\ \A j \in 1 .. Len(lags') : recorded[i] < lags'[j]
    <3>1. \A i \in 1 .. Len(recorded) : recorded[i] \in Int
      BY DEF LagInv, LagTypes
    <3>2. \A i \in 1 .. Len(recorded) : recorded[i] # TimedOut => recorded[i] <= x /\ recorded[i] < x
      BY <2>1, <3>1 DEF LagInv, Taken
    <3> QED
      BY <2>1, <2>2, <2>3, <3>2 DEF LagInv, Taken
  <2>8. Taken'
    BY <1>1, <2>7 DEF LagInv, Taken
  <2> QED
    BY <1>2, <2>5, <2>6, <2>8 DEF LagInv
<1> QED
  BY <1>3, <1>4, <1>5 DEF HotColdTask

\* No lag is recorded twice, none belongs to an event from before, and until
\* a wait times out each is that of the event just written, for any number of
\* events (HotColdView: LagsBelongToWrites).
THEOREM LagsAreOfWrites == RunSpec => []LagsBelongToWrites
<1>1. RunInit => LagInv
  <2> SUFFICES ASSUME RunInit PROVE LagInv
    OBVIOUS
  <2>1. /\ section = "seeding" /\ old \in Nat /\ cold = old /\ hot = 0 /\ task = "unborn"
        /\ position = 0 /\ lags = <<>> /\ recorded = <<>>
    <3>1. \A n \in 0 .. MaxOldCold : n \in Nat
      BY HotColdAssumption
    <3> QED
      BY <3>1 DEF RunInit, HotColdInit
  <2>2. <<>> \in Seq(Int) /\ Len(<<>>) = 0
    OBVIOUS
  <2> QED
    BY <2>1, <2>2, HotColdAssumption DEF LagInv, LagTypes, Written, NoLagYet, Waiting, Taken, Ascending
<1>2. LagInv /\ [RunNext]_runVars => LagInv'
  <2> SUFFICES ASSUME LagInv, [RunNext]_runVars PROVE LagInv'
    OBVIOUS
  <2>1. CASE HotColdStep
    BY <2>1, MovesLags, TakesLag, SendsLag DEF HotColdStep, HotColdMain
  <2>2. CASE UNCHANGED hotColdVars
    BY <2>2 DEF hotColdVars, LagInv, LagTypes, Written, NoLagYet, Waiting, Taken, Base, TimedOut
  <2> QED
    BY <2>1, <2>2, StepsOfCommands
<1>3. LagInv => LagsBelongToWrites
  <2> SUFFICES ASSUME LagInv, NEW i \in 1 .. Len(recorded) , recorded[i] # TimedOut
               PROVE  recorded[i] \in Base + 1 .. Base + i
    <3>1. LagInv => \A i \in 1 .. Len(recorded) :
            (\A k \in 1 .. i : recorded[k] # TimedOut) => recorded[i] = Base + i
      BY DEF LagInv, Taken
    <3>2. LagInv => \A i, j \in 1 .. Len(recorded) :
            i < j /\ recorded[i] # TimedOut /\ recorded[j] # TimedOut => recorded[i] < recorded[j]
      BY DEF LagInv, Taken
    <3> QED
      BY <3>1, <3>2 DEF LagsBelongToWrites
  <2>1. recorded[i] \in Int /\ Base \in Int /\ i \in Int
    BY HotColdAssumption DEF LagInv, LagTypes, Base
  <2> QED
    BY <2>1 DEF LagInv, Taken
<1> QED
  BY <1>1, <1>2, <1>3, PTL DEF RunSpec
-----------------------------------------------------------------------------
(* The projection and search benchmarks.  The places that were pushed and  *)
(* those in the batch form one line (Line): each place is in it once, and  *)
(* without the cursor of MongoDB in the order of the log.  As many places  *)
(* as the writer waits for are then all places there are.                  *)

Line == pushed \o batch

LineTypes ==
  /\ backend \in {"kurrentdb", "mongodb", "postgres"}
  /\ capacity \in Nat /\ leftover \in Nat /\ expected \in Nat
  /\ log \in Seq(Int) /\ pushed \in Seq(Int) /\ batch \in Seq(Int) /\ view \in Seq(Int)

\* Which stages a projector has, and when it has a batch.
Stages ==
  /\ backend = "kurrentdb" => projector \in {"unborn", "live", "dead"}
  /\ backend = "mongodb" => projector \in {"unborn", "replaying", "opening", "live", "dead"}
  /\ backend = "postgres" => projector \in {"unborn", "connecting", "polling", "asleep", "pushing", "dead"}
  /\ writer = "seeding" => projector = "unborn"
  /\ projector \in {"unborn", "connecting", "polling", "asleep"} => batch = <<>>
  /\ projector = "pushing" => batch # <<>>
  /\ program = "projection" /\ batch # <<>> => projector \in {"pushing", "dead"}

Awaited == writer \in {"waiting", "writing"} => Len(log) = leftover + expected

InLine ==
  /\ \A i \in 1 .. Len(Line) : Line[i] \in 1 .. Len(log)
  /\ \A i, j \in 1 .. Len(Line) : Line[i] = Line[j] => i = j
  /\ backend # "mongodb" => missed = {} /\ \A i \in 1 .. Len(Line) : Line[i] = i

TailInView ==
  program = "projection" /\ capacity > 0 =>
    /\ Len(view) = IF Processed < capacity THEN Processed ELSE capacity
    /\ backend # "mongodb" =>
         \A k \in 1 .. Len(view) : view[k] = log[Processed - Len(view) + k]

MeasuredArePushed == leftover = 0 => measured \subseteq ToSet(pushed)

Searchable ==
  program = "search" =>
    /\ ToSet(pushed) \subseteq indexed \cup refused
    /\ inserted => Due /\ Buffered \subseteq indexed \cup refused

LineInv ==
  LineTypes /\ Stages /\ Awaited /\ InLine /\ TailInView /\ MeasuredArePushed /\ Searchable

\* The line, element by element.
LEMMA LineIs ==
  ASSUME LineTypes
  PROVE  /\ Line \in Seq(Int) /\ Len(pushed) \in Nat /\ Len(batch) \in Nat
         /\ Len(Line) = Len(pushed) + Len(batch) /\ Len(Line) \in Nat
         /\ \A i \in 1 .. Len(pushed) : i \in 1 .. Len(Line) /\ Line[i] = pushed[i]
         /\ \A i \in 1 .. Len(batch) :
              Len(pushed) + i \in 1 .. Len(Line) /\ Line[Len(pushed) + i] = batch[i]
         /\ \A i \in 1 .. Len(Line) :
              i \in 1 .. Len(pushed)
              \/ (i - Len(pushed) \in 1 .. Len(batch) /\ Line[i] = batch[i - Len(pushed)])
         /\ ToSet(pushed) = {pushed[i] : i \in 1 .. Len(pushed)}
         /\ ToSet(batch) = {batch[i] : i \in 1 .. Len(batch)}
         /\ ToSet(pushed) \cup ToSet(batch) = {Line[i] : i \in 1 .. Len(Line)}
<1>1. pushed \in Seq(Int) /\ batch \in Seq(Int)
  BY DEF LineTypes
<1>2. /\ Line \in Seq(Int) /\ Len(pushed) \in Nat /\ Len(batch) \in Nat
      /\ Len(Line) = Len(pushed) + Len(batch) /\ Len(Line) \in Nat
      /\ \A i \in 1 .. Len(pushed) : i \in 1 .. Len(Line) /\ Line[i] = pushed[i]
      /\ \A i \in 1 .. Len(batch) :
           Len(pushed) + i \in 1 .. Len(Line) /\ Line[Len(pushed) + i] = batch[i]
      /\ \A i \in 1 .. Len(Line) :
           i \in 1 .. Len(pushed)
           \/ (i - Len(pushed) \in 1 .. Len(batch) /\ Line[i] = batch[i - Len(pushed)])
  BY <1>1, Joined DEF Line
<1>3. /\ ToSet(pushed) = {pushed[i] : i \in 1 .. Len(pushed)}
      /\ ToSet(batch) = {batch[i] : i \in 1 .. Len(batch)}
  BY <1>1, LenProperties DEF ToSet
<1>4. \A i \in 1 .. Len(Line) : Line[i] \in ToSet(pushed) \cup ToSet(batch)
  BY <1>2, <1>3
<1>5. ToSet(pushed) \cup ToSet(batch) = {Line[i] : i \in 1 .. Len(Line)}
  <2> DEFINE L == {Line[i] : i \in 1 .. Len(Line)}
  <2>1. \A x \in ToSet(pushed) : x \in L
    BY <1>2, <1>3
  <2>2. \A x \in ToSet(batch) : x \in L
    <3>1. \A i \in 1 .. Len(batch) : batch[i] \in L
      BY <1>2
    <3> QED
      BY <1>3, <3>1
  <2> QED
    BY <1>4, <2>1, <2>2
<1> QED
  BY <1>2, <1>3, <1>5

\* In the order of the log, the line does not reach past its end.
LEMMA LineWithinLog ==
  ASSUME LineTypes, InLine, backend # "mongodb"
  PROVE  Len(Line) <= Len(log) /\ Len(pushed) <= Len(log) /\ Len(log) \in Nat
<1>1. Len(log) \in Nat
  BY LenProperties DEF LineTypes
<1>2. Len(Line) \in Nat /\ Len(pushed) \in Nat /\ Len(batch) \in Nat /\ Len(Line) = Len(pushed) + Len(batch)
  BY LineIs
<1>3. CASE Len(Line) = 0
  BY <1>1, <1>2, <1>3
<1>4. CASE Len(Line) # 0
  <2>1. Len(Line) \in 1 .. Len(Line)
    BY <1>2, <1>4
  <2>2. Line[Len(Line)] = Len(Line) /\ Line[Len(Line)] \in 1 .. Len(log)
    BY <2>1 DEF InLine
  <2> QED
    BY <1>1, <1>2, <2>2
<1> QED
  BY <1>3, <1>4

\* A place that is in neither the line nor out of reach joins the line.
LEMMA LineGoesOn ==
  ASSUME LineTypes, InLine, NEW n \in 1 .. Len(log), n \notin ToSet(pushed) \cup ToSet(batch),
         Line' = Line \o <<n>>, log' = log, backend' = backend, missed' = missed,
         backend # "mongodb" => n = Len(Line) + 1
  PROVE  InLine'
<1>1. Line \in Seq(Int) /\ \A i \in 1 .. Len(Line) : Line[i] # n
  BY LineIs
<1>2. n \in Int
  OBVIOUS
<1>3. /\ Len(Line) \in Nat /\ Len(Line') = Len(Line) + 1
      /\ \A k \in 1 .. Len(Line) : Line'[k] = Line[k]
      /\ Line'[Len(Line) + 1] = n
  BY <1>1, <1>2, OneMore
<1>4. \A i \in 1 .. Len(Line') : i \in 1 .. Len(Line) \/ i = Len(Line) + 1
  BY <1>3
<1>5. \A i \in 1 .. Len(Line') : Line'[i] \in 1 .. Len(log')
  BY <1>3, <1>4 DEF InLine
<1>6. \A i, j \in 1 .. Len(Line') : Line'[i] = Line'[j] => i = j
  BY <1>1, <1>3, <1>4 DEF InLine
<1>7. backend # "mongodb" => missed = {} /\ \A i \in 1 .. Len(Line') : Line'[i] = i
  BY <1>3, <1>4 DEF InLine
<1> QED
  BY <1>5, <1>6, <1>7 DEF InLine

\* The next place of a subscription, and any place of a cursor, is new to the
\* line; without a cursor it is the one behind the last.
LEMMA NextPlace ==
  ASSUME LineTypes, InLine, Unpushed \ Buffered # {}
  PROVE  /\ \A n \in Unpushed \ Buffered :
              n \in 1 .. Len(log) /\ n \notin ToSet(pushed) \cup ToSet(batch)
         /\ backend # "mongodb" => Min(Unpushed \ Buffered) = Len(Line) + 1
         /\ Min(Unpushed \ Buffered) \in Unpushed \ Buffered
<1> DEFINE U == Unpushed \ Buffered
<1>1. \A n \in U : n \in 1 .. Len(log) /\ n \notin ToSet(pushed) \cup ToSet(batch)
  BY DEF Unpushed, Buffered
<1>2. Len(log) \in Nat /\ U \subseteq 1 .. Len(log)
  <2>1. Len(log) \in Nat
    BY LenProperties DEF LineTypes
  <2> QED
    BY <1>1, <2>1
<1>3. \E x \in U : \A y \in U : x <= y
  BY <1>2, LeastOfThem
<1>4. Min(U) \in U /\ \A y \in U : Min(U) <= y
  BY <1>3 DEF Min
<1>5. ASSUME backend # "mongodb" PROVE Min(U) = Len(Line) + 1
  <2>1. U = (1 .. Len(log)) \ {Line[i] : i \in 1 .. Len(Line)}
    BY <1>5, LineIs DEF InLine, Unpushed, Buffered
  <2>2. {Line[i] : i \in 1 .. Len(Line)} = 1 .. Len(Line)
    BY <1>5 DEF InLine
  <2>3. Len(Line) \in Nat
    BY LineIs
  <2> DEFINE m == Min(U)
             l == Len(Line)
  <2>4. l \in Nat /\ m \in 1 .. Len(log) /\ m \notin 1 .. l /\ Len(log) \in Nat
    BY <1>2, <1>4, <2>1, <2>2, <2>3
  <2>5. l + 1 \in U
    <3> HIDE DEF m
    <3>1. l + 1 \in 1 .. Len(log) /\ l + 1 \notin 1 .. l
      BY <2>4
    <3> QED
      BY <2>1, <2>2, <3>1
  <2>6. m <= l + 1
    BY <1>4, <2>5
  <2> HIDE DEF m, l
  <2>7. m = l + 1
    BY <2>4, <2>6
  <2> QED
    BY <2>7 DEF m, l
<1> QED
  BY <1>1, <1>4, <1>5

\* What was pushed is part of the line.
LEMMA PushedInLine ==
  ASSUME LineTypes, InLine
  PROVE  /\ \A i \in 1 .. Len(pushed) : pushed[i] \in 1 .. Len(log)
         /\ \A i, j \in 1 .. Len(pushed) : pushed[i] = pushed[j] => i = j
         /\ backend # "mongodb" => \A i \in 1 .. Len(pushed) : pushed[i] = i
BY LineIs DEF InLine

\* The line stays as it is, while the log may grow.
LEMMA LineStays ==
  ASSUME LineTypes, InLine, Line' = Line, backend' = backend, missed' = missed,
         log' \in Seq(Int), Len(log') >= Len(log)
  PROVE  InLine'
<1>1. Len(log) \in Nat /\ Len(log') \in Nat
  BY LenProperties DEF LineTypes
<1>2. \A i \in 1 .. Len(log) : i \in 1 .. Len(log')
  BY <1>1
<1> QED
  BY <1>2 DEF InLine

\* The view stays as it is, and what it shows of the log too.
LEMMA ViewStays ==
  ASSUME LineTypes, InLine, TailInView, UNCHANGED <<setup, view, pushed>>,
         \A i \in 1 .. Len(log) : log'[i] = log[i]
  PROVE  TailInView'
<1> SUFFICES ASSUME program = "projection", capacity > 0, backend # "mongodb",
                    NEW k \in 1 .. Len(view)
             PROVE  view[k] = log'[Processed - Len(view) + k]
  BY DEF TailInView, setup, Processed
<1>1. Processed \in Nat /\ Len(view) \in Nat /\ Len(view) <= Processed /\ Processed <= Len(log) /\ Len(log) \in Nat
  <2>1. Processed \in Nat /\ Processed <= Len(log) /\ Len(log) \in Nat
    BY LineIs, LineWithinLog DEF Processed
  <2>2. Len(view) = IF Processed < capacity THEN Processed ELSE capacity
    BY DEF TailInView
  <2> QED
    BY <2>1, <2>2 DEF LineTypes
<1>2. Processed - Len(view) + k \in 1 .. Len(log)
  BY <1>1
<1> QED
  BY <1>2 DEF TailInView

\* An event is pushed to the view, and the oldest falls out when it is full.
LEMMA ViewIsPushed ==
  ASSUME LineTypes, InLine, TailInView, NEW n \in 1 .. Len(log), Push(n),
         UNCHANGED <<setup, log>>, backend # "mongodb" => n = Len(pushed) + 1
  PROVE  /\ view' \in Seq(Int) /\ pushed' = pushed \o <<n>> /\ pushed' \in Seq(Int)
         /\ TailInView'
<1> DEFINE kept == IF Len(view) = capacity /\ view # <<>> THEN Tail(view) ELSE view
           cut == IF Len(view) = capacity /\ view # <<>> THEN 1 ELSE 0
           P == Len(pushed)
           l == Len(view)
<1>1. /\ n \in Int /\ log[n] \in Int /\ P \in Nat /\ pushed' = pushed \o <<n>>
      /\ pushed' \in Seq(Int) /\ Len(pushed') = P + 1
  <2>1. n \in Int /\ pushed \in Seq(Int) /\ log[n] \in Int
    BY ElementOfSeq DEF LineTypes
  <2>2. pushed' = pushed \o <<n>>
    BY <2>1 DEF Push
  <2> QED
    BY <2>1, <2>2, OneMore
<1>2. /\ kept \in Seq(Int) /\ l \in Nat /\ Len(kept) \in Nat /\ Len(kept) = l - cut
      /\ \A k \in 1 .. Len(kept) : k + cut \in 1 .. l /\ kept[k] = view[k + cut]
  <2>1. view \in Seq(Int) /\ l \in Nat
    BY LenProperties DEF LineTypes
  <2>2. CASE Len(view) = capacity /\ view # <<>>
    <3>1. /\ Tail(view) \in Seq(Int) /\ Len(Tail(view)) = l - 1
          /\ \A k \in 1 .. Len(Tail(view)) : k + 1 \in 1 .. l /\ Tail(view)[k] = view[k + 1]
      BY <2>1, <2>2, OneLess
    <3>2. Len(Tail(view)) \in Nat
      BY <3>1, LenProperties
    <3> QED
      BY <2>1, <2>2, <3>1, <3>2
  <2>3. CASE ~ (Len(view) = capacity /\ view # <<>>)
    BY <2>1, <2>3
  <2> QED
    BY <2>2, <2>3
<1>3. /\ view' = kept \o <<log[n]>> /\ view' \in Seq(Int) /\ Len(view') = l - cut + 1
      /\ \A k \in 1 .. Len(kept) : view'[k] = view[k + cut]
      /\ view'[Len(kept) + 1] = log[n]
  <2>0. view' = Append(kept, log[n])
    BY Zenon DEF Push, Pushed
  <2> HIDE DEF kept
  <2>1. view' = kept \o <<log[n]>>
    BY <1>1, <1>2, <2>0, AppendIsConcat
  <2>2. /\ kept \o <<log[n]>> \in Seq(Int) /\ Len(kept \o <<log[n]>>) = Len(kept) + 1
        /\ \A k \in 1 .. Len(kept) : (kept \o <<log[n]>>)[k] = kept[k]
        /\ (kept \o <<log[n]>>)[Len(kept) + 1] = log[n]
    BY <1>1, <1>2, OneMore
  <2> QED
    BY <1>2, <2>1, <2>2
<1>4. cut = (IF l = capacity /\ l # 0 THEN 1 ELSE 0) /\ cut \in Int
  BY EmptySeq DEF LineTypes
<1> HIDE DEF kept, cut, P, l
<1>5. TailInView'
  <2> SUFFICES ASSUME program = "projection", capacity > 0
               PROVE  /\ Len(view') = IF P + 1 < capacity THEN P + 1 ELSE capacity
                      /\ backend # "mongodb" =>
                           \A k \in 1 .. Len(view') : view'[k] = log[P + 1 - Len(view') + k]
    BY <1>1 DEF TailInView, Processed, setup, P
  <2>1. capacity \in Nat /\ l = IF P < capacity THEN P ELSE capacity
    BY DEF LineTypes, TailInView, Processed, P, l
  <2>2. Len(view') = IF P + 1 < capacity THEN P + 1 ELSE capacity
    BY <1>1, <1>2, <1>3, <1>4, <2>1
  <2>3. ASSUME backend # "mongodb", NEW k \in 1 .. Len(view')
        PROVE  view'[k] = log[P + 1 - Len(view') + k]
    <3>1. CASE k \in 1 .. Len(kept)
      <4>1. view'[k] = view[k + cut] /\ k + cut \in 1 .. l
        BY <1>2, <1>3, <3>1
      <4>2. view[k + cut] = log[P - l + (k + cut)]
        BY <2>3, <4>1 DEF TailInView, Processed, P, l
      <4>3. P + 1 - Len(view') + k = P - l + (k + cut)
        <5>1. k \in Int
          BY <3>1
        <5> QED
          <6> DEFINE v == Len(view')
          <6>1. v = l - cut + 1 /\ l \in Int /\ cut \in Int /\ P \in Int
            BY <1>1, <1>2, <1>3, <1>4
          <6> HIDE DEF v
          <6>2. P + 1 - v + k = P - l + (k + cut)
            BY <5>1, <6>1
          <6> QED
            BY <6>2 DEF v
      <4> QED
        BY <4>1, <4>2, <4>3
    <3>2. CASE k \notin 1 .. Len(kept)
      <4>1. k = Len(kept) + 1 /\ Len(view') = Len(kept) + 1
        BY <1>2, <1>3, <1>4, <3>2
      <4>2. P + 1 - Len(view') + k = P + 1
        BY <1>1, <1>2, <4>1
      <4> QED
        BY <1>3, <2>3, <4>1, <4>2 DEF P
    <3> QED
      BY <3>1, <3>2
  <2> QED
    BY <2>2, <2>3
<1> QED
  BY <1>1, <1>3, <1>5

\* The writer adds to the log, and measures only what was pushed: when it has
\* seen as many pushes as there are events, all are among them.
LEMMA WriterMoves ==
  ASSUME LineInv, WriterStep \/ FailAppend, program = "search" => UNCHANGED searchVars
  PROVE  LineInv'
<1>1. /\ UNCHANGED <<setup, batch, view, pushed, missed>>
      /\ Seeds \in Nat /\ Live \in Nat /\ SeedBatch \in Nat /\ LineTypes
      /\ leftover \in Nat /\ expected \in Nat /\ log \in Seq(Int) /\ Len(log) \in Nat
  <2>1. UNCHANGED <<setup, batch, view, pushed, missed>>
    BY DEF WriterStep, Seed, Spawn, AppendLive, StopWaiting, FailAppend, projectorVars
  <2> QED
    BY <2>1, ProjectionAssumption, LenProperties DEF LineInv, LineTypes
<1>2. /\ log' \in Seq(Int) /\ Len(log') >= Len(log) /\ Len(log') \in Nat
      /\ \A i \in 1 .. Len(log) : log'[i] = log[i]
      /\ AppendLive => Len(log') = Len(log) + 1
  <2>1. ASSUME NEW more \in Seq(Int), log' = log \o more
        PROVE  /\ log' \in Seq(Int) /\ Len(log') >= Len(log) /\ Len(log') \in Nat
               /\ \A i \in 1 .. Len(log) : log'[i] = log[i]
               /\ Len(log') = Len(log) + Len(more)
    <3>1. /\ log' \in Seq(Int) /\ Len(more) \in Nat /\ Len(log') = Len(log) + Len(more)
          /\ \A i \in 1 .. Len(log) : log'[i] = log[i]
      BY <1>1, <2>1, Joined
    <3> QED
      BY <1>1, <3>1
  <2>2. CASE Seed
    <3> DEFINE done == Len(log) - leftover
               size == IF Seeds - done < SeedBatch THEN Seeds - done ELSE SeedBatch
               more == [i \in 1 .. size |-> SeedNumber(done + i)]
    <3>1. done < Seeds /\ done \in Int /\ log' = log \o more
      BY <1>1, <2>2 DEF Seed
    <3>2. size \in Nat /\ \A i \in 1 .. size : SeedNumber(done + i) \in Int
      BY <1>1, <3>1 DEF SeedNumber
    <3> HIDE DEF size, done
    <3>3. more \in [1 .. size -> Int]
      BY <3>2
    <3>4. more \in Seq(Int)
      BY <3>2, <3>3, FunctionIsSequence
    <3>5. ~ AppendLive
      BY <2>2 DEF Seed, AppendLive
    <3> HIDE DEF more
    <3> QED
      BY <2>1, <3>1, <3>4, <3>5
  <2>3. CASE log' = log
    <3>1. ~ AppendLive
      <4>1. log \o <<expected + 1>> # log
        BY <1>1, OneMore
      <4>2. AppendLive => log' = log \o <<expected + 1>>
        BY <1>1 DEF AppendLive
      <4> QED
        BY <2>3, <4>1, <4>2
    <3> QED
      BY <1>1, <2>3, <3>1
  <2>4. CASE log' = Append(log, expected + 1)
    <3> DEFINE more == <<expected + 1>>
    <3>1. more \in Seq(Int) /\ Len(more) = 1 /\ log' = log \o more
      BY <1>1, <2>4
    <3> HIDE DEF more
    <3> QED
      BY <2>1, <3>1
  <2> QED
    BY <2>2, <2>3, <2>4 DEF WriterStep, Spawn, AppendLive, StopWaiting, FailAppend
<1>3. InLine' /\ TailInView'
  <2>1. Line' = Line /\ backend' = backend
    BY <1>1 DEF Line, setup
  <2> QED
    BY <1>1, <1>2, <2>1, LineStays, ViewStays DEF LineInv
<1>4. LineTypes'
  <2>1. expected' \in Nat
    BY <1>1 DEF WriterStep, Seed, Spawn, AppendLive, StopWaiting, FailAppend
  <2> QED
    BY <1>1, <1>2, <2>1 DEF LineTypes, setup
<1>5. CASE Spawn
  <2>1. /\ writer = "seeding" /\ writer' = "waiting" /\ projector' = FirstStage /\ batch = <<>>
        /\ Len(log) = leftover + Seeds /\ expected' = Seeds /\ log' = log /\ measured' = measured
    BY <1>5 DEF Spawn, LineInv, Stages
  <2>2. /\ backend = "kurrentdb" => projector' = "live"
        /\ backend = "mongodb" => projector' = "replaying"
        /\ backend = "postgres" => projector' = "connecting"
    BY <2>1 DEF FirstStage
  <2>3. Stages'
    BY <1>1, <2>1, <2>2 DEF Stages, LineInv, LineTypes, setup
  <2>4. Awaited' /\ MeasuredArePushed'
    BY <1>1, <2>1 DEF Awaited, LineInv, MeasuredArePushed, setup
  <2>5. Searchable'
    <3>1. ~ Due
      <4>1. Len(batch) = 0 /\ FlushSize >= 1 /\ FlushSize \in Nat
        BY <2>1, FlushAssumption
      <4> QED
        BY <2>1, <4>1 DEF Due
    <3> QED
      BY <1>1, <3>1 DEF LineInv, Searchable, searchVars, setup
  <2> QED
    BY <1>3, <1>4, <2>3, <2>4, <2>5 DEF LineInv
<1>6. CASE ~ Spawn
  <2>1. projector' = projector
    BY <1>6 DEF WriterStep, Seed, AppendLive, StopWaiting, FailAppend, projectorVars
  <2>2. writer' = "seeding" => writer = "seeding"
    BY <1>6 DEF WriterStep, Seed, AppendLive, StopWaiting, FailAppend
  <2>3. Stages'
    BY <1>1, <2>1, <2>2 DEF LineInv, Stages, setup
  <2>4. Searchable'
    BY <1>1, <2>1 DEF LineInv, Searchable, searchVars, setup, Due, Buffered
  <2>5. Awaited'
    <3>1. CASE AppendLive
      <4>1. Len(log) = leftover + expected
        BY <3>1 DEF AppendLive, LineInv, Awaited
      <4>2. expected' = expected + 1 /\ leftover' = leftover /\ Len(log') = Len(log) + 1
        BY <1>1, <1>2, <3>1 DEF AppendLive, setup
      <4>3. Len(log') = leftover' + expected'
        BY <1>1, <4>1, <4>2
      <4> QED
        BY <4>3 DEF Awaited
    <3>2. CASE ~ AppendLive
      BY <1>1, <1>6, <3>2 DEF WriterStep, Seed, StopWaiting, FailAppend, LineInv, Awaited, setup
    <3> QED
      BY <3>1, <3>2
  <2>6. MeasuredArePushed'
    <3>1. CASE StopWaiting
      <4> SUFFICES ASSUME leftover = 0, expected > Seeds PROVE Len(log) \in ToSet(pushed)
        BY <1>1, <3>1 DEF StopWaiting, LineInv, MeasuredArePushed, setup
      <4>1. Len(log) = expected /\ Len(pushed) >= expected
        BY <1>1, <3>1 DEF StopWaiting, Reached, Processed, LineInv, Awaited
      <4>2. Len(log) \in 1 .. Len(log)
        BY <1>1, <4>1
      <4>3. pushed \in Seq(Int) /\ ToSet(pushed) = {pushed[i] : i \in 1 .. Len(pushed)}
        BY LineIs DEF LineInv, LineTypes
      <4>4. \A v \in 1 .. Len(log) : \E i \in 1 .. Len(pushed) : pushed[i] = v
        BY <1>1, <4>1, <4>3, PushedInLine, AllOfThem DEF LineInv
      <4> QED
        BY <4>2, <4>3, <4>4
    <3>2. CASE ~ StopWaiting
      BY <1>1, <1>6, <3>2
      DEF WriterStep, Seed, AppendLive, FailAppend, LineInv, MeasuredArePushed, setup
    <3> QED
      BY <3>1, <3>2
  <2> QED
    BY <1>3, <1>4, <2>3, <2>4, <2>5, <2>6 DEF LineInv
<1> QED
  BY <1>5, <1>6

\* What was pushed, and then a batch.
LEMMA PushedAnd ==
  ASSUME NEW b \in Seq(Int), pushed \in Seq(Int)
  PROVE  /\ Len(pushed \o b) = Len(pushed) + Len(b)
         /\ \A i \in 1 .. Len(pushed) : (pushed \o b)[i] = pushed[i]
         /\ \A i \in 1 .. Len(pushed \o b) :
              \/ i \in 1 .. Len(pushed)
              \/ i - Len(pushed) \in 1 .. Len(b) /\ (pushed \o b)[i] = b[i - Len(pushed)]
<1>1. PICK p : p = pushed
  OBVIOUS
<1>2. p \in Seq(Int)
  BY <1>1
<1>3. /\ Len(p \o b) = Len(p) + Len(b)
      /\ \A i \in 1 .. Len(p) : (p \o b)[i] = p[i]
      /\ \A i \in 1 .. Len(p \o b) :
           i \in 1 .. Len(p) \/ (i - Len(p) \in 1 .. Len(b) /\ (p \o b)[i] = b[i - Len(p)])
  BY <1>2, Joined
<1> QED
  BY <1>1, <1>3

\* A poll takes the rows past the last one pushed, in order.
LEMMA PollTakes ==
  ASSUME LineInv, Poll, program = "search" => UNCHANGED searchVars
  PROVE  LineInv'
<1> DEFINE P == Len(pushed)
           r == Len(log) - P
           taken == [i \in 1 .. Len(log) + 1 - FirstOfPoll |-> FirstOfPoll + i - 1]
           m == IF Len(taken) < PollLimit THEN Len(taken) ELSE PollLimit
<1>1. /\ projector = "polling" /\ projector' = "pushing" /\ backend = "postgres" /\ batch = <<>>
      /\ taken # <<>> /\ batch' = SubSeq(taken, 1, m)
      /\ UNCHANGED <<setup, writerVars, view, pushed, missed>>
  BY DEF Poll, LineInv, Stages, LineTypes
<1>2. /\ P \in Nat /\ P <= Len(log) /\ Len(log) \in Nat /\ r \in Nat /\ pushed \in Seq(Int)
      /\ \A i \in 1 .. P : pushed[i] = i
      /\ missed = {}
  <2>1. LineTypes /\ InLine /\ backend # "mongodb" /\ pushed \in Seq(Int)
    BY <1>1 DEF LineInv, LineTypes
  <2>2. P \in Nat /\ P <= Len(log) /\ Len(log) \in Nat
    BY <2>1, LineIs, LineWithinLog
  <2>3. \A i \in 1 .. P : pushed[i] = i
    BY <2>1, PushedInLine
  <2> QED
    BY <2>1, <2>2, <2>3 DEF InLine
<1>3. FirstOfPoll = P + 1
  <2>1. CASE pushed = <<>>
    BY <2>1 DEF FirstOfPoll
  <2>2. CASE pushed # <<>>
    <3>1. P \in 1 .. P
      BY <1>2, <2>2, EmptySeq
    <3> QED
      BY <1>2, <2>2, <3>1 DEF FirstOfPoll, Last
  <2> QED
    BY <2>1, <2>2
<1>4. taken = [i \in 1 .. r |-> P + i]
  <2> DEFINE l == Len(log)
  <2>1. l \in Nat /\ l + 1 - (P + 1) = l - P /\ \A i \in Int : P + 1 + i - 1 = P + i
    BY <1>2
  <2> QED
    BY <1>3, <2>1
<1> HIDE DEF taken
<1>5. taken \in Seq(Int) /\ Len(taken) = r /\ r # 0 /\ \A i \in 1 .. r : taken[i] = P + i
  <2>1. taken \in [1 .. r -> Int]
    BY <1>2, <1>4
  <2>2. taken \in Seq(Int) /\ Len(taken) = r
    BY <1>2, <2>1, FunctionIsSequence
  <2>3. r # 0
    BY <1>1, <2>2, EmptySeq
  <2> QED
    BY <1>4, <2>2, <2>3
<1>6. m \in Nat /\ m >= 1 /\ m <= r
  BY <1>2, <1>5, ProjectionAssumption
<1> HIDE DEF m
<1>7. batch' \in Seq(Int) /\ Len(batch') = m /\ \A i \in 1 .. m : batch'[i] = P + i
  <2>1. \A i \in 1 .. m : taken[i] \in Int /\ taken[i] = P + i
    BY <1>2, <1>5, <1>6
  <2>2. /\ SubSeq(taken, 1, m) \in Seq(Int)
        /\ Len(SubSeq(taken, 1, m)) = IF 1 <= m THEN m - 1 + 1 ELSE 0
        /\ \A i \in 1 .. m - 1 + 1 : SubSeq(taken, 1, m)[i] = taken[1 + i - 1]
    BY <1>6, <2>1, SubSeqProperties
  <2>3. m - 1 + 1 = m /\ \A i \in 1 .. m : 1 + i - 1 = i
    BY <1>6
  <2> QED
    BY <1>1, <1>6, <2>1, <2>2, <2>3
<1>8. LineTypes' /\ Stages' /\ Awaited'
  <2>1. batch' # <<>>
    BY <1>6, <1>7
  <2>2. LineTypes' /\ Awaited'
    BY <1>1, <1>7 DEF LineInv, LineTypes, Awaited, setup, writerVars
  <2> QED
    BY <1>1, <2>1, <2>2 DEF LineInv, Stages, setup, writerVars
<1>9. InLine'
  <2>1. /\ Len(Line') = P + m
        /\ \A i \in 1 .. Len(Line') :
             i \in 1 .. P \/ (i - P \in 1 .. m /\ Line'[i] = batch'[i - P])
        /\ \A i \in 1 .. P : Line'[i] = pushed[i]
    <3>1. Line' = pushed \o batch'
      BY <1>1 DEF Line
    <3>2. \A b \in Seq(Int) : Len(b) = m =>
            /\ Len(pushed \o b) = P + m
            /\ \A i \in 1 .. Len(pushed \o b) :
                 i \in 1 .. P \/ (i - P \in 1 .. m /\ (pushed \o b)[i] = b[i - P])
            /\ \A i \in 1 .. P : (pushed \o b)[i] = pushed[i]
      BY <1>2, PushedAnd
    <3> QED
      BY <1>7, <3>1, <3>2
  <2>2. \A i \in 1 .. Len(Line') : Line'[i] = i
    <3> TAKE i \in 1 .. Len(Line')
    <3>1. CASE i \in 1 .. P
      BY <1>2, <2>1, <3>1
    <3>2. CASE i - P \in 1 .. m /\ Line'[i] = batch'[i - P]
      <4>1. i \in Int /\ P + (i - P) = i
        BY <1>2
      <4> QED
        BY <1>7, <3>2, <4>1
    <3> QED
      BY <2>1, <3>1, <3>2
  <2>3. P + m <= Len(log) /\ P + m \in Nat
    BY <1>2, <1>6
  <2>4. \A i \in 1 .. Len(Line') : Line'[i] \in 1 .. Len(log)
    BY <1>2, <2>1, <2>2, <2>3
  <2> QED
    BY <1>1, <1>2, <2>2, <2>4 DEF InLine, writerVars
<1>10. TailInView' /\ MeasuredArePushed'
  BY <1>1 DEF LineInv, TailInView, MeasuredArePushed, Processed, setup, writerVars
<1>11. Searchable'
  <2>1. ~ Due
    BY <1>1 DEF Due
  <2> QED
    BY <1>1, <2>1 DEF LineInv, Searchable, searchVars, setup
<1> QED
  BY <1>8, <1>9, <1>10, <1>11 DEF LineInv

\* The projector changes its stage and leaves the line alone.
LEMMA StageChanges ==
  ASSUME LineInv, PollNothing \/ Connect \/ Wake \/ Die, program = "search" => UNCHANGED searchVars
  PROVE  LineInv'
<1>1. UNCHANGED <<setup, writerVars, batch, view, pushed, missed>>
  BY DEF PollNothing, Connect, Wake, Die
<1>2. LineTypes' /\ Awaited' /\ TailInView' /\ MeasuredArePushed' /\ InLine'
  BY <1>1 DEF LineInv, LineTypes, Awaited, TailInView, MeasuredArePushed, InLine, Line, Processed,
              setup, writerVars
<1>3. Stages'
  BY <1>1 DEF LineInv, LineTypes, Stages, PollNothing, Connect, Wake, Die, setup, writerVars
<1>4. Searchable'
  <2> SUFFICES ASSUME program = "search", inserted PROVE Due'
    BY <1>1 DEF LineInv, Searchable, searchVars, setup, Buffered
  <2>1. Due
    BY DEF LineInv, Searchable
  <2>2. batch # <<>>
    <3>1. Len(<<>>) = 0 /\ FlushSize \in Nat \ {0}
      BY FlushAssumption
    <3> QED
      BY <2>1, <3>1 DEF Due
  <2>3. backend = "kurrentdb" => Len(batch) >= FlushSize
    BY <2>1 DEF Due
  <2>4. projector' # "replaying"
    BY DEF PollNothing, Connect, Wake, Die
  <2> QED
    BY <1>1, <2>2, <2>3, <2>4 DEF Due, setup
<1> QED
  BY <1>2, <1>3, <1>4 DEF LineInv

\* A cursor and a subscription push a place that is new; a poll's rows are
\* pushed from the front.
LEMMA ProjectorMoves ==
  ASSUME LineInv, program = "projection", Replay \/ EndReplay \/ Watch \/ Receive \/ PushRow
  PROVE  LineInv'
<1>1. LineTypes /\ InLine /\ TailInView /\ UNCHANGED <<setup, writerVars>> /\ log' = log /\ backend' = backend
  BY DEF LineInv, Replay, EndReplay, Watch, Receive, PushRow, setup, writerVars
<1>2. ~ (program' = "search")
  BY <1>1 DEF setup
<1>3. ASSUME NEW n \in 1 .. Len(log), Push(n), Line' = Line \/ Line' = Line \o <<n>>,
             missed' = missed, InLine', batch' \in Seq(Int), Stages',
             backend # "mongodb" => n = Len(pushed) + 1
      PROVE  LineInv'
  <2>1. view' \in Seq(Int) /\ pushed' = pushed \o <<n>> /\ pushed' \in Seq(Int) /\ TailInView'
    BY <1>1, <1>3, ViewIsPushed
  <2>2. LineTypes' /\ Awaited' /\ Searchable'
    BY <1>1, <1>2, <1>3, <2>1 DEF LineInv, LineTypes, Awaited, Searchable, setup, writerVars
  <2>3. ToSet(pushed) \subseteq ToSet(pushed')
    <3>1. pushed \in Seq(Int) /\ n \in Int
      BY <1>1 DEF LineTypes
    <3>2. /\ Len(pushed) \in Nat /\ Len(pushed') = Len(pushed) + 1
          /\ \A k \in 1 .. Len(pushed) : pushed'[k] = pushed[k]
      BY <2>1, <3>1, OneMore
    <3>3. DOMAIN pushed = 1 .. Len(pushed) /\ DOMAIN pushed' = 1 .. Len(pushed')
      BY <2>1, <3>1, LenProperties
    <3> QED
      BY <3>2, <3>3 DEF ToSet
  <2>4. MeasuredArePushed'
    BY <1>1, <2>3 DEF LineInv, MeasuredArePushed, setup, writerVars
  <2> QED
    BY <1>3, <2>1, <2>2, <2>4 DEF LineInv
<1>4. ASSUME NEW n \in Unpushed, Push(n), batch = <<>>, batch' = batch, missed' = missed, Stages',
             backend # "mongodb" => n = Min(Unpushed)
      PROVE  LineInv'
  <2>1. Buffered = {} /\ Unpushed \ Buffered = Unpushed
    BY <1>4 DEF Buffered, ToSet
  <2>2. /\ n \in 1 .. Len(log) /\ n \notin ToSet(pushed) \cup ToSet(batch)
        /\ backend # "mongodb" => n = Len(Line) + 1
    BY <1>1, <1>4, <2>1, NextPlace
  <2>3. /\ pushed \in Seq(Int) /\ n \in Int /\ Line = pushed
        /\ pushed' = pushed \o <<n>> /\ Line' = pushed \o <<n>>
    <3>1. pushed \in Seq(Int) /\ n \in Int
      BY <1>1, <2>2 DEF LineTypes
    <3>2. pushed \o <<n>> \in Seq(Int) /\ pushed' = pushed \o <<n>>
      BY <1>4, <3>1, OneMore, AppendIsConcat DEF Push
    <3> QED
      BY <1>4, <3>1, <3>2, ConcatEmptySeq DEF Line
  <2>4. InLine'
    BY <1>1, <1>4, <2>2, <2>3, LineGoesOn
  <2>5. batch' \in Seq(Int)
    BY <1>1, <1>4 DEF LineTypes
  <2> QED
    BY <1>3, <1>4, <2>2, <2>3, <2>4, <2>5
<1>5. CASE Replay \/ Receive
  <2>1. /\ projector' = projector /\ batch' = batch /\ missed' = missed /\ batch = <<>>
        /\ Replay => backend = "mongodb"
    BY <1>5 DEF Replay, Receive, LineInv, Stages, LineTypes
  <2>2. Stages'
    BY <1>1, <2>1 DEF LineInv, Stages, setup, writerVars
  <2>3. CASE Replay
    BY <1>4, <2>1, <2>2, <2>3 DEF Replay
  <2>4. CASE Receive
    <3>1. Unpushed \ Buffered = Unpushed
      BY <2>1 DEF Buffered, ToSet
    <3>2. Min(Unpushed) \in Unpushed
      BY <1>1, <2>4, <3>1, NextPlace DEF Receive
    <3> QED
      BY <1>4, <2>1, <2>2, <2>4, <3>2 DEF Receive
  <2> QED
    BY <1>5, <2>3, <2>4
<1>6. CASE EndReplay \/ Watch
  <2>1. /\ UNCHANGED <<batch, view, pushed>> /\ backend = "mongodb"
        /\ (projector' = "opening" \/ projector' = "live")
    BY <1>6 DEF EndReplay, Watch, LineInv, Stages, LineTypes
  <2>2. batch = <<>>
    BY <1>6 DEF EndReplay, Watch, LineInv, Stages
  <2>3. LineTypes' /\ Awaited' /\ TailInView' /\ MeasuredArePushed' /\ InLine' /\ Searchable'
    BY <1>1, <1>2, <2>1
    DEF LineInv, LineTypes, Awaited, TailInView, MeasuredArePushed, InLine, Line, Processed,
        Searchable, setup, writerVars
  <2>4. Stages'
    BY <1>1, <1>6, <2>1, <2>2 DEF LineInv, Stages, EndReplay, Watch, setup, writerVars
  <2> QED
    BY <2>3, <2>4 DEF LineInv
<1>7. CASE PushRow
  <2> DEFINE n == Head(batch)
  <2>1. /\ projector = "pushing" /\ batch # <<>> /\ Push(n) /\ batch' = Tail(batch) /\ missed' = missed
        /\ projector' = IF Len(batch) = 1 THEN "polling" ELSE "pushing"
        /\ backend = "postgres" /\ pushed \in Seq(Int) /\ batch \in Seq(Int)
    BY <1>7 DEF PushRow, LineInv, Stages, LineTypes
  <2>2. /\ n = batch[1] /\ n \in Int /\ 1 \in 1 .. Len(batch)
        /\ Tail(batch) \in Seq(Int) /\ Len(Tail(batch)) = Len(batch) - 1
    BY <2>1, OneLess
  <2>3. /\ Len(pushed) + 1 \in 1 .. Len(Line) /\ Line[Len(pushed) + 1] = n
    BY <1>1, <2>2, LineIs
  <2>4. n \in 1 .. Len(log) /\ n = Len(pushed) + 1
    BY <1>1, <2>1, <2>3 DEF InLine
  <2>5. Line' = Line
    <3>0. pushed' = Append(pushed, n)
      BY <2>1 DEF Push
    <3> HIDE DEF n
    <3>1. pushed' = pushed \o <<n>> /\ <<n>> \in Seq(Int)
      BY <2>1, <2>2, <3>0, AppendIsConcat
    <3>2. (pushed \o <<n>>) \o Tail(batch) = pushed \o (<<n>> \o Tail(batch))
      BY <2>1, <2>2, <3>1, ConcatAssociative
    <3>3. <<n>> \o Tail(batch) = batch
      BY <2>1, HeadThenTail DEF n
    <3> QED
      BY <2>1, <3>1, <3>2, <3>3 DEF Line
  <2>6. InLine'
    BY <1>1, <2>1, <2>5, LineStays DEF LineTypes
  <2>7. Stages'
    <3>2. \/ projector' = "polling" /\ batch' = <<>>
          \/ projector' = "pushing" /\ batch' # <<>>
      <4>0. Len(batch) \in Nat
        BY <2>1, LenProperties
      <4>1. CASE Len(batch) = 1
        <5>1. Len(Tail(batch)) = 0
          BY <2>2, <4>0, <4>1
        <5>2. batch' = <<>>
          BY <2>1, <2>2, <5>1, EmptySeq
        <5>3. projector' = "polling"
          BY <2>1, <4>1
        <5> QED
          BY Zenon, <5>2, <5>3
      <4>2. CASE Len(batch) # 1
        <5>1. Len(Tail(batch)) # 0
          BY <2>2, <4>0, <4>2
        <5>2. batch' # <<>>
          BY <2>1, <5>1, EmptySeq
        <5>3. projector' = "pushing"
          BY <2>1, <4>2
        <5> QED
          BY Zenon, <5>2, <5>3
      <4> QED
        BY <4>1, <4>2
    <3>3. writer # "seeding"
      BY <2>1 DEF LineInv, Stages
    <3> QED
      BY <1>1, <2>1, <3>2, <3>3 DEF Stages, setup, writerVars
  <2> QED
    BY <1>3, <2>1, <2>2, <2>4, <2>5, <2>6, <2>7
<1> QED
  BY <1>5, <1>6, <1>7

\* The indexer takes a place into its buffer, writes the buffer to the table,
\* or has the INSERT refused, and then counts what it holds: what is counted
\* has been to the table.
LEMMA IndexerMoves ==
  ASSUME LineInv, program = "search",
         \/ ReceiveEvent \/ ReadCursor \/ ExhaustCursor \/ OpenChangeStream
         \/ IndexBatch \/ CountBatch
  PROVE  LineInv'
<1>1. /\ LineTypes /\ InLine /\ UNCHANGED <<setup, writerVars, view>>
      /\ log' = log /\ backend' = backend /\ program' = program
  BY DEF LineInv, ReceiveEvent, ReadCursor, ExhaustCursor, OpenChangeStream, IndexBatch, CountBatch,
         Collect, projectorVars, setup, writerVars
<1>2. /\ Awaited' /\ TailInView'
      /\ ToSet(pushed) \subseteq ToSet(pushed') => MeasuredArePushed'
  BY <1>1 DEF LineInv, Awaited, TailInView, MeasuredArePushed, setup, writerVars
<1>3. inserted => Due /\ batch # <<>>
  <2>1. Len(<<>>) = 0 /\ FlushSize \in Nat \ {0}
    BY FlushAssumption
  <2>2. batch = <<>> => ~ Due
    BY <2>1 DEF Due
  <2> QED
    BY <2>2 DEF LineInv, Searchable
<1>4. ASSUME NEW n \in Unpushed \ Buffered, Collect(n), projector \in {"live", "replaying"},
             projector = "live" => n = Min(Unpushed \ Buffered)
      PROVE  LineInv'
  <2>1. /\ ~ Due /\ batch' = Append(batch, n)
        /\ UNCHANGED <<projector, pushed, missed, indexed, refused, inserted>>
    BY <1>4 DEF Collect, searchVars
  <2>2. backend # "mongodb" => projector = "live"
    BY <1>1, <1>4 DEF LineInv, Stages, LineTypes
  <2>3. /\ n \in 1 .. Len(log) /\ n \notin ToSet(pushed) \cup ToSet(batch)
        /\ backend # "mongodb" => n = Len(Line) + 1
    BY <1>1, <1>4, <2>2, NextPlace
  <2>4. /\ pushed \in Seq(Int) /\ batch \in Seq(Int) /\ n \in Int /\ <<n>> \in Seq(Int)
        /\ batch' = batch \o <<n>> /\ batch' \in Seq(Int) /\ batch' # <<>>
    <3>1. batch \in Seq(Int) /\ n \in Int /\ pushed \in Seq(Int) /\ <<n>> \in Seq(Int)
      BY <1>1, <2>3 DEF LineTypes
    <3>2. batch' = batch \o <<n>> /\ batch' \in Seq(Int) /\ batch' # <<>>
      BY <2>1, <3>1, AppendProperties, AppendIsConcat
    <3> QED
      BY <3>1, <3>2
  <2>5. Line' = Line \o <<n>>
    BY <2>1, <2>4, ConcatAssociative DEF Line
  <2>6. InLine'
    BY <1>1, <2>1, <2>3, <2>5, LineGoesOn
  <2>7. LineTypes' /\ Stages' /\ MeasuredArePushed'
    BY <1>1, <1>2, <1>4, <2>1, <2>4 DEF LineInv, LineTypes, Stages, setup, writerVars
  <2>8. Searchable'
    <3>1. ~ inserted
      BY <1>3, <2>1
    <3> QED
      BY <1>1, <2>1, <3>1 DEF LineInv, Searchable
  <2> QED
    BY <1>2, <2>6, <2>7, <2>8 DEF LineInv
<1>5. CASE ReceiveEvent
  BY <1>1, <1>4, <1>5, NextPlace DEF ReceiveEvent
<1>6. CASE ReadCursor
  BY <1>4, <1>6 DEF ReadCursor
<1>7. CASE ExhaustCursor \/ OpenChangeStream
  <2>1. /\ UNCHANGED <<batch, pushed, indexed, refused, inserted>> /\ ~ inserted
        /\ backend = "mongodb" /\ (projector' = "opening" \/ projector' = "live")
        /\ projector # "unborn"
    BY <1>1, <1>3, <1>7 DEF ExhaustCursor, OpenChangeStream, LineInv, Stages, LineTypes, searchVars
  <2>2. LineTypes' /\ MeasuredArePushed' /\ Searchable'
    BY <1>1, <1>2, <2>1 DEF LineInv, LineTypes, Searchable, setup, writerVars
  <2>3. InLine'
    BY <1>1, <2>1 DEF InLine, Line
  <2>4. Stages'
    BY <1>1, <2>1 DEF LineInv, Stages, setup, writerVars
  <2> QED
    BY <1>2, <2>2, <2>3, <2>4 DEF LineInv
<1>8. CASE IndexBatch
  <2>1. /\ UNCHANGED projectorVars /\ Due /\ Due' /\ Buffered' = Buffered
        /\ indexed' \cup refused' = indexed \cup refused \cup Buffered
    <3>1. UNCHANGED <<projector, batch>>
      BY <1>8 DEF IndexBatch, projectorVars
    <3> QED
      BY <1>1, <1>8, <3>1 DEF IndexBatch, Due, Buffered
  <2>2. LineTypes' /\ MeasuredArePushed' /\ InLine' /\ Stages'
    BY <1>1, <1>2, <2>1
    DEF LineInv, LineTypes, InLine, Line, Stages, setup, writerVars, projectorVars
  <2>3. Searchable'
    BY <1>1, <2>1 DEF LineInv, Searchable, projectorVars
  <2> QED
    BY <1>2, <2>2, <2>3 DEF LineInv
<1>9. CASE CountBatch
  <2>1. /\ pushed' = pushed \o batch /\ batch' = <<>> /\ missed' = missed /\ inserted /\ ~ inserted'
        /\ projector # "dead" /\ projector' = IF projector = "pushing" THEN "polling" ELSE projector
        /\ UNCHANGED <<indexed, refused>>
    BY <1>9 DEF CountBatch, Countable
  <2>2. pushed' = Line /\ Line \in Seq(Int) /\ Line' = Line /\ batch' \in Seq(Int)
    <3>1. Line \in Seq(Int) /\ <<>> \in Seq(Int)
      BY <1>1, LineIs
    <3>2. Line \o <<>> = Line
      BY <3>1, ConcatEmptySeq
    <3> QED
      BY <2>1, <3>1, <3>2 DEF Line
  <2>3. ToSet(pushed') = ToSet(pushed) \cup Buffered
    <3>1. ToSet(pushed) \cup Buffered = {Line[i] : i \in 1 .. Len(Line)}
      BY <1>1, LineIs DEF Buffered
    <3>2. ToSet(Line) = {Line[i] : i \in 1 .. Len(Line)}
      BY <2>2, LenProperties DEF ToSet
    <3> QED
      BY <2>2, <3>1, <3>2
  <2>4. InLine'
    BY <1>1, <2>1, <2>2, LineStays DEF LineTypes
  <2>5. LineTypes' /\ MeasuredArePushed'
    BY <1>1, <1>2, <2>2, <2>3 DEF LineTypes, setup, writerVars
  <2>6. Stages'
    <3>1. batch # <<>>
      BY <1>3, <2>1
    <3> QED
      BY <1>1, <2>1, <3>1 DEF LineInv, LineTypes, Stages, setup, writerVars
  <2>7. Searchable'
    BY <1>1, <2>1, <2>3 DEF LineInv, Searchable
  <2> QED
    BY <1>2, <2>4, <2>5, <2>6, <2>7 DEF LineInv
<1> QED
  BY <1>5, <1>6, <1>7, <1>8, <1>9

\* The invariant of the projection and search benchmarks holds throughout.
LEMMA LineHolds == RunSpec => []LineInv
<1>1. RunInit => LineInv
  <2> SUFFICES ASSUME RunInit PROVE LineInv
    OBVIOUS
  <2>1. /\ backend \in {"kurrentdb", "mongodb", "postgres"} /\ capacity \in Capacities
        /\ leftover \in 0 .. MaxLeftover /\ log = [n \in 1 .. leftover |-> n]
        /\ writer = "seeding" /\ expected = 0 /\ projector = "unborn"
        /\ batch = <<>> /\ view = <<>> /\ pushed = <<>> /\ missed = {} /\ measured = {}
        /\ inserted = FALSE
    <3>1. 0 \in 0 .. MaxLeftover
      BY ProjectionAssumption
    <3> QED
      BY <3>1 DEF RunInit, SearchInit, Init
  <2>2. capacity \in Nat /\ leftover \in Nat
    <3>1. (\A c \in Capacities : c \in Nat) /\ \A n \in 0 .. MaxLeftover : n \in Nat
      BY ProjectionAssumption
    <3> QED
      BY <2>1, <3>1
  <2>3. log \in Seq(Int)
    <3>1. log \in [1 .. leftover -> Int]
      BY <2>1, <2>2
    <3> QED
      BY <2>2, <3>1, FunctionIsSequence
  <2>4. <<>> \in Seq(Int) /\ Len(<<>>) = 0 /\ ToSet(<<>>) = {}
    BY DEF ToSet
  <2>5. LineTypes
    BY <2>1, <2>2, <2>3, <2>4 DEF LineTypes
  <2>6. Line = <<>>
    BY <2>1, <2>4, ConcatEmptySeq DEF Line
  <2>7. InLine
    BY <2>1, <2>4, <2>6 DEF InLine
  <2>8. Stages /\ Awaited /\ MeasuredArePushed /\ Searchable
    BY <2>1, <2>4 DEF Stages, Awaited, MeasuredArePushed, Searchable
  <2>9. TailInView
    BY <2>1, <2>2, <2>4 DEF TailInView, Processed
  <2> QED
    BY <2>5, <2>7, <2>8, <2>9 DEF LineInv
<1>2. LineInv /\ [RunNext]_runVars => LineInv'
  <2> SUFFICES ASSUME LineInv, [RunNext]_runVars PROVE LineInv'
    OBVIOUS
  <2>1. CASE program = "projection" /\ Next
    <3>1. program # "search"
      BY <2>1
    <3> QED
      BY <2>1, <3>1, WriterMoves, PollTakes, StageChanges, ProjectorMoves
      DEF Next, Writing, Projecting, Polling, ProjectorStep
  <2>2. CASE program = "search" /\ SearchNext
    <3>1. CASE SearchWriter \/ FailToAppend
      BY <2>2, <3>1, WriterMoves
      DEF SearchWriter, SeedForSearch, SpawnIndexer, AppendSearchable, StopWaitingForIndex, FailToAppend,
          WriterStep
    <3>2. CASE PollForIndexing
      BY <2>2, <3>2, PollTakes DEF PollForIndexing
    <3>3. CASE PollNothingToIndex \/ ConnectIndexer \/ WakeIndexer \/ IndexerDies
      BY <2>2, <3>3, StageChanges DEF PollNothingToIndex, ConnectIndexer, WakeIndexer, IndexerDies
    <3>4. CASE ReceiveEvent \/ ReadCursor \/ ExhaustCursor \/ OpenChangeStream \/ IndexBatch \/ CountBatch
      BY <2>2, <3>4, IndexerMoves
    <3> QED
      BY <2>2, <3>1, <3>2, <3>3, <3>4
      DEF SearchNext, WritingSearchable, Indexing, PollingForIndexing, Indexer
  <2>3. CASE UNCHANGED searchBenchVars
    BY <2>3, ZenonT(60)
    DEF searchBenchVars, vars, searchVars, LineInv, LineTypes, Stages, Awaited, InLine, Line, TailInView,
        Processed, MeasuredArePushed, Searchable, Due, Buffered
  <2> QED
    BY <2>1, <2>2, <2>3, StepsOfCommands
<1> QED
  BY <1>1, <1>2, PTL DEF RunSpec

\* The view is the tail of what has been processed, and without a cursor the
\* tail of a prefix of the log, for any number of events and any size of the
\* view (Projection: ViewIsATail).
THEOREM ViewsAreTails == RunSpec => []ViewIsATail
<1>1. LineInv => ViewIsATail
  <2> SUFFICES ASSUME LineInv, program = "projection", capacity > 0
               PROVE  /\ Len(view) = IF Processed < capacity THEN Processed ELSE capacity
                      /\ backend # "mongodb" =>
                           view = SubSeq(log, Processed - Len(view) + 1, Processed)
    BY DEF ViewIsATail
  <2>1. Len(view) = IF Processed < capacity THEN Processed ELSE capacity
    BY DEF LineInv, TailInView
  <2>2. ASSUME backend # "mongodb" PROVE view = SubSeq(log, Processed - Len(view) + 1, Processed)
    <3> DEFINE P == Processed
               l == Len(view)
               first == P - l + 1
    <3>1. /\ P \in Nat /\ l \in Nat /\ l <= P /\ P <= Len(log) /\ Len(log) \in Nat
          /\ view \in Seq(Int) /\ log \in Seq(Int)
      <4>1. P \in Nat /\ P <= Len(log) /\ Len(log) \in Nat
        BY <2>2, LineIs, LineWithinLog DEF LineInv, Processed
      <4> QED
        BY <2>1, <4>1, LenProperties DEF LineInv, LineTypes
    <3>2. \A k \in 1 .. l : view[k] = log[P - l + k]
      BY <2>2 DEF LineInv, TailInView
    <3> HIDE DEF P, l
    <3>3. first \in Int /\ \A i \in first .. P : log[i] \in Int
      <4>1. first \in Int /\ \A i \in first .. P : i \in 1 .. Len(log)
        BY <3>1
      <4> QED
        BY <3>1, <4>1, ElementOfSeq
    <3>4. /\ SubSeq(log, first, P) \in Seq(Int)
          /\ Len(SubSeq(log, first, P)) = IF first <= P THEN P - first + 1 ELSE 0
          /\ \A i \in 1 .. P - first + 1 : SubSeq(log, first, P)[i] = log[first + i - 1]
      <4> HIDE DEF first
      <4> QED
        BY <3>1, <3>3, SubSeqProperties
    <3>5. Len(SubSeq(log, first, P)) = l /\ P - first + 1 = l
      BY <3>1, <3>4
    <3>6. \A i \in 1 .. l : SubSeq(log, first, P)[i] = view[i]
      <4> TAKE i \in 1 .. l
      <4>1. first + i - 1 = P - l + i
        BY <3>1
      <4> QED
        BY <3>2, <3>4, <3>5, <4>1
    <3> HIDE DEF first
    <3>7. view = SubSeq(log, first, P)
      BY <3>1, <3>4, <3>5, <3>6, SeqEqual DEF l
    <3> QED
      BY <3>7 DEF first, P, l
  <2> QED
    BY <2>1, <2>2
<1> QED
  BY <1>1, LineHolds, PTL

\* A measured event has been projected, or has been to the search index, for
\* any number of events and any size of the batches (SearchIndex:
\* MeasuredIsProcessed).
THEOREM MeasuredAreProcessed == RunSpec => []MeasuredIsProcessed
<1>1. LineInv => MeasuredIsProcessed
  BY DEF LineInv, MeasuredArePushed, Searchable, MeasuredIsProcessed, MeasuredIsProjected
<1> QED
  BY <1>1, LineHolds, PTL
-----------------------------------------------------------------------------
(* The caches of recent events.  What the program holds is the tail of the *)
(* stream, or the tail from before the event it has just written; what is  *)
(* in Memcached is the tail it held last.                                  *)

Current == TailOf(stream, cache.size)
Preceding == TailOf(SubSeq(stream, 1, Len(stream) - 1), cache.size)

Published(tail) == cache.memcached /\ shared # Absent => shared = tail

CacheInv ==
  /\ cache.size \in Nat \ {0} /\ stream \in Seq(Int) /\ ring \in Seq(Int)
  /\ at \in {"starting", "seeding", "loaded", "ready", "written", "pushed",
             "done", "stopped", "aborted"}
  /\ at \in {"loaded", "ready", "pushed", "done"} => ring = Current
  /\ at = "written" => stream # <<>> /\ ring = Preceding
  /\ at \in {"ready", "done"} => Published(Current)
  /\ at \in {"written", "pushed"} => Published(Preceding)
  /\ at = "stopped" => /\ ring = Current \/ ring = Preceding
                       /\ Published(Current) \/ Published(Preceding)

\* The tail of a sequence, element by element.
LEMMA TailIs ==
  ASSUME NEW q \in Seq(Int), NEW size \in Nat \ {0}
  PROVE  /\ TailOf(q, size) \in Seq(Int) /\ Len(q) \in Nat
         /\ Len(TailOf(q, size)) = IF Len(q) > size THEN size ELSE Len(q)
         /\ \A k \in 1 .. Len(TailOf(q, size)) :
              TailOf(q, size)[k] = q[Len(q) - Len(TailOf(q, size)) + k]
<1> DEFINE l == Len(q)
           m == IF l > size THEN l - size + 1 ELSE 1
           t == SubSeq(q, m, l)
<1>1. l \in Nat
  BY LenProperties
<1>2. m \in Int /\ m >= 1 /\ l - m + 1 = (IF l > size THEN size ELSE l)
  BY <1>1
<1> HIDE DEF m, l
<1>3. \A i \in m .. l : q[i] \in Int
  <2>1. \A i \in m .. l : i \in 1 .. l
    BY <1>1, <1>2
  <2> QED
    BY <2>1, ElementOfSeq DEF l
<1>4. /\ t \in Seq(Int) /\ Len(t) = (IF m <= l THEN l - m + 1 ELSE 0)
      /\ \A i \in 1 .. l - m + 1 : t[i] = q[m + i - 1]
  BY <1>1, <1>2, <1>3, SubSeqProperties
<1> HIDE DEF t
<1>5. Len(t) = l - m + 1
  BY <1>1, <1>2, <1>4
<1>6. \A k \in 1 .. Len(t) : t[k] = q[l - Len(t) + k]
  <2> TAKE k \in 1 .. Len(t)
  <2>1. m + k - 1 = l - Len(t) + k /\ k \in 1 .. l - m + 1
    BY <1>1, <1>2, <1>5
  <2> QED
    BY <1>4, <2>1
<1> QED
  BY <1>1, <1>2, <1>4, <1>5, <1>6 DEF t, m, l, TailOf

\* The same where the length is known in other words.
LEMMA TailOfLonger ==
  ASSUME NEW r \in Seq(Int), NEW size \in Nat \ {0}, NEW l \in Nat, Len(r) = l + 1
  PROVE  /\ TailOf(r, size) \in Seq(Int)
         /\ Len(TailOf(r, size)) = IF l + 1 > size THEN size ELSE l + 1
         /\ \A k \in 1 .. Len(TailOf(r, size)) :
              TailOf(r, size)[k] = r[l + 1 - Len(TailOf(r, size)) + k]
<1> DEFINE t == TailOf(r, size)
<1>1. /\ t \in Seq(Int) /\ Len(t) = (IF Len(r) > size THEN size ELSE Len(r))
      /\ \A k \in 1 .. Len(t) : t[k] = r[Len(r) - Len(t) + k]
  BY TailIs
<1> HIDE DEF t
<1>2. ASSUME NEW k \in 1 .. Len(t) PROVE t[k] = r[l + 1 - Len(t) + k]
  <2>1. Len(r) - Len(t) + k = l + 1 - Len(t) + k
    OBVIOUS
  <2> QED
    BY <1>1, <2>1
<1>3. t \in Seq(Int) /\ Len(t) = (IF l + 1 > size THEN size ELSE l + 1)
  BY <1>1
<1> QED
  BY <1>2, <1>3 DEF t

\* One more event: the oldest of a full tail makes room for it.
LEMMA TailGoesOn ==
  ASSUME NEW q \in Seq(Int), NEW x \in Int, cache.size \in Nat \ {0}
  PROVE  TailOf(q \o <<x>>, cache.size) = Evicted(TailOf(q, cache.size)) \o <<x>>
<1> DEFINE size == cache.size
           t == TailOf(q, size)
           u == TailOf(q \o <<x>>, size)
           e == Evicted(t)
           cut == IF Len(t) = size THEN 1 ELSE 0
           l == Len(q)
           n == Len(t)
<1>1. /\ t \in Seq(Int) /\ l \in Nat /\ n = (IF l > size THEN size ELSE l)
      /\ \A k \in 1 .. n : t[k] = q[l - n + k]
  BY TailIs
<1>2. /\ q \o <<x>> \in Seq(Int) /\ Len(q \o <<x>>) = l + 1
      /\ \A k \in 1 .. l : (q \o <<x>>)[k] = q[k]
      /\ (q \o <<x>>)[l + 1] = x
  BY OneMore
<1>3. /\ u \in Seq(Int) /\ Len(u) = (IF l + 1 > size THEN size ELSE l + 1)
      /\ \A k \in 1 .. Len(u) : u[k] = (q \o <<x>>)[l + 1 - Len(u) + k]
  <2> DEFINE r == q \o <<x>>
  <2>1. r \in Seq(Int) /\ Len(r) = l + 1 /\ l \in Nat /\ size \in Nat \ {0}
    BY <1>1, <1>2
  <2> HIDE DEF r, l, size
  <2>2. /\ TailOf(r, size) \in Seq(Int)
        /\ Len(TailOf(r, size)) = (IF l + 1 > size THEN size ELSE l + 1)
        /\ \A k \in 1 .. Len(TailOf(r, size)) : TailOf(r, size)[k] = r[l + 1 - Len(TailOf(r, size)) + k]
    BY <2>1, TailOfLonger, SMTT(20)
  <2> QED
    BY <2>2 DEF r
<1>4. /\ e \in Seq(Int) /\ Len(e) = n - cut
      /\ \A k \in 1 .. Len(e) : k + cut \in 1 .. n /\ e[k] = t[k + cut]
  <2>1. CASE n = size
    <3>1. t # <<>>
      BY <2>1, EmptySeq
    <3>2. /\ Tail(t) \in Seq(Int) /\ Len(Tail(t)) = n - 1
          /\ \A k \in 1 .. Len(Tail(t)) : k + 1 \in 1 .. n /\ Tail(t)[k] = t[k + 1]
      BY <1>1, <3>1, OneLess
    <3>3. e = Tail(t) /\ cut = 1
      BY <2>1 DEF Evicted
    <3> HIDE DEF e, cut, t
    <3> QED
      BY <3>2, <3>3
  <2>2. CASE n # size
    <3>1. e = t /\ cut = 0
      BY <2>2 DEF Evicted
    <3>2. \A k \in 1 .. n : k + 0 = k
      OBVIOUS
    <3> HIDE DEF e, cut, t
    <3> QED
      BY <1>1, <3>1, <3>2 DEF t
  <2> QED
    BY <2>1, <2>2
<1> DEFINE f == e \o <<x>>
           p == Len(e)
<1>5. /\ f \in Seq(Int) /\ Len(f) = p + 1 /\ p \in Nat
      /\ \A k \in 1 .. p : f[k] = e[k]
      /\ f[p + 1] = x
  BY <1>4, OneMore
<1>6. size \in Nat \ {0} /\ cut = (IF n = size THEN 1 ELSE 0)
  OBVIOUS
<1> HIDE DEF size, t, u, e, cut, l, n, p, f
<1>7. p = n - cut /\ p + 1 = Len(u) /\ l + 1 - (p + 1) = l - n + cut /\ p <= l /\ n \in Nat /\ n <= l
  BY <1>1, <1>3, <1>4, <1>6 DEF p
<1>8. \A k \in 1 .. p + 1 : f[k] = u[k]
  <2> TAKE k \in 1 .. p + 1
  <2>0. k \in Int
    OBVIOUS
  <2>1. u[k] = (q \o <<x>>)[l - n + cut + k]
    BY <1>3, <1>7
  <2>2. CASE k \in 1 .. p
    <3>1. f[k] = e[k] /\ e[k] = t[k + cut] /\ k + cut \in 1 .. n
      BY <1>4, <1>5, <2>2 DEF p
    <3>2. t[k + cut] = q[l - n + (k + cut)]
      BY <1>1, <3>1
    <3>3. l - n + (k + cut) = l - n + cut + k /\ l - n + cut + k \in 1 .. l
      BY <1>1, <1>6, <1>7, <2>0, <3>1
    <3> QED
      BY <1>2, <2>1, <3>1, <3>2, <3>3
  <2>3. CASE k \notin 1 .. p
    <3>1. k = p + 1 /\ l - n + cut + k = l + 1
      BY <1>1, <1>5, <1>6, <1>7, <2>3
    <3> QED
      BY <1>2, <1>5, <2>1, <3>1
  <2> QED
    BY <2>2, <2>3
<1>9. f = u
  <2>1. /\ f \in Seq(Int) /\ u \in Seq(Int) /\ Len(f) = Len(u)
        /\ \A k \in 1 .. Len(f) : f[k] = u[k]
    BY <1>3, <1>5, <1>7, <1>8
  <2> QED
    BY <2>1, SeqEqual
<1> QED
  BY <1>9 DEF f, u, e, t, size

\* A sequence without its last element, which goes behind it.
LEMMA FrontAndLast ==
  ASSUME NEW q \in Seq(Int), q # <<>>
  PROVE  /\ SubSeq(q, 1, Len(q) - 1) \in Seq(Int) /\ q[Len(q)] \in Int
         /\ SubSeq(q, 1, Len(q) - 1) \o <<q[Len(q)]>> = q
<1>1. Len(q) \in Nat \ {0}
  BY EmptySeq
<1>2. Len(q) \in 1 .. Len(q) /\ 1 \in 1 .. Len(q)
  BY <1>1
<1>3. q[Len(q)] \in Int
  BY <1>2, ElementOfSeq
<1>4. \A i \in 1 .. Len(q) - 1 : q[i] \in Int
  <2>1. \A i \in 1 .. Len(q) - 1 : i \in 1 .. Len(q)
    BY <1>1
  <2> QED
    BY <2>1, ElementOfSeq
<1>5. SubSeq(q, 1, Len(q) - 1) \in Seq(Int)
  BY <1>1, <1>4, SubSeqProperties
<1>6. SubSeq(q, 1, Len(q)) = SubSeq(q, 1, Len(q) - 1) \o <<q[Len(q)]>>
  BY <1>2, SubSeqRecursiveSecond
<1>7. SubSeq(q, 1, Len(q)) = q
  BY SubSeqFull
<1> QED
  BY <1>3, <1>5, <1>6, <1>7

\* Before an event was written the stream was what precedes it.
LEMMA FrontOfMore ==
  ASSUME NEW q \in Seq(Int), NEW x \in Int
  PROVE  SubSeq(q \o <<x>>, 1, Len(q \o <<x>>) - 1) = q
<1> DEFINE r == q \o <<x>>
           f == SubSeq(r, 1, Len(r) - 1)
<1>1. r \in Seq(Int) /\ Len(q) \in Nat /\ Len(r) = Len(q) + 1 /\ \A k \in 1 .. Len(q) : r[k] = q[k]
  BY OneMore
<1>2. r # <<>> /\ Len(r) - 1 = Len(q)
  BY <1>1, EmptySeq
<1> HIDE DEF r
<1>3. \A i \in 1 .. Len(q) : r[i] \in Int
  BY <1>1, ElementOfSeq
<1>4. /\ SubSeq(r, 1, Len(q)) \in Seq(Int)
      /\ Len(SubSeq(r, 1, Len(q))) = (IF 1 <= Len(q) THEN Len(q) - 1 + 1 ELSE 0)
      /\ \A i \in 1 .. Len(q) - 1 + 1 : SubSeq(r, 1, Len(q))[i] = r[1 + i - 1]
  BY <1>1, <1>3, SubSeqProperties
<1>5. Len(q) - 1 + 1 = Len(q) /\ \A i \in 1 .. Len(q) : 1 + i - 1 = i
  BY <1>1
<1>6. f = q
  BY <1>1, <1>2, <1>4, <1>5, SeqEqual
<1> QED
  BY <1>6 DEF r

\* The events of this run can be counted.
LEMMA CountIs == stream \in Seq(Int) => NextSeq \in Nat
<1> SUFFICES ASSUME stream \in Seq(Int) PROVE NextSeq \in Nat
  OBVIOUS
<1>1. Len(stream) \in Nat
  BY LenProperties
<1>2. IsFiniteSet(1 .. Len(stream))
  BY <1>1, FS_Interval
<1>3. IsFiniteSet({i \in 1 .. Len(stream) : stream[i] >= 0})
  BY <1>2, FS_Subset
<1> QED
  BY <1>3, FS_CardinalityType DEF NextSeq

\* A batch is numbers, so the stream goes on being one of numbers.
LEMMA Extends ==
  ASSUME stream \in Seq(Int), NEW n \in Nat, Extend(n)
  PROVE  stream' \in Seq(Int)
<1> DEFINE f == [i \in 1 .. n |-> NextSeq + i - 1]
<1>1. f \in [1 .. n -> Int]
  BY CountIs
<1>2. f \in Seq(Int)
  <2> HIDE DEF f
  <2> QED
    BY <1>1, FunctionIsSequence
<1>3. stream' = stream \o f
  BY DEF Extend
<1> HIDE DEF f
<1> QED
  BY <1>2, <1>3, Joined

\* After one more event the tail is the one that precedes it.
LEMMA ExtendsByOne ==
  ASSUME stream \in Seq(Int), Extend(1), cache' = cache
  PROVE  stream' \in Seq(Int) /\ stream' # <<>> /\ Preceding' = Current
<1> DEFINE x == NextSeq + 1 - 1
<1>1. x \in Int
  BY CountIs
<1>2. [i \in 1 .. 1 |-> NextSeq + i - 1] = <<x>>
  OBVIOUS
<1>3. stream' = stream \o <<x>>
  BY <1>2 DEF Extend
<1> HIDE DEF x
<1>4. SubSeq(stream', 1, Len(stream') - 1) = stream
  BY <1>1, <1>3, FrontOfMore
<1>5. stream' \in Seq(Int) /\ Len(stream') = Len(stream) + 1 /\ Len(stream) \in Nat
  BY <1>1, <1>3, OneMore
<1>6. stream' # <<>>
  BY <1>5, EmptySeq
<1>7. Preceding' = Current
  BY <1>4, Zenon DEF Preceding, Current, TailOf
<1> QED
  BY <1>5, <1>6, <1>7

\* The start-up loads the tail.
LEMMA CacheStarts ==
  ASSUME CacheInv, DropKey \/ SeedStream \/ LoadTail \/ SetTail
  PROVE  CacheInv'
<1>1. cache.size \in Nat \ {0} /\ stream \in Seq(Int) /\ ring \in Seq(Int) /\ cache' = cache
  BY DEF CacheInv, DropKey, SeedStream, LoadTail, SetTail
<1>2. CASE DropKey
  <2>1. at' = "seeding" /\ stream' = stream /\ ring' = ring
    BY <1>2 DEF DropKey
  <2> QED
    BY <1>1, <2>1 DEF CacheInv
<1>3. CASE SeedStream
  <2> DEFINE n == IF CacheSeeds - NextSeq < CacheBatch THEN CacheSeeds - NextSeq ELSE CacheBatch
  <2>1. at' = "seeding" /\ ring' = ring /\ Extend(n)
    BY <1>3 DEF SeedStream
  <2>2. n \in Nat
    BY <1>1, <1>3, CountIs, CacheAssumption DEF SeedStream
  <2> HIDE DEF n
  <2>3. stream' \in Seq(Int)
    BY <1>1, <2>1, <2>2, Extends
  <2> QED
    BY <1>1, <2>1, <2>3 DEF CacheInv
<1>4. CASE LoadTail
  <2>1. ring' = Current /\ stream' = stream /\ at' = IF cache.memcached THEN "loaded" ELSE "ready"
    BY <1>4 DEF LoadTail, Current
  <2>2. Current' = Current
    BY <1>1, <2>1 DEF Current, TailOf
  <2>3. Current \in Seq(Int)
    BY <1>1, TailIs DEF Current
  <2>4. at' = "ready" => ~ cache'.memcached
    BY <1>1, <2>1
  <2> QED
    BY <1>1, <2>1, <2>2, <2>3, <2>4, Zenon DEF CacheInv, Published
<1>5. CASE SetTail
  <2>1. at' = "ready" /\ shared' = ring /\ stream' = stream /\ ring' = ring /\ ring = Current
    BY <1>5 DEF SetTail, CacheInv
  <2>2. Current' = Current
    BY <1>1, <2>1 DEF Current, TailOf
  <2> QED
    BY <1>1, <2>1, <2>2 DEF CacheInv, Published
<1> QED
  BY <1>2, <1>3, <1>4, <1>5

\* A write goes to the stream first and to the tail afterwards.
LEMMA CacheWrites ==
  ASSUME CacheInv, WriteThrough \/ PushEvent \/ EndOfRun
  PROVE  CacheInv'
<1>1. cache.size \in Nat \ {0} /\ stream \in Seq(Int) /\ ring \in Seq(Int) /\ cache' = cache
  BY DEF CacheInv, WriteThrough, PushEvent, EndOfRun
<1>2. CASE WriteThrough
  <2>1. /\ at' = "written" /\ ring' = ring /\ shared' = shared /\ Extend(1)
        /\ ring = Current /\ Published(Current)
    BY <1>2 DEF WriteThrough, CacheInv
  <2>2. stream' \in Seq(Int) /\ stream' # <<>> /\ Preceding' = Current
    BY <1>1, <2>1, ExtendsByOne
  <2> QED
    BY <1>1, <2>1, <2>2 DEF CacheInv, Published
<1>3. CASE PushEvent
  <2>1. /\ ring' = Evicted(ring) \o <<stream[Len(stream)]>> /\ stream' = stream /\ shared' = shared
        /\ at' = IF cache.memcached THEN "pushed" ELSE "ready"
        /\ stream # <<>> /\ ring = Preceding /\ Published(Preceding)
    BY <1>3 DEF PushEvent, CacheInv
  <2> DEFINE front == SubSeq(stream, 1, Len(stream) - 1)
             x == stream[Len(stream)]
  <2>2. front \in Seq(Int) /\ x \in Int /\ front \o <<x>> = stream
    BY <1>1, <2>1, FrontAndLast
  <2>3. ring = TailOf(front, cache.size)
    BY <2>1 DEF Preceding
  <2>4. ring' = Evicted(ring) \o <<x>>
    BY <2>1
  <2> HIDE DEF front, x
  <2>5. TailOf(front \o <<x>>, cache.size) = Evicted(TailOf(front, cache.size)) \o <<x>>
    BY <1>1, <2>2, TailGoesOn
  <2>6. ring' = Current
    BY <2>2, <2>3, <2>4, <2>5, Zenon DEF Current
  <2>7. Current' = Current /\ Preceding' = Preceding
    BY <1>1, <2>1 DEF Current, Preceding, TailOf
  <2>8. Current \in Seq(Int)
    BY <1>1, TailIs DEF Current
  <2>9. at' = "ready" => ~ cache'.memcached
    BY <1>1, <2>1
  <2> QED
    BY <1>1, <2>1, <2>6, <2>7, <2>8, <2>9, Zenon DEF CacheInv, Published
<1>4. CASE EndOfRun
  <2>1. at = "ready" /\ at' = "done" /\ stream' = stream /\ ring' = ring /\ shared' = shared
    BY <1>4 DEF EndOfRun
  <2>2. Current' = Current
    BY <1>1, <2>1 DEF Current, TailOf
  <2> QED
    BY <1>1, <2>1, <2>2 DEF CacheInv, Published
<1> QED
  BY <1>2, <1>3, <1>4

\* A failure leaves the tail at most one event behind, and an expiry leaves
\* nothing in Memcached.
LEMMA CacheStops ==
  ASSUME CacheInv, CacheFails \/ Expire
  PROVE  CacheInv'
<1>1. cache.size \in Nat \ {0} /\ stream \in Seq(Int) /\ ring \in Seq(Int) /\ cache' = cache /\ ring' = ring
  BY DEF CacheInv, CacheFails, Expire
<1>2. ASSUME stream' = stream PROVE Current' = Current /\ Preceding' = Preceding
  BY <1>1, <1>2 DEF Current, Preceding, TailOf
<1>3. CASE CacheFails
  <2>1. /\ at \notin {"done", "stopped", "aborted"}
        /\ at' = IF at \in {"starting", "seeding", "loaded"} THEN "aborted" ELSE "stopped"
    BY <1>3 DEF CacheFails
  <2>2. CASE UNCHANGED <<stream, shared>>
    <3>1. /\ Current' = Current /\ Preceding' = Preceding
          /\ Published(Current)' = Published(Current) /\ Published(Preceding)' = Published(Preceding)
      BY <1>1, <1>2, <2>2, Zenon DEF Published
    <3>2. at' = "stopped" => at \in {"ready", "written", "pushed"}
      BY <2>1 DEF CacheInv
    <3> QED
      BY <1>1, <2>1, <2>2, <3>1, <3>2 DEF CacheInv
  <2>3. CASE at \in {"loaded", "pushed"} /\ shared' = ring /\ UNCHANGED stream
    BY <1>1, <1>2, <2>1, <2>3 DEF CacheInv, Published
  <2>4. CASE at = "ready" /\ Extend(1) /\ UNCHANGED shared
    <3>1. stream' \in Seq(Int) /\ stream' # <<>> /\ Preceding' = Current
      BY <1>1, <2>4, ExtendsByOne
    <3>2. ring = Current /\ Published(Current)
      BY <2>4 DEF CacheInv
    <3>3. Published(Preceding)'
      BY <1>1, <2>4, <3>1, <3>2 DEF Published
    <3> QED
      BY <1>1, <2>1, <2>4, <3>1, <3>2, <3>3 DEF CacheInv
  <2> QED
    BY <1>3, <2>2, <2>3, <2>4 DEF CacheFails
<1>4. CASE Expire
  <2>1. stream' = stream /\ at' = at /\ shared' = Absent
    BY <1>4 DEF Expire
  <2> QED
    BY <1>1, <1>2, <2>1 DEF CacheInv, Published
<1> QED
  BY <1>3, <1>4

\* The invariant of the caches holds throughout.
LEMMA CacheHolds == RunSpec => []CacheInv
<1>1. RunInit => CacheInv
  <2> SUFFICES ASSUME RunInit PROVE CacheInv
    OBVIOUS
  <2>1. \E c \in Cache : ~ c.memcached
    <3>1. PICK size \in CacheSizes : TRUE
      BY CacheAssumption
    <3>2. [memcached |-> FALSE, keepsStream |-> FALSE, size |-> size] \in Cache
      BY <3>1 DEF Cache
    <3> QED
      BY <3>2
  <2>2. cache \in Cache
    BY <2>1 DEF RunInit, CacheInit, OneOf
  <2>3. cache.size \in Nat \ {0}
    BY <2>2, CacheAssumption DEF Cache
  <2>4. at = "starting" /\ ring = <<>>
    BY DEF RunInit, CacheInit
  <2>5. PICK prior \in 0 .. MaxPrior :
          stream = IF cache.keepsStream THEN [i \in 1 .. prior |-> i - prior - 1] ELSE <<>>
    BY DEF RunInit, CacheInit
  <2>6. prior \in Nat
    BY CacheAssumption
  <2> DEFINE earlier == [i \in 1 .. prior |-> i - prior - 1]
  <2>7. earlier \in [1 .. prior -> Int]
    BY <2>6
  <2>8. stream = IF cache.keepsStream THEN earlier ELSE <<>>
    BY <2>5
  <2> HIDE DEF earlier
  <2>9. stream \in Seq(Int)
    BY <2>6, <2>7, <2>8, FunctionIsSequence
  <2> QED
    BY <2>3, <2>4, <2>9 DEF CacheInv
<1>2. CacheInv /\ [RunNext]_runVars => CacheInv'
  <2> SUFFICES ASSUME CacheInv, [RunNext]_runVars PROVE CacheInv'
    OBVIOUS
  <2>1. CASE CacheStep
    BY <2>1, CacheStarts, CacheWrites, CacheStops DEF CacheStep
  <2>2. CASE UNCHANGED cacheVars
    BY <2>2 DEF cacheVars, CacheInv, Current, Preceding, Published, TailOf
  <2> QED
    BY <2>1, <2>2, StepsOfCommands
<1> QED
  BY <1>1, <1>2, PTL DEF RunSpec

\* What readers get from the cache is the tail of the stream, but for the event
\* that is being written, for every size of the cache and any number of events
\* (RecentEventsCache: CacheIsRecent).
THEOREM CachesAreRecent == RunSpec => []CacheIsRecent
<1>1. CacheInv => CacheIsRecent
  BY DEF CacheInv, CacheIsRecent, Current, Preceding, Published
<1> QED
  BY <1>1, CacheHolds, PTL
-----------------------------------------------------------------------------
(* Snapshots.  There is one row of states, one after each event of the     *)
(* stream, and every state of the program is one of them (Shows).  That a  *)
(* fold may be cut in two at a snapshot is that two rows which agree at a  *)
(* place agree from there on; both that and that the recursion defines a   *)
(* row are shown at the least place where it would not be so.              *)

\* f is a row of states in which the events of q, from place a + 1 to place b,
\* are applied one by one.
Chain(f, q, a, b, first) == \A n \in a + 1 .. b : f[n] = Apply(f[n - 1], q[n], first + n - 1)

\* There is such a row for any events, and its last state is their fold.
LEMMA FoldedIs ==
  ASSUME NEW S, NEW q \in Seq(S), NEW state, NEW a \in Nat, a <= Len(q), NEW first \in Int
  PROVE  \E f : /\ f[a] = state /\ f[Len(q)] = Folded(state, q, a, first)
                /\ Chain(f, q, a, Len(q), first)
<1> DEFINE Body(g, n) == IF n = a THEN state ELSE Apply(g[n - 1], q[n], first + n - 1)
           Row(g, b) == g = [n \in a .. b |-> Body(g, n)]
           l == Len(q)
           Missing == {i \in 1 .. l - a + 1 : ~ \E g : Row(g, a + i - 1)}
<1>1. l \in Nat /\ a \in Nat /\ a <= l /\ l - a + 1 \in Nat
  BY LenProperties
<1>2. Missing = {}
  <2> SUFFICES ASSUME Missing # {} PROVE FALSE
    OBVIOUS
  <2>1. PICK x \in Missing : \A y \in Missing : x <= y
    <3>1. Missing \subseteq 1 .. l - a + 1
      OBVIOUS
    <3> HIDE DEF Missing
    <3> QED
      BY <1>1, <3>1, LeastOfThem
  <2> DEFINE b == a + x - 1
  <2>2. x \in 1 .. l - a + 1 /\ ~ \E g : Row(g, b)
    OBVIOUS
  <2>3. x \in Int /\ b \in Nat
    BY <1>1, <2>2
  <2>4. CASE x = 1
    <3>1. b = a /\ a .. b = {a}
      BY <1>1, <2>4
    <3> DEFINE g == [n \in {a} |-> state]
    <3>2. g = [n \in {a} |-> Body(g, n)]
      OBVIOUS
    <3>3. Row(g, b)
      BY <3>1, <3>2
    <3> QED
      BY <2>2, <3>3
  <2>5. CASE x # 1
    <3>1. b > a /\ x - 1 \in 1 .. l - a + 1 /\ a + (x - 1) - 1 = b - 1 /\ b - 1 \in Nat /\ b - 1 >= a
      BY <1>1, <2>2, <2>3, <2>5
    <3>2. x - 1 \notin Missing
      <4> HIDE DEF Missing
      <4> QED
        BY <2>1, <2>3
    <3>3. \E g : Row(g, a + (x - 1) - 1)
      BY <3>1, <3>2
    <3>4. PICK g : Row(g, b - 1)
      BY <3>1, <3>3
    <3> DEFINE k == [n \in a .. b |-> IF n = b THEN Apply(g[b - 1], q[b], first + b - 1) ELSE g[n]]
    <3>5. ASSUME NEW n \in a .. b PROVE k[n] = Body(k, n)
      <4> HIDE DEF b
      <4>1. CASE n = b
        <5>1. n # a /\ b - 1 \in a .. b /\ b - 1 # b
          BY <1>1, <2>3, <3>1, <4>1
        <5>2. k[n - 1] = g[b - 1]
          BY <4>1, <5>1
        <5> QED
          BY <4>1, <5>1, <5>2
      <4>2. CASE n # b
        <5>1. n \in a .. b - 1 /\ k[n] = g[n]
          BY <1>1, <2>3, <3>1, <4>2
        <5>2. g[n] = Body(g, n)
          BY <3>4, <5>1
        <5>3. ASSUME n # a PROVE k[n - 1] = g[n - 1]
          <6>1. n - 1 \in a .. b /\ n - 1 # b
            BY <1>1, <2>3, <3>1, <4>2, <5>3
          <6> QED
            BY <6>1
        <5> QED
          BY <5>1, <5>2, <5>3
      <4> QED
        BY <4>1, <4>2
    <3>6. Row(k, b)
      <4>1. k = [n \in a .. b |-> k[n]]
        OBVIOUS
      <4> HIDE DEF k, Body, b
      <4> QED
        BY <3>5, <4>1
    <3> QED
      BY <2>2, <3>6
  <2> QED
    BY <2>4, <2>5
<1>3. \E g : Row(g, l)
  <2>1. l - a + 1 \in 1 .. l - a + 1 /\ a + (l - a + 1) - 1 = l
    BY <1>1
  <2>2. \E g : Row(g, a + (l - a + 1) - 1)
    BY <1>2, <2>1
  <2> QED
    BY <2>1, <2>2
<1> DEFINE f == CHOOSE g : Row(g, l)
<1>4. Row(f, l)
  BY <1>3
<1>5. Folded(state, q, a, first) = f[l]
  BY DEF Folded
<1> HIDE DEF f
<1>6. \A n \in a .. l : f[n] = Body(f, n)
  BY <1>4
<1>7. f[a] = state
  BY <1>1, <1>6
<1>8. Chain(f, q, a, l, first)
  <2> SUFFICES ASSUME NEW n \in a + 1 .. l PROVE f[n] = Apply(f[n - 1], q[n], first + n - 1)
    BY DEF Chain
  <2>1. n \in a .. l /\ n # a
    BY <1>1
  <2> QED
    BY <1>6, <2>1
<1> QED
  BY <1>5, <1>7, <1>8

\* Two rows that agree at a place agree from there on.
LEMMA ChainsAgree ==
  ASSUME NEW f, NEW g, NEW q, NEW a \in Nat, NEW b \in Nat, NEW first \in Int,
         f[a] = g[a], Chain(f, q, a, b, first), Chain(g, q, a, b, first)
  PROVE  \A n \in a .. b : f[n] = g[n]
<1> DEFINE Apart == {i \in 1 .. b : i > a /\ f[i] # g[i]}
<1>1. Apart = {}
  <2> SUFFICES ASSUME Apart # {} PROVE FALSE
    OBVIOUS
  <2>1. PICK x \in Apart : \A y \in Apart : x <= y
    <3>1. Apart \subseteq 1 .. b
      OBVIOUS
    <3> HIDE DEF Apart
    <3> QED
      BY <3>1, LeastOfThem
  <2>2. x \in a + 1 .. b /\ f[x] # g[x] /\ x - 1 \in a .. b
    OBVIOUS
  <2>3. f[x - 1] = g[x - 1]
    <3>1. CASE x - 1 = a
      BY <3>1
    <3>2. CASE x - 1 # a
      BY <2>1, <2>2, <3>2
    <3> QED
      BY <3>1, <3>2
  <2>4. f[x] = Apply(f[x - 1], q[x], first + x - 1) /\ g[x] = Apply(g[x - 1], q[x], first + x - 1)
    BY <2>2 DEF Chain
  <2> QED
    BY <2>2, <2>3, <2>4
<1> QED
  BY <1>1

\* A state with an event applied is a state.
LEMMA ApplyType ==
  ASSUME NEW s \in State, NEW e \in DomainEvent, NEW revision \in Int
  PROVE  Apply(s, e, revision) \in State
<1>1. e.type \in {"ItemAdded", "ItemPriceUpdated", "ItemRemoved"} /\ e.quantity \in Quantities \cup {0}
  BY DEF DomainEvent
<1>2. e.quantity \in Int
  <2>1. \A x \in Quantities : x \in Int
    BY SnapshotAssumption
  <2>2. e.quantity \in Quantities \/ e.quantity = 0
    BY <1>1
  <2> QED
    BY <2>1, <2>2
<1>3. /\ s = [stock |-> s.stock, added |-> s.added, updates |-> s.updates,
               removals |-> s.removals, revision |-> s.revision]
      /\ s.stock \in Int /\ s.added \in Nat /\ s.updates \in Nat /\ s.removals \in Nat
  BY DEF State
<1>4. CASE e.type = "ItemAdded"
  <2>1. Apply(s, e, revision) = [s EXCEPT !.stock = @ + e.quantity, !.added = @ + 1, !.revision = revision]
    BY <1>4 DEF Apply
  <2>2. s.stock + e.quantity \in Int /\ s.added + 1 \in Nat
    BY <1>2, <1>3
  <2> QED
    BY <1>3, <2>1, <2>2 DEF State
<1>5. CASE e.type = "ItemPriceUpdated"
  <2>1. Apply(s, e, revision) = [s EXCEPT !.updates = @ + 1, !.revision = revision]
    BY <1>5 DEF Apply
  <2>2. s.updates + 1 \in Nat
    BY <1>3
  <2> QED
    BY <1>3, <2>1, <2>2 DEF State
<1>6. CASE e.type = "ItemRemoved"
  <2>1. Apply(s, e, revision) = [s EXCEPT !.stock = @ - e.quantity, !.removals = @ + 1, !.revision = revision]
    BY <1>6 DEF Apply
  <2>2. s.stock - e.quantity \in Int /\ s.removals + 1 \in Nat
    BY <1>2, <1>3
  <2> QED
    BY <1>3, <2>1, <2>2 DEF State
<1> QED
  BY <1>1, <1>4, <1>5, <1>6

\* A row that begins with a state is one of states.
LEMMA ChainType ==
  ASSUME NEW q \in Seq(DomainEvent), NEW f, f[0] \in State, Chain(f, q, 0, Len(q), 0)
  PROVE  \A n \in 0 .. Len(q) : f[n] \in State
<1> DEFINE l == Len(q)
           Untyped == {i \in 1 .. l : f[i] \notin State}
<1>1. l \in Nat
  BY LenProperties
<1>2. Untyped = {}
  <2> SUFFICES ASSUME Untyped # {} PROVE FALSE
    OBVIOUS
  <2>1. PICK x \in Untyped : \A y \in Untyped : x <= y
    <3>1. Untyped \subseteq 1 .. l
      OBVIOUS
    <3> HIDE DEF Untyped, l
    <3> QED
      BY <1>1, <3>1, LeastOfThem
  <2>2. x \in 1 .. l /\ x \in Int /\ f[x] \notin State
    BY <1>1
  <2>3. f[x - 1] \in State
    <3>1. CASE x = 1
      BY <3>1
    <3>2. CASE x # 1
      <4>1. x - 1 \in 1 .. l
        BY <1>1, <2>2, <3>2
      <4>2. x - 1 \notin Untyped
        <5> HIDE DEF Untyped
        <5> QED
          BY <2>1, <2>2
      <4> QED
        BY <4>1, <4>2
    <3> QED
      BY <3>1, <3>2
  <2>4. f[x] = Apply(f[x - 1], q[x], 0 + x - 1)
    <3>1. x \in 0 + 1 .. Len(q)
      BY <2>2
    <3> QED
      BY <3>1 DEF Chain
  <2>5. q[x] \in DomainEvent /\ 0 + x - 1 \in Int
    BY <2>2, ElementOfSeq
  <2> QED
    BY <2>2, <2>3, <2>4, <2>5, ApplyType
<1>3. ASSUME NEW n \in 0 .. l PROVE f[n] \in State
  <2>1. n = 0 \/ n \in 1 .. l
    BY <1>1
  <2> QED
    BY <1>2, <2>1
<1> QED
  BY <1>3

\* A window is a row of events.
LEMMA WindowIs ==
  ASSUME domain \in Seq(DomainEvent), Len(domain) < EventCount, NEW w \in Windows
  PROVE  w \in Seq(DomainEvent)
<1> DEFINE l == Len(domain)
           size == IF EventCount - l < SnapshotEvery THEN EventCount - l ELSE SnapshotEvery
<1>1. l \in Nat /\ size \in Nat
  BY SnapshotAssumption, LenProperties
<1>2. PICK q \in [1 .. size -> Quantities] :
        w = [i \in 1 .. size |->
              [type |-> TypeOf(l + i - 1),
               quantity |-> IF TypeOf(l + i - 1) = "ItemPriceUpdated" THEN 0 ELSE q[i]]]
  BY DEF Windows
<1> HIDE DEF size, l
<1>3. \A i \in 1 .. size : TypeOf(l + i - 1) \in {"ItemAdded", "ItemPriceUpdated", "ItemRemoved"}
  <2> TAKE i \in 1 .. size
  <2>1. l + i - 1 \in Int
    BY <1>1
  <2>2. ((l + i - 1) % 3) + 1 \in 1 .. 3
    BY <2>1
  <2> QED
    BY <2>2 DEF TypeOf
<1>4. w \in [1 .. size -> DomainEvent]
  BY <1>2, <1>3 DEF DomainEvent
<1> QED
  BY <1>1, <1>4, FunctionIsSequence

\* The row of states goes on with the stream, and ends in the fold of what is
\* new.
LEMMA ChainGoesOn ==
  ASSUME NEW d \in Seq(DomainEvent), NEW w \in Seq(DomainEvent), NEW f, Chain(f, d, 0, Len(d), 0)
  PROVE  /\ d \o w \in Seq(DomainEvent)
         /\ Len(d) \in Nat /\ Len(w) \in Nat /\ Len(d \o w) = Len(d) + Len(w)
         /\ \E g : /\ \A n \in 0 .. Len(d) : g[n] = f[n]
                   /\ Chain(g, d \o w, 0, Len(d \o w), 0)
                   /\ g[Len(d \o w)] = Folded(f[Len(d)], w, 0, Len(d))
<1> DEFINE l == Len(d)
           m == Len(w)
           r == d \o w
<1>1. /\ r \in Seq(DomainEvent) /\ l \in Nat /\ m \in Nat /\ Len(r) = l + m
      /\ \A i \in 1 .. l : r[i] = d[i]
      /\ \A i \in 1 .. m : r[l + i] = w[i]
  BY Joined
<1>2. PICK h : h[0] = f[l] /\ h[m] = Folded(f[l], w, 0, l) /\ Chain(h, w, 0, m, l)
  <2>1. 0 \in Nat /\ 0 <= m /\ l \in Int
    BY <1>1
  <2> DEFINE state == f[l]
  <2> HIDE DEF state, l
  <2>2. \E h : h[0] = state /\ h[m] = Folded(state, w, 0, l) /\ Chain(h, w, 0, m, l)
    BY <2>1, FoldedIs
  <2> QED
    BY <2>2 DEF state
<1> DEFINE g == [n \in 0 .. l + m |-> IF n <= l THEN f[n] ELSE h[n - l]]
<1> HIDE DEF l, m, r
<1>3. (\A n \in 0 .. l : g[n] = f[n]) /\ \A n \in 0 .. m : l + n \in 0 .. l + m /\ g[l + n] = h[n]
  <2>1. \A n \in 0 .. l : n \in 0 .. l + m /\ n <= l
    BY <1>1
  <2>2. ASSUME NEW n \in 0 .. m PROVE l + n \in 0 .. l + m /\ g[l + n] = h[n]
    <3>1. l + n \in 0 .. l + m /\ (l + n) - l = n
      BY <1>1
    <3>2. CASE n = 0
      BY <1>1, <1>2, <3>1, <3>2
    <3>3. CASE n # 0
      <4>1. ~ l + n <= l
        BY <1>1, <3>3
      <4> QED
        BY <3>1, <4>1
    <3> QED
      BY <3>2, <3>3
  <2> QED
    BY <2>1, <2>2
<1> HIDE DEF g
<1>4. Chain(g, r, 0, l + m, 0)
  <2> SUFFICES ASSUME NEW n \in 0 + 1 .. l + m PROVE g[n] = Apply(g[n - 1], r[n], 0 + n - 1)
    BY DEF Chain
  <2>1. CASE n <= l
    <3>1. n \in 0 + 1 .. l /\ n \in 1 .. l /\ n \in 0 .. l /\ n - 1 \in 0 .. l
      BY <1>1, <2>1
    <3>2. f[n] = Apply(f[n - 1], d[n], 0 + n - 1)
      BY <3>1 DEF Chain, l
    <3> QED
      BY <1>1, <1>3, <3>1, <3>2
  <2>2. CASE ~ n <= l
    <3> DEFINE i == n - l
    <3>1. /\ i \in 0 + 1 .. m /\ i \in 1 .. m /\ i \in 0 .. m /\ i - 1 \in 0 .. m
          /\ l + i = n /\ l + (i - 1) = n - 1 /\ l + i - 1 = 0 + n - 1
      BY <1>1, <2>2
    <3> HIDE DEF i
    <3>2. h[i] = Apply(h[i - 1], w[i], l + i - 1)
      BY <1>2, <3>1 DEF Chain
    <3>3. g[l + i] = h[i] /\ g[l + (i - 1)] = h[i - 1] /\ r[l + i] = w[i]
      BY <1>1, <1>3, <3>1
    <3> QED
      BY <3>1, <3>2, <3>3
  <2> QED
    BY <2>1, <2>2
<1>5. g[l + m] = Folded(f[l], w, 0, l)
  <2>1. m \in 0 .. m
    BY <1>1
  <2> QED
    BY <1>2, <1>3, <2>1
<1>6. \E x : (\A n \in 0 .. l : x[n] = f[n]) /\ Chain(x, r, 0, l + m, 0) /\ x[l + m] = Folded(f[l], w, 0, l)
  BY <1>3, <1>4, <1>5
<1> QED
  BY <1>1, <1>6 DEF l, m, r

\* The row of all states of the stream holds the program's own state, those of
\* the snapshots and the restored one.
Shows(f) ==
  /\ f[0] = Empty /\ Chain(f, domain, 0, Len(domain), 0)
  /\ demo \in {"writing", "written"} => live = f[Len(domain)]
  /\ \A i \in 1 .. Len(snapshots) :
       /\ snapshots[i].covers + 1 \in 0 .. Len(domain)
       /\ snapshots[i].state = f[snapshots[i].covers + 1]
  /\ demo = "restored" => restored = f[Len(domain)]

StateInv == SnapshotTypeOK /\ \E f : Shows(f)

\* Nothing is in the stream.
LEMMA InitState == SnapshotInit => StateInv
<1> SUFFICES ASSUME SnapshotInit PROVE StateInv
  OBVIOUS
<1>1. Empty \in State
  BY DEF Empty, State
<1>2. <<>> \in Seq(DomainEvent) /\ <<>> \in Seq([state : State, covers : Int]) /\ Len(<<>>) = 0
  OBVIOUS
<1>3. SnapshotTypeOK
  BY <1>1, <1>2 DEF SnapshotInit, SnapshotTypeOK
<1> DEFINE f == [n \in {0} |-> Empty]
<1>4. Shows(f)
  <2>1. f[0] = Empty /\ domain = <<>> /\ snapshots = <<>> /\ live = Empty /\ demo = "writing"
    BY DEF SnapshotInit
  <2> HIDE DEF f
  <2>2. Chain(f, domain, 0, Len(domain), 0)
    BY <2>1 DEF Chain
  <2> QED
    BY <2>1, <2>2 DEF Shows
<1> QED
  BY <1>3, <1>4 DEF StateInv

\* A window moves the row, and the program's state, on together; where it was
\* stored and the program failed, the row alone.
LEMMA WindowState ==
  ASSUME StateInv, demo = "writing", Len(domain) < EventCount, NEW w \in Windows,
         domain' = domain \o w, UNCHANGED <<snapshots, restored>>,
         \/ demo' = "written" /\ live' = Folded(live, w, 0, LastRevision - (Len(w) - 1))
         \/ demo' = "failed" /\ live' = live
  PROVE  StateInv'
<1> DEFINE l == Len(domain)
<1>1. domain \in Seq(DomainEvent) /\ w \in Seq(DomainEvent)
  BY WindowIs DEF StateInv, SnapshotTypeOK
<1>2. PICK f : Shows(f)
  BY DEF StateInv
<1>3. PICK g : /\ \A n \in 0 .. l : g[n] = f[n]
               /\ Chain(g, domain', 0, Len(domain'), 0)
               /\ g[Len(domain')] = Folded(f[l], w, 0, l)
  <2>1. Chain(f, domain, 0, Len(domain), 0)
    BY <1>2 DEF Shows
  <2>2. \E g : /\ \A n \in 0 .. Len(domain) : g[n] = f[n]
               /\ Chain(g, domain \o w, 0, Len(domain \o w), 0)
               /\ g[Len(domain \o w)] = Folded(f[Len(domain)], w, 0, Len(domain))
    BY <1>1, <2>1, ChainGoesOn
  <2> QED
    BY <2>2
<1>4. domain' \in Seq(DomainEvent) /\ l \in Nat /\ Len(w) \in Nat /\ Len(domain') = l + Len(w)
  BY <1>1, Joined
<1>5. live = f[l] /\ LastRevision - (Len(w) - 1) = l
  BY <1>2, <1>4 DEF Shows, LastRevision
<1>6. demo' = "written" => live' = g[Len(domain')]
  BY <1>3, <1>5
<1>7. g[0] = Empty
  BY <1>2, <1>3, <1>4 DEF Shows
<1>8. ASSUME NEW i \in 1 .. Len(snapshots)
      PROVE  /\ snapshots[i].covers + 1 \in 0 .. Len(domain')
             /\ snapshots[i].state = g[snapshots[i].covers + 1]
  <2> DEFINE c == snapshots[i].covers + 1
  <2>1. c \in 0 .. l /\ snapshots[i].state = f[c]
    BY <1>2 DEF Shows
  <2> HIDE DEF c, l
  <2>2. c \in 0 .. Len(domain') /\ g[c] = f[c]
    BY <1>3, <1>4, <2>1
  <2> QED
    BY <2>1, <2>2 DEF c
<1>9. Len(domain') \in 0 .. Len(domain') /\ \A n \in 0 .. Len(domain') : g[n] \in State
  <2>1. Empty \in State
    BY DEF Empty, State
  <2> DEFINE d == domain'
  <2>2. d \in Seq(DomainEvent) /\ Chain(g, d, 0, Len(d), 0) /\ g[0] \in State /\ Len(d) \in Nat
    BY <1>3, <1>4, <1>7, <2>1
  <2> HIDE DEF d
  <2>3. Len(d) \in 0 .. Len(d) /\ \A n \in 0 .. Len(d) : g[n] \in State
    BY <2>2, ChainType
  <2> QED
    BY <2>3 DEF d
<1>10. live' \in State
  BY <1>6, <1>9 DEF StateInv, SnapshotTypeOK
<1>11. SnapshotTypeOK'
  BY <1>4, <1>10 DEF StateInv, SnapshotTypeOK
<1>12. Shows(g)'
  BY <1>3, <1>6, <1>7, <1>8 DEF Shows
<1> QED
  BY <1>11, <1>12 DEF StateInv

\* A snapshot is of the last state of the row.
LEMMA TakenState ==
  ASSUME StateInv, demo = "written", demo' \in {"writing", "failed"},
         snapshots' = Append(snapshots, [state |-> live, covers |-> Covers]),
         UNCHANGED <<domain, live, restored>>
  PROVE  StateInv'
<1> DEFINE T == [state : State, covers : Int]
           e == [state |-> live, covers |-> Covers]
           l == Len(domain)
           m == Len(snapshots)
<1>1. snapshots \in Seq(T) /\ live \in State /\ l \in Nat /\ m \in Nat
  BY LenProperties DEF StateInv, SnapshotTypeOK
<1>2. e \in T /\ e.covers + 1 = l /\ e.state = live
  BY <1>1 DEF Covers
<1>3. PICK f : Shows(f)
  BY DEF StateInv
<1>4. live = f[l]
  BY <1>3 DEF Shows
<1> HIDE DEF T, e
<1>5. /\ snapshots' \in Seq(T) /\ Len(snapshots') = m + 1
      /\ \A i \in 1 .. m : snapshots'[i] = snapshots[i]
      /\ snapshots'[m + 1] = e
  <2>1. snapshots' = snapshots \o <<e>>
    BY <1>1, <1>2, AppendIsConcat DEF e
  <2> QED
    BY <1>1, <1>2, <2>1, OneMore
<1>6. ASSUME NEW i \in 1 .. Len(snapshots')
      PROVE  /\ snapshots'[i].covers + 1 \in 0 .. l
             /\ snapshots'[i].state = f[snapshots'[i].covers + 1]
  <2>1. CASE i \in 1 .. m
    BY <1>3, <1>5, <2>1 DEF Shows
  <2>2. CASE i \notin 1 .. m
    <3>1. i = m + 1 /\ l \in 0 .. l
      BY <1>1, <1>5, <2>2
    <3> QED
      BY <1>2, <1>4, <1>5, <3>1
  <2> QED
    BY <2>1, <2>2
<1>7. SnapshotTypeOK'
  BY <1>5 DEF StateInv, SnapshotTypeOK, T
<1>8. Shows(f)'
  BY <1>3, <1>6 DEF Shows
<1> QED
  BY <1>7, <1>8 DEF StateInv

\* To restore is to follow the row from a snapshot, or from its beginning, to
\* its end.
LEMMA RestoredIs ==
  ASSUME domain \in Seq(DomainEvent), NEW f, Shows(f)
  PROVE  /\ Fold(Empty, 0) = f[Len(domain)]
         /\ \A i \in 1 .. Len(snapshots) : RestoredFrom(snapshots[i]) = f[Len(domain)]
<1> DEFINE l == Len(domain)
<1>1. l \in Nat /\ Chain(f, domain, 0, l, 0) /\ f[0] = Empty
  BY LenProperties DEF Shows
<1>2. ASSUME NEW a \in 0 .. l PROVE Fold(f[a], a) = f[l]
  <2> DEFINE state == f[a]
  <2>1. a \in Nat /\ a <= Len(domain) /\ 0 \in Int
    BY <1>1
  <2> HIDE DEF state
  <2>2. PICK g : g[a] = state /\ g[Len(domain)] = Folded(state, domain, a, 0) /\ Chain(g, domain, a, Len(domain), 0)
    BY <2>1, FoldedIs
  <2>3. Chain(f, domain, a, l, 0)
    <3>1. \A n \in a + 1 .. l : n \in 0 + 1 .. l
      BY <1>1, <2>1
    <3> QED
      BY <1>1, <3>1 DEF Chain
  <2> HIDE DEF l
  <2>4. \A n \in a .. l : f[n] = g[n]
    <3>1. f[a] = g[a] /\ Chain(g, domain, a, l, 0)
      BY <2>2 DEF state, l
    <3> QED
      BY <1>1, <2>1, <2>3, <3>1, ChainsAgree
  <2>5. l \in a .. l
    BY <1>1, <2>1 DEF l
  <2> QED
    BY <2>2, <2>4, <2>5 DEF Fold, state, l
<1>3. Fold(Empty, 0) = f[l]
  <2>1. 0 \in 0 .. l
    BY <1>1
  <2> QED
    BY <1>1, <1>2, <2>1
<1>4. ASSUME NEW i \in 1 .. Len(snapshots) PROVE RestoredFrom(snapshots[i]) = f[l]
  <2>1. snapshots[i].covers + 1 \in 0 .. l /\ snapshots[i].state = f[snapshots[i].covers + 1]
    BY DEF Shows
  <2>2. Fold(f[snapshots[i].covers + 1], snapshots[i].covers + 1) = f[l]
    BY <1>2, <2>1
  <2> QED
    BY <2>1, <2>2 DEF RestoredFrom, StartFrom
<1> QED
  BY <1>3, <1>4

\* Each step of the program keeps to the row of states.
LEMMA NextState == StateInv /\ SnapshotStep => StateInv'
<1> SUFFICES ASSUME StateInv, SnapshotStep PROVE StateInv'
  OBVIOUS
<1>1. PICK f : Shows(f)
  BY DEF StateInv
<1>2. CASE WriteWindow
  BY <1>2, WindowState DEF WriteWindow
<1>3. CASE TakeSnapshot
  BY <1>3, TakenState DEF TakeSnapshot
<1>4. CASE Restart
  <2>1. demo' = "restarted" /\ live' = Empty /\ UNCHANGED <<domain, snapshots, restored>>
    BY <1>4 DEF Restart
  <2>2. SnapshotTypeOK'
    BY <2>1 DEF StateInv, SnapshotTypeOK, Empty, State
  <2>3. Shows(f)'
    BY <1>1, <2>1 DEF Shows
  <2> QED
    BY <2>2, <2>3 DEF StateInv
<1>5. CASE Rehydrate
  <2>1. /\ demo' = "restored" /\ UNCHANGED <<domain, snapshots, live>>
        /\ restored' = IF snapshots = <<>> THEN Fold(Empty, 0) ELSE RestoredFrom(Last(snapshots))
    BY <1>5 DEF Rehydrate
  <2>2. domain \in Seq(DomainEvent) /\ Len(domain) \in Nat
    BY LenProperties DEF StateInv, SnapshotTypeOK
  <2>3. restored' = f[Len(domain)]
    <3>1. CASE snapshots = <<>>
      BY <1>1, <2>1, <2>2, <3>1, RestoredIs
    <3>2. CASE snapshots # <<>>
      <4>1. snapshots \in Seq([state : State, covers : Int])
        BY DEF StateInv, SnapshotTypeOK
      <4>2. Len(snapshots) \in 1 .. Len(snapshots) /\ Last(snapshots) = snapshots[Len(snapshots)]
        <5>1. Len(snapshots) \in Nat /\ Len(snapshots) # 0
          BY <3>2, <4>1, EmptySeq, LenProperties
        <5> QED
          BY <5>1 DEF Last
      <4>3. RestoredFrom(snapshots[Len(snapshots)]) = f[Len(domain)]
        BY <1>1, <2>2, <4>2, RestoredIs
      <4> QED
        BY <2>1, <3>2, <4>2, <4>3
    <3> QED
      BY <3>1, <3>2
  <2>4. f[Len(domain)] \in State
    <3>1. f[0] \in State /\ Chain(f, domain, 0, Len(domain), 0)
      BY <1>1 DEF Shows, Empty, State
    <3>2. Len(domain) \in 0 .. Len(domain)
      BY <2>2
    <3> QED
      BY <2>2, <3>1, <3>2, ChainType
  <2>5. SnapshotTypeOK'
    BY <2>1, <2>3, <2>4 DEF StateInv, SnapshotTypeOK
  <2>6. Shows(f)'
    BY <1>1, <2>1, <2>3 DEF Shows
  <2> QED
    BY <2>5, <2>6 DEF StateInv
<1>6. CASE DemoFails
  <2>1. demo' = "failed" /\ UNCHANGED <<live, restored>>
    BY <1>6 DEF DemoFails
  <2>2. CASE UNCHANGED <<domain, snapshots>>
    <3>1. SnapshotTypeOK'
      BY <2>1, <2>2 DEF StateInv, SnapshotTypeOK
    <3>2. Shows(f)'
      BY <1>1, <2>1, <2>2 DEF Shows
    <3> QED
      BY <3>1, <3>2 DEF StateInv
  <2>3. CASE /\ demo = "writing" /\ Len(domain) < EventCount
             /\ \E window \in Windows : domain' = domain \o window
             /\ UNCHANGED snapshots
    BY <2>1, <2>3, WindowState
  <2>4. CASE /\ demo = "written"
             /\ snapshots' = Append(snapshots, [state |-> live, covers |-> Covers])
             /\ UNCHANGED domain
    BY <2>1, <2>4, TakenState
  <2> QED
    BY <1>6, <2>2, <2>3, <2>4 DEF DemoFails
<1> QED
  BY <1>2, <1>3, <1>4, <1>5, <1>6 DEF SnapshotStep

\* The invariant of the snapshots holds throughout.
LEMMA StatesHold == RunSpec => []StateInv
<1>1. RunInit => StateInv
  BY InitState DEF RunInit
<1>2. StateInv /\ [RunNext]_runVars => StateInv'
  <2> SUFFICES ASSUME StateInv, [RunNext]_runVars PROVE StateInv'
    OBVIOUS
  <2>1. CASE SnapshotStep
    BY <2>1, NextState
  <2>2. CASE UNCHANGED snapshotVars
    BY <2>2 DEF snapshotVars, StateInv, SnapshotTypeOK, Shows
  <2> QED
    BY <2>1, <2>2, StepsOfCommands
<1> QED
  BY <1>1, <1>2, PTL DEF RunSpec

\* Any snapshot with the events after it gives what a replay of the whole
\* stream gives, and so does the demo, for any number of events, any windows
\* and a stop anywhere (SnapshotDemo: RestoredIsReplayed).
THEOREM RestoredAreReplayed == RunSpec => []RestoredIsReplayed
<1>1. StateInv => RestoredIsReplayed
  <2> SUFFICES ASSUME StateInv PROVE RestoredIsReplayed
    OBVIOUS
  <2>1. PICK f : Shows(f)
    BY DEF StateInv
  <2>2. /\ Fold(Empty, 0) = f[Len(domain)]
        /\ \A i \in 1 .. Len(snapshots) : RestoredFrom(snapshots[i]) = f[Len(domain)]
    BY <2>1, RestoredIs DEF StateInv, SnapshotTypeOK
  <2>3. demo = "restored" => restored = f[Len(domain)]
    BY <2>1 DEF Shows
  <2> QED
    BY <2>2, <2>3 DEF RestoredIsReplayed
<1> QED
  BY <1>1, StatesHold, PTL
=============================================================================
