------------------------- MODULE MongoDelivery_proofs -------------------------
(***************************************************************************)
(* Safety of the consumers of the MongoDB event store, for any number of   *)
(* workers, events, runs and consumers: the relay, the subscription and    *)
(* the lease, each while the log grows and the others go on.               *)
(***************************************************************************)
EXTENDS MongoDelivery, SequenceLemmas
-----------------------------------------------------------------------------
(* The relay.  No lock keeps two workers from one entry, so a bound on the *)
(* deliveries has to count workers.  While the entry is pending, each of   *)
(* them that has published it is still there to be counted (PaidFor); once *)
(* it is dispatched nobody finds it any more, and only those who had found *)
(* it before can deliver it once more (FewLeft).                           *)

\* The workers at the given point with entry i.
Workers(label, i) == {r \in Relays : worker[r] = label /\ entry[r] = i}

PaidFor ==
  \A i \in Ids \ dispatched :
    delivered[i] <= aborted[i] + Cardinality(Workers("published", i))

FewLeft ==
  \A i \in dispatched :
    delivered[i] + Cardinality(Workers("found", i)) <= aborted[i] + Cardinality(Relays)

\* A worker is at an entry of the outbox.
AtOutbox == \A r \in Relays : entry[r] # None => \E x \in outbox : x.id = entry[r]

RelayInv == LogTypeOK /\ RelayTypeOK /\ AtOutbox /\ PaidFor /\ FewLeft

\* At most all workers are at an entry, each at one point of its loop.
LEMMA WorkersCount ==
  ASSUME NEW i
  PROVE  /\ IsFiniteSet(Workers("found", i)) /\ IsFiniteSet(Workers("published", i))
         /\ Cardinality(Workers("found", i)) \in Nat
         /\ Cardinality(Workers("published", i)) \in Nat
         /\ Cardinality(Relays) \in Nat
         /\ Cardinality(Workers("found", i)) + Cardinality(Workers("published", i))
              <= Cardinality(Relays)
<1> DEFINE F == Workers("found", i)
           P == Workers("published", i)
<1>1. F \subseteq Relays /\ P \subseteq Relays /\ F \cap P = {} /\ F \cup P \subseteq Relays
  BY DEF Workers
<1>2. IsFiniteSet(F) /\ IsFiniteSet(P)
  BY <1>1, RelayAssumption, FS_Subset
<1>3. Cardinality(F) \in Nat /\ Cardinality(P) \in Nat /\ Cardinality(Relays) \in Nat
  BY <1>2, RelayAssumption, FS_CardinalityType
<1>4. Cardinality(F \cup P) = Cardinality(F) + Cardinality(P) - Cardinality(F \cap P)
  BY <1>2, FS_Union
<1>5. Cardinality(F \cap P) = 0
  BY <1>1, FS_EmptySet
<1>6. Cardinality(F \cup P) <= Cardinality(Relays)
  BY <1>1, RelayAssumption, FS_Subset
<1> QED
  BY <1>2, <1>3, <1>4, <1>5, <1>6

\* A step of worker r moves r alone, between the sets of workers of the entry
\* it was at and of the entry it goes to.
LEMMA WorkersAfter ==
  ASSUME RelayTypeOK, NEW r \in Relays, NEW label, NEW e, At(r, label, e),
         NEW at, NEW i
  PROVE  /\ worker'[r] = label /\ entry'[r] = e
         /\ \A q \in Relays \ {r} : worker'[q] = worker[q] /\ entry'[q] = entry[q]
         /\ r \in Workers(at, i)' <=> (label = at /\ e = i)
         /\ r \in Workers(at, i) <=> (worker[r] = at /\ entry[r] = i)
         /\ \A q : q # r => (q \in Workers(at, i) <=> q \in Workers(at, i)')
<1>1. worker'[r] = label /\ entry'[r] = e
  BY DEF At, RelayTypeOK
<1>2. \A q \in Relays \ {r} : worker'[q] = worker[q] /\ entry'[q] = entry[q]
  BY DEF At, RelayTypeOK
<1>3. Workers(at, i)' = {q \in Relays : worker'[q] = at /\ entry'[q] = i}
  BY DEF Workers
<1> QED
  BY <1>1, <1>2, <1>3 DEF Workers

\* How many workers are at an entry after one of them has gone elsewhere.
LEMMA CountAfter ==
  ASSUME RelayTypeOK, NEW r \in Relays, NEW label, NEW e, At(r, label, e),
         NEW at \in {"found", "published"}, NEW i
  PROVE  /\ worker[r] = at /\ entry[r] = i /\ ~ (label = at /\ e = i)
              => Cardinality(Workers(at, i)') = Cardinality(Workers(at, i)) - 1
         /\ ~ (worker[r] = at /\ entry[r] = i) /\ label = at /\ e = i
              => Cardinality(Workers(at, i)') = Cardinality(Workers(at, i)) + 1
         /\ ((worker[r] = at /\ entry[r] = i) <=> (label = at /\ e = i))
              => Cardinality(Workers(at, i)') = Cardinality(Workers(at, i))
<1> DEFINE S == Workers(at, i)
           T == Workers(at, i)'
<1>1. IsFiniteSet(S)
  BY WorkersCount
<1>2. /\ r \in T <=> (label = at /\ e = i)
      /\ r \in S <=> (worker[r] = at /\ entry[r] = i)
      /\ \A q : q # r => (q \in S <=> q \in T)
  BY WorkersAfter
<1> HIDE DEF S, T
<1>3. T \ {r} = S \ {r}
  BY <1>2
<1>4. /\ (r \in S <=> r \in T) => Cardinality(T) = Cardinality(S)
      /\ r \in S /\ r \notin T => Cardinality(T) = Cardinality(S) - 1
      /\ r \notin S /\ r \in T => Cardinality(T) = Cardinality(S) + 1
  BY <1>1, <1>3, OneJoinsOrLeaves
<1> QED
  BY <1>2, <1>4 DEF S, T
-----------------------------------------------------------------------------
\* The entry a worker is at is an entry.
LEMMA EntryIsId ==
  ASSUME RelayTypeOK, NEW r \in Relays, worker[r] \in AtEntry
  PROVE  entry[r] \in Ids /\ entry[r] # None
  BY DEF RelayTypeOK

\* The types of a state in which worker r has gone elsewhere.
LEMMA AtTypeOK ==
  ASSUME RelayTypeOK, NEW r \in Relays, NEW label, NEW e, At(r, label, e),
         label \in {"idle", "asleep", "stopped"} \cup AtEntry, e \in Ids \cup {None},
         e # None <=> label \in AtEntry,
         AtOutbox, outbox' = outbox, e # None => \E x \in outbox : x.id = e
  PROVE  /\ worker' \in [Relays -> {"idle", "asleep", "stopped"} \cup AtEntry]
         /\ entry' \in [Relays -> Ids \cup {None}]
         /\ \A q \in Relays : entry'[q] # None <=> worker'[q] \in AtEntry
         /\ AtOutbox'
<1>1. /\ worker' \in [Relays -> {"idle", "asleep", "stopped"} \cup AtEntry]
      /\ entry' \in [Relays -> Ids \cup {None}]
  BY DEF RelayTypeOK, At
<1>2. worker'[r] = label /\ entry'[r] = e
  BY DEF RelayTypeOK, At
<1>3. \A q \in Relays \ {r} : worker'[q] = worker[q] /\ entry'[q] = entry[q]
  BY DEF RelayTypeOK, At
<1> QED
  BY <1>1, <1>2, <1>3 DEF RelayTypeOK, AtOutbox

\* No worker is at an entry, and nothing was delivered.
LEMMA InitRelay == Init => RelayInv
<1> SUFFICES ASSUME Init PROVE RelayInv
  OBVIOUS
<1>1. LogTypeOK /\ RelayTypeOK
  BY RelayAssumption DEF Init, LogInit, LogTypeOK, RelayInit, RelayTypeOK, AtEntry
<1>2. PaidFor
  BY WorkersCount DEF Init, RelayInit, PaidFor
<1>3. FewLeft /\ AtOutbox
  BY DEF Init, RelayInit, FewLeft, AtOutbox
<1> QED
  BY <1>1, <1>2, <1>3 DEF RelayInv

\* A pending entry is found: its deliveries are still paid for as they were.
LEMMA FindRelay ==
  ASSUME RelayInv, NEW r \in Relays, Find(r), UNCHANGED logVars
  PROVE  RelayInv'
<1>1. PICK e \in Pending : At(r, "found", e)
  BY DEF Find
<1>2. /\ e \in Ids /\ e # None /\ e \notin dispatched
      /\ worker[r] = "idle" /\ entry[r] = None
      /\ UNCHANGED <<dispatched, delivered, aborted>>
  BY RelayAssumption DEF Find, Pending, RelayInv, RelayTypeOK, LogTypeOK, OutboxRow, AtEntry
<1>3. RelayTypeOK' /\ AtOutbox'
  BY <1>1, <1>2, AtTypeOK DEF RelayInv, RelayTypeOK, Pending, logVars, AtEntry
<1>4. \A i \in Ids : Cardinality(Workers("published", i)') = Cardinality(Workers("published", i))
  BY <1>1, <1>2, CountAfter DEF RelayInv
<1>5. \A i \in dispatched : Cardinality(Workers("found", i)') = Cardinality(Workers("found", i))
  BY <1>1, <1>2, CountAfter DEF RelayInv
<1>6. PaidFor'
  BY <1>2, <1>4 DEF RelayInv, PaidFor
<1>7. FewLeft'
  BY <1>2, <1>5 DEF RelayInv, FewLeft
<1> QED
  BY <1>3, <1>6, <1>7 DEF RelayInv, LogTypeOK, logVars

\* Sleeping, waking and stopping happen between entries.
LEMMA LoopRelay ==
  ASSUME RelayInv, NEW r \in Relays, FindNothing(r) \/ Wake(r) \/ Shutdown(r),
         UNCHANGED logVars
  PROVE  RelayInv'
<1>1. PICK label \in {"idle", "asleep", "stopped"} :
        /\ worker[r] \in {"idle", "asleep"} /\ At(r, label, None)
        /\ UNCHANGED <<dispatched, delivered, aborted>>
  BY DEF FindNothing, Wake, Shutdown
<1>2. RelayTypeOK' /\ AtOutbox'
  BY <1>1, AtTypeOK DEF RelayInv, RelayTypeOK, logVars, AtEntry
<1>3. \A at \in {"found", "published"}, i \in Ids :
        Cardinality(Workers(at, i)') = Cardinality(Workers(at, i))
  BY <1>1, CountAfter DEF RelayInv
<1>4. PaidFor'
  BY <1>1, <1>3 DEF RelayInv, PaidFor
<1>5. FewLeft'
  BY <1>1, <1>3 DEF RelayInv, RelayTypeOK, LogTypeOK, OutboxRow, FewLeft
<1> QED
  BY <1>2, <1>4, <1>5 DEF RelayInv, LogTypeOK, logVars

\* A publication is paid for by the worker that is now past it, and takes the
\* worker from those who had found the entry.
LEMMA PublishRelay ==
  ASSUME RelayInv, NEW r \in Relays, Publish(r), UNCHANGED logVars
  PROVE  RelayInv'
<1>0. PICK e \in Ids : e = entry[r] /\ e # None
  BY EntryIsId DEF Publish, RelayInv, AtEntry
<1>1. /\ worker[r] = "found" /\ At(r, "published", e)
      /\ delivered' = [delivered EXCEPT ![e] = @ + 1]
      /\ UNCHANGED <<dispatched, aborted>>
  BY <1>0 DEF Publish
<1>3. /\ worker' \in [Relays -> {"idle", "asleep", "stopped"} \cup AtEntry]
      /\ entry' \in [Relays -> Ids \cup {None}]
      /\ \A q \in Relays : entry'[q] # None <=> worker'[q] \in AtEntry
      /\ AtOutbox'
  BY <1>0, <1>1, AtTypeOK DEF RelayInv, AtOutbox, logVars, AtEntry
<1>4. delivered' \in [Ids -> Nat] /\ delivered'[e] = delivered[e] + 1
      /\ \A i \in Ids \ {e} : delivered'[i] = delivered[i]
  BY <1>0, <1>1 DEF RelayInv, RelayTypeOK
<1>5. RelayTypeOK'
  BY <1>1, <1>3, <1>4 DEF RelayInv, RelayTypeOK, logVars
<1>6. /\ Cardinality(Workers("published", e)') = Cardinality(Workers("published", e)) + 1
      /\ Cardinality(Workers("found", e)') = Cardinality(Workers("found", e)) - 1
  BY <1>0, <1>1, CountAfter DEF RelayInv
<1>7. \A at \in {"found", "published"}, i \in Ids \ {e} :
        Cardinality(Workers(at, i)') = Cardinality(Workers(at, i))
  BY <1>0, <1>1, CountAfter DEF RelayInv
<1>8. delivered[e] \in Nat /\ aborted[e] \in Nat /\ Cardinality(Relays) \in Nat
      /\ Cardinality(Workers("published", e)) \in Nat /\ Cardinality(Workers("found", e)) \in Nat
  BY WorkersCount, RelayAssumption DEF RelayInv, RelayTypeOK
<1>9. ASSUME NEW i \in Ids \ dispatched'
      PROVE  delivered'[i] <= aborted'[i] + Cardinality(Workers("published", i)')
  <2>1. i \notin dispatched /\ aborted' = aborted
        /\ delivered[i] <= aborted[i] + Cardinality(Workers("published", i))
    BY <1>1, <1>9 DEF RelayInv, PaidFor
  <2>2. CASE i = e
    BY <1>4, <1>6, <1>8, <2>1, <2>2
  <2>3. CASE i # e
    BY <1>4, <1>7, <2>1, <2>3
  <2> QED
    BY <2>2, <2>3
<1>10. ASSUME NEW i \in dispatched'
       PROVE  delivered'[i] + Cardinality(Workers("found", i)')
                <= aborted'[i] + Cardinality(Relays)
  <2>1. i \in Ids /\ aborted' = aborted
        /\ delivered[i] + Cardinality(Workers("found", i)) <= aborted[i] + Cardinality(Relays)
    BY <1>1, <1>10 DEF RelayInv, RelayTypeOK, LogTypeOK, OutboxRow, FewLeft
  <2>2. CASE i = e
    BY <1>4, <1>6, <1>8, <2>1, <2>2
  <2>3. CASE i # e
    BY <1>4, <1>7, <2>1, <2>3
  <2> QED
    BY <2>2, <2>3
<1>11. PaidFor'
  BY <1>9 DEF PaidFor
<1>12. FewLeft'
  BY <1>10 DEF FewLeft
<1> QED
  BY <1>3, <1>5, <1>11, <1>12 DEF RelayInv, LogTypeOK, logVars

\* When an entry is marked, everyone who has published it so far is counted
\* among all the workers, next to those who have only found it.
LEMMA MarkRelay ==
  ASSUME RelayInv, NEW r \in Relays, Mark(r), UNCHANGED logVars
  PROVE  RelayInv'
<1>0. PICK e \in Ids : e = entry[r] /\ e # None
  BY EntryIsId DEF Mark, RelayInv, AtEntry
<1>1. PICK label \in {"idle", "asleep"} :
        /\ worker[r] = "published" /\ At(r, label, None)
        /\ dispatched' = dispatched \cup {e}
        /\ UNCHANGED <<delivered, aborted>>
  BY <1>0 DEF Mark
<1>2. e \in {x.id : x \in outbox}
  BY <1>0 DEF RelayInv, AtOutbox
<1>3. RelayTypeOK' /\ AtOutbox'
  BY <1>1, <1>2, AtTypeOK DEF RelayInv, RelayTypeOK, logVars, AtEntry
<1>4. \A i \in Ids : Cardinality(Workers("found", i)') = Cardinality(Workers("found", i))
  BY <1>1, CountAfter DEF RelayInv
<1>5. \A i \in Ids \ {e} :
        Cardinality(Workers("published", i)') = Cardinality(Workers("published", i))
  BY <1>0, <1>1, CountAfter DEF RelayInv
<1>6. PaidFor'
  BY <1>1, <1>5 DEF RelayInv, PaidFor
<1>7. ASSUME NEW i \in dispatched'
      PROVE  delivered'[i] + Cardinality(Workers("found", i)')
               <= aborted'[i] + Cardinality(Relays)
  <2>1. i \in Ids /\ delivered' = delivered /\ aborted' = aborted
    BY <1>0, <1>1 DEF RelayInv, RelayTypeOK, LogTypeOK, OutboxRow
  <2>2. CASE i \in dispatched
    BY <1>4, <2>1, <2>2 DEF RelayInv, FewLeft
  <2>3. CASE i \notin dispatched
    <3>1. delivered[i] <= aborted[i] + Cardinality(Workers("published", i))
      BY <2>1, <2>3 DEF RelayInv, PaidFor
    <3>2. delivered[i] \in Nat /\ aborted[i] \in Nat
      BY <2>1, RelayAssumption DEF RelayInv, RelayTypeOK
    <3> QED
      BY <1>4, <2>1, <3>1, <3>2, WorkersCount
  <2> QED
    BY <2>2, <2>3
<1>8. FewLeft'
  BY <1>7 DEF FewLeft
<1> QED
  BY <1>3, <1>6, <1>8 DEF RelayInv, LogTypeOK, logVars

\* An abandoned attempt pays for the message it may have left behind.
LEMMA AbortRelay ==
  ASSUME RelayInv, NEW r \in Relays, Abort(r), UNCHANGED logVars
  PROVE  RelayInv'
<1>0. PICK e \in Ids : e = entry[r] /\ e # None
  BY EntryIsId DEF Abort, RelayInv
<1>1. PICK label \in {"asleep", "stopped"} :
        /\ worker[r] \in AtEntry /\ At(r, label, None)
        /\ aborted[e] < MaxAborts
        /\ aborted' = [aborted EXCEPT ![e] = @ + 1]
        /\ dispatched' = dispatched
        /\ \/ delivered' = delivered
           \/ worker[r] = "found" /\ delivered' = [delivered EXCEPT ![e] = @ + 1]
  BY <1>0 DEF Abort
<1>2. /\ worker' \in [Relays -> {"idle", "asleep", "stopped"} \cup AtEntry]
      /\ entry' \in [Relays -> Ids \cup {None}]
      /\ \A q \in Relays : entry'[q] # None <=> worker'[q] \in AtEntry
      /\ AtOutbox'
  BY <1>1, AtTypeOK DEF RelayInv, logVars, AtEntry
<1>3. delivered[e] \in Nat /\ aborted[e] \in Nat /\ Cardinality(Relays) \in Nat
      /\ Cardinality(Workers("published", e)) \in Nat /\ Cardinality(Workers("found", e)) \in Nat
  BY WorkersCount, RelayAssumption DEF RelayInv, RelayTypeOK
<1>4. /\ aborted' \in [Ids -> 0 .. MaxAborts] /\ aborted'[e] = aborted[e] + 1
      /\ \A i \in Ids \ {e} : aborted'[i] = aborted[i]
  BY <1>1, <1>3, RelayAssumption DEF RelayInv, RelayTypeOK
<1>5. /\ delivered' \in [Ids -> Nat]
      /\ \A i \in Ids \ {e} : delivered'[i] = delivered[i]
      /\ \/ delivered'[e] = delivered[e]
         \/ worker[r] = "found" /\ delivered'[e] = delivered[e] + 1
  BY <1>1 DEF RelayInv, RelayTypeOK
<1>6. RelayTypeOK'
  BY <1>1, <1>2, <1>4, <1>5 DEF RelayInv, RelayTypeOK, logVars
<1>7. \/ /\ worker[r] = "found"
         /\ Cardinality(Workers("found", e)') = Cardinality(Workers("found", e)) - 1
         /\ Cardinality(Workers("published", e)') = Cardinality(Workers("published", e))
      \/ /\ worker[r] = "published"
         /\ Cardinality(Workers("found", e)') = Cardinality(Workers("found", e))
         /\ Cardinality(Workers("published", e)') = Cardinality(Workers("published", e)) - 1
  BY <1>0, <1>1, CountAfter DEF RelayInv, AtEntry
<1>8. \A at \in {"found", "published"}, i \in Ids \ {e} :
        Cardinality(Workers(at, i)') = Cardinality(Workers(at, i))
  BY <1>0, <1>1, CountAfter DEF RelayInv
<1>9. ASSUME NEW i \in Ids \ dispatched'
      PROVE  delivered'[i] <= aborted'[i] + Cardinality(Workers("published", i)')
  <2>1. delivered[i] <= aborted[i] + Cardinality(Workers("published", i))
    BY <1>1, <1>9 DEF RelayInv, PaidFor
  <2>2. CASE i = e
    BY <1>3, <1>4, <1>5, <1>7, <2>1, <2>2
  <2>3. CASE i # e
    BY <1>4, <1>5, <1>8, <2>1, <2>3
  <2> QED
    BY <2>2, <2>3
<1>10. ASSUME NEW i \in dispatched'
       PROVE  delivered'[i] + Cardinality(Workers("found", i)')
                <= aborted'[i] + Cardinality(Relays)
  <2>1. i \in Ids
        /\ delivered[i] + Cardinality(Workers("found", i)) <= aborted[i] + Cardinality(Relays)
    BY <1>1, <1>10 DEF RelayInv, RelayTypeOK, LogTypeOK, OutboxRow, FewLeft
  <2>2. CASE i = e
    BY <1>3, <1>4, <1>5, <1>7, <2>1, <2>2
  <2>3. CASE i # e
    BY <1>4, <1>5, <1>8, <2>1, <2>3
  <2> QED
    BY <2>2, <2>3
<1>11. PaidFor' /\ FewLeft'
  BY <1>9, <1>10 DEF PaidFor, FewLeft
<1> QED
  BY <1>2, <1>6, <1>11 DEF RelayInv, LogTypeOK, logVars

\* An append adds to the log and leaves the relay where it is.
LEMMA AppendLog ==
  ASSUME LogTypeOK, NEW i \in Ids, NEW s \in Streams, NEW o \in BOOLEAN, AppendNext(i, s, o)
  PROVE  /\ LogTypeOK' /\ events \subseteq events' /\ outbox \subseteq outbox'
<1>1. Cardinality(events) \in Nat
  BY MaxPosAssumption DEF AppendNext, Position
<1> QED
  BY <1>1 DEF AppendNext, AppendEvent, LogTypeOK, Event, OutboxRow, RowOf

\* The other components only add rows to the outbox, which the relay's
\* invariant allows.
LEMMA OthersRelay ==
  ASSUME RelayInv, UNCHANGED relayVars, LogTypeOK', outbox \subseteq outbox'
  PROVE  RelayInv'
<1>1. RelayTypeOK' /\ AtOutbox'
  BY DEF RelayInv, RelayTypeOK, AtOutbox, relayVars
<1>2. \A at, i : Workers(at, i)' = Workers(at, i)
  BY DEF Workers, relayVars
<1>3. PaidFor' /\ FewLeft'
  BY <1>2 DEF RelayInv, PaidFor, FewLeft, relayVars
<1> QED
  BY <1>1, <1>3 DEF RelayInv

\* The relay's invariant is preserved by every step of the composition.
LEMMA NextRelay == ASSUME RelayInv, [Next]_vars PROVE RelayInv'
<1>1. ASSUME NEW i \in Ids, NEW s \in Streams, NEW o \in BOOLEAN, AppendNext(i, s, o)
      PROVE  RelayInv'
  BY <1>1, AppendLog, OthersRelay DEF RelayInv, AppendNext
<1>2. ASSUME NEW r \in Relays, RelayStep(r), UNCHANGED logVars
      PROVE  RelayInv'
  BY <1>2, FindRelay, LoopRelay, PublishRelay, MarkRelay, AbortRelay DEF RelayStep, Proceed
<1>3. CASE UNCHANGED <<logVars, relayVars>>
  BY <1>3, OthersRelay DEF RelayInv, LogTypeOK, logVars
<1> QED
  BY <1>1, <1>2, <1>3 DEF Next, vars

\* With any number of workers over one outbox and no locks, an entry reaches
\* the broker at most once per worker and abandoned attempt.
THEOREM FewDeliveries == Spec => []DeliveriesAreBounded
<1>1. ASSUME RelayInv, NEW i \in Ids
      PROVE  delivered[i] <= Cardinality(Relays) + aborted[i]
  <2>1. delivered[i] \in Nat /\ aborted[i] \in Nat
    BY <1>1, RelayAssumption DEF RelayInv, RelayTypeOK
  <2>2. CASE i \in dispatched
    <3>1. delivered[i] + Cardinality(Workers("found", i)) <= aborted[i] + Cardinality(Relays)
      BY <1>1, <2>2 DEF RelayInv, FewLeft
    <3> QED
      BY <2>1, <3>1, WorkersCount
  <2>3. CASE i \notin dispatched
    <3>1. delivered[i] <= aborted[i] + Cardinality(Workers("published", i))
      BY <1>1, <2>3 DEF RelayInv, PaidFor
    <3> QED
      BY <2>1, <3>1, WorkersCount
  <2> QED
    BY <2>2, <2>3
<1>2. RelayInv => DeliveriesAreBounded
  BY <1>1 DEF DeliveriesAreBounded
<1> QED
  BY <1>2, InitRelay, NextRelay, PTL DEF Spec
-----------------------------------------------------------------------------
(* The lease.  An unexpired grant is covered by a document of its holder   *)
(* that expires no earlier (Covered), so nobody else's update matches it.  *)
(* That a renewal does not shorten what was granted needs the order of the *)
(* calls of one consumer (CallsInOrder): a later call has read a later     *)
(* clock.                                                                  *)

\* Every grant that has not run out is covered by the lease document.
Covered ==
  \A c \in Consumers : clock <= granted[c] =>
    \E d \in leases : d.holder = c /\ granted[c] <= d.expires

\* A call has read a clock that is past, and no earlier than the call that
\* obtained the grant the consumer has.
CallsInOrder ==
  \A c \in Consumers :
    /\ granted[c] <= clock + Ttl
    /\ call[c] \in Time => call[c] <= clock /\ granted[c] <= call[c] + Ttl

LeaseInv == LeaseTypeOK /\ Covered /\ CallsInOrder

\* Nobody holds the lease at the start.
LEMMA InitLease == ASSUME Init PROVE LeaseInv
  BY LeaseAssumption
  DEF Init, LeaseInit, LeaseInv, LeaseTypeOK, Covered, CallsInOrder, Time, Expiry, Idle

\* Time only makes grants expire.
LEMMA TickLease == ASSUME LeaseInv, Tick PROVE LeaseInv'
  BY LeaseAssumption
  DEF Tick, LeaseInv, LeaseTypeOK, Covered, CallsInOrder, Time, Expiry, Idle, Stopped

\* A call is sent with the clock its consumer reads, later than that of its
\* grant.
LEMMA AskLease == ASSUME LeaseInv, NEW c \in Consumers, Ask(c) PROVE LeaseInv'
  BY LeaseAssumption
  DEF Ask, LeaseInv, LeaseTypeOK, Covered, CallsInOrder, Time, Expiry, Idle, Stopped

\* A refused call leaves document and grant as they were.
LEMMA RejectLease == ASSUME LeaseInv, NEW c \in Consumers, Reject(c) PROVE LeaseInv'
  BY LeaseAssumption
  DEF Reject, LeaseInv, LeaseTypeOK, Covered, CallsInOrder, Time, Expiry, Idle, Stopped

\* A call that finds the lease obtainable replaces a document that covers no
\* one else.
LEMMA AcquireLease == ASSUME LeaseInv, NEW c \in Consumers, Acquire(c) PROVE LeaseInv'
<1> DEFINE expires == call[c] + Ttl
           doc == [holder |-> c, expires |-> expires]
<1>1. call[c] \in Time /\ expires \in Expiry /\ leases' = {doc} /\ clock' = clock
  BY LeaseAssumption DEF Acquire, Time, Expiry
<1>2. granted' \in [Consumers -> Expiry \cup {-1}]
  BY <1>1 DEF Acquire, LeaseInv, LeaseTypeOK
<1>3. call' \in [Consumers -> Time \cup {Idle, Stopped}]
  BY DEF Acquire, LeaseInv, LeaseTypeOK
<1>4. LeaseTypeOK'
  BY <1>1, <1>2, <1>3 DEF LeaseInv, LeaseTypeOK
\* What c is told, or was told earlier, the new document covers.
<1>5. granted'[c] <= expires
  BY <1>1, LeaseAssumption DEF Acquire, LeaseInv, LeaseTypeOK, CallsInOrder, Time, Expiry
\* Another unexpired grant would have kept c from the document.
<1>6. ASSUME NEW e \in Consumers, e # c PROVE ~ (clock' <= granted'[e])
  <2>1. granted'[e] = granted[e]
    BY <1>6 DEF Acquire, LeaseInv, LeaseTypeOK
  <2>2. SUFFICES ASSUME clock <= granted[e] PROVE FALSE
    BY <1>1, <2>1
  <2>3. PICK d \in leases : d.holder = e /\ granted[e] <= d.expires
    BY <2>2 DEF LeaseInv, Covered
  <2>4. d.expires < call[c]
    BY <1>6, <2>3 DEF Acquire, Obtainable
  <2>5. call[c] <= clock
    BY <1>1 DEF LeaseInv, CallsInOrder
  <2>6. /\ clock \in Int /\ call[c] \in Int
        /\ granted[e] \in Int /\ d.expires \in Int
    BY <1>1, <2>3, LeaseAssumption DEF LeaseInv, LeaseTypeOK, Time, Expiry
  <2> QED BY <2>2, <2>3, <2>4, <2>5, <2>6
<1>7. Covered'
  BY <1>1, <1>5, <1>6 DEF Covered
<1>8. CallsInOrder'
  BY <1>1, LeaseAssumption
  DEF Acquire, LeaseInv, LeaseTypeOK, CallsInOrder, Time, Expiry, Idle, Stopped
<1> QED BY <1>4, <1>7, <1>8 DEF LeaseInv

\* A release removes only the holder's own document, and gives up the grant
\* with it.
LEMMA ReleaseLease == ASSUME LeaseInv, NEW c \in Consumers, Release(c) PROVE LeaseInv'
<1>1. LeaseTypeOK'
  BY DEF Release, Remaining, LeaseInv, LeaseTypeOK
\* The delete takes no document but the caller's, whose grant is given up.
<1>2. Covered'
  <2>1. SUFFICES ASSUME NEW e \in Consumers, clock' <= granted'[e]
                 PROVE \E d \in leases' : d.holder = e /\ granted'[e] <= d.expires
    BY DEF Covered
  <2>2. e # c
    BY <2>1, LeaseAssumption DEF Release, LeaseInv, LeaseTypeOK, Time
  <2>3. granted'[e] = granted[e] /\ clock' = clock
    BY <2>2 DEF Release, LeaseInv, LeaseTypeOK
  <2>4. PICK d \in leases : d.holder = e /\ granted[e] <= d.expires
    BY <2>1, <2>3 DEF LeaseInv, Covered
  <2> QED BY <2>2, <2>3, <2>4 DEF Release, Remaining
<1>3. CallsInOrder'
  BY LeaseAssumption
  DEF Release, LeaseInv, LeaseTypeOK, CallsInOrder, Time, Expiry, Idle, Stopped
<1> QED BY <1>1, <1>2, <1>3 DEF LeaseInv

\* The other components do not touch the lease.
LEMMA UnchangedLease == ASSUME LeaseInv, UNCHANGED leaseVars PROVE LeaseInv'
  BY DEF leaseVars, LeaseInv, LeaseTypeOK, Covered, CallsInOrder

\* The lease's invariant is preserved by every step of the composition.
LEMMA NextLease == ASSUME LeaseInv, [Next]_vars PROVE LeaseInv'
<1>1. CASE LeaseStep
  BY <1>1, TickLease, AskLease, AcquireLease, RejectLease, ReleaseLease DEF LeaseStep
<1>2. CASE UNCHANGED leaseVars
  BY <1>2, UnchangedLease
<1> QED BY <1>1, <1>2 DEF Next, AppendNext, vars

\* At most one consumer holds an unexpired grant: MongoLease states it, and
\* it holds however the store, its relay and its subscription run alongside.
THEOREM OneGrant == Spec => []OneUnexpiredGrant
<1>1. LeaseInv => OneUnexpiredGrant
  BY DEF LeaseInv, LeaseTypeOK, Covered, OneUnexpiredGrant, Active
<1> QED BY <1>1, InitLease, NextLease, PTL DEF Spec
-----------------------------------------------------------------------------
(* The subscription.  Positions count the events (LogCounted), so whatever *)
(* is inserted later is past everything the consumer has been shown        *)
(* (Located, Ahead, Behind).  Accounted follows the events that are at or  *)
(* before the position in hand: each has been handled, waits in the batch  *)
(* or in the change stream, or fell into the gap between the two.          *)

Positions == 0 .. Cardinality(events) - 1

LogCounted ==
  /\ LogTypeOK
  /\ IsFiniteSet(events)
  /\ \A e \in events : e.pos \in Positions

\* What each stage holds, all of it of events in the log.
Located ==
  /\ stage \in Stages /\ exhausted \in BOOLEAN
  /\ current \in Positions \cup {-1} /\ checkpoint \in Positions \cup {-1}
  /\ batch \subseteq Positions /\ stream \in Seq(Positions) /\ seen \in Seq(Positions)
  /\ stage \notin {"reading", "save_read"} => batch = {}
  /\ stage \in {"down", "starting"} => ~ exhausted
  /\ Watching => exhausted
  /\ stage = "handed" => current \in Positions
  /\ ~ Watching => stream = <<>>

\* What is still to come is past the position in hand, in order.
Ahead ==
  /\ \A p \in batch : current < p
  /\ \A k \in 1 .. Len(stream) : current < stream[k]
  /\ Ascending(stream)

\* What this run has handled is not.
Behind ==
  /\ stage = "handed" => \A k \in 1 .. Len(seen) : seen[k] < current
  /\ stage # "down" => \A k \in 1 .. Len(seen) : seen[k] <= current
  /\ Ascending(seen)

\* Handled, in the handler's hands, or missed between the phases.
Past == ever \cup gap \cup (IF stage = "handed" THEN {current} ELSE {})

Accounted ==
  /\ SkippedOnlyInTheGap
  /\ stage # "down" => \A e \in events : e.pos <= current => e.pos \in Past
  /\ \A e \in events : \A p \in batch : e.pos < p => e.pos \in Past \cup batch
  /\ exhausted => \A e \in events :
       e.pos \in Past \cup batch \/ \E k \in 1 .. Len(stream) : stream[k] = e.pos

SubInv == LogCounted /\ Located /\ Ahead /\ Behind /\ Accounted

\* Nothing has been handled of an empty log.
LEMMA InitSub == Init => SubInv
<1> SUFFICES ASSUME Init PROVE SubInv
  OBVIOUS
<1>1. /\ events = {} /\ stage = "down" /\ exhausted = FALSE /\ batch = {} /\ stream = <<>>
      /\ current = -1 /\ checkpoint = -1 /\ seen = <<>>
  BY DEF Init, LogInit, SubInit
<1>2. LogCounted
  BY <1>1, FS_EmptySet DEF Init, LogInit, LogCounted, LogTypeOK
<1>3. Located
  BY <1>1, EmptySeq DEF Located, Stages, Watching
<1>4. Ahead /\ Behind /\ Accounted
  BY <1>1 DEF Ahead, Behind, Ascending, Accounted, SkippedOnlyInTheGap
<1> QED
  BY <1>2, <1>3, <1>4 DEF SubInv

\* Positions are numbers.
LEMMA PositionsAreInts ==
  ASSUME LogCounted
  PROVE  Cardinality(events) \in Nat /\ Positions \subseteq Nat
  BY FS_CardinalityType DEF LogCounted, Positions

\* What the subscription keeps are numbers, as sequences of positions or one
\* by one.
LEMMA SequencesOfInts ==
  ASSUME LogCounted, Located
  PROVE  /\ stream \in Seq(Positions) /\ stream \in Seq(Int)
         /\ seen \in Seq(Positions) /\ seen \in Seq(Int)
         /\ current \in Int /\ checkpoint \in Int /\ batch \subseteq Int
         /\ \A e \in events : e.pos \in Int
<1>1. Positions \subseteq Int
  BY PositionsAreInts
<1>2. stream \in Seq(Positions) /\ seen \in Seq(Positions)
  BY DEF Located
<1>3. stream \in Seq(Int) /\ seen \in Seq(Int)
  BY <1>1, <1>2, SeqMonotonic, Zenon
<1>4. current \in Int /\ checkpoint \in Int
  BY <1>1 DEF Located
<1> QED
  BY <1>1, <1>2, <1>3, <1>4 DEF Located, LogCounted

\* The last position is new, and past all others.
LEMMA LogAfter ==
  ASSUME LogCounted, NEW i \in Ids, NEW s \in Streams, NEW o \in BOOLEAN, AppendNext(i, s, o)
  PROVE  /\ LogCounted'
         /\ Positions' = Positions \cup {Cardinality(events)}
         /\ \A p \in Positions : p < Cardinality(events)
         /\ events \subseteq events'
         /\ \A e \in events' : e \in events \/ e.pos = Cardinality(events)
<1> DEFINE n == Cardinality(events)
           new == [id |-> i, stream |-> s, version |-> next[s], pos |-> n]
<1>1. n \in Nat
  BY PositionsAreInts
<1>2. events' = events \cup {new} /\ new.id = i /\ new.pos = n
  BY DEF AppendNext, AppendEvent
<1>3. new \notin events
  BY <1>2 DEF AppendNext, AppendEvent
<1> HIDE DEF new
<1>4. Cardinality(events') = n + 1 /\ IsFiniteSet(events')
  BY <1>2, <1>3, FS_AddElement DEF LogCounted
<1> HIDE DEF n
<1>5. Positions = 0 .. n - 1 /\ Positions' = 0 .. n
  BY <1>1, <1>4 DEF Positions, n
<1>6. LogTypeOK'
  BY AppendLog DEF LogCounted
<1>7. \A e \in events' : e \in events \/ e.pos = n
  BY <1>2
<1>8. \A e \in events' : e.pos \in Positions'
  BY <1>1, <1>5, <1>7 DEF LogCounted
<1> QED
  BY <1>1, <1>2, <1>4, <1>5, <1>6, <1>7, <1>8 DEF LogCounted, n

\* What is inserted joins the change stream, or falls into the gap, or waits
\* for the next batch.
LEMMA AppendSub ==
  ASSUME SubInv, NEW i \in Ids, NEW s \in Streams, NEW o \in BOOLEAN, AppendNext(i, s, o)
  PROVE  SubInv'
<1>0. PICK p : p = Cardinality(events)
  OBVIOUS
<1>1. /\ LogCounted' /\ Positions' = Positions \cup {p}
      /\ \A q \in Positions : q < p
      /\ events \subseteq events'
      /\ \A e \in events' : e \in events \/ e.pos = p
  BY <1>0, LogAfter DEF SubInv
<1>2. p \in Nat /\ Positions \subseteq Nat
  BY <1>0, PositionsAreInts DEF SubInv
<1>3. /\ stream' = IF Watching THEN stream \o <<p>> ELSE stream
      /\ gap' = IF exhausted /\ ~ Watching THEN gap \cup {p} ELSE gap
      /\ UNCHANGED <<stage, exhausted, batch, current, checkpoint, seen, ever, runs>>
  BY <1>0 DEF AppendNext, Observe
<1>4. /\ stream \o <<p>> \in Seq(Positions')
      /\ Len(stream) \in Nat /\ Len(stream \o <<p>>) = Len(stream) + 1
      /\ \A k \in 1 .. Len(stream) : (stream \o <<p>>)[k] = stream[k]
      /\ (stream \o <<p>>)[Len(stream) + 1] = p
  <2>1. stream \in Seq(Positions') /\ p \in Positions'
    BY <1>1, SeqMonotonic DEF SubInv, Located
  <2> QED
    BY <2>1, OneMore
<1>5. Located'
  <2>1. stream' \in Seq(Positions') /\ seen \in Seq(Positions')
    BY <1>1, <1>3, <1>4, SeqMonotonic DEF SubInv, Located
  <2>2. Watching' <=> Watching
    BY <1>3 DEF Watching
  <2> QED
    BY <1>1, <1>3, <2>1, <2>2 DEF SubInv, Located
<1>6. Ahead'
  <2>1. CASE Watching
    <3>1. current < p
      BY <1>1, <1>2 DEF SubInv, Located
    <3>2. stream \in Seq(Positions) /\ stream \in Seq(Int) /\ p \in Int
      BY <1>2, SequencesOfInts DEF SubInv
    <3>5. \A k \in 1 .. Len(stream) : stream[k] < p
      BY <1>1, <3>2, ElementOfSeq
    <3>3. Ascending(stream \o <<p>>)
      BY <3>2, <3>5, OneMoreAscends DEF SubInv, Ahead
    <3>4. \A k \in 1 .. Len(stream) + 1 : current < (stream \o <<p>>)[k]
      BY <1>4, <3>1 DEF SubInv, Ahead
    <3> QED
      BY <1>3, <1>4, <2>1, <3>3, <3>4 DEF SubInv, Ahead
  <2>2. CASE ~ Watching
    BY <1>3, <2>2 DEF SubInv, Ahead
  <2> QED
    BY <2>1, <2>2
<1>7. Behind'
  BY <1>3 DEF SubInv, Behind
<1>8. Accounted'
  <2>1. Past \subseteq Past'
    BY <1>3 DEF Past
  <2>2. p > current /\ p > checkpoint /\ \A q \in batch : q < p
    BY <1>1, <1>2 DEF SubInv, Located
  <2>3. SkippedOnlyInTheGap'
    BY <1>1, <1>2, <1>3, <2>2 DEF SubInv, Located, Accounted, SkippedOnlyInTheGap
  <2>4. stage' # "down" => \A e \in events' : e.pos <= current' => e.pos \in Past'
    BY <1>1, <1>2, <1>3, <2>1, <2>2 DEF SubInv, Located, Accounted
  <2>5. \A e \in events' : \A q \in batch' : e.pos < q => e.pos \in Past' \cup batch'
    BY <1>1, <1>2, <1>3, <2>1, <2>2 DEF SubInv, Located, Accounted
  <2>6. exhausted' => \A e \in events' :
          e.pos \in Past' \cup batch' \/ \E k \in 1 .. Len(stream') : stream'[k] = e.pos
    BY <1>1, <1>3, <1>4, <2>1 DEF SubInv, Accounted, Past
  <2> QED
    BY <2>3, <2>4, <2>5, <2>6 DEF Accounted
<1> QED
  BY <1>1, <1>5, <1>6, <1>7, <1>8 DEF SubInv

\* What a step of the subscription itself does not need to know of the log.
LEMMA LogKept ==
  ASSUME LogCounted, UNCHANGED logVars
  PROVE  LogCounted' /\ Positions' = Positions /\ events' = events
  BY DEF logVars, LogCounted, LogTypeOK, Positions

\* A run starts from the checkpoint, with nothing in hand.
LEMMA StartSub == ASSUME SubInv, Start, UNCHANGED logVars PROVE SubInv'
<1>1. LogCounted' /\ Positions' = Positions /\ events' = events
  BY LogKept DEF SubInv
<1>2. Located'
  BY <1>1, EmptySeq DEF SubInv, Located, Start, Stages, Watching
<1>3. stream = <<>> /\ batch = {} /\ ~ exhausted
  BY DEF SubInv, Located, Start, Watching
<1>4. Ahead' /\ Behind'
  BY <1>3 DEF SubInv, Ahead, Behind, Ascending, Start
<1>5. Accounted'
  BY <1>1, <1>3 DEF SubInv, Accounted, SkippedOnlyInTheGap, Past, Start
<1> QED
  BY <1>1, <1>2, <1>4, <1>5 DEF SubInv

\* The batch is the first of what follows the position in hand; a batch that
\* closes the cursor is all of it.
LEMMA FetchSub == ASSUME SubInv, FetchBatch, UNCHANGED logVars PROVE SubInv'
<1>1. LogCounted' /\ Positions' = Positions /\ events' = events
  BY LogKept DEF SubInv
<1>2. PICK b \in SUBSET After(current) :
        /\ \A p \in b, q \in After(current) \ b : p < q
        /\ exhausted' \in BOOLEAN /\ (exhausted' => After(current) \subseteq b)
        /\ batch' = b
  BY DEF FetchBatch
<1>3. /\ stage \in {"starting", "reading"} /\ ~ exhausted /\ stage' = "reading"
      /\ UNCHANGED <<stream, current, checkpoint, seen, ever, gap, runs>>
  BY DEF SubInv, Located, FetchBatch
<1>4. \A q : q \in After(current) <=> \E e \in events : e.pos = q /\ q > current
  BY DEF After
<1>5. Located'
  BY <1>1, <1>2, <1>3, <1>4 DEF SubInv, LogCounted, Located, Stages, Watching
<1>6. Ahead' /\ Behind'
  BY <1>2, <1>3, <1>4 DEF SubInv, Ahead, Behind
<1>7. Past' = Past /\ \A e \in events : e.pos <= current => e.pos \in Past
  BY <1>3 DEF SubInv, Accounted, Past
<1>8. ASSUME NEW e \in events, e.pos \notin Past
      PROVE  /\ e.pos \in b \/ \A p \in b : p < e.pos
             /\ exhausted' => e.pos \in b
  <2>1. e.pos \in After(current)
    BY <1>4, <1>7, <1>8, SequencesOfInts DEF SubInv
  <2> QED
    BY <1>2, <2>1
<1>9. \A p \in b : p \in Int
  BY <1>2, <1>4, SequencesOfInts DEF SubInv
<1>10. SkippedOnlyInTheGap'
  BY <1>1, <1>3 DEF SubInv, Accounted, SkippedOnlyInTheGap
<1>11. ASSUME NEW e \in events, NEW p \in b, e.pos < p
       PROVE  e.pos \in Past \cup b
  BY <1>8, <1>9, <1>11, SequencesOfInts DEF SubInv
<1>12. Accounted'
  BY <1>1, <1>2, <1>3, <1>7, <1>8, <1>10, <1>11 DEF Accounted
<1> QED
  BY <1>1, <1>5, <1>6, <1>12 DEF SubInv

\* The handler is given a position beyond those this run has handled.
LEMMA HandledAscends ==
  ASSUME LogCounted, Located, Ascending(seen), NEW p \in Positions, Handle(p),
         \A k \in 1 .. Len(seen) : seen[k] < p
  PROVE  /\ seen' \in Seq(Positions) /\ Ascending(seen')
         /\ \A k \in 1 .. Len(seen') : seen'[k] <= p
<1>1. seen \in Seq(Positions) /\ seen \in Seq(Int) /\ p \in Int /\ seen' = seen \o <<p>>
  BY SequencesOfInts, PositionsAreInts DEF Handle
<1>2. /\ seen' \in Seq(Positions) /\ Len(seen) \in Nat /\ Len(seen') = Len(seen) + 1
      /\ \A k \in 1 .. Len(seen) : seen'[k] = seen[k]
      /\ seen'[Len(seen) + 1] = p
  BY <1>1, OneMore
<1>3. Ascending(seen')
  BY <1>1, OneMoreAscends
<1>4. ASSUME NEW k \in 1 .. Len(seen) + 1
      PROVE  seen'[k] <= p
  <2>1. CASE k \in 1 .. Len(seen)
    <3>1. seen[k] \in Int
      BY <1>1, <2>1, ElementOfSeq
    <3> QED
      BY <1>1, <1>2, <2>1, <3>1
  <2>2. CASE k = Len(seen) + 1
    BY <1>1, <1>2, <2>2
  <2> QED
    BY <1>2, <2>1, <2>2
<1> QED
  BY <1>2, <1>3, <1>4

\* The least of the batch is handled; what is before it was accounted for.
LEMMA HandleReadSub == ASSUME SubInv, HandleRead, UNCHANGED logVars PROVE SubInv'
<1>1. LogCounted' /\ Positions' = Positions /\ events' = events
  BY LogKept DEF SubInv
<1>2. PICK p \in batch : (\A q \in batch : p <= q) /\ Handle(p) /\ batch' = batch \ {p}
  BY DEF HandleRead
<1>3. /\ current' = p /\ ever' = ever \cup {p}
      /\ stage = "reading" /\ stage' = "save_read"
      /\ UNCHANGED <<exhausted, stream, checkpoint, gap>>
  BY <1>2 DEF HandleRead, Handle
<1>4. p \in Positions /\ p \in Int /\ current < p /\ current \in Int
      /\ stream = <<>> /\ batch \subseteq Int
  BY <1>3, SequencesOfInts DEF SubInv, Located, Ahead, Watching
<1>5. \A k \in 1 .. Len(seen) : seen[k] < p
  <2>1. \A k \in 1 .. Len(seen) : seen[k] <= current /\ seen[k] \in Int
    BY <1>3, SequencesOfInts, ElementOfSeq DEF SubInv, Behind
  <2> QED
    BY <1>4, <2>1
<1>6. /\ seen' \in Seq(Positions) /\ Ascending(seen')
      /\ \A k \in 1 .. Len(seen') : seen'[k] <= p
  BY <1>2, <1>4, <1>5, HandledAscends DEF SubInv, Behind
<1>7. Located'
  BY <1>1, <1>2, <1>3, <1>4, <1>6 DEF SubInv, Located, Stages, Watching
<1>8. Behind'
  BY <1>3, <1>6 DEF Behind
<1>9. Ahead'
  <2>1. \A q \in batch' : p < q
    BY <1>2, <1>4
  <2> QED
    BY <1>3, <1>4, <2>1 DEF SubInv, Ahead
<1>10. Past' = Past \cup {p}
  BY <1>3 DEF Past
<1>11. ASSUME NEW e \in events
       PROVE  /\ e.pos \in Past \cup batch => e.pos \in Past' \cup batch'
              /\ e.pos <= p => e.pos \in Past'
  <2>1. e.pos \in Int
    BY SequencesOfInts DEF SubInv
  <2>2. e.pos < p => e.pos \in Past \cup batch
    BY DEF SubInv, Accounted
  <2>3. e.pos \in batch => p <= e.pos
    BY <1>2
  <2>4. e.pos < p \/ e.pos = p \/ p < e.pos
    BY <1>4, <2>1
  <2> QED
    BY <1>2, <1>4, <1>10, <2>1, <2>2, <2>3, <2>4
<1>12. Accounted'
  <2>1. SkippedOnlyInTheGap'
    BY <1>1, <1>3 DEF SubInv, Accounted, SkippedOnlyInTheGap
  <2>2. ASSUME NEW e \in events, NEW q \in batch', e.pos < q
        PROVE  e.pos \in Past' \cup batch'
    BY <1>2, <1>11, <2>2 DEF SubInv, Accounted
  <2>3. exhausted => \A e \in events : e.pos \in Past' \cup batch'
    BY <1>4, <1>11 DEF SubInv, Accounted
  <2> QED
    BY <1>1, <1>3, <1>11, <2>1, <2>2, <2>3 DEF Accounted
<1> QED
  BY <1>1, <1>7, <1>8, <1>9, <1>12 DEF SubInv

\* The checkpoint is what has just been handled.
LEMMA SaveSub ==
  ASSUME SubInv, SaveRead \/ SaveLive, UNCHANGED logVars
  PROVE  SubInv'
<1>1. LogCounted' /\ Positions' = Positions /\ events' = events
  BY LogKept DEF SubInv
<1>2. /\ checkpoint' = current
      /\ \/ stage = "save_read" /\ stage' = "reading"
         \/ stage = "save_live" /\ stage' = "watching"
      /\ UNCHANGED <<exhausted, batch, stream, current, seen, ever, gap>>
  BY DEF SaveRead, SaveLive, Saved
<1>3. Located'
  BY <1>1, <1>2 DEF SubInv, Located, Stages, Watching
<1>4. Ahead' /\ Behind'
  BY <1>2 DEF SubInv, Ahead, Behind
<1>5. Past' = Past /\ Past = ever \cup gap
  BY <1>2 DEF Past
<1>6. \A e \in events : e.pos <= current => e.pos \in ever \cup gap
  BY <1>2, <1>5 DEF SubInv, Accounted
<1>7. Accounted'
  BY <1>1, <1>2, <1>5, <1>6 DEF SubInv, Accounted, SkippedOnlyInTheGap
<1> QED
  BY <1>1, <1>3, <1>4, <1>7 DEF SubInv

\* The change stream opens after the last document of the cursor.
LEMMA WatchSub == ASSUME SubInv, Watch, UNCHANGED logVars PROVE SubInv'
<1>1. LogCounted' /\ Positions' = Positions /\ events' = events
  BY LogKept DEF SubInv
<1>2. /\ stage = "reading" /\ stage' = "watching" /\ batch = {} /\ exhausted
      /\ UNCHANGED <<exhausted, batch, stream, current, checkpoint, seen, ever, gap>>
  BY DEF Watch
<1>3. Located'
  BY <1>1, <1>2 DEF SubInv, Located, Stages, Watching
<1>4. Ahead' /\ Behind'
  BY <1>2 DEF SubInv, Ahead, Behind
<1>5. Past' = Past
  BY <1>2 DEF Past
<1>6. Accounted'
  BY <1>1, <1>2, <1>5 DEF SubInv, Accounted, SkippedOnlyInTheGap
<1> QED
  BY <1>1, <1>3, <1>4, <1>6 DEF SubInv

\* The first insert of the change stream is the first event not accounted for.
LEMMA ReceiveSub == ASSUME SubInv, Receive, UNCHANGED logVars PROVE SubInv'
<1>1. LogCounted' /\ Positions' = Positions /\ events' = events
  BY LogKept DEF SubInv
<1>2. /\ stage = "watching" /\ stage' = "handed" /\ stream # <<>>
      /\ current' = Head(stream) /\ stream' = Tail(stream)
      /\ UNCHANGED <<exhausted, batch, checkpoint, seen, ever, gap>>
  BY DEF Receive
<1>3. /\ stream \in Seq(Positions) /\ stream \in Seq(Int)
      /\ seen \in Seq(Int) /\ current \in Int
  BY SequencesOfInts DEF SubInv
<1>4. /\ Head(stream) = stream[1] /\ Head(stream) \in Positions /\ 1 \in 1 .. Len(stream)
      /\ Tail(stream) \in Seq(Positions)
      /\ \A k \in 1 .. Len(stream) :
           k = 1 \/ (k - 1 \in 1 .. Len(Tail(stream)) /\ stream[k] = Tail(stream)[k - 1])
  BY <1>2, <1>3, OneLess
<1>5. Ascending(Tail(stream)) /\ \A k \in 1 .. Len(Tail(stream)) : Head(stream) < Tail(stream)[k]
  BY <1>2, <1>3, OneLessAscends DEF SubInv, Ahead
<1>6. Head(stream) \in Int /\ current < Head(stream)
  BY <1>1, <1>3, <1>4, PositionsAreInts DEF SubInv, Ahead
<1>7. batch = {} /\ exhausted
  BY <1>2 DEF SubInv, Located, Watching
<1>8. Located'
  BY <1>1, <1>2, <1>4, <1>7 DEF SubInv, Located, Stages, Watching
<1>9. Ahead'
  BY <1>2, <1>5, <1>7 DEF Ahead
<1>10. Behind'
  <2>1. \A k \in 1 .. Len(seen) : seen[k] <= current /\ seen[k] \in Int
    BY <1>2, <1>3, ElementOfSeq DEF SubInv, Behind
  <2>2. \A k \in 1 .. Len(seen) : seen[k] < Head(stream) /\ seen[k] <= Head(stream)
    BY <1>3, <1>6, <2>1
  <2> QED
    BY <1>2, <2>2 DEF SubInv, Behind
<1>11. Past' = Past \cup {Head(stream)}
  BY <1>2 DEF Past
<1>12. \A e \in events :
         e.pos \in Past' \/ \E k \in 1 .. Len(Tail(stream)) : Tail(stream)[k] = e.pos
  BY <1>4, <1>7, <1>11 DEF SubInv, Accounted
<1>13. ASSUME NEW e \in events, e.pos <= Head(stream)
       PROVE  e.pos \in Past'
  <2>1. e.pos \in Int
    BY SequencesOfInts DEF SubInv
  <2>2. \A k \in 1 .. Len(Tail(stream)) : Tail(stream)[k] # e.pos
    BY <1>5, <1>6, <1>13, <2>1
  <2> QED
    BY <1>12, <2>2
<1>14. SkippedOnlyInTheGap'
  BY <1>1, <1>2 DEF SubInv, Accounted, SkippedOnlyInTheGap
<1>15. Accounted'
  BY <1>1, <1>2, <1>7, <1>12, <1>13, <1>14 DEF Accounted
<1> QED
  BY <1>1, <1>8, <1>9, <1>10, <1>15 DEF SubInv

\* The event in hand joins those handled.
LEMMA HandleLiveSub == ASSUME SubInv, HandleLive, UNCHANGED logVars PROVE SubInv'
<1>1. LogCounted' /\ Positions' = Positions /\ events' = events
  BY LogKept DEF SubInv
<1>2. /\ stage = "handed" /\ stage' = "save_live" /\ Handle(current)
      /\ current' = current /\ ever' = ever \cup {current}
      /\ UNCHANGED <<exhausted, batch, stream, checkpoint, gap>>
  BY DEF HandleLive, Handle
<1>3. /\ seen' \in Seq(Positions) /\ Ascending(seen')
      /\ \A k \in 1 .. Len(seen') : seen'[k] <= current
  BY <1>2, HandledAscends DEF SubInv, Behind, Located
<1>4. Located'
  BY <1>1, <1>2, <1>3 DEF SubInv, Located, Stages, Watching
<1>5. Ahead' /\ Behind'
  BY <1>2, <1>3 DEF SubInv, Ahead, Behind
<1>6. Past' = Past
  BY <1>2 DEF Past
<1>7. Accounted'
  BY <1>1, <1>2, <1>6 DEF SubInv, Accounted, SkippedOnlyInTheGap
<1> QED
  BY <1>1, <1>4, <1>5, <1>7 DEF SubInv

\* A run ends; the checkpoint and the histories remain.
LEMMA CrashSub == ASSUME SubInv, Crash, UNCHANGED logVars PROVE SubInv'
<1>1. LogCounted' /\ Positions' = Positions /\ events' = events
  BY LogKept DEF SubInv
<1>2. /\ stage' = "down" /\ exhausted' = FALSE /\ batch' = {} /\ stream' = <<>>
      /\ current' = -1
      /\ UNCHANGED <<checkpoint, seen, ever, gap>>
  BY DEF Crash
<1>3. Located'
  BY <1>1, <1>2, EmptySeq DEF SubInv, Located, Stages, Watching
<1>4. Ahead' /\ Behind'
  BY <1>2 DEF SubInv, Ahead, Behind, Ascending
<1>5. Accounted'
  BY <1>1, <1>2 DEF SubInv, Accounted, SkippedOnlyInTheGap
<1> QED
  BY <1>1, <1>3, <1>4, <1>5 DEF SubInv

\* The subscription's invariant is preserved by every step of the
\* composition.
LEMMA NextSub == ASSUME SubInv, [Next]_vars PROVE SubInv'
<1>1. ASSUME NEW i \in Ids, NEW s \in Streams, NEW o \in BOOLEAN, AppendNext(i, s, o)
      PROVE  SubInv'
  BY <1>1, AppendSub
<1>2. CASE SubStep /\ UNCHANGED logVars
  BY <1>2, StartSub, FetchSub, HandleReadSub, SaveSub, WatchSub, ReceiveSub, HandleLiveSub,
     CrashSub DEF SubStep
<1>3. CASE UNCHANGED <<logVars, subVars>>
  <2>1. LogCounted' /\ Positions' = Positions /\ events' = events
    BY <1>3, LogKept DEF SubInv
  <2>2. UNCHANGED <<stage, exhausted, batch, stream, current, checkpoint, seen, ever, gap>>
    BY <1>3 DEF subVars
  <2>3. Located' /\ Ahead' /\ Behind'
    BY <2>1, <2>2 DEF SubInv, Located, Ahead, Behind, Watching
  <2>4. Accounted'
    BY <2>1, <2>2 DEF SubInv, Accounted, SkippedOnlyInTheGap, Past
  <2> QED
    BY <2>1, <2>3, <2>4 DEF SubInv
<1> QED
  BY <1>1, <1>2, <1>3 DEF Next, vars

\* Whatever the sizes of the batches, the crashes and the restarts: an event
\* the checkpoint has passed was handled, or inserted in the gap.
THEOREM OnlyTheGapIsSkipped == Spec => []SkippedOnlyInTheGap
<1>1. SubInv => SkippedOnlyInTheGap
  BY DEF SubInv, Accounted
<1> QED
  BY <1>1, InitSub, NextSub, PTL DEF Spec

\* A run hands its events over in position order, each once.
THEOREM RunsAscend == Spec => []AscendingInARun
<1>1. SubInv => AscendingInARun
  BY DEF SubInv, Behind, Ascending, AscendingInARun
<1> QED
  BY <1>1, InitSub, NextSub, PTL DEF Spec
=============================================================================
