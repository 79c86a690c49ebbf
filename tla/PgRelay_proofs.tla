--------------------------- MODULE PgRelay_proofs ---------------------------
(***************************************************************************)
(* Safety of PgRelay for any number of workers, entries and abandoned      *)
(* attempts: how often an entry is delivered, and in which order.          *)
(*                                                                         *)
(* That concurrency alone never delivers twice is not inductive: it needs  *)
(* to know, for each entry, how far the one transaction that holds its row *)
(* has got.  Attempted counts an entry as delivered once when it is        *)
(* dispatched or when its holder has published it; exclusive row locks     *)
(* (RowHeldOnce) make that the only delivery no abort has paid for.        *)
(***************************************************************************)
EXTENDS PgRelay, TLAPS

\* Workers that have published the entry they hold and not yet committed.
Delivering(i) == \E r \in Relays : row[r] = i /\ worker[r] \in {"published", "marked"}

\* A worker holds an entry of the outbox that is not dispatched, alone.
HeldRows ==
  /\ \A r \in Relays : row[r] # None => \E x \in outbox : x.id = row[r]
  /\ RowHeldOnce

Attempted ==
  \A i \in Ids :
    /\ delivered[i] <= aborted[i] + (IF i \in dispatched \/ Delivering(i) THEN 1 ELSE 0)
    /\ i \in dispatched \/ Delivering(i) => delivered[i] >= 1

Inv == RelayTypeOK /\ HeldRows /\ Attempted
-----------------------------------------------------------------------------
\* Nothing is held, dispatched or delivered at the start.
LEMMA InitInv == RelayInit => Inv
<1> SUFFICES ASSUME RelayInit PROVE Inv
  OBVIOUS
<1> USE DEF RelayInit, WorkersAt
<1>1. RelayTypeOK
  BY RelayAssumption DEF LogInit, RelayTypeOK, LogTypeOK, InTx
<1>2. HeldRows /\ Attempted
  BY DEF HeldRows, RowHeldOnce, Attempted, Delivering, InTx
<1> QED
  BY <1>1, <1>2 DEF Inv

\* An append adds rows to the outbox and takes none away.
LEMMA LogInv ==
  ASSUME Inv, LogNext, UNCHANGED relayVars
  PROVE  Inv'
<1> USE DEF relayVars
<1>1. PICK i \in Ids, s \in Streams, p \in 0 .. MaxPos, o \in BOOLEAN : AppendEvent(i, s, p, o)
  BY DEF LogNext
<1>2. LogTypeOK'
  BY <1>1, MaxPosAssumption DEF Inv, RelayTypeOK, LogTypeOK, AppendEvent, Event, OutboxRow, RowOf
<1>3. outbox \subseteq outbox'
  BY <1>1 DEF AppendEvent
<1>4. RelayTypeOK'
  BY <1>2, <1>3 DEF Inv, RelayTypeOK
<1>5. HeldRows'
  BY <1>3 DEF Inv, HeldRows, RowHeldOnce
<1>6. Attempted'
  BY DEF Inv, Attempted, Delivering
<1> QED
  BY <1>4, <1>5, <1>6 DEF Inv

\* SKIP LOCKED: the row chosen is pending and no other worker has it.
LEMMA SelectInv ==
  ASSUME Inv, NEW r \in Relays, Select(r)
  PROVE  Inv'
<1>1. PICK x \in Candidates : row' = [row EXCEPT ![r] = x.id]
  BY DEF Select
<1>2. /\ x \in outbox /\ x.id \in Ids /\ x.id # None /\ x.id \notin dispatched
      /\ \A q \in Relays : row[q] # x.id
  BY RelayAssumption DEF Inv, RelayTypeOK, LogTypeOK, OutboxRow, Candidates, Locked
<1>3. /\ worker[r] = "idle" /\ worker' = [worker EXCEPT ![r] = "selected"]
      /\ UNCHANGED <<logVars, dispatched, delivered, aborted>>
  BY DEF Select, Goto
<1>4. RelayTypeOK'
  BY <1>1, <1>2, <1>3 DEF Inv, RelayTypeOK, LogTypeOK, logVars, InTx
<1>5. HeldRows'
  BY <1>1, <1>2, <1>3 DEF Inv, RelayTypeOK, HeldRows, RowHeldOnce, logVars, InTx
<1>6. \A i \in Ids : Delivering(i)' <=> Delivering(i)
  BY <1>1, <1>2, <1>3 DEF Inv, RelayTypeOK, Delivering, InTx
<1> QED
  BY <1>3, <1>4, <1>5, <1>6 DEF Inv, Attempted

\* Sleeping, waking and stopping happen outside transactions.
LEMMA LoopInv ==
  ASSUME Inv, NEW r \in Relays, FindNothing(r) \/ Wake(r) \/ Shutdown(r)
  PROVE  Inv'
<1>1. PICK label \in {"idle", "asleep", "stopped"} :
        /\ worker[r] \in {"idle", "asleep"} /\ worker' = [worker EXCEPT ![r] = label]
        /\ UNCHANGED <<logVars, row, dispatched, delivered, aborted>>
  BY DEF FindNothing, Wake, Shutdown, Goto
<1>2. RelayTypeOK'
  BY <1>1 DEF Inv, RelayTypeOK, LogTypeOK, logVars, InTx
<1>3. HeldRows'
  BY <1>1 DEF Inv, RelayTypeOK, HeldRows, RowHeldOnce, logVars, InTx
<1>4. \A i \in Ids : Delivering(i)' <=> Delivering(i)
  BY <1>1 DEF Inv, RelayTypeOK, Delivering, InTx
<1> QED
  BY <1>1, <1>2, <1>3, <1>4 DEF Inv, Attempted

\* The publication of an entry nobody has delivered on account so far.
LEMMA PublishInv ==
  ASSUME Inv, NEW r \in Relays, Publish(r)
  PROVE  Inv'
<1>1. /\ worker[r] = "selected" /\ worker' = [worker EXCEPT ![r] = "published"]
      /\ delivered' = [delivered EXCEPT ![row[r]] = @ + 1]
      /\ UNCHANGED <<logVars, row, dispatched, aborted>>
  BY DEF Publish, Goto
<1>2. row[r] \in Ids
  BY <1>1 DEF Inv, RelayTypeOK, InTx
<1>3. RelayTypeOK'
  BY <1>1, <1>2 DEF Inv, RelayTypeOK, LogTypeOK, logVars, InTx
<1>4. HeldRows'
  BY <1>1 DEF Inv, RelayTypeOK, HeldRows, RowHeldOnce, logVars, InTx
<1>5. row[r] \notin dispatched /\ ~ Delivering(row[r]) /\ Delivering(row[r])'
  BY <1>1 DEF Inv, RelayTypeOK, HeldRows, RowHeldOnce, Delivering, InTx
<1>6. \A i \in Ids : i # row[r] => (Delivering(i)' <=> Delivering(i))
  BY <1>1 DEF Inv, RelayTypeOK, Delivering
<1>7. Attempted'
  BY <1>1, <1>2, <1>5, <1>6 DEF Inv, RelayTypeOK, Attempted
<1> QED
  BY <1>3, <1>4, <1>7 DEF Inv

\* Marking is private to the transaction.
LEMMA MarkInv ==
  ASSUME Inv, NEW r \in Relays, Mark(r)
  PROVE  Inv'
<1>1. /\ worker[r] = "published" /\ worker' = [worker EXCEPT ![r] = "marked"]
      /\ UNCHANGED <<logVars, row, dispatched, delivered, aborted>>
  BY DEF Mark, MarkAfter, Goto
<1>2. RelayTypeOK'
  BY <1>1 DEF Inv, RelayTypeOK, LogTypeOK, logVars, InTx
<1>3. HeldRows'
  BY <1>1 DEF Inv, RelayTypeOK, HeldRows, RowHeldOnce, logVars, InTx
<1>4. \A i \in Ids : Delivering(i)' <=> Delivering(i)
  BY <1>1 DEF Inv, RelayTypeOK, Delivering
<1> QED
  BY <1>1, <1>2, <1>3, <1>4 DEF Inv, Attempted

\* The commit turns "being delivered" into "dispatched".
LEMMA CommitInv ==
  ASSUME Inv, NEW r \in Relays, Commit(r)
  PROVE  Inv'
<1>1. PICK label \in {"idle", "asleep"} :
        /\ worker[r] = "marked" /\ worker' = [worker EXCEPT ![r] = label]
        /\ dispatched' = dispatched \cup {row[r]}
        /\ row' = [row EXCEPT ![r] = None]
        /\ UNCHANGED <<logVars, delivered, aborted>>
  BY DEF Commit, FreeRow, Goto
<1>2. row[r] \in Ids /\ row[r] # None /\ \E x \in outbox : x.id = row[r]
  BY <1>1 DEF Inv, RelayTypeOK, HeldRows, InTx
<1>3. RelayTypeOK'
  BY <1>1, <1>2 DEF Inv, RelayTypeOK, LogTypeOK, logVars, InTx
<1>4. HeldRows'
  BY <1>1, <1>2 DEF Inv, RelayTypeOK, HeldRows, RowHeldOnce, logVars, InTx
<1>5. Delivering(row[r])
  BY <1>1 DEF Delivering
<1>6. \A i \in Ids : i # row[r] => (Delivering(i)' <=> Delivering(i))
  BY <1>1, RelayAssumption DEF Inv, RelayTypeOK, Delivering
<1>7. Attempted'
  BY <1>1, <1>2, <1>5, <1>6 DEF Inv, RelayTypeOK, Attempted
<1> QED
  BY <1>3, <1>4, <1>7 DEF Inv

\* A rollback pays for the delivery it leaves behind.
LEMMA AbortInv ==
  ASSUME Inv, NEW r \in Relays, Abort(r)
  PROVE  Inv'
<1>1. PICK label \in {"asleep", "stopped"} :
        /\ worker[r] \in InTx /\ worker' = [worker EXCEPT ![r] = label]
        /\ aborted[row[r]] < MaxAborts
        /\ aborted' = [aborted EXCEPT ![row[r]] = @ + 1]
        /\ row' = [row EXCEPT ![r] = None]
        /\ UNCHANGED <<logVars, dispatched>>
  BY DEF Abort, FreeRow, Goto
<1>2. row[r] \in Ids /\ row[r] # None /\ row[r] \notin dispatched
  BY <1>1 DEF Inv, RelayTypeOK, HeldRows, RowHeldOnce
<1>3. \/ delivered' = delivered
      \/ worker[r] = "selected" /\ delivered' = [delivered EXCEPT ![row[r]] = @ + 1]
  BY DEF Abort
<1>4. RelayTypeOK'
  BY <1>1, <1>2, <1>3, RelayAssumption DEF Inv, RelayTypeOK, LogTypeOK, logVars, InTx
<1>5. HeldRows'
  BY <1>1, <1>2 DEF Inv, RelayTypeOK, HeldRows, RowHeldOnce, logVars, InTx
<1>6. \A i \in Ids : i # row[r] => (Delivering(i)' <=> Delivering(i))
  BY <1>1, RelayAssumption DEF Inv, RelayTypeOK, Delivering
<1>7. \A i \in Ids : i = row[r] => ~ Delivering(i)'
  BY <1>1, <1>2 DEF Inv, RelayTypeOK, HeldRows, RowHeldOnce, Delivering, InTx
<1>8. worker[r] = "selected" => ~ Delivering(row[r])
  BY <1>1 DEF Inv, RelayTypeOK, HeldRows, RowHeldOnce, Delivering, InTx
<1>9. delivered'[row[r]] <= aborted'[row[r]]
  BY <1>1, <1>2, <1>3, <1>8 DEF Inv, RelayTypeOK, Attempted
<1>10. ASSUME NEW i \in Ids, i # row[r]
       PROVE  delivered'[i] = delivered[i] /\ aborted'[i] = aborted[i]
  BY <1>1, <1>2, <1>3, <1>10 DEF Inv, RelayTypeOK
<1>11. delivered'[row[r]] \in Nat /\ aborted'[row[r]] \in Nat
  BY <1>2, <1>4 DEF RelayTypeOK
<1>12. row[r] \notin dispatched'
  BY <1>1, <1>2
<1>13. ASSUME NEW i \in Ids
       PROVE  /\ delivered'[i] <= aborted'[i] + (IF i \in dispatched' \/ Delivering(i)' THEN 1 ELSE 0)
              /\ i \in dispatched' \/ Delivering(i)' => delivered'[i] >= 1
  <2>1. CASE i = row[r]
    BY <1>7, <1>9, <1>11, <1>12, <2>1
  <2>2. CASE i # row[r]
    BY <1>1, <1>6, <1>10, <2>2 DEF Inv, Attempted
  <2> QED
    BY <2>1, <2>2
<1>14. Attempted'
  BY <1>13 DEF Attempted
<1> QED
  BY <1>4, <1>5, <1>14 DEF Inv

\* The invariant holds in every reachable state.
THEOREM Invariance == RelaySpec => []Inv
<1>1. Inv /\ [RelayNext]_relayAndLog => Inv'
  <2> SUFFICES ASSUME Inv, [RelayNext]_relayAndLog PROVE Inv'
    OBVIOUS
  <2>1. CASE LogNext /\ UNCHANGED relayVars
    BY <2>1, LogInv
  <2>2. ASSUME NEW r \in Relays, Select(r) PROVE Inv'
    BY <2>2, SelectInv
  <2>3. ASSUME NEW r \in Relays, FindNothing(r) \/ Wake(r) \/ Shutdown(r) PROVE Inv'
    BY <2>3, LoopInv
  <2>4. ASSUME NEW r \in Relays, Proceed(r) PROVE Inv'
    BY <2>4, PublishInv, MarkInv, CommitInv DEF Proceed
  <2>5. ASSUME NEW r \in Relays, Abort(r) PROVE Inv'
    BY <2>5, AbortInv
  <2>6. CASE UNCHANGED relayAndLog
    BY <2>6 DEF relayAndLog, logVars, relayVars, Inv, RelayTypeOK, LogTypeOK, HeldRows, RowHeldOnce,
                Attempted, Delivering
  <2> QED
    BY <2>1, <2>2, <2>3, <2>4, <2>5, <2>6 DEF RelayNext, WorkerStep
<1> QED
  BY InitInv, <1>1, PTL DEF RelaySpec

\* FOR UPDATE SKIP LOCKED: an entry is held by one worker at a time, and not
\* once it is dispatched.
THEOREM OneHolderPerEntry == RelaySpec => []RowHeldOnce
<1>1. Inv => RowHeldOnce
  BY DEF Inv, HeldRows
<1> QED
  BY Invariance, <1>1, PTL

\* Duplicates are paid for by abandoned attempts, for any number of workers.
THEOREM BoundedDuplicates == RelaySpec => []DuplicatesNeedAborts
<1>1. Inv => DuplicatesNeedAborts
  BY DEF Inv, RelayTypeOK, Attempted, DuplicatesNeedAborts
<1> QED
  BY Invariance, <1>1, PTL

\* An entry is never marked dispatched before it has reached the broker.
THEOREM AtLeastOnce == RelaySpec => []DispatchedWasDelivered
<1>1. Inv => DispatchedWasDelivered
  BY DEF Inv, RelayTypeOK, LogTypeOK, OutboxRow, Attempted, DispatchedWasDelivered
<1> QED
  BY Invariance, <1>1, PTL
-----------------------------------------------------------------------------
(* The order of first deliveries.  Touched collects what an entry may show *)
(* of a worker that has come by.  Within a stream the entries are touched  *)
(* from the oldest on (OldestFirst): Select skips an older entry only when *)
(* it is dispatched or locked, and new rows come in at the end of their    *)
(* stream, under ids nobody has touched (RowsAreEvents, TouchedAreRows).   *)

Touched(i) == delivered[i] > 0 \/ aborted[i] > 0 \/ Locked(i)

RowsAreEvents ==
  /\ \A x \in outbox : \E e \in events : x = RowOf(e)
  /\ \A d, e \in events : d.id = e.id => d = e

TouchedAreRows == \A i \in Ids : Touched(i) => \E x \in outbox : x.id = i

OldestFirst ==
  \A x, y \in outbox :
    x.stream = y.stream /\ x.pos < y.pos /\ Touched(y.id) => Touched(x.id)

Order == RowsAreEvents /\ TouchedAreRows /\ OldestFirst

\* Nothing is in the outbox, and nothing touched.
LEMMA InitOrder == RelayInit => Order
  BY RelayAssumption
  DEF RelayInit, LogInit, WorkersAt, Order, RowsAreEvents, TouchedAreRows, OldestFirst,
         Touched, Locked

\* A new entry is the last of its stream, and untouched.
LEMMA LogOrder ==
  ASSUME Inv, Order, LogNext, UNCHANGED relayVars
  PROVE  Order'
<1>1. PICK i \in Ids, s \in Streams, p \in 0 .. MaxPos, o \in BOOLEAN : AppendEvent(i, s, p, o)
  BY DEF LogNext
<1> DEFINE new == [id |-> i, stream |-> s, version |-> next[s], pos |-> p]
<1>2. /\ events' = events \cup {new} /\ outbox \subseteq outbox'
      /\ \A x \in outbox' : x \in outbox \/ x = RowOf(new)
      /\ \A e \in events : e.id # i /\ (e.stream = s => e.pos < p)
  BY <1>1 DEF AppendEvent
<1>3. /\ new.id = i /\ RowOf(new).id = i /\ RowOf(new).stream = s /\ RowOf(new).pos = p
  BY DEF RowOf
<1> HIDE DEF new
<1>4. RowsAreEvents'
  BY <1>2, <1>3 DEF Order, RowsAreEvents
<1>5. \A j : Touched(j)' <=> Touched(j)
  BY DEF Touched, Locked, relayVars
<1>6. TouchedAreRows'
  BY <1>2, <1>5 DEF Order, TouchedAreRows
<1>7. \A x \in outbox : x.id # i /\ (x.stream = s => x.pos < p)
  BY <1>2 DEF Order, RowsAreEvents, RowOf
<1>8. ~ Touched(i)
  BY <1>1, <1>7 DEF Order, TouchedAreRows
<1>9. ASSUME NEW x \in outbox', NEW y \in outbox', x.stream = y.stream, x.pos < y.pos,
             Touched(y.id)
      PROVE  Touched(x.id)
  <2>1. y \in outbox
    BY <1>2, <1>3, <1>8, <1>9
  <2>2. CASE x \in outbox
    BY <1>9, <2>1, <2>2 DEF Order, OldestFirst
  <2>3. CASE x = RowOf(new)
    <3>1. y.pos < p /\ x.pos = p
      BY <1>3, <1>7, <1>9, <2>1, <2>3
    <3>2. y.pos \in Nat /\ p \in Int
      BY <2>1 DEF Inv, RelayTypeOK, LogTypeOK, OutboxRow
    <3> QED
      BY <1>9, <3>1, <3>2
  <2> QED
    BY <1>2, <2>2, <2>3
<1>10. OldestFirst'
  BY <1>5, <1>9 DEF OldestFirst
<1> QED
  BY <1>4, <1>6, <1>10 DEF Order

\* The query takes the oldest pending entry that is not locked.
LEMMA SelectOrder ==
  ASSUME Inv, Order, NEW r \in Relays, Select(r)
  PROVE  Order'
<1>1. PICK x \in Candidates : Oldest(x) /\ row' = [row EXCEPT ![r] = x.id]
  BY DEF Select
<1>2. /\ x \in outbox /\ row[r] = None
      /\ UNCHANGED <<events, outbox, dispatched, delivered, aborted>>
  BY <1>1 DEF Inv, RelayTypeOK, Select, Candidates, InTx, logVars
<1>3. /\ Touched(x.id)'
      /\ \A i \in Ids \ {x.id} : Touched(i)' <=> Touched(i)
      /\ \A i \in Ids : Touched(i) => Touched(i)'
  BY <1>1, <1>2, RelayAssumption DEF Inv, RelayTypeOK, Touched, Locked
<1>4. ASSUME NEW y \in outbox, y.pos < x.pos
      PROVE  Touched(y.id)
  <2>1. y.id \in Ids /\ y.pos \in Nat /\ x.pos \in Nat
    BY <1>2 DEF Inv, RelayTypeOK, LogTypeOK, OutboxRow
  <2>2. y.id \in dispatched \/ Locked(y.id)
    BY <1>1, <1>4, <2>1 DEF Oldest, Candidates
  <2>3. y.id \in dispatched => delivered[y.id] >= 1
    BY <2>1 DEF Inv, Attempted
  <2>4. delivered[y.id] \in Nat
    BY <2>1 DEF Inv, RelayTypeOK
  <2> QED
    BY <2>2, <2>3, <2>4 DEF Touched
<1>5. RowsAreEvents'
  BY <1>2 DEF Order, RowsAreEvents
<1>6. TouchedAreRows'
  BY <1>2, <1>3 DEF Order, TouchedAreRows
<1>7. \A y \in outbox : y.id \in Ids
  BY DEF Inv, RelayTypeOK, LogTypeOK, OutboxRow
<1>8. \A y \in outbox : y.id = x.id => y = x
  BY <1>2 DEF Order, RowsAreEvents, RowOf
<1>9. OldestFirst'
  BY <1>2, <1>3, <1>4, <1>7, <1>8 DEF Order, OldestFirst
<1> QED
  BY <1>5, <1>6, <1>9 DEF Order

\* A step that touches what was touched, and no more, keeps the order.
LEMMA OrderKept ==
  ASSUME Inv, Order, UNCHANGED logVars, \A i \in Ids : Touched(i)' <=> Touched(i)
  PROVE  Order'
<1>1. \A y \in outbox : y.id \in Ids
  BY DEF Inv, RelayTypeOK, LogTypeOK, OutboxRow
<1> QED
  BY <1>1 DEF Order, RowsAreEvents, TouchedAreRows, OldestFirst, logVars

\* A worker leaves a trace of the entry it was at: a delivery when it commits,
\* an abandoned attempt when it does not.
LEMMA WorkerOrder ==
  ASSUME Inv, Order, NEW r \in Relays, WorkerStep(r), ~ Select(r)
  PROVE  Order'
<1>1. CASE FindNothing(r) \/ Wake(r) \/ Shutdown(r) \/ Mark(r)
  <2>1. UNCHANGED <<logVars, row, delivered, aborted>>
    BY <1>1 DEF FindNothing, Wake, Shutdown, Mark
  <2> QED
    BY <2>1, OrderKept DEF Touched, Locked
<1>2. ASSUME worker[r] \in InTx
      PROVE  /\ row[r] \in Ids /\ Touched(row[r]) /\ row[r] # None
             /\ \A i \in Ids \ {row[r]} : \A q \in Relays : row[q] = i => q # r
  BY <1>2 DEF Inv, RelayTypeOK, Touched, Locked
<1>3. CASE Publish(r)
  <2>1. /\ worker[r] \in InTx /\ UNCHANGED <<logVars, row, aborted>>
        /\ delivered' = [delivered EXCEPT ![row[r]] = @ + 1]
    BY <1>3 DEF Publish, InTx
  <2>2. \A i \in Ids : Touched(i)' <=> Touched(i)
    BY <1>2, <2>1 DEF Inv, RelayTypeOK, Touched, Locked
  <2> QED
    BY <2>1, <2>2, OrderKept
<1>4. CASE Commit(r)
  <2>1. /\ worker[r] = "marked" /\ UNCHANGED <<logVars, delivered, aborted>>
        /\ row' = [row EXCEPT ![r] = None]
    BY <1>4 DEF Commit, FreeRow
  <2>2. delivered[row[r]] > 0
    BY <1>2, <2>1 DEF Inv, RelayTypeOK, Attempted, Delivering, InTx
  <2>3. \A i \in Ids : Touched(i)' <=> Touched(i)
    BY <1>2, <2>1, <2>2, RelayAssumption DEF Inv, RelayTypeOK, Touched, Locked, InTx
  <2> QED
    BY <2>1, <2>3, OrderKept
<1>5. CASE Abort(r)
  <2>1. /\ worker[r] \in InTx /\ UNCHANGED logVars
        /\ aborted' = [aborted EXCEPT ![row[r]] = @ + 1]
        /\ row' = [row EXCEPT ![r] = None]
        /\ delivered' \in {delivered, [delivered EXCEPT ![row[r]] = @ + 1]}
    BY <1>5 DEF Abort, FreeRow
  <2>2. /\ aborted'[row[r]] > 0
        /\ \A i \in Ids \ {row[r]} : aborted'[i] = aborted[i] /\ delivered'[i] = delivered[i]
    BY <1>2, <2>1, RelayAssumption DEF Inv, RelayTypeOK
  <2>3. \A i \in Ids \ {row[r]} : Locked(i)' <=> Locked(i)
    BY <1>2, <2>1, RelayAssumption DEF Inv, RelayTypeOK, Locked
  <2>4. \A i \in Ids : Touched(i)' <=> Touched(i)
    BY <1>2, <2>1, <2>2, <2>3 DEF Touched
  <2> QED
    BY <2>1, <2>4, OrderKept
<1> QED
  BY <1>1, <1>3, <1>4, <1>5 DEF WorkerStep, Proceed

\* An entry gets to the broker first before an older one of its stream only
\* while the older one is locked, or after an attempt at it was abandoned.
THEOREM NoSilentOvertaking == RelaySpec => []OnlyBusyEntriesAreOvertaken
<1>1. Inv /\ Order /\ [RelayNext]_relayAndLog => Order'
  <2> SUFFICES ASSUME Inv, Order, [RelayNext]_relayAndLog PROVE Order'
    OBVIOUS
  <2>1. CASE LogNext /\ UNCHANGED relayVars
    BY <2>1, LogOrder
  <2>2. ASSUME NEW r \in Relays, WorkerStep(r) PROVE Order'
    BY <2>2, SelectOrder, WorkerOrder
  <2>3. CASE UNCHANGED relayAndLog
    BY <2>3, OrderKept DEF relayAndLog, relayVars, Touched, Locked
  <2> QED
    BY <2>1, <2>2, <2>3 DEF RelayNext
<1>2. Order => OnlyBusyEntriesAreOvertaken
  BY DEF Order, OldestFirst, Touched, OnlyBusyEntriesAreOvertaken
<1> QED
  BY Invariance, InitOrder, <1>1, <1>2, PTL DEF RelaySpec
=============================================================================
