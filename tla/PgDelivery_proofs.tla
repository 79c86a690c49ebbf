-------------------------- MODULE PgDelivery_proofs --------------------------
(***************************************************************************)
(* Safety of the consumers of the PostgreSQL event store, for any number   *)
(* of workers, processes, events and runs.                                 *)
(*                                                                         *)
(* The composition implements the specifications its parts have of their   *)
(* own: what PgRelay_proofs shows of RelaySpec holds of the relay here,    *)
(* and what is shown below of LeaseSpec of the lease.  The subscription is *)
(* proved about in the composition.                                        *)
(***************************************************************************)
EXTENDS PgDelivery, PgRelay_proofs, SequenceLemmas

\* Seen from the relay, everything else appends to the log or does nothing.
THEOREM RelayRefined == Spec => RelaySpec
<1>1. Init => RelayInit
  BY DEF Init, RelayInit
<1>2. [Next]_vars => [RelayNext]_relayAndLog
  <2>1. ASSUME NEW i \in Ids, NEW s \in Streams, NEW p \in Position, NEW o \in BOOLEAN,
               CommitAndNotify(i, s, p, o), UNCHANGED relayVars
        PROVE  RelayNext
    BY <2>1 DEF CommitAndNotify, RelayNext, LogNext, Position
  <2>2. SubStep => UNCHANGED logVars
    BY DEF SubStep, Start, Advance, LoadCheckpoint, FetchHistory, HandleHistory, SaveHistory,
           EndHistory, Listen, Receive, HandleLive, SaveLive, LoseConnection, Crash
  <2> QED
    BY <2>1, <2>2 DEF Next, vars, RelayNext, relayAndLog
<1> QED
  BY <1>1, <1>2, PTL DEF Spec, RelaySpec

\* So the relay keeps its promises in the composition: duplicates are paid for
\* by abandoned attempts, nothing is marked before it is delivered, and only
\* busy entries are overtaken.
THEOREM RelayIsSafe ==
  Spec => [](DuplicatesNeedAborts /\ DispatchedWasDelivered /\ OnlyBusyEntriesAreOvertaken)
  BY RelayRefined, BoundedDuplicates, AtLeastOnce, NoSilentOvertaking, PTL

\* The lease neither reads nor writes anything else.
THEOREM LeaseRefined == Spec => LeaseSpec
<1>1. Init => LeaseInit("none")
  BY DEF Init
<1>2. [Next]_vars => [LeaseStep]_leaseVars
  BY DEF Next, vars
<1> QED
  BY <1>1, <1>2, PTL DEF Spec, LeaseSpec
-----------------------------------------------------------------------------
(* The subscription.  Notifications follow the commits, and the commits of *)
(* one stream follow its positions; so of two events of a stream, the one  *)
(* that is queued, fetched or handled first has the smaller position       *)
(* (InOrder), although of two streams nothing of the kind holds.           *)

\* Positions of events that are in the table.
Logged == {e.pos : e \in events}

\* Where the events of E at p and q are of one stream, p is the earlier one.
Precedes(E, p, q) ==
  \A e, f \in E : e.pos = p /\ f.pos = q /\ e.stream = f.stream => p < q

\* Versions and positions number a stream in the same order.
LogOrdered ==
  /\ LogTypeOK
  /\ \A e \in events : e.version < next[e.stream]
  /\ \A e, f \in events : e.stream = f.stream /\ e.pos < f.pos => e.version < f.version

\* What each stage holds, all of it of events in the table.
Located ==
  /\ batch \subseteq Logged /\ queue \in Seq(Logged) /\ seen \in Seq(Logged)
  /\ pc \in {"fetched", "save_live", "save_catchup"} => current \in Logged
  /\ pc \notin {"catchup", "save_catchup"} => batch = {}
  /\ pc \notin {"live", "fetched", "save_live", "reconnecting"} => queue = <<>>
  /\ pc \in {"starting", "loaded"} => seen = <<>>

InOrder(E, q) == \A k, l \in 1 .. Len(q) : k < l => Precedes(E, q[k], q[l])

\* What was handled precedes what is in hand, and that what is to come.
Sorted ==
  /\ InOrder(events, seen) /\ InOrder(events, queue)
  /\ \A k \in 1 .. Len(seen) :
       /\ \A p \in batch : Precedes(events, seen[k], p)
       /\ \A l \in 1 .. Len(queue) : Precedes(events, seen[k], queue[l])
       /\ pc = "fetched" => Precedes(events, seen[k], current)
  /\ pc = "fetched" => \A l \in 1 .. Len(queue) : Precedes(events, current, queue[l])

\* Only what was handled becomes the checkpoint.
Handled ==
  /\ CheckpointWasHandled
  /\ pc \in {"save_catchup", "save_live"} => current \in ever

SubInv == LogOrdered /\ Located /\ Sorted /\ Handled

\* A consumer that has not started holds nothing.
LEMMA InitSub == Init => SubInv
<1> SUFFICES ASSUME Init PROVE SubInv
  OBVIOUS
<1>1. /\ events = {} /\ pc = "down" /\ batch = {} /\ queue = <<>> /\ seen = <<>>
      /\ checkpoint = -1
  BY DEF Init, LogInit, SubInit
<1>2. LogOrdered
  BY <1>1 DEF Init, LogInit, LogTypeOK, LogOrdered
<1>3. Located
  BY <1>1, EmptySeq DEF Located
<1>4. Sorted /\ Handled
  BY <1>1 DEF Sorted, InOrder, Handled, CheckpointWasHandled
<1> QED
  BY <1>2, <1>3, <1>4 DEF SubInv

\* The elements of a sequence of positions.
LEMMA LocatedElements ==
  ASSUME Located
  PROVE  /\ queue \in Seq(Logged) /\ seen \in Seq(Logged)
         /\ \A k \in 1 .. Len(queue) : queue[k] \in Logged
         /\ \A k \in 1 .. Len(seen) : seen[k] \in Logged
  BY ElementOfSeq DEF Located

\* Positions in the log are numbers.
LEMMA LoggedAreInts == LogTypeOK => Logged \subseteq Nat
  BY DEF LogTypeOK, Event, Logged

\* A new event is the last of its stream; nothing that was there before comes
\* after it.
LEMMA LogAfter ==
  ASSUME LogOrdered, NEW i \in Ids, NEW s \in Streams, NEW p \in Position, NEW o \in BOOLEAN,
         AppendEvent(i, s, p, o)
  PROVE  /\ LogOrdered'
         /\ Logged' = Logged \cup {p}
         /\ \A x, y \in Logged : Precedes(events, x, y) => Precedes(events', x, y)
         /\ \A x \in Logged : Precedes(events', x, p)
<1> DEFINE new == [id |-> i, stream |-> s, version |-> next[s], pos |-> p]
<1>1. /\ events' = events \cup {new}
      /\ new.id = i /\ new.stream = s /\ new.version = next[s] /\ new.pos = p
      /\ \A e \in events : e.pos # p /\ (e.stream = s => e.pos < p)
      /\ next' = [next EXCEPT ![s] = @ + 1]
      /\ outbox' = IF o THEN outbox \cup {RowOf(new)} ELSE outbox
  BY DEF AppendEvent
<1>2. p \in Nat /\ next \in [Streams -> Nat] /\ new \in Event /\ RowOf(new) \in OutboxRow
  BY MaxPosAssumption DEF LogOrdered, LogTypeOK, Position, Event, OutboxRow, RowOf
<1> HIDE DEF new
<1>3. LogTypeOK'
  BY <1>1, <1>2 DEF LogOrdered, LogTypeOK
<1>4. \A e \in events : e.stream \in Streams /\ e.version \in Nat /\ e.pos \in Nat
  BY DEF LogOrdered, LogTypeOK, Event
<1>5. \A e \in events' : e.version < next'[e.stream]
  BY <1>1, <1>2, <1>4 DEF LogOrdered
<1>6. ASSUME NEW e \in events', NEW f \in events', e.stream = f.stream, e.pos < f.pos
      PROVE  e.version < f.version
  <2>1. CASE e \in events /\ f \in events
    BY <1>6, <2>1 DEF LogOrdered
  <2>2. CASE e \in events /\ f = new
    BY <1>1, <1>6, <2>2 DEF LogOrdered
  <2>3. CASE e = new
    BY <1>1, <1>2, <1>4, <1>6, <2>3
  <2> QED
    BY <1>1, <2>1, <2>2, <2>3
<1>7. LogOrdered'
  BY <1>3, <1>5, <1>6 DEF LogOrdered
<1>8. Logged' = Logged \cup {p}
  BY <1>1 DEF Logged
<1>9. ASSUME NEW x \in Logged, NEW y \in Logged, Precedes(events, x, y)
      PROVE  Precedes(events', x, y)
  BY <1>1, <1>9 DEF Logged, Precedes
<1>10. ASSUME NEW x \in Logged
       PROVE  Precedes(events', x, p)
  BY <1>1, <1>10 DEF Logged, Precedes
<1> QED
  BY <1>7, <1>8, <1>9, <1>10

\* Something all elements precede goes to the end.
LEMMA OneMoreInOrder ==
  ASSUME NEW E, NEW S, NEW q \in Seq(S), NEW x \in S, InOrder(E, q),
         \A k \in 1 .. Len(q) : Precedes(E, q[k], x)
  PROVE  InOrder(E, q \o <<x>>)
<1>1. /\ Len(q) \in Nat /\ Len(q \o <<x>>) = Len(q) + 1
      /\ \A k \in 1 .. Len(q) : (q \o <<x>>)[k] = q[k]
      /\ (q \o <<x>>)[Len(q) + 1] = x
  BY OneMore
<1>2. ASSUME NEW k \in 1 .. Len(q) + 1, NEW l \in 1 .. Len(q) + 1, k < l
      PROVE  Precedes(E, (q \o <<x>>)[k], (q \o <<x>>)[l])
  <2>1. k \in 1 .. Len(q)
    BY <1>1, <1>2
  <2>2. CASE l \in 1 .. Len(q)
    BY <1>1, <1>2, <2>1, <2>2 DEF InOrder
  <2>3. CASE l = Len(q) + 1
    BY <1>1, <2>1, <2>3
  <2> QED
    BY <1>1, <2>2, <2>3
<1> QED
  BY <1>1, <1>2 DEF InOrder

\* The notification goes behind those of earlier commits.
LEMMA CommitSub ==
  ASSUME SubInv, NEW i \in Ids, NEW s \in Streams, NEW p \in Position, NEW o \in BOOLEAN,
         CommitAndNotify(i, s, p, o)
  PROVE  SubInv'
<1>1. /\ LogOrdered'
      /\ Logged' = Logged \cup {p}
      /\ \A x, y \in Logged : Precedes(events, x, y) => Precedes(events', x, y)
      /\ \A x \in Logged : Precedes(events', x, p)
  BY LogAfter DEF CommitAndNotify, SubInv
<1>2. /\ queue' = IF Listening THEN queue \o <<p>> ELSE queue
      /\ UNCHANGED <<pc, from, batch, current, checkpoint, seen, ever>>
  BY DEF CommitAndNotify, history
<1>3. /\ queue \in Seq(Logged) /\ seen \in Seq(Logged)
      /\ \A k \in 1 .. Len(queue) : queue[k] \in Logged
      /\ \A k \in 1 .. Len(seen) : seen[k] \in Logged
  BY LocatedElements DEF SubInv
<1>4. /\ p \in Logged' /\ queue \in Seq(Logged') /\ seen \in Seq(Logged')
  BY <1>1, <1>3, SeqMonotonic
<1>5. /\ queue \o <<p>> \in Seq(Logged')
      /\ Len(queue) \in Nat /\ Len(queue \o <<p>>) = Len(queue) + 1
      /\ \A k \in 1 .. Len(queue) : (queue \o <<p>>)[k] = queue[k]
      /\ (queue \o <<p>>)[Len(queue) + 1] = p
  BY <1>4, OneMore
<1>6. Located'
  BY <1>1, <1>2, <1>4, <1>5 DEF SubInv, Located, Listening
\* What is queued now, and what it was.
<1>7. \A l \in 1 .. Len(queue') : queue'[l] = p \/ \E m \in 1 .. Len(queue) : queue'[l] = queue[m]
  BY <1>2, <1>5
<1>8. InOrder(events', queue')
  <2>1. InOrder(events', queue)
    BY <1>1, <1>3 DEF SubInv, Sorted, InOrder
  <2>2. \A k \in 1 .. Len(queue) : Precedes(events', queue[k], p)
    BY <1>1, <1>3
  <2>3. InOrder(events', queue \o <<p>>)
    BY <1>4, <2>1, <2>2, OneMoreInOrder
  <2> QED
    BY <1>2, <2>1, <2>3
<1>9. InOrder(events', seen)
  BY <1>1, <1>3 DEF SubInv, Sorted, InOrder
<1>10. ASSUME NEW x \in Logged, NEW l \in 1 .. Len(queue'),
              \A m \in 1 .. Len(queue) : Precedes(events, x, queue[m])
       PROVE  Precedes(events', x, queue'[l])
  BY <1>1, <1>3, <1>7, <1>10
<1>11. ASSUME NEW k \in 1 .. Len(seen)
       PROVE  /\ \A q \in batch : Precedes(events', seen[k], q)
              /\ \A l \in 1 .. Len(queue') : Precedes(events', seen[k], queue'[l])
              /\ pc = "fetched" => Precedes(events', seen[k], current)
  <2>1. batch \subseteq Logged /\ (pc = "fetched" => current \in Logged) /\ seen[k] \in Logged
    BY <1>3 DEF SubInv, Located
  <2>2. /\ \A q \in batch : Precedes(events, seen[k], q)
        /\ \A l \in 1 .. Len(queue) : Precedes(events, seen[k], queue[l])
        /\ pc = "fetched" => Precedes(events, seen[k], current)
    BY DEF SubInv, Sorted
  <2> QED
    BY <1>1, <1>10, <2>1, <2>2
<1>12. ASSUME pc = "fetched", NEW l \in 1 .. Len(queue')
       PROVE  Precedes(events', current, queue'[l])
  BY <1>10, <1>12 DEF SubInv, Located, Sorted
<1>13. Sorted'
  BY <1>2, <1>8, <1>9, <1>11, <1>12 DEF Sorted
<1>14. Handled'
  BY <1>2 DEF SubInv, Handled, CheckpointWasHandled
<1> QED
  BY <1>1, <1>6, <1>13, <1>14 DEF SubInv

\* The steps of the subscription itself leave the log alone.
LEMMA LogKept ==
  ASSUME LogOrdered, UNCHANGED logVars
  PROVE  LogOrdered' /\ Logged' = Logged /\ events' = events
  BY DEF logVars, LogOrdered, LogTypeOK, Logged

\* Coming up, and the steps that change the stage or the checkpoint alone.
LEMMA StartSub == ASSUME SubInv, Start PROVE SubInv'
<1>1. LogOrdered' /\ Logged' = Logged /\ events' = events
  BY LogKept DEF SubInv, Start
<1>2. /\ pc = "down" /\ pc' = "starting" /\ seen' = <<>> /\ batch = {} /\ queue = <<>>
      /\ UNCHANGED <<batch, queue, current, checkpoint, ever>>
  BY DEF SubInv, Located, Start
<1>3. Located'
  BY <1>1, <1>2, EmptySeq DEF Located
<1>4. Sorted' /\ Handled'
  BY <1>2 DEF Sorted, InOrder, SubInv, Handled, CheckpointWasHandled
<1> QED
  BY <1>1, <1>3, <1>4 DEF SubInv

\* With nothing handled yet and nothing queued, any rows may be fetched.
LEMMA FetchSub == ASSUME SubInv, LoadCheckpoint \/ FetchHistory PROVE SubInv'
<1>1. LogOrdered' /\ Logged' = Logged /\ events' = events
  BY LogKept DEF SubInv, LoadCheckpoint, FetchHistory
<1>2. /\ pc \in {"starting", "loaded"} /\ pc' \in {"loaded", "catchup"}
      /\ batch' \subseteq Logged /\ (pc' = "loaded" => batch' = {})
      /\ UNCHANGED <<queue, current, checkpoint, seen, ever>>
  BY DEF SubInv, Located, LoadCheckpoint, FetchHistory, After, Logged, history
<1>3. seen = <<>> /\ queue = <<>>
  BY <1>2 DEF SubInv, Located
<1>4. Located'
  BY <1>1, <1>2, <1>3, EmptySeq DEF Located
<1>5. Sorted' /\ Handled'
  BY <1>2, <1>3 DEF Sorted, InOrder, SubInv, Handled, CheckpointWasHandled
<1> QED
  BY <1>1, <1>4, <1>5 DEF SubInv

\* What the handler is given goes to the end of what it has had.
LEMMA HandledInOrder ==
  ASSUME SubInv, NEW p \in Logged, Handle(p),
         \A k \in 1 .. Len(seen) : Precedes(events, seen[k], p)
  PROVE  /\ seen' \in Seq(Logged) /\ InOrder(events, seen')
         /\ \A k \in 1 .. Len(seen') : seen'[k] = p \/ \E m \in 1 .. Len(seen) : seen'[k] = seen[m]
<1>1. seen \in Seq(Logged) /\ seen' = seen \o <<p>>
  BY LocatedElements DEF SubInv, Handle
<1>2. /\ seen' \in Seq(Logged) /\ Len(seen) \in Nat /\ Len(seen') = Len(seen) + 1
      /\ \A k \in 1 .. Len(seen) : seen'[k] = seen[k]
      /\ seen'[Len(seen) + 1] = p
  BY <1>1, OneMore
<1>3. InOrder(events, seen')
  BY <1>1, OneMoreInOrder DEF SubInv, Sorted
<1>4. \A k \in 1 .. Len(seen) + 1 : k \in 1 .. Len(seen) \/ k = Len(seen) + 1
  BY <1>2
<1> QED
  BY <1>2, <1>3, <1>4

\* The least position of the batch is handled next: what is left stays above
\* it.
LEMMA HandleHistorySub == ASSUME SubInv, HandleHistory PROVE SubInv'
<1>1. LogOrdered' /\ Logged' = Logged /\ events' = events
  BY LogKept DEF SubInv, HandleHistory
<1>2. PICK p \in batch : (\A q \in batch : p <= q) /\ Handle(p) /\ batch' = batch \ {p}
  BY DEF HandleHistory
<1>3. /\ pc = "catchup" /\ pc' = "save_catchup" /\ queue = <<>>
      /\ current' = p /\ ever' = ever \cup {p}
      /\ UNCHANGED <<queue, checkpoint>>
  BY <1>2 DEF SubInv, Located, HandleHistory, Handle
<1>4. p \in Logged /\ batch \subseteq Logged /\ Logged \subseteq Nat
  BY LoggedAreInts DEF SubInv, Located, LogOrdered
<1>5. /\ seen' \in Seq(Logged) /\ InOrder(events, seen')
      /\ \A k \in 1 .. Len(seen') : seen'[k] = p \/ \E m \in 1 .. Len(seen) : seen'[k] = seen[m]
  BY <1>2, <1>4, HandledInOrder DEF SubInv, Sorted
<1>6. Located'
  BY <1>1, <1>2, <1>3, <1>4, <1>5, EmptySeq DEF Located
<1>7. ASSUME NEW q \in batch' PROVE Precedes(events, p, q)
  <2>1. p < q
    BY <1>2, <1>4, <1>7
  <2> QED
    BY <2>1 DEF Precedes
<1>8. \A k \in 1 .. Len(seen') : \A q \in batch' : Precedes(events, seen'[k], q)
  BY <1>2, <1>5, <1>7 DEF SubInv, Sorted
<1>9. Sorted'
  BY <1>1, <1>3, <1>5, <1>8 DEF Sorted, InOrder
<1>10. Handled'
  BY <1>3 DEF SubInv, Handled, CheckpointWasHandled
<1> QED
  BY <1>1, <1>6, <1>9, <1>10 DEF SubInv

\* The position that was handled is saved.
LEMMA SaveSub == ASSUME SubInv, SaveHistory \/ SaveLive PROVE SubInv'
<1>1. LogOrdered' /\ Logged' = Logged /\ events' = events
  BY LogKept DEF SubInv, SaveHistory, SaveLive
<1>2. /\ checkpoint' = current
      /\ \/ pc = "save_catchup" /\ pc' = "catchup"
         \/ pc = "save_live" /\ pc' = "live"
      /\ UNCHANGED <<batch, queue, current, seen, ever>>
  BY DEF SaveHistory, SaveLive, Saved, history
<1>3. Located'
  BY <1>1, <1>2 DEF SubInv, Located
<1>4. Sorted'
  BY <1>1, <1>2 DEF SubInv, Sorted
<1>5. Handled'
  BY <1>2 DEF SubInv, Handled, CheckpointWasHandled
<1> QED
  BY <1>1, <1>3, <1>4, <1>5 DEF SubInv

\* Between the query and LISTEN nothing is handled.
LEMMA ConnectSub == ASSUME SubInv, EndHistory \/ Listen PROVE SubInv'
<1>1. LogOrdered' /\ Logged' = Logged /\ events' = events
  BY LogKept DEF SubInv, EndHistory, Listen
<1>2. /\ \/ pc = "catchup" /\ batch = {} /\ pc' = "connecting"
         \/ pc \in {"connecting", "reconnecting"} /\ pc' = "live"
      /\ UNCHANGED <<batch, queue, current, checkpoint, seen, ever>>
  BY DEF EndHistory, Listen, history
<1>3. Located'
  BY <1>1, <1>2 DEF SubInv, Located
<1>4. Sorted' /\ Handled'
  BY <1>1, <1>2 DEF SubInv, Sorted, Handled, CheckpointWasHandled
<1> QED
  BY <1>1, <1>3, <1>4 DEF SubInv

\* The first notification is of an event that precedes those of the others.
LEMMA ReceiveSub == ASSUME SubInv, Receive PROVE SubInv'
<1>1. LogOrdered' /\ Logged' = Logged /\ events' = events
  BY LogKept DEF SubInv, Receive
<1>2. /\ pc = "live" /\ pc' \in {"live", "fetched"} /\ queue # <<>>
      /\ current' = Head(queue) /\ queue' = Tail(queue)
      /\ UNCHANGED <<batch, checkpoint, seen, ever>>
  BY DEF Receive, history
<1>3. queue \in Seq(Logged) /\ seen \in Seq(Logged)
  BY LocatedElements DEF SubInv
<1>4. /\ Head(queue) = queue[1] /\ Head(queue) \in Logged /\ 1 \in 1 .. Len(queue)
      /\ Tail(queue) \in Seq(Logged) /\ Len(queue) \in Nat /\ Len(Tail(queue)) = Len(queue) - 1
      /\ \A k \in 1 .. Len(Tail(queue)) : k + 1 \in 1 .. Len(queue) /\ Tail(queue)[k] = queue[k + 1]
  BY <1>2, <1>3, OneLess
<1>5. Located'
  BY <1>1, <1>2, <1>3, <1>4 DEF SubInv, Located
<1>6. InOrder(events, Tail(queue))
  BY <1>4 DEF SubInv, Sorted, InOrder
<1>7. \A k \in 1 .. Len(Tail(queue)) : Precedes(events, Head(queue), Tail(queue)[k])
  <2>1. \A k \in 1 .. Len(Tail(queue)) : 1 < k + 1
    BY <1>4
  <2> QED
    BY <1>4, <2>1 DEF SubInv, Sorted, InOrder
<1>8. Sorted'
  BY <1>1, <1>2, <1>4, <1>6, <1>7 DEF SubInv, Sorted
<1>9. Handled'
  BY <1>2 DEF SubInv, Handled, CheckpointWasHandled
<1> QED
  BY <1>1, <1>5, <1>8, <1>9 DEF SubInv

\* A notification is handled in the order of the queue, which is that of the
\* commits.
LEMMA HandleLiveSub == ASSUME SubInv, HandleLive PROVE SubInv'
<1>1. LogOrdered' /\ Logged' = Logged /\ events' = events
  BY LogKept DEF SubInv, HandleLive
<1>2. /\ pc = "fetched" /\ pc' = "save_live" /\ Handle(current)
      /\ current' = current /\ ever' = ever \cup {current}
      /\ UNCHANGED <<batch, queue, checkpoint>>
  BY DEF HandleLive, Handle
<1>3. current \in Logged /\ batch = {}
  BY <1>2 DEF SubInv, Located
<1>4. /\ seen' \in Seq(Logged) /\ InOrder(events, seen')
      /\ \A k \in 1 .. Len(seen') :
           seen'[k] = current \/ \E m \in 1 .. Len(seen) : seen'[k] = seen[m]
  BY <1>2, <1>3, HandledInOrder DEF SubInv, Sorted
<1>5. Located'
  BY <1>1, <1>2, <1>3, <1>4 DEF SubInv, Located
<1>6. \A k \in 1 .. Len(seen') : \A l \in 1 .. Len(queue) : Precedes(events, seen'[k], queue[l])
  BY <1>2, <1>4 DEF SubInv, Sorted
<1>7. Sorted'
  BY <1>1, <1>2, <1>3, <1>4, <1>6 DEF SubInv, Sorted
<1>8. Handled'
  BY <1>2 DEF SubInv, Handled, CheckpointWasHandled
<1> QED
  BY <1>1, <1>5, <1>7, <1>8 DEF SubInv

\* Of the notifications not yet read, the later ones are lost.
LEMMA LoseSub == ASSUME SubInv, LoseConnection PROVE SubInv'
<1>1. LogOrdered' /\ Logged' = Logged /\ events' = events
  BY LogKept DEF SubInv, LoseConnection
<1>2. PICK n \in 0 .. Len(queue) : queue' = SubSeq(queue, 1, n)
  BY DEF LoseConnection
<1>3. /\ pc = "live" /\ pc' = "reconnecting"
      /\ UNCHANGED <<batch, current, checkpoint, seen, ever>>
  BY DEF LoseConnection, history
<1>4. /\ queue \in Seq(Logged) /\ Len(queue) \in Nat
      /\ \A k \in 1 .. Len(queue) : queue[k] \in Logged
  BY LocatedElements, LenProperties DEF SubInv
<1>5. n \in Int /\ n \in Nat /\ \A k \in 1 .. n : k \in 1 .. Len(queue)
  BY <1>2, <1>4
<1>6. /\ SubSeq(queue, 1, n) \in Seq(Logged)
      /\ Len(SubSeq(queue, 1, n)) = IF 1 <= n THEN n - 1 + 1 ELSE 0
      /\ \A k \in 1 .. n - 1 + 1 : SubSeq(queue, 1, n)[k] = queue[1 + k - 1]
  BY <1>4, <1>5, SubSeqProperties
<1>7. /\ queue' \in Seq(Logged) /\ Len(queue') = n
      /\ \A k \in 1 .. n : queue'[k] = queue[k]
  BY <1>2, <1>5, <1>6
<1>8. Located'
  BY <1>1, <1>3, <1>7 DEF SubInv, Located
<1>9. Sorted'
  BY <1>1, <1>3, <1>5, <1>7 DEF SubInv, Sorted, InOrder
<1>10. Handled'
  BY <1>3 DEF SubInv, Handled, CheckpointWasHandled
<1> QED
  BY <1>1, <1>8, <1>9, <1>10 DEF SubInv

\* A run ends; the checkpoint and the histories remain.
LEMMA CrashSub == ASSUME SubInv, Crash PROVE SubInv'
<1>1. LogOrdered' /\ Logged' = Logged /\ events' = events
  BY LogKept DEF SubInv, Crash
<1>2. /\ pc' = "down" /\ batch' = {} /\ queue' = <<>>
      /\ UNCHANGED <<checkpoint, seen, ever>>
  BY DEF Crash, history
<1>3. Located'
  BY <1>1, <1>2, EmptySeq DEF SubInv, Located
<1>4. Sorted' /\ Handled'
  BY <1>1, <1>2 DEF SubInv, Sorted, InOrder, Handled, CheckpointWasHandled
<1> QED
  BY <1>1, <1>3, <1>4 DEF SubInv

\* The subscription's invariant is preserved by every step of the
\* composition.
LEMMA NextSub == ASSUME SubInv, [Next]_vars PROVE SubInv'
<1>1. ASSUME NEW i \in Ids, NEW s \in Streams, NEW p \in Position, NEW o \in BOOLEAN,
             CommitAndNotify(i, s, p, o)
      PROVE  SubInv'
  BY <1>1, CommitSub
<1>2. CASE SubStep
  BY <1>2, StartSub, FetchSub, HandleHistorySub, SaveSub, ConnectSub, ReceiveSub,
     HandleLiveSub, LoseSub, CrashSub DEF SubStep, Advance
<1>3. ASSUME NEW r \in Relays, WorkerStep(r)
      PROVE  UNCHANGED logVars
  BY <1>3 DEF WorkerStep, Select, FindNothing, Wake, Proceed, Publish, Mark, Commit, Abort,
              Shutdown
<1>4. CASE UNCHANGED <<logVars, subVars>>
  <2>1. LogOrdered' /\ Logged' = Logged /\ events' = events
    BY <1>4, LogKept DEF SubInv
  <2>2. UNCHANGED <<pc, batch, queue, current, checkpoint, seen, ever>>
    BY <1>4 DEF subVars
  <2> QED
    BY <2>1, <2>2 DEF SubInv, Located, Sorted, Handled, CheckpointWasHandled
<1> QED
  BY <1>1, <1>2, <1>3, <1>4 DEF Next, vars

\* A run hands over the events of a stream in the order of their versions,
\* and none twice, for any number of streams, lost connections and restarts.
THEOREM StreamsInOrder == Spec => []StreamOrder
<1>1. ASSUME SubInv, NEW i \in 1 .. Len(seen), NEW j \in 1 .. Len(seen),
             NEW e \in events, NEW f \in events,
             i < j, e.pos = seen[i], f.pos = seen[j], e.stream = f.stream
      PROVE  e.version < f.version
  <2>1. Precedes(events, seen[i], seen[j])
    BY <1>1 DEF SubInv, Sorted, InOrder
  <2>2. e.pos < f.pos
    BY <1>1, <2>1 DEF Precedes
  <2> QED
    BY <1>1, <2>2 DEF SubInv, LogOrdered
<1>2. SubInv => StreamOrder
  BY <1>1 DEF StreamOrder
<1> QED
  BY <1>2, InitSub, NextSub, PTL DEF Spec

\* No checkpoint names an event the handler has not had.
THEOREM CheckpointsAreHandled == Spec => []CheckpointWasHandled
<1>1. SubInv => CheckpointWasHandled
  BY DEF SubInv, Handled
<1> QED
  BY <1>1, InitSub, NextSub, PTL DEF Spec
-----------------------------------------------------------------------------
(* The lease.  The re-entrant lock is safe between processes because its   *)
(* count covers the consumers it has been granted to: a release by one of  *)
(* them takes one level off and one consumer out, or no level and one      *)
(* consumer out.  A release by anybody else can break the cover, and       *)
(* excuses its process.  Covered says so; it is what makes the property    *)
(* inductive.                                                              *)

\* Processes that have lost the lock's session, or given levels away.
Excused == lost \cup stray

\* The active consumers of the process whose pool holds the lock.
Holders == {c \in Active : owner # Nobody /\ owner[1] = c[1]}

\* An active consumer whose process is not excused is a holder, and the
\* lock has at least one level for each of the holders.
Covered ==
  /\ \A c \in Active : c[1] \notin Excused => c \in Holders
  /\ owner # Nobody /\ owner[1] \notin Excused => Cardinality(Holders) <= count

LeaseInv == LeaseTypeOK /\ Covered
\* The holders are finitely many, so that counting them makes sense.
LEMMA HoldersFinite == IsFiniteSet(Holders)
<1>1. IsFiniteSet(Consumers)
  BY LeaseAssumption, FS_Product DEF Consumers
<1>2. Holders \subseteq Consumers
  BY DEF Holders, Active
<1> QED
  BY <1>1, <1>2, FS_Subset

\* Nobody has called yet: types hold and nobody is active.
LEMMA InitLease == LeaseInit("none") => LeaseInv
<1> SUFFICES ASSUME LeaseInit("none") PROVE LeaseInv
  OBVIOUS
<1>1. LeaseTypeOK
  BY LeaseAssumption, NobodyAssumption DEF LeaseInit, LeaseTypeOK
<1>2. Active = {}
  BY DEF LeaseInit, Active
<1> QED
  BY <1>1, <1>2 DEF LeaseInit, Covered, LeaseInv

\* pg_try_advisory_lock: a grant adds a level with the consumer it adds.
LEMMA TryAcquireLease ==
  ASSUME LeaseInv, NEW c \in Consumers, TryAcquire(c)
  PROVE  LeaseInv'
<1>0. PICK s \in PoolOf(c) :
        \/ /\ owner \in {Nobody, s}
           /\ count < MaxCount
           /\ owner' = s
           /\ count' = count + 1
           /\ told' = [told EXCEPT ![c] = "true"]
        \/ /\ owner \notin {Nobody, s}
           /\ told' = [told EXCEPT ![c] = IF @ = "true" THEN "true" ELSE "false"]
           /\ UNCHANGED <<owner, count>>
  BY DEF TryAcquire
<1>1. s \in Sessions /\ s[1] = c[1] /\ s # Nobody /\ lost' = lost /\ stray' = stray
  BY NobodyAssumption DEF TryAcquire, PoolOf, Sessions, Consumers
<1>2. LeaseTypeOK'
  BY <1>0, <1>1, LeaseAssumption DEF LeaseInv, LeaseTypeOK
<1>3. CASE owner \in {Nobody, s} /\ owner' = s /\ count' = count + 1
           /\ told' = [told EXCEPT ![c] = "true"]
  <2>1. Active' = Active \cup {c}
    BY <1>3 DEF LeaseInv, LeaseTypeOK, Active
  <2>2. CASE owner = s
    <3>1. Holders' = Holders \cup {c}
      BY <1>1, <1>3, <2>1, <2>2 DEF Holders
    <3>2. Cardinality(Holders') <= Cardinality(Holders) + 1
      <4>1. Cardinality(Holders) \in Nat
        BY HoldersFinite, FS_CardinalityType
      <4>2. Cardinality(Holders \cup {c})
              = IF c \in Holders THEN Cardinality(Holders) ELSE Cardinality(Holders) + 1
        BY HoldersFinite, FS_AddElement
      <4> QED
        BY <3>1, <4>1, <4>2
    <3>3. Cardinality(Holders) \in Nat /\ Cardinality(Holders') \in Nat
      <4>1. IsFiniteSet(Holders \cup {c})
        BY HoldersFinite, FS_AddElement
      <4> QED
        BY <3>1, <4>1, HoldersFinite, FS_CardinalityType
    <3>4. Covered'
      BY <1>1, <1>3, <2>1, <2>2, <3>1, <3>2, <3>3 DEF LeaseInv, LeaseTypeOK, Covered, Holders, Excused
    <3> QED
      BY <1>2, <3>4 DEF LeaseInv
  <2>3. CASE owner = Nobody
    <3>1. s[1] \notin Excused => Holders' = {c}
      BY <1>1, <1>3, <2>1, <2>3 DEF LeaseInv, Covered, Holders, Excused
    <3>2. s[1] \notin Excused => Cardinality(Holders') = 1
      BY <3>1, FS_Singleton
    <3>3. count' = 1
      BY <1>3, <2>3 DEF LeaseInv, LeaseTypeOK
    <3>4. \A d \in Active' : d[1] \notin Excused => d \in Holders'
      BY <1>1, <1>3, <2>1, <2>3 DEF LeaseInv, Covered, Holders, Excused
    <3> QED
      BY <1>1, <1>2, <1>3, <3>2, <3>3, <3>4 DEF LeaseInv, Covered, Excused
  <2> QED
    BY <1>3, <2>2, <2>3
<1>4. CASE UNCHANGED <<owner, count>>
           /\ told' = [told EXCEPT ![c] = IF @ = "true" THEN "true" ELSE "false"]
  <2>1. Active' = Active
    BY <1>4 DEF LeaseInv, LeaseTypeOK, Active
  <2>2. Holders' = Holders
    BY <1>4, <2>1 DEF Holders
  <2> QED
    BY <1>1, <1>2, <1>4, <2>1, <2>2 DEF LeaseInv, Covered, Excused
<1> QED
  BY <1>0, <1>3, <1>4

\* pg_advisory_unlock: an active consumer goes, with one level or with none;
\* any other one takes no level, or its process is excused from then on.
LEMMA ReleaseLease ==
  ASSUME LeaseInv, NEW c \in Consumers, Release(c)
  PROVE  LeaseInv'
<1>0. PICK s \in PoolOf(c) :
        /\ Unlock(s)
        /\ stray' = IF owner = s /\ c \notin Active THEN stray \cup {c[1]} ELSE stray
  BY DEF Release
<1>1. s \in Sessions /\ s[1] = c[1] /\ s # Nobody
  BY NobodyAssumption DEF PoolOf, Sessions, Consumers
<1>2. told' = [told EXCEPT ![c] = "released"] /\ lost' = lost
  BY DEF Release
<1>3. LeaseTypeOK'
  <2>1. c[1] \in Processes
    BY DEF Consumers
  <2> QED
    BY <2>1, <1>0, <1>1, <1>2, LeaseAssumption DEF LeaseInv, LeaseTypeOK, Unlock
<1>4. Active' = Active \ {c}
  BY <1>2 DEF LeaseInv, LeaseTypeOK, Active
<1>5. CASE owner # s
  <2>1. owner' = owner /\ count' = count /\ Excused' = Excused
    BY <1>0, <1>2, <1>5 DEF Unlock, Excused
  <2>2. Holders' \in SUBSET Holders
    BY <1>4, <2>1 DEF Holders
  <2>3. Cardinality(Holders') <= Cardinality(Holders)
    BY <2>2, HoldersFinite, FS_Subset
  <2>4. Cardinality(Holders') \in Nat /\ Cardinality(Holders) \in Nat
    BY <2>2, HoldersFinite, FS_Subset, FS_CardinalityType
  <2>5. \A d \in Active' : d[1] \notin Excused' => d \in Holders'
    BY <1>4, <2>1 DEF LeaseInv, Covered, Holders
  <2> QED
    BY <1>3, <2>1, <2>3, <2>4, <2>5 DEF LeaseInv, Covered, LeaseTypeOK
<1>6. CASE owner = s /\ c \in Active
  <2>1. c \in Holders /\ Excused' = Excused
    BY <1>0, <1>1, <1>2, <1>6 DEF Holders, Excused
  <2>2. Cardinality(Holders \ {c}) = Cardinality(Holders) - 1 /\ IsFiniteSet(Holders \ {c})
    BY <2>1, HoldersFinite, FS_RemoveElement
  <2>3. count' = count - 1 /\ count \in Nat
    BY <1>0, <1>6 DEF Unlock, LeaseInv, LeaseTypeOK
  <2>4. CASE count = 1
    <3>1. owner' = Nobody
      BY <1>0, <1>6, <2>4 DEF Unlock
    <3>2. ASSUME NEW d \in Active', d[1] \notin Excused' PROVE FALSE
      <4>1. d \in Holders \ {c}
        BY <2>1, <1>4, <3>2 DEF LeaseInv, Covered
      <4>2. owner # Nobody /\ owner[1] \notin Excused
        BY <2>1, <1>1, <1>6, <3>2, <4>1 DEF Holders
      <4>3. Cardinality(Holders) <= 1
        BY <2>4, <4>2 DEF LeaseInv, Covered
      <4>4. Cardinality(Holders \ {c}) \in Nat /\ Cardinality(Holders \ {c}) # 0
        BY <4>1, <2>2, FS_EmptySet, FS_CardinalityType
      <4>5. Cardinality(Holders) \in Nat
        BY HoldersFinite, FS_CardinalityType
      <4> QED
        BY <2>2, <4>3, <4>4, <4>5
    <3> QED
      BY <1>3, <3>1, <3>2 DEF LeaseInv, Covered
  <2>5. CASE count # 1
    <3>1. owner' = owner
      BY <1>0, <1>6, <2>5 DEF Unlock
    <3>2. Holders' = Holders \ {c}
      BY <1>4, <3>1 DEF Holders
    <3>3. Cardinality(Holders) \in Nat
      BY HoldersFinite, FS_CardinalityType
    <3>4. \A d \in Active' : d[1] \notin Excused' => d \in Holders'
      BY <2>1, <1>4, <3>2 DEF LeaseInv, Covered
    <3> QED
      BY <1>3, <2>1, <2>2, <2>3, <3>1, <3>2, <3>3, <3>4 DEF LeaseInv, Covered
  <2> QED
    BY <2>4, <2>5
<1>7. CASE owner = s /\ c \notin Active
  <2>1. s[1] \in Excused' /\ Excused \subseteq Excused'
    BY <1>0, <1>1, <1>2, <1>7 DEF Excused
  <2>2. owner' \in {s, Nobody}
    BY <1>0, <1>7 DEF Unlock
  <2>3. \A d \in Active' : d[1] \in Excused'
    BY <2>1, <1>4, <1>7 DEF LeaseInv, Covered, Holders
  <2> QED
    BY <1>3, <2>1, <2>2, <2>3 DEF LeaseInv, Covered
<1> QED
  BY <1>5, <1>6, <1>7

\* A lost session puts its process among those the property excuses.
LEMMA DropSessionLease ==
  ASSUME LeaseInv, NEW s \in Sessions, DropSession(s)
  PROVE  LeaseInv'
<1> USE DEF DropSession
<1>1. LeaseTypeOK'
  BY LeaseAssumption DEF LeaseInv, LeaseTypeOK, Sessions
<1>2. Active' = Active
  BY DEF Active
<1>3. \A d \in Active : d[1] \in Excused'
  BY NobodyAssumption DEF LeaseInv, Covered, Holders, Excused
<1> QED
  BY <1>1, <1>2, <1>3 DEF LeaseInv, Covered

\* The invariant holds in every reachable state.
THEOREM LeaseInvariance == LeaseSpec => []LeaseInv
<1>1. LeaseInv /\ [LeaseStep]_leaseVars => LeaseInv'
  <2> SUFFICES ASSUME LeaseInv, [LeaseStep]_leaseVars PROVE LeaseInv'
    OBVIOUS
  <2>1. ASSUME NEW c \in Consumers, TryAcquire(c) PROVE LeaseInv'
    BY <2>1, TryAcquireLease
  <2>2. ASSUME NEW c \in Consumers, Release(c) PROVE LeaseInv'
    BY <2>2, ReleaseLease
  <2>3. ASSUME NEW s \in Sessions, DropSession(s) PROVE LeaseInv'
    BY <2>3, DropSessionLease
  <2>4. CASE UNCHANGED leaseVars
    BY <2>4 DEF leaseVars, LeaseInv, LeaseTypeOK, Covered, Holders, Excused, Active
  <2> QED
    BY <2>1, <2>2, <2>3, <2>4 DEF LeaseStep
<1> QED
  BY InitLease, <1>1, PTL DEF LeaseSpec

\* try_acquire_lease never makes consumers of two processes active together
\* unless one of the processes has lost the session that held the lock, or
\* release_lease has given a level away there for a consumer without the lease.
THEOREM ProcessesExclude == Spec => []ExclusiveAcrossProcesses
<1>1. LeaseInv => ExclusiveAcrossProcesses
  BY DEF LeaseInv, Covered, Holders, Excused, ExclusiveAcrossProcesses, Active
<1> QED
  BY LeaseRefined, LeaseInvariance, <1>1, PTL
=============================================================================
