---------------------------- MODULE MongoDelivery ----------------------------
(***************************************************************************)
(* One MongoDB event store with its consumers: appends, relay workers, a   *)
(* subscription and the lease of a consumer group over one database.  They *)
(* share nothing but the log, which the consumers only read.               *)
(* MongoEventStore justifies the append: one step, at the position that    *)
(* follows all others.                                                     *)
(***************************************************************************)
EXTENDS MongoRelay, MongoSubscription, MongoLease

vars == <<logVars, relayVars, subVars, leaseVars>>

TypeOK == LogTypeOK /\ RelayTypeOK /\ SubTypeOK /\ LeaseTypeOK

Init == LogInit /\ RelayInit("idle") /\ SubInit(0) /\ LeaseInit(Idle)

AppendNext(i, s, o) ==
  /\ Cardinality(events) \in Position
  /\ AppendEvent(i, s, Cardinality(events), o)
  /\ Observe(Cardinality(events))
  /\ UNCHANGED <<relayVars, leaseVars>>

Next ==
  \/ \E i \in Ids, s \in Streams, o \in BOOLEAN : AppendNext(i, s, o)
  \/ \E r \in Relays : RelayStep(r) /\ UNCHANGED <<logVars, subVars, leaseVars>>
  \/ SubStep /\ UNCHANGED <<logVars, relayVars, leaseVars>>
  \/ LeaseStep /\ UNCHANGED <<logVars, relayVars, subVars>>

Spec == Init /\ [][Next]_vars

\* The runtime polls every worker; a worker that finds pending entries again
\* and again is not refused by the database every time.
Fairness ==
  \A r \in Relays :
    /\ WF_vars(Proceed(r) /\ UNCHANGED <<logVars, subVars, leaseVars>>)
    /\ SF_vars(Find(r) /\ UNCHANGED <<logVars, subVars, leaseVars>>)

FairSpec == Spec /\ Fairness
=============================================================================
