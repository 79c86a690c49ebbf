------------------------------ MODULE PgDelivery ------------------------------
(***************************************************************************)
(* One PostgreSQL event store with its consumers: appends, relay workers,  *)
(* a subscription and the lease of a consumer group over one database.     *)
(* They share the log, which the consumers only read; the lease does not   *)
(* look at it.  PgEventStore justifies the append: one step, at any free   *)
(* position beyond those of its own stream.                                *)
(***************************************************************************)
EXTENDS PgRelay, PgSubscription, PgLease

vars == <<logVars, relayVars, subVars, leaseVars>>

TypeOK == RelayTypeOK /\ SubTypeOK /\ LeaseTypeOK

Init == LogInit /\ WorkersAt("idle") /\ SubInit(0) /\ LeaseInit("none")

Next ==
  \/ \E i \in Ids, s \in Streams, p \in Position, o \in BOOLEAN :
       CommitAndNotify(i, s, p, o) /\ UNCHANGED <<relayVars, leaseVars>>
  \/ \E r \in Relays : WorkerStep(r) /\ UNCHANGED <<subVars, leaseVars>>
  \/ SubStep /\ UNCHANGED <<relayVars, leaseVars>>
  \/ LeaseStep /\ UNCHANGED <<logVars, relayVars, subVars>>

Spec == Init /\ [][Next]_vars

\* The runtime polls every relay worker and the running subscription (weak
\* fairness), and a worker that finds a pending entry again and again is not
\* refused by the database every time (strong fairness of Select, which
\* FindNothing can pre-empt).
Fairness ==
  /\ \A r \in Relays :
       /\ WF_vars(Wake(r) /\ UNCHANGED <<subVars, leaseVars>>)
       /\ WF_vars(Proceed(r) /\ UNCHANGED <<subVars, leaseVars>>)
       /\ SF_vars(Select(r) /\ UNCHANGED <<subVars, leaseVars>>)
  /\ WF_vars(Advance /\ UNCHANGED <<relayVars, leaseVars>>)

FairSpec == Spec /\ Fairness
=============================================================================
