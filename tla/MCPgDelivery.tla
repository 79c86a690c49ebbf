----------------------------- MODULE MCPgDelivery -----------------------------
\* Instance of PgDelivery for TLC.  Relay, subscription and lease do not see
\* each other, so they are explored one at a time: at the start the others
\* have stopped for good.  To keep the log small one id is in it already, as a
\* plain append; where only the lease moves, all of them are.
EXTENDS PgDelivery, SequencesExt

\* The first n ids have been appended to one stream, without outbox rows.
LogWith(n) ==
  LET q == SetToSeq(Ids)
      s == CHOOSE t \in Streams : TRUE
  IN  /\ events = {[id |-> q[k], stream |-> s, version |-> k - 1, pos |-> k - 1] : k \in 1 .. n}
      /\ outbox = {}
      /\ next = [t \in Streams |-> IF t = s THEN n ELSE 0]

MCInit ==
  \/ LogWith(1) /\ WorkersAt("idle") /\ SubInit(MaxRuns) /\ LeaseInit("stopped")
  \/ LogWith(1) /\ WorkersAt("stopped") /\ SubInit(0) /\ LeaseInit("stopped")
  \/ LogWith(Cardinality(Ids)) /\ WorkersAt("stopped") /\ SubInit(MaxRuns) /\ LeaseInit("none")

MCSpec == MCInit /\ [][Next]_vars /\ Fairness
=============================================================================
