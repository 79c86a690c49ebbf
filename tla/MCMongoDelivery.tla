--------------------------- MODULE MCMongoDelivery ---------------------------
\* Instance of MongoDelivery for TLC.  Relay, subscription and lease do not
\* see each other, so they are explored one at a time: at the start the
\* others have been stopped.
EXTENDS MongoDelivery

MCInit ==
  /\ LogInit
  /\ \/ RelayInit("idle") /\ SubInit(MaxRuns) /\ LeaseInit(Stopped)
     \/ RelayInit("stopped") /\ SubInit(0) /\ LeaseInit(Stopped)
     \/ RelayInit("stopped") /\ SubInit(MaxRuns) /\ LeaseInit(Idle)

MCSpec == MCInit /\ [][Next]_vars /\ Fairness
=============================================================================
