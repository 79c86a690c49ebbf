CONSTANTS
  Streams = {s1}
  Ids = {i1, i2, i3}
  MaxPos = 2
  Relays = {r1, r2}
  None = None
  MaxAborts = 1
  BatchSize = 1
  MaxRuns = 2
  Consumers = {c1, c2}
  Ttl = 1
  MaxClock = 3
SPECIFICATION MCSpec
INVARIANTS
  DeliveriesAreBounded
  SkippedOnlyInTheGap
  AscendingInARun
  OneUnexpiredGrant
PROPERTY EveryEntryDispatched
CHECK_DEADLOCK FALSE
