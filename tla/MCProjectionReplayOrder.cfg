CONSTANTS
  Programs = {"projection"}
  Seeds = 3
  Live = 1
  SeedBatch = 2
  PollLimit = 2
  FlushSize = 2
  Capacities = {0, 1, 2, 3}
  MaxLeftover = 2
  ViewSeeds = 3
  ViewBatch = 2
  SyncWrites = 1
  LagWrites = 4
  MaxOldCold = 2
  Concurrency = 2
  BatchSizes = {1, 2}
  MaxWrites = 4
  MaxOld = 2
  CacheSizes = {1, 2, 3}
  CacheSeeds = 4
  CacheBatch = 3
  LiveWrites = 3
  MaxPrior = 3
  EventCount = 5
  SnapshotEvery = 2
  Quantities = {1, 2}
  Services = {p1, p2}
SPECIFICATION RunSpec
INVARIANT ReplayInInsertionOrder
