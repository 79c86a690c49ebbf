CONSTANTS
  Streams = {s1, s2}
  Calls = {c1, c2, c3}
  Unreadable = {c1}
  PoolSize = 2
  MaxPos = 3
SPECIFICATION FairSpec
INVARIANTS
  StreamsGapless
  NoConflict
  OutboxAtomic
  AnswerIsTruthful
  RehydrateSeesPrefix
PROPERTIES
  ImplementsEventLog
  EveryCallReturns
