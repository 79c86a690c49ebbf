CONSTANTS
  Streams = {s1, s2}
  Calls = {c1, c2, c3}
  Unreadable = {c1}
SPECIFICATION Spec
INVARIANTS
  StreamsGapless
  AnswerIsTruthful
  SomeoneWins
  RehydrateSeesPrefix
PROPERTY ImplementsEventLog
SYMMETRY Symmetry
