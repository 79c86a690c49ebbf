CONSTANTS
  Backends = {"postgres", "mongodb", "kurrentdb"}
  Workers = {w1, w2, w3}
  MaxRetries = 1
  MaxBaseline = 2
  MaxTasks = 3
  MaxLeftover = 1
SPECIFICATION Spec
INVARIANTS
  HintNeverAhead
  NoNewHoles
  OneEventPerTask
  PositionsFollowVersions
  ReportIsComplete
SYMMETRY Symmetry
