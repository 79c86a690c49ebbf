CONSTANTS
  Streams = {s1, s2}
  Ids = {i1, i2, i3}
  MaxPos = 3
  Relays = {r1, r2}
  None = None
  MaxAborts = 1
  MaxRuns = 2
  Processes = {p1, p2}
  Slots = {l1, l2}
  Workers = {w1, w2}
  Nobody = Nobody
  MaxCount = 4
SPECIFICATION MCSpec
INVARIANT ExactlyOnceDispatch
CHECK_DEADLOCK FALSE
