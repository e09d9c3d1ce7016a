CONSTANTS
  p1 = p1
  p2 = p2
  Process = {p1, p2}
  Thread <- TwoAndOne
  Jti = {j1}
  CacheTTL = 1
  Life = 4
  Slowest = 1
  MaxTime = 5
SPECIFICATION Spec
INVARIANTS
  Accurate
PROPERTIES
  ReachesAll
CHECK_DEADLOCK FALSE
