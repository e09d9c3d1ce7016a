CONSTANTS
  Replica = {r1, r2}
  Conv = {c1}
  Session = {s1, s2}
  Socket = {w1, w2}
  MaxCalls = 1
SPECIFICATION FairSpec
INVARIANTS
  SlotsExact
  RowsInOrder
PROPERTIES
  RowsGo
  SlotsComeBack
CHECK_DEADLOCK FALSE
