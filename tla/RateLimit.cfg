CONSTANTS
  Request = {r1, r2}
  r1 = r1
  r2 = r2
  Email = Email
  Ip = Ip
  Paid = Paid
  MaxEvents <- MCMaxEvents
  Window <- MCWindow
  Longest = 3
  TimeBound = 4
  EventBound = 4
SPECIFICATION Spec
SYMMETRY Symmetry
INVARIANTS
  NothingForgotten
  ExcessBounded
CHECK_DEADLOCK FALSE
