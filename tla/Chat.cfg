CONSTANTS
  Page = {p1}
  MaxConvs = 2
  MaxTurns = 2
  MaxJudges = 2
  MaxTexts = 2
SPECIFICATION Spec
INVARIANTS
  DoneIsStored
  LateWasInFlight
  TwiceOnlyIfUntold
  JudgedWhole
CHECK_DEADLOCK FALSE
