CONSTANTS
  Simulations = {sim1}
  sim1 = sim1
  Nothing = Nothing
  Paths <- MCPaths
  Verdicts <- MCVerdicts
  Corrections = {1}
  Marks = {1}
  DueSoon = 1
  TimeBound = 2
  MaxTalks = 2
  MaxTests = 1
  MaxAssigned = 1
  MaxWrites = 3
SPECIFICATION PathSpec
INVARIANTS
  PassedIffPossible
  OneStepOpen
PROPERTIES
  NothingIsTakenBack
  RewrittenIsTold
CHECK_DEADLOCK FALSE
