CONSTANTS
  MaxShares = 2
  MaxTests = 2
  MaxAttempts = 2
  Length = 2
SPECIFICATION RunnerFairSpec
INVARIANTS
  ScreenInReach
  InterruptedIsSent
  VideoOfItsTest
PROPERTIES
  GivenIsStored
  VideoIsTold
CHECK_DEADLOCK FALSE
