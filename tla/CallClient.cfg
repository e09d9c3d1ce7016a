CONSTANTS
  MaxStarts = 2
  MaxQueue = 2
SPECIFICATION ClientFairSpec
INVARIANTS
  GateFollowsTheTurn
  MicInReach
  EndsOnce
PROPERTIES
  RecordingSettles
CHECK_DEADLOCK FALSE
