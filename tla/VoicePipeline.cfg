CONSTANTS
  MaxCommits = 2
  MaxDeltas = 1
SPECIFICATION FairSpecSttGivesUp
ACTION_CONSTRAINT RowsSettled
INVARIANTS
  Orderly
  NoSpeechTwice
  NoSpeechLost
PROPERTIES
  KeepsTranscript
  CallGoesOn
CHECK_DEADLOCK FALSE
