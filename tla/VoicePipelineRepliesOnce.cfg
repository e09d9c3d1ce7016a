CONSTANTS
  MaxCommits = 2
  MaxDeltas = 1
SPECIFICATION Spec
INVARIANT RepliesOnce
CHECK_DEADLOCK FALSE
