CONSTANTS
  Contents <- MCContents
  DrawCount = 2
  MaxWrites = 2
  MaxDraws = 2
  MaxReviews = 1
  MaxSubs = 2
SPECIFICATION Spec
INVARIANTS
  GradedAsAsked
  ReviewIsOfThisPool
  PublishedWasRead
  TwiceOnlyIfLost
CHECK_DEADLOCK FALSE
