CONSTANTS
  Tab = {t1, t2}
  Followed = {t1}
  MaxSessions = 2
  MaxRequests = 2
SPECIFICATION FairSpec
INVARIANTS
  OneRefresh
  CacheIsOwn
PROPERTIES
  GoodSessionStays
  WaitingEnds
CHECK_DEADLOCK FALSE
