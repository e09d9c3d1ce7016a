CONSTANTS
  Browser = {b1, b2}
  Session = {s1, s2}
  Token = {t1, t2}
  Request = {q1, q2}
  AccessLife = 2
  Leeway = 1
  AnchorExpiry = 4
  MaxTime = 2
  Across = {"idle", "mint", "postcheck", "revoke", "signOut", "reopen"}
SPECIFICATION Spec
SYMMETRY Interchangeable
INVARIANTS
  ClosedStaysClosed
  TokensFollowTheAnchor
CHECK_DEADLOCK FALSE
