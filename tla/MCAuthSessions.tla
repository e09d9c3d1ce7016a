--------------------------- MODULE MCAuthSessions ---------------------------
(***************************************************************************)
(* AuthSessions for TLC: the members of each set are interchangeable.      *)
(***************************************************************************)
EXTENDS AuthSessions, TLC

Interchangeable ==
  Permutations(Browser) \cup Permutations(Session) \cup Permutations(Token) \cup Permutations(Request)
=============================================================================
