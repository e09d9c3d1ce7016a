-------------------------- MODULE MCTokenDenylist --------------------------
(***************************************************************************)
(* TokenDenylist for TLC: two threads of one process, and one of another.  *)
(***************************************************************************)
EXTENDS TokenDenylist

CONSTANTS p1, p2

TwoAndOne == {<<p1, 1>>, <<p1, 2>>, <<p2, 1>>}
TwoOfOne  == {<<p1, 1>>, <<p1, 2>>}
=============================================================================
