--------------------------- MODULE MCSimulations ---------------------------
\* The contents of a write: enough questions, all of them finished or not.  A
\* pool with too few is the empty one.
EXTENDS Simulations

MCContents == {[size |-> 2, finished |-> TRUE], [size |-> 2, finished |-> FALSE]}
=============================================================================
