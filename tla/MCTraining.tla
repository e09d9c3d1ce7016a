----------------------------- MODULE MCTraining -----------------------------
\* Two steps on the same avatar, which ask for different things of one
\* conversation, and a conversation before a test; each has a date that may pass.
EXTENDS Training

CONSTANT sim1

Step(t, s, c, d) == [target |-> t, score |-> s, criterion |-> c, due |-> d]

MCPaths ==
  {<<Step(Avatar, 1, 0, 1), Step(Avatar, 1, 1, Never)>>,
   <<Step(Avatar, 2, 0, Never), Step(sim1, 1, 0, 1)>>}

MCVerdicts == {[score |-> 1, criterion |-> 1], [score |-> 2, criterion |-> 0]}
=============================================================================
