-------------------------- MODULE MCVoicePipeline --------------------------
(***************************************************************************)
(* VoicePipeline for TLC.                                                  *)
(***************************************************************************)
EXTENDS VoicePipeline

\* What this run checks does not depend on the rows, so that a thread that
\* writes one ends, well or badly, before anything else happens.
RowsSettled == writing # {} => writing' # writing

\* FairSpec, and the recogniser that ends the call somebody hung up.
FairSpecSttGivesUp == FairSpec /\ SttGivesUp
=============================================================================
