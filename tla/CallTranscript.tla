--------------------------- MODULE CallTranscript ---------------------------
(***************************************************************************)
(* What backend/voice_pipeline.py promises about the operator's words: a   *)
(* commit that was heard waits its turn and is then told to the model,     *)
(* once, together with the commits it was glued to.  Only hanging up may   *)
(* drop words that were still waiting.  VoicePipeline implements this.     *)
(***************************************************************************)
EXTENDS Naturals

CONSTANT MaxCommits  \* bound: commits the STT delivers in the call

VARIABLES
  open,     \* nobody has hung up
  heard,    \* commits received so far, numbered from 1
  waiting,  \* those not told yet
  told      \* those in the history the model answers from

tvars == <<open, heard, waiting, told>>

Init == open = TRUE /\ heard = 0 /\ waiting = {} /\ told = {}

Hear ==
  /\ heard < MaxCommits
  /\ heard' = heard + 1 /\ waiting' = waiting \cup {heard + 1}
  /\ UNCHANGED <<open, told>>

Tell(words) ==
  /\ told' = told \cup words /\ waiting' = waiting \ words
  /\ UNCHANGED <<open, heard>>

HangUp(dropped) ==
  /\ open /\ open' = FALSE
  /\ waiting' = waiting \ dropped
  /\ UNCHANGED <<heard, told>>

Next == Hear \/ \E words \in SUBSET waiting : Tell(words) \/ HangUp(words)

Spec == Init /\ [][Next]_tvars

\* Words told to the model are never told again: a later turn takes words
\* that were still waiting (voice_pipeline.py:703-721).
ToldOnce == waiting \cap told = {}

\* Until somebody hangs up nothing that was heard is missing, and nothing is
\* told that was not heard.
NothingMissing == waiting \cup told \subseteq 1..heard /\ (open => 1..heard \subseteq waiting \cup told)
=============================================================================
