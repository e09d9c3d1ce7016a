------------------------------- MODULE Chat -------------------------------
(***************************************************************************)
(* The written chat: the pages of one operator (useTextChat.ts and the     *)
(* parts of ChatPage.tsx it talks to), the requests they send, and the     *)
(* server that streams a reply, writes the exchange at the end of it       *)
(* (backend/routers/chat.py), closes the chat and has it judged.  The      *)
(* connection may drop at any moment: the page then takes the message for  *)
(* unsent, while the request may still run to its end.                     *)
(*                                                                         *)
(* An exchange is the request that wrote it; a text is a number.           *)
(***************************************************************************)
EXTENDS Naturals, FiniteSets

CONSTANTS Page,      \* pages open on the avatar
          MaxConvs,  \* conversations that may come to be
          MaxTurns,  \* requests POST /api/chat/message
          MaxJudges, \* requests POST .../evaluate being served at once
          MaxTexts   \* texts the operator thinks of

ASSUME BoundsAssumption == {MaxConvs, MaxTurns, MaxJudges, MaxTexts} \subseteq Nat

\* Rows and requests are numbered as they come.
Conv == 1..MaxConvs
Turn == 1..MaxTurns

VARIABLES
  conv,    \* chat_conversations: state, exchanges; atEnd and inFlight are history
  turn,    \* each request: phase, conversation, text; untold (its page cannot know
           \* what became of it) is history
  page,    \* each page: conversation, text in the composer, request awaited, end awaited,
           \* chat closed, window of the report
  judging, \* evaluation requests being served: conversation, whether and what it has read;
           \* astray (asked while the chat was open) is history
  report,  \* conversation_evaluations: the exchanges the stored judgement read
  texts    \* texts thought of so far

vars == <<conv, turn, page, judging, report, texts>>

NoConv == 0
NoTurn == 0
NoText == 0
NoReport == [there |-> FALSE, read |-> {}, astray |-> FALSE]
Asked(c, astray) == [conv |-> c, reading |-> TRUE, read |-> {}, astray |-> astray]
Report(j) == [there |-> TRUE, read |-> j.read, astray |-> j.astray]

Texts == 1..MaxTexts
Phase == {"free", "asked", "streaming", "stored", "failed"}
Over == {"stored", "failed"}

Init ==
  /\ conv = [c \in Conv |-> [state |-> "none", said |-> {}, atEnd |-> {}, inFlight |-> {}]]
  /\ turn = [t \in Turn |-> [phase |-> "free", conv |-> NoConv, text |-> NoText, untold |-> FALSE]]
  /\ page = [p \in Page |-> [conv |-> NoConv, input |-> NoText, awaits |-> NoTurn,
                             ending |-> NoConv, closed |-> NoConv, window |-> FALSE]]
  /\ judging = {}
  /\ report = [c \in Conv |-> NoReport]
  /\ texts = 0

NextConv(c) == conv[c].state = "none" /\ \A d \in 1..(c - 1) : conv[d].state # "none"
NextTurn(t) == turn[t].phase = "free" /\ \A u \in 1..(t - 1) : turn[u].phase # "free"

Exists(c) == conv[c].state \in {"open", "ended"}

---------------------------------------------------------------------------
(* The page.                                                               *)

\* ChatDock shows the composer: the chat on screen was not closed here, and
\* the window of a report does not cover it.
Composing(p) ==
  /\ ~page[p].window
  /\ page[p].conv = NoConv \/ page[p].closed # page[p].conv

\* send: one request at a time.  The text is the one a failure has put back in
\* the composer or a new one, and the composer is emptied before the answer.
Send(p, t) ==
  /\ Composing(p) /\ page[p].awaits = NoTurn
  /\ NextTurn(t)
  /\ \E text \in {page[p].input, texts + 1} \cap Texts :
       /\ turn' = [turn EXCEPT ![t] = [phase |-> "asked", conv |-> page[p].conv,
                                       text |-> text, untold |-> FALSE]]
       /\ texts' = IF text > texts THEN text ELSE texts
  /\ page' = [page EXCEPT ![p].input = NoText, ![p].awaits = t]
  /\ UNCHANGED <<conv, judging, report>>

\* onSuccess: the conversation is taken up unless one is on screen already.
Succeeded(p, t) ==
  page' = [page EXCEPT ![p].awaits = NoTurn,
                       ![p].conv = IF @ = NoConv THEN turn[t].conv ELSE @]

\* onError: the text goes back in the composer, over whatever was there.
Failed(p, t) == page' = [page EXCEPT ![p].awaits = NoTurn, ![p].input = turn[t].text]

\* The "done" or the "error" event, or the refusal as an HTTP error.
Hear(p, t) ==
  /\ page[p].awaits = t /\ turn[t].phase \in Over
  /\ IF turn[t].phase = "stored" THEN Succeeded(p, t) ELSE Failed(p, t)
  /\ UNCHANGED <<conv, turn, judging, report, texts>>

Untold(p, t) ==
  /\ Failed(p, t)
  /\ turn' = [turn EXCEPT ![t].untold = TRUE]
  /\ UNCHANGED <<conv, judging, report, texts>>

\* What follows the commit in _persist_exchange, or in event_stream, raised:
\* an "error" event ends the stream of an exchange that is stored.
HearFalseError(p, t) == page[p].awaits = t /\ turn[t].phase = "stored" /\ Untold(p, t)

\* The connection drops before the last event: "invia di nuovo il messaggio".
Cut(p, t) == page[p].awaits = t /\ Untold(p, t)

\* startNewConversation: reset, whatever request is awaited.
NewConversation(p) ==
  /\ page[p].conv # NoConv /\ ~page[p].window
  /\ page' = [page EXCEPT ![p].conv = NoConv, ![p].input = NoText]
  /\ UNCHANGED <<conv, turn, judging, report, texts>>

\* openConversation, from the column on the left, or another ?conversation=
\* in the address.
OpenConversation(p, c) ==
  /\ Exists(c) /\ page[p].conv # c
  /\ page' = [page EXCEPT ![p].conv = c, ![p].input = NoText]
  /\ UNCHANGED <<conv, turn, judging, report, texts>>

\* The red button, which an awaited reply does not keep back.  With no
\* conversation there is nothing to close, and the composer is left.
End(p) ==
  /\ Composing(p) /\ page[p].ending = NoConv
  /\ page' = IF page[p].conv = NoConv THEN [page EXCEPT ![p].input = NoText]
             ELSE [page EXCEPT ![p].ending = page[p].conv]
  /\ UNCHANGED <<conv, turn, judging, report, texts>>

---------------------------------------------------------------------------
(* The server, one exchange.                                               *)

\* Broken on purpose: a closed chat goes on.
ContextOfAnyChat(t) ==
  LET c == turn[t].conv IN
  /\ turn[t].phase = "asked"
  /\ turn' = [turn EXCEPT ![t].phase =
                IF c = NoConv \/ (c # NoConv /\ Exists(c)) THEN "streaming" ELSE "failed"]
  /\ UNCHANGED <<conv, page, judging, report, texts>>

\* _turn_context: the conversation must be there and open; the limit, an
\* avatar out of sight or archived refuse a request too.
TurnContext(t) ==
  LET c == turn[t].conv IN
  /\ turn[t].phase = "asked"
  /\ \E phase \in {"streaming", "failed"} :
       /\ phase = "streaming" /\ c # NoConv => conv[c].state = "open"
       /\ turn' = [turn EXCEPT ![t].phase = phase, ![t].conv = IF phase = "failed" THEN NoConv ELSE c]
  /\ UNCHANGED <<conv, page, judging, report, texts>>

\* Broken on purpose: what had been streamed is written, and the error sent.
SavesTheHalf(t) ==
  /\ turn[t].phase = "streaming"
  /\ turn' = [turn EXCEPT ![t].phase = "failed", ![t].conv = NoConv]
  /\ \E c \in Conv : /\ (c = turn[t].conv /\ Exists(c)) \/ (turn[t].conv = NoConv /\ NextConv(c))
                     /\ conv' = [conv EXCEPT ![c].state = IF Exists(c) THEN @ ELSE "open",
                                             ![c].said = @ \cup {t}]
  /\ UNCHANGED <<page, judging, report, texts>>

\* The model fails or says nothing, or the request is cancelled because the
\* page has gone: nothing is written.
StreamFails(t) ==
  /\ turn[t].phase = "streaming"
  /\ turn' = [turn EXCEPT ![t].phase = "failed", ![t].conv = NoConv]
  /\ UNCHANGED <<conv, page, judging, report, texts>>

\* The first message of a chat opens its conversation.
OpensConversation(t) ==
  /\ turn[t].conv = NoConv
  /\ \E c \in Conv :
       /\ NextConv(c)
       /\ conv' = [conv EXCEPT ![c].state = "open", ![c].said = {t}]
       /\ turn' = [turn EXCEPT ![t].phase = "stored", ![t].conv = c]

\* Both messages in one commit; .one() fails on a deleted conversation.
Writes(t, c) ==
  /\ c # NoConv
  /\ IF Exists(c)
     THEN /\ conv' = [conv EXCEPT ![c].said = @ \cup {t}]
          /\ turn' = [turn EXCEPT ![t].phase = "stored"]
     ELSE /\ turn' = [turn EXCEPT ![t].phase = "failed", ![t].conv = NoConv]
          /\ UNCHANGED conv

\* Broken on purpose: a conversation that has gone is opened anew.
PersistsAnew(t) ==
  /\ turn[t].phase = "streaming"
  /\ \/ OpensConversation(t)
     \/ Writes(t, turn[t].conv) /\ Exists(turn[t].conv)
     \/ /\ turn[t].conv # NoConv /\ ~Exists(turn[t].conv)
        /\ \E c \in Conv : NextConv(c) /\ conv' = [conv EXCEPT ![c].state = "open", ![c].said = {t}]
        /\ turn' = [turn EXCEPT ![t].phase = "stored"]
  /\ UNCHANGED <<page, judging, report, texts>>

\* _persist_exchange: in the request's conversation, as that is now.  What
\* follows the commit may still raise: nobody but the page sees the difference
\* (HearFalseError).
PersistExchange(t) ==
  /\ turn[t].phase = "streaming"
  /\ OpensConversation(t) \/ Writes(t, turn[t].conv)
  /\ UNCHANGED <<page, judging, report, texts>>

---------------------------------------------------------------------------
(* The end of a chat and its judgement.                                    *)

InFlight(c) == {t \in Turn : turn[t].phase = "streaming" /\ turn[t].conv = c}

\* end_chat_conversation: closing a closed chat changes nothing.
EndOnServer(p) ==
  LET c == page[p].ending IN
  /\ c # NoConv /\ conv[c].state = "open"
  /\ conv' = [conv EXCEPT ![c].state = "ended", ![c].atEnd = conv[c].said,
                          ![c].inFlight = InFlight(c)]
  /\ UNCHANGED <<turn, page, judging, report, texts>>

Ask(c, astray) ==
  judging' = judging \cup {Asked(c, astray)} /\ Cardinality(judging') <= MaxJudges

\* reset, and startEvaluation, which opens the window of the report.
Close(p, c) ==
  /\ page' = [page EXCEPT ![p].ending = NoConv, ![p].input = NoText, ![p].closed = c,
                          ![p].window = TRUE]
  /\ Ask(c, FALSE)
  /\ UNCHANGED <<conv, turn, report, texts>>

\* Broken on purpose: judged as soon as the button is pressed.
JudgeAtOnce(p) == page[p].ending # NoConv /\ Close(p, page[p].ending)

\* onEnded, when the server has answered (a conversation deleted since then
\* makes no difference to the page).
EndHeard(p) ==
  LET c == page[p].ending IN c # NoConv /\ conv[c].state \in {"ended", "deleted"} /\ Close(p, c)

\* The request to close fails, or its answer is lost: the composer stays.
EndFails(p) ==
  /\ page[p].ending # NoConv
  /\ page' = [page EXCEPT ![p].ending = NoConv]
  /\ UNCHANGED <<conv, turn, judging, report, texts>>

\* closeEvaluation, once the report, or the error, is there.
CloseWindow(p) ==
  /\ page[p].window
  /\ page' = [page EXCEPT ![p].window = FALSE]
  /\ UNCHANGED <<conv, turn, judging, report, texts>>

\* The request for the judgement fails, or its answer is lost, and the operator
\* tries again.  onRetry judges the conversation on screen, which need not be
\* the one that was closed, nor be closed.
AskAgain(p) ==
  LET c == page[p].conv IN
  /\ page[p].window /\ c # NoConv
  /\ Ask(c, conv[c].state = "open")
  /\ UNCHANGED <<conv, turn, page, report, texts>>

\* _evaluation_input: the transcript so far; then the connection is returned.
\* 404 when the conversation has gone.
EvaluationInput(j) ==
  /\ j.reading
  /\ judging' = (judging \ {j}) \cup
       {[j EXCEPT !.reading = FALSE, !.read = conv[c].said] : c \in {d \in {j.conv} : Exists(d)}}
  /\ UNCHANGED <<conv, turn, page, report, texts>>

\* evaluate_conversation fails: 502.
JudgementFails(j) ==
  /\ ~j.reading
  /\ judging' = judging \ {j}
  /\ UNCHANGED <<conv, turn, page, report, texts>>

\* _store_evaluation: the conversation is looked up again, and the last
\* judgement to arrive replaces the one before it.
StoreEvaluation(j) ==
  /\ ~j.reading
  /\ judging' = judging \ {j}
  /\ report' = [c \in Conv |-> IF c = j.conv /\ Exists(c) THEN Report(j) ELSE report[c]]
  /\ UNCHANGED <<conv, turn, page, texts>>

\* delete_conversation of routers/admin.py, or the retention's sweep: the
\* messages and the judgement go with the row.
Delete(c) ==
  /\ Exists(c)
  /\ conv' = [conv EXCEPT ![c].state = "deleted", ![c].said = {}, ![c].atEnd = {},
                          ![c].inFlight = {}]
  /\ report' = [report EXCEPT ![c] = NoReport]
  /\ UNCHANGED <<turn, page, judging, texts>>

---------------------------------------------------------------------------

PageStep(p) ==
  \/ NewConversation(p) \/ End(p) \/ EndOnServer(p) \/ EndHeard(p) \/ EndFails(p)
  \/ \E t \in Turn : Send(p, t) \/ Hear(p, t) \/ HearFalseError(p, t) \/ Cut(p, t)
  \/ \E c \in Conv : OpenConversation(p, c)
  \/ CloseWindow(p) \/ AskAgain(p)

ServerStep(t) == TurnContext(t) \/ StreamFails(t) \/ PersistExchange(t)

JudgeStep(j) == EvaluationInput(j) \/ JudgementFails(j) \/ StoreEvaluation(j)

Next ==
  \/ \E p \in Page : PageStep(p)
  \/ \E t \in Turn : ServerStep(t)
  \/ \E j \in judging : JudgeStep(j)
  \/ \E c \in Conv : Delete(c)

Spec == Init /\ [][Next]_vars

---------------------------------------------------------------------------

ConvType == [state : {"none", "open", "ended", "deleted"}, said : SUBSET Turn,
             atEnd : SUBSET Turn, inFlight : SUBSET Turn]
TurnType == [phase : Phase, conv : Conv \cup {NoConv}, text : Texts \cup {NoText},
             untold : BOOLEAN]
PageType == [conv : Conv \cup {NoConv}, input : Texts \cup {NoText}, awaits : Turn \cup {NoTurn},
             ending : Conv \cup {NoConv}, closed : Conv \cup {NoConv},
             window : BOOLEAN]
JudgingType == [conv : Conv, reading : BOOLEAN, read : SUBSET Turn, astray : BOOLEAN]
ReportType == [there : BOOLEAN, read : SUBSET Turn, astray : BOOLEAN]

\* The shape of the state, the foreign keys included: no message and no
\* judgement without its conversation.
TypeOK ==
  /\ conv \in [Conv -> ConvType]
  /\ turn \in [Turn -> TurnType]
  /\ page \in [Page -> PageType]
  /\ judging \subseteq JudgingType
  /\ \A c \in Conv : ~Exists(c) => conv[c].said = {} /\ ~report[c].there
  /\ report \in [Conv -> ReportType]
  /\ texts \in 0..MaxTexts

\* An exchange that was committed, reported as done or not, is in the
\* transcript of its conversation for as long as that exists, whatever else was
\* written or closed meanwhile, and in no other (routers/chat.py, _persist_exchange).
DoneIsStored ==
  /\ TypeOK
  /\ \A t \in Turn : turn[t].phase = "stored" =>
       {c \in Conv : t \in conv[c].said} = {c \in {turn[t].conv} : Exists(c)}

\* What a closed chat still receives was being answered when it was closed:
\* no request that found it closed is ever written in it.
LateWasInFlight ==
  \A c \in Conv : conv[c].state = "ended" => conv[c].said \subseteq conv[c].atEnd \cup conv[c].inFlight

\* A text is twice in the transcripts only if of the first of the two requests
\* the page could not know that it was stored: the connection dropped, or an
\* error was sent after the commit (useTextChat.ts:127-137, routers/chat.py:419-423,
\* 583).  An error before the commit, a conversation closed or deleted
\* meanwhile, a page that goes elsewhere do not make one.
TwiceOnlyIfUntold ==
  \A t, u \in Turn :
    /\ t < u /\ turn[t].text = turn[u].text /\ turn[t].text # NoText
    /\ \E c, d \in Conv : t \in conv[c].said /\ u \in conv[d].said
    => turn[t].untold

\* The judgement of a chat was made on all that had been said when it was
\* closed, however many were asked for, in whatever order they came back, and
\* none outlives its conversation.  There is one exception: the window of a
\* failed judgement, tried again over a chat that is still open, has that one
\* judged as it is, and its judgement may be the last to arrive (ChatPage.tsx:564).
JudgedWhole ==
  \A c \in Conv : report[c].there =>
    report[c].astray \/ (conv[c].state = "ended" /\ conv[c].atEnd \subseteq report[c].read)
=============================================================================
