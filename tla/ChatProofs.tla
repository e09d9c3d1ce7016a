----------------------------- MODULE ChatProofs -----------------------------
(***************************************************************************)
(* What holds of the chat for every number of pages, conversations,        *)
(* requests, judgements and texts; and of the path whose steps its         *)
(* judgements are spent on, for every path and every length of it.         *)
(***************************************************************************)
EXTENDS Chat, Training, FiniteSetTheorems, SequenceTheorems, WellFoundedInduction, TLAPS

\* An exchange is in the conversation of the request that wrote it and in no
\* other, and what a request or a page names has come to be.
Placed ==
  /\ \A t \in Turn : turn[t].phase = "stored" => turn[t].conv # NoConv
  /\ \A c \in Conv : \A t \in Turn :
       t \in conv[c].said <=> turn[t].phase = "stored" /\ turn[t].conv = c /\ Exists(c)
  /\ \A t \in Turn : turn[t].conv # NoConv => conv[turn[t].conv].state # "none"
  /\ \A p \in Page : page[p].conv # NoConv => conv[page[p].conv].state # "none"

\* What a closed chat is made of, and what asks for its judgement.
Final ==
  /\ \A c \in Conv :
       /\ conv[c].atEnd \subseteq conv[c].said
       /\ report[c].there =>
            report[c].astray \/ (conv[c].state = "ended" /\ conv[c].atEnd \subseteq report[c].read)
       /\ conv[c].state = "ended" =>
            /\ conv[c].said \subseteq conv[c].atEnd \cup conv[c].inFlight
            /\ InFlight(c) \subseteq conv[c].inFlight
  /\ \A j \in judging : ~j.astray =>
       /\ conv[j.conv].state \in {"ended", "deleted"}
       /\ ~j.reading => conv[j.conv].atEnd \subseteq j.read

\* A request that may still say "done", or that a page still awaits.
Active(t) ==
  \/ turn[t].phase \in {"asked", "streaming", "stored"} /\ ~turn[t].untold
  \/ \E p \in Page : page[p].awaits = t

\* A text is in one composer or in one active request.
OneOwner ==
  /\ \A t \in Turn : Active(t) => turn[t].phase # "free" /\ turn[t].text # NoText
  /\ \A p \in Page : page[p].awaits # NoTurn => ~turn[page[p].awaits].untold
  /\ \A p, q \in Page : page[p].awaits = page[q].awaits /\ page[p].awaits # NoTurn => p = q
  /\ \A t, u \in Turn : Active(t) /\ Active(u) /\ turn[t].text = turn[u].text => t = u
  /\ \A t \in Turn : \A p \in Page : Active(t) => page[p].input # turn[t].text
  /\ \A p, q \in Page : page[p].input = page[q].input /\ page[p].input # NoText => p = q
  /\ \A t \in Turn : turn[t].text <= texts
  /\ \A p \in Page : page[p].input <= texts

\* Requests are sent in the order of their numbers, and a text is sent again
\* only after one that failed or whose end its page does not know.
InTurn ==
  \A t, u \in Turn : t < u =>
    /\ turn[t].phase = "free" => turn[u].phase = "free"
    /\ turn[u].phase # "free" /\ turn[t].text = turn[u].text => turn[t].untold \/ turn[t].phase = "failed"

IInv == TypeOK /\ Placed /\ Final /\ OneOwner /\ InTurn

---------------------------------------------------------------------------

\* A row that keeps its shape.
LEMMA PageTyped ==
  ASSUME TypeOK, NEW p \in Page, NEW x \in PageType, page' = [page EXCEPT ![p] = x]
  PROVE  page' \in [Page -> PageType]
BY DEF TypeOK

LEMMA TurnTyped ==
  ASSUME TypeOK, NEW t \in Turn, NEW x \in TurnType, turn' = [turn EXCEPT ![t] = x]
  PROVE  turn' \in [Turn -> TurnType]
BY DEF TypeOK

LEMMA ConvTyped ==
  ASSUME TypeOK, NEW c \in Conv, NEW x \in ConvType, conv' = [conv EXCEPT ![c] = x]
  PROVE  conv' \in [Conv -> ConvType]
BY DEF TypeOK

\* Phases by name.
LEMMA Phases ==
  /\ {"free", "asked", "streaming", "stored", "failed"} \subseteq Phase
  /\ NoText \in Texts \cup {NoText}
BY DEF Phase

LEMMA TypeStep ==
  ASSUME IInv, [Next]_vars
  PROVE  TypeOK'
<1> USE DEF IInv
<1>b. ASSUME NEW p \in Page PROVE page[p] \in PageType BY DEF TypeOK
<1>c. ASSUME NEW t \in Turn PROVE turn[t] \in TurnType BY DEF TypeOK
<1>d. ASSUME NEW c \in Conv PROVE conv[c] \in ConvType BY DEF TypeOK
<1>1. ASSUME NEW p \in Page, NEW t \in Turn, Send(p, t) PROVE TypeOK'
  <2>1. page' \in [Page -> PageType]
    <3>1. page' = [page EXCEPT ![p] = [page[p] EXCEPT !.input = NoText, !.awaits = t]]
      BY <1>1 DEF Send
    <3>2. [page[p] EXCEPT !.input = NoText, !.awaits = t] \in PageType BY <1>b DEF PageType
    <3> QED BY <3>1, <3>2, PageTyped
  <2>2. turn' \in [Turn -> TurnType] /\ texts' \in 0..MaxTexts
    BY <1>1, <1>b DEF Send, TypeOK, TurnType, PageType, Texts, Phase
  <2> QED BY <1>1, <2>1, <2>2 DEF Send, TypeOK, Exists
<1>2. ASSUME NEW p \in Page, NEW t \in Turn, Hear(p, t) PROVE TypeOK'
  <2>1. page' \in [Page -> PageType]
    BY <1>2, <1>b, <1>c, PageTyped DEF Hear, Succeeded, Failed, PageType, TurnType
  <2> QED BY <1>2, <2>1 DEF Hear, TypeOK, Exists
<1>3. ASSUME NEW p \in Page, NEW t \in Turn, page[p].awaits = t, Untold(p, t) PROVE TypeOK'
  <2>0. turn[t].text \in Texts \cup {NoText} BY <1>c DEF TurnType
  <2>1. page' \in [Page -> PageType]
    <3>1. page' = [page EXCEPT ![p] = [page[p] EXCEPT !.awaits = NoTurn, !.input = turn[t].text]]
      BY <1>3 DEF Untold, Failed
    <3>2. [page[p] EXCEPT !.awaits = NoTurn, !.input = turn[t].text] \in PageType
      BY <1>b, <2>0 DEF PageType
    <3> QED BY <3>1, <3>2, PageTyped
  <2>2. turn' \in [Turn -> TurnType]
    <3>1. turn' = [turn EXCEPT ![t] = [turn[t] EXCEPT !.untold = TRUE]] BY <1>3 DEF Untold
    <3>2. [turn[t] EXCEPT !.untold = TRUE] \in TurnType BY <1>c DEF TurnType
    <3> QED BY <3>1, <3>2, TurnTyped
  <2> QED BY <1>3, <2>1, <2>2 DEF Untold, TypeOK, Exists
<1>4. ASSUME NEW p \in Page, NewConversation(p) PROVE TypeOK'
  <2>1. page' \in [Page -> PageType]
    <3>1. page' = [page EXCEPT ![p] = [page[p] EXCEPT !.conv = NoConv, !.input = NoText]]
      BY <1>4 DEF NewConversation
    <3>2. [page[p] EXCEPT !.conv = NoConv, !.input = NoText] \in PageType
      BY <1>b DEF PageType
    <3> QED BY <3>1, <3>2, PageTyped
  <2> QED BY <1>4, <2>1 DEF NewConversation, TypeOK, Exists
<1>5. ASSUME NEW p \in Page, NEW c \in Conv, OpenConversation(p, c) PROVE TypeOK'
  <2>1. page' \in [Page -> PageType]
    <3>1. page' = [page EXCEPT ![p] = [page[p] EXCEPT !.conv = c, !.input = NoText]]
      BY <1>5 DEF OpenConversation
    <3>2. [page[p] EXCEPT !.conv = c, !.input = NoText] \in PageType BY <1>b DEF PageType
    <3> QED BY <3>1, <3>2, PageTyped
  <2> QED BY <1>5, <2>1 DEF OpenConversation, TypeOK, Exists
<1>6. ASSUME NEW p \in Page, End(p) PROVE TypeOK'
  <2> DEFINE x == [page[p] EXCEPT !.input = NoText]  y == [page[p] EXCEPT !.ending = page[p].conv]
  <2>1. x \in PageType /\ y \in PageType BY <1>b DEF PageType
  <2>2. page' = [page EXCEPT ![p] = x] \/ page' = [page EXCEPT ![p] = y] BY <1>6 DEF End
  <2>3. page' \in [Page -> PageType]
    <3> HIDE DEF x, y
    <3> QED BY <2>1, <2>2, PageTyped
  <2> QED BY <1>6, <2>3 DEF End, TypeOK, Exists
<1>7. ASSUME NEW p \in Page, EndOnServer(p) PROVE TypeOK'
  <2> DEFINE c == page[p].ending
             x == [conv[c] EXCEPT !.state = "ended", !.atEnd = conv[c].said,
                                  !.inFlight = InFlight(c)]
  <2>1. c \in Conv BY <1>7, <1>b DEF EndOnServer, PageType
  <2>2. conv' = [conv EXCEPT ![c] = x] BY <1>7 DEF EndOnServer
  <2>3. InFlight(c) \in SUBSET Turn BY DEF InFlight
  <2>4. x \in ConvType
    <3> HIDE DEF c
    <3> QED BY <2>1, <2>3, <1>d DEF ConvType
  <2>5. conv' \in [Conv -> ConvType]
    <3> HIDE DEF c, x
    <3> QED BY <2>1, <2>2, <2>4, ConvTyped
  <2>6. \A d \in Conv : ~Exists(d)' => conv'[d].said = {} /\ ~report[d].there
    BY <1>7, <2>1 DEF EndOnServer, TypeOK, Exists, ConvType
  <2> QED BY <1>7, <2>5, <2>6 DEF EndOnServer, TypeOK
<1>8. ASSUME NEW p \in Page, EndHeard(p) PROVE TypeOK'
  <2> DEFINE c == page[p].ending
  <2>0. c \in Conv BY <1>8, <1>b DEF EndHeard, PageType
  <2>1. page' \in [Page -> PageType]
    <3>1. page' = [page EXCEPT ![p] = [page[p] EXCEPT !.ending = NoConv, !.input = NoText, !.closed = c,
                                                      !.window = TRUE]]
      BY <1>8 DEF EndHeard, Close
    <3>2. [page[p] EXCEPT !.ending = NoConv, !.input = NoText, !.closed = c, !.window = TRUE] \in PageType
      BY <1>b, <2>0 DEF PageType
    <3> QED BY <3>1, <3>2, PageTyped
  <2>2. judging' \subseteq JudgingType
    <3>1. Asked(c, FALSE) \in JudgingType BY <2>0 DEF Asked, JudgingType
    <3> QED BY <1>8, <3>1 DEF EndHeard, Close, Ask, TypeOK
  <2> QED BY <1>8, <2>1, <2>2 DEF EndHeard, Close, TypeOK, Exists
<1>9. ASSUME NEW p \in Page, EndFails(p) PROVE TypeOK'
  <2>1. page' \in [Page -> PageType]
    <3>1. page' = [page EXCEPT ![p] = [page[p] EXCEPT !.ending = NoConv]]
      BY <1>9 DEF EndFails
    <3>2. [page[p] EXCEPT !.ending = NoConv] \in PageType BY <1>b DEF PageType
    <3> QED BY <3>1, <3>2, PageTyped
  <2> QED BY <1>9, <2>1 DEF EndFails, TypeOK, Exists
<1>10. ASSUME NEW p \in Page, AskAgain(p) PROVE TypeOK'
  <2>1. page[p].conv \in Conv BY <1>10, <1>b DEF AskAgain, PageType
  <2>2. Asked(page[p].conv, conv[page[p].conv].state = "open") \in JudgingType
    BY <2>1 DEF Asked, JudgingType
  <2> QED BY <1>10, <2>2 DEF AskAgain, Ask, TypeOK, Exists
<1>19. ASSUME NEW p \in Page, CloseWindow(p) PROVE TypeOK'
  <2>1. page' = [page EXCEPT ![p] = [page[p] EXCEPT !.window = FALSE]] BY <1>19 DEF CloseWindow
  <2>2. [page[p] EXCEPT !.window = FALSE] \in PageType BY <1>b DEF PageType
  <2>3. page' \in [Page -> PageType] BY <2>1, <2>2, PageTyped
  <2> QED BY <1>19, <2>3 DEF CloseWindow, TypeOK, Exists
<1>11. ASSUME NEW t \in Turn, TurnContext(t) PROVE TypeOK'
  <2>1. PICK phase \in {"streaming", "failed"} :
          turn' = [turn EXCEPT ![t].phase = phase,
                               ![t].conv = IF phase = "failed" THEN NoConv ELSE turn[t].conv]
    BY <1>11 DEF TurnContext
  <2> DEFINE x == [turn[t] EXCEPT !.phase = phase,
                                  !.conv = IF phase = "failed" THEN NoConv ELSE turn[t].conv]
  <2>2. x \in TurnType BY <1>c, Phases DEF TurnType
  <2>3. turn' = [turn EXCEPT ![t] = x] BY <2>1
  <2>4. turn' \in [Turn -> TurnType]
    <3> HIDE DEF x
    <3> QED BY <2>2, <2>3, TurnTyped
  <2> QED BY <1>11, <2>4 DEF TurnContext, TypeOK, Exists
<1>12. ASSUME NEW t \in Turn, StreamFails(t) PROVE TypeOK'
  <2>1. turn' \in [Turn -> TurnType]
    <3>1. turn' = [turn EXCEPT ![t] = [turn[t] EXCEPT !.phase = "failed", !.conv = NoConv]]
      BY <1>12 DEF StreamFails
    <3>2. [turn[t] EXCEPT !.phase = "failed", !.conv = NoConv] \in TurnType
      BY <1>c, Phases DEF TurnType
    <3> QED BY <3>1, <3>2, TurnTyped
  <2> QED BY <1>12, <2>1 DEF StreamFails, TypeOK, Exists
<1>13. ASSUME NEW t \in Turn, PersistExchange(t) PROVE TypeOK'
  <2>1. CASE OpensConversation(t)
    <3>0. PICK c \in Conv :
            /\ conv' = [conv EXCEPT ![c].state = "open", ![c].said = {t}]
            /\ turn' = [turn EXCEPT ![t].phase = "stored", ![t].conv = c]
      BY <2>1 DEF OpensConversation
    <3>1. /\ conv' = [conv EXCEPT ![c] = [conv[c] EXCEPT !.state = "open", !.said = {t}]]
          /\ turn' = [turn EXCEPT ![t] = [turn[t] EXCEPT !.phase = "stored", !.conv = c]]
      BY <3>0
    <3>2. [turn[t] EXCEPT !.phase = "stored", !.conv = c] \in TurnType
      BY <1>c, Phases DEF TurnType
    <3>3. [conv[c] EXCEPT !.state = "open", !.said = {t}] \in ConvType BY <1>d DEF ConvType
    <3>4. turn' \in [Turn -> TurnType] /\ conv' \in [Conv -> ConvType]
      BY <3>1, <3>2, <3>3, TurnTyped, ConvTyped
    <3>5. \A d \in Conv : ~Exists(d)' => conv'[d].said = {} /\ ~report[d].there
      BY <3>1 DEF TypeOK, Exists, ConvType
    <3> QED BY <1>13, <3>4, <3>5 DEF PersistExchange, TypeOK
  <2>2. CASE Writes(t, turn[t].conv)
    <3> DEFINE c == turn[t].conv
    <3>1. c \in Conv BY <2>2, <1>c DEF Writes, TurnType
    <3>2. [turn[t] EXCEPT !.phase = "stored"] \in TurnType
          /\ [turn[t] EXCEPT !.phase = "failed", !.conv = NoConv] \in TurnType
      BY <1>c, Phases DEF TurnType
    <3>a. ASSUME turn' = [turn EXCEPT ![t] = [turn[t] EXCEPT !.phase = "stored"]]
          PROVE  turn' \in [Turn -> TurnType]
      BY <3>a, <3>2, TurnTyped
    <3>b. ASSUME turn' = [turn EXCEPT ![t] = [turn[t] EXCEPT !.phase = "failed", !.conv = NoConv]]
          PROVE  turn' \in [Turn -> TurnType]
      BY <3>b, <3>2, TurnTyped
    <3>3. turn' \in [Turn -> TurnType] BY <2>2, <3>a, <3>b DEF Writes
    <3>4. [conv[c] EXCEPT !.said = @ \cup {t}] \in ConvType
      <4> HIDE DEF c
      <4> QED BY <1>d, <3>1 DEF ConvType
    <3>5. conv' \in [Conv -> ConvType] BY <2>2, <3>1, <3>4, ConvTyped DEF Writes, TypeOK
    <3>6. \A d \in Conv : ~Exists(d)' => conv'[d].said = {} /\ ~report[d].there
      BY <2>2, <3>1 DEF Writes, TypeOK, Exists, ConvType
    <3> QED BY <1>13, <3>3, <3>5, <3>6 DEF PersistExchange, TypeOK
  <2> QED BY <1>13, <2>1, <2>2 DEF PersistExchange
<1>14. ASSUME NEW j \in judging, EvaluationInput(j) PROVE TypeOK'
  <2>1. \A c \in Conv : [j EXCEPT !.reading = FALSE, !.read = conv[c].said] \in JudgingType
    BY <1>d DEF ConvType, JudgingType, TypeOK
  <2>2. j.conv \in Conv BY DEF TypeOK, JudgingType
  <2>3. judging' \subseteq JudgingType
    BY <1>14, <2>1, <2>2 DEF EvaluationInput, TypeOK
  <2> QED BY <1>14, <2>3 DEF EvaluationInput, TypeOK, Exists
<1>15. ASSUME NEW j \in judging, JudgementFails(j) PROVE TypeOK'
  BY <1>15 DEF JudgementFails, TypeOK, Exists
<1>16. ASSUME NEW j \in judging, StoreEvaluation(j) PROVE TypeOK'
  <2>1. j.conv \in Conv /\ Report(j) \in ReportType BY DEF TypeOK, JudgingType, ReportType, Report
  <2> QED BY <1>16, <2>1 DEF StoreEvaluation, TypeOK, Exists
<1>17. ASSUME NEW c \in Conv, Delete(c) PROVE TypeOK'
  <2>1. conv' \in [Conv -> ConvType]
    <3>1. conv' = [conv EXCEPT ![c] = [conv[c] EXCEPT !.state = "deleted", !.said = {}, !.atEnd = {}, !.inFlight = {}]]
      BY <1>17 DEF Delete
    <3>2. [conv[c] EXCEPT !.state = "deleted", !.said = {}, !.atEnd = {}, !.inFlight = {}] \in ConvType
      BY <1>d DEF ConvType
    <3> QED BY <3>1, <3>2, ConvTyped
  <2>2. report' \in [Conv -> ReportType]
    BY <1>17 DEF Delete, NoReport, ReportType, TypeOK
  <2> QED BY <1>17, <2>1, <2>2 DEF Delete, NoReport, TypeOK, Exists, ConvType
<1>18. CASE UNCHANGED vars BY <1>18 DEF vars, TypeOK, Exists
<1> QED BY <1>1, <1>2, <1>3, <1>4, <1>5, <1>6, <1>7, <1>8, <1>9, <1>10, <1>11, <1>12, <1>13,
           <1>14, <1>15, <1>16, <1>17, <1>18, <1>19
    DEF Next, PageStep, HearFalseError, Cut, ServerStep, JudgeStep

\* What the end of a stream leaves: an exchange in the conversation it opened,
\* or in its own as that is now, or nothing.
Wrote(t, c) ==
  /\ turn'[t].phase = "stored" /\ turn'[t].conv = c
  /\ \/ conv[c].state = "none" /\ turn[t].conv = NoConv /\ conv'[c].state = "open"
     \/ Exists(c) /\ turn[t].conv = c /\ conv'[c].state = conv[c].state
  /\ conv'[c].said = conv[c].said \cup {t}
  /\ conv'[c].atEnd = conv[c].atEnd /\ conv'[c].inFlight = conv[c].inFlight
  /\ \A d \in Conv \ {c} : conv'[d] = conv[d]

LEMMA Persisted ==
  ASSUME IInv, NEW t \in Turn, PersistExchange(t)
  PROVE  /\ \A u \in Turn \ {t} : turn'[u] = turn[u]
         /\ turn'[t].text = turn[t].text /\ turn'[t].untold = turn[t].untold
         /\ \/ \E c \in Conv : Wrote(t, c)
            \/ turn'[t].phase = "failed" /\ turn'[t].conv = NoConv /\ conv' = conv
<1> USE DEF IInv
<1>a. turn \in [Turn -> TurnType] /\ conv \in [Conv -> ConvType] BY DEF TypeOK
<1>1. CASE OpensConversation(t)
  <2>1. PICK c \in Conv :
          /\ NextConv(c)
          /\ conv' = [conv EXCEPT ![c].state = "open", ![c].said = {t}]
          /\ turn' = [turn EXCEPT ![t].phase = "stored", ![t].conv = c]
    BY <1>1 DEF OpensConversation
  <2>2. conv[c].state = "none" /\ conv[c].said = {} /\ turn[t].conv = NoConv
    BY <1>1, <2>1 DEF OpensConversation, NextConv, TypeOK, Exists
  <2>3. /\ turn'[t].phase = "stored" /\ turn'[t].conv = c
        /\ turn'[t].text = turn[t].text /\ turn'[t].untold = turn[t].untold
        /\ \A u \in Turn \ {t} : turn'[u] = turn[u]
    BY <1>a, <2>1 DEF TurnType
  <2>4. /\ conv'[c].state = "open" /\ conv'[c].said = {t}
        /\ conv'[c].atEnd = conv[c].atEnd /\ conv'[c].inFlight = conv[c].inFlight
        /\ \A d \in Conv \ {c} : conv'[d] = conv[d]
    BY <1>a, <2>1 DEF ConvType
  <2> QED BY <2>2, <2>3, <2>4 DEF Wrote
<1>2. CASE Writes(t, turn[t].conv) /\ Exists(turn[t].conv)
  <2> DEFINE c == turn[t].conv
  <2>1. c \in Conv BY <1>2, <1>a DEF Writes, TurnType
  <2>2. /\ turn'[t].phase = "stored" /\ turn'[t].conv = c
        /\ turn'[t].text = turn[t].text /\ turn'[t].untold = turn[t].untold
        /\ \A u \in Turn \ {t} : turn'[u] = turn[u]
    BY <1>2, <1>a DEF Writes, TurnType
  <2>3. conv' = [conv EXCEPT ![c].said = @ \cup {t}] BY <1>2 DEF Writes
  <2>4. /\ conv'[c].state = conv[c].state /\ conv'[c].said = conv[c].said \cup {t}
        /\ conv'[c].atEnd = conv[c].atEnd /\ conv'[c].inFlight = conv[c].inFlight
        /\ \A d \in Conv \ {c} : conv'[d] = conv[d]
    <3> HIDE DEF c
    <3> QED BY <1>a, <2>1, <2>3 DEF ConvType
  <2> QED BY <1>2, <2>1, <2>2, <2>4 DEF Wrote
<1>3. CASE Writes(t, turn[t].conv) /\ ~Exists(turn[t].conv)
  BY <1>3, <1>a DEF Writes, TurnType
<1> QED BY <1>1, <1>2, <1>3 DEF PersistExchange

\* What closing a chat, and deleting a conversation, leave.
LEMMA Ended ==
  ASSUME IInv, NEW p \in Page, EndOnServer(p)
  PROVE  \E c \in Conv :
           /\ conv[c].state = "open" /\ conv'[c].state = "ended"
           /\ conv'[c].said = conv[c].said /\ conv'[c].atEnd = conv[c].said
           /\ conv'[c].inFlight = InFlight(c)
           /\ \A d \in Conv \ {c} : conv'[d] = conv[d]
<1>1. page[p].ending \in Conv BY DEF IInv, TypeOK, PageType, EndOnServer
<1>2. conv \in [Conv -> ConvType] BY DEF IInv, TypeOK
<1> QED BY <1>1, <1>2 DEF EndOnServer, ConvType

LEMMA Deleted ==
  ASSUME IInv, NEW c \in Conv, Delete(c)
  PROVE  /\ conv'[c] = [state |-> "deleted", said |-> {}, atEnd |-> {}, inFlight |-> {}]
         /\ report'[c] = NoReport
         /\ \A d \in Conv \ {c} : conv'[d] = conv[d] /\ report'[d] = report[d]
<1>1. conv \in [Conv -> ConvType] /\ report \in [Conv -> ReportType]
  BY DEF IInv, TypeOK
<1> QED BY <1>1 DEF Delete, ConvType

LEMMA PlacedStep ==
  ASSUME IInv, [Next]_vars
  PROVE  Placed'
<1> USE DEF IInv
<1>1. ASSUME NEW p \in Page, NEW t \in Turn, Send(p, t) PROVE Placed'
  BY <1>1 DEF Send, NoConv, NoTurn, TypeOK, Placed, Exists, NextTurn
<1>2. ASSUME NEW p \in Page, NEW t \in Turn, Hear(p, t) PROVE Placed'
  <2>a. turn \in [Turn -> TurnType] /\ page \in [Page -> PageType] BY DEF TypeOK
  <2>1. \A q \in Page : page'[q].conv \in {page[q].conv, turn[t].conv}
    BY <1>2, <2>a DEF Hear, Succeeded, Failed, PageType
  <2> QED BY <1>2, <2>1 DEF Hear, Placed, Exists
<1>3. ASSUME NEW p \in Page, NEW t \in Turn, page[p].awaits = t, Untold(p, t) PROVE Placed'
  BY <1>3 DEF Untold, TypeOK, Placed, Exists, Failed
<1>4. ASSUME NEW p \in Page, NewConversation(p) PROVE Placed'
  BY <1>4 DEF NewConversation, TypeOK, Placed, Exists
<1>5. ASSUME NEW p \in Page, NEW c \in Conv, OpenConversation(p, c) PROVE Placed'
  BY <1>5 DEF OpenConversation, TypeOK, Placed, Exists
<1>6. ASSUME NEW p \in Page, End(p) PROVE Placed'
  BY <1>6 DEF End, TypeOK, Placed, Exists
<1>7. ASSUME NEW p \in Page, EndOnServer(p) PROVE Placed'
  <2>1. turn' = turn /\ page' = page BY <1>7 DEF EndOnServer
  <2>2. PICK c \in Conv :
          /\ conv[c].state = "open" /\ conv'[c].state = "ended" /\ conv'[c].said = conv[c].said
          /\ \A d \in Conv \ {c} : conv'[d] = conv[d]
    BY <1>7, Ended
  <2>3. \A d \in Conv : /\ conv'[d].said = conv[d].said /\ (Exists(d)' <=> Exists(d))
                        /\ conv[d].state # "none" => conv'[d].state # "none"
    BY <2>2 DEF Exists
  <2>4. \A u \in Turn : turn[u].conv \in Conv \cup {NoConv} BY DEF TypeOK, TurnType
  <2>5. \A q \in Page : page[q].conv \in Conv \cup {NoConv} BY DEF TypeOK, PageType
  <2> QED BY <2>1, <2>3, <2>4, <2>5 DEF Placed
<1>8. ASSUME NEW p \in Page, EndHeard(p) PROVE Placed'
  BY <1>8 DEF EndHeard, TypeOK, Placed, Exists, Close, Ask, Asked
<1>9. ASSUME NEW p \in Page, EndFails(p) PROVE Placed'
  BY <1>9 DEF EndFails, TypeOK, Placed, Exists
<1>10. ASSUME NEW p \in Page, AskAgain(p) PROVE Placed'
  BY <1>10 DEF AskAgain, TypeOK, Placed, Exists, Ask, Asked
<1>19. ASSUME NEW p \in Page, CloseWindow(p) PROVE Placed'
  BY <1>19 DEF CloseWindow, TypeOK, Placed, Exists
<1>11. ASSUME NEW t \in Turn, TurnContext(t) PROVE Placed'
  BY <1>11 DEF TurnContext, TypeOK, Placed, Exists
<1>12. ASSUME NEW t \in Turn, StreamFails(t) PROVE Placed'
  BY <1>12 DEF StreamFails, TypeOK, Placed, Exists
<1>13. ASSUME NEW t \in Turn, PersistExchange(t) PROVE Placed'
  <2>a. turn \in [Turn -> TurnType] /\ page \in [Page -> PageType] BY DEF TypeOK
  <2>1. page' = page BY <1>13 DEF PersistExchange
  <2>2. turn[t].phase = "streaming" BY <1>13 DEF PersistExchange
  <2>3. CASE \E c \in Conv : Wrote(t, c)
    <3>1. PICK c \in Conv : Wrote(t, c) BY <2>3
    <3>2. \A d \in Conv : conv'[d].state # "none" \/ conv'[d].state = conv[d].state
      BY <3>1 DEF Wrote, Exists
    <3>3. \A d \in Conv : \A u \in Turn :
            u \in conv'[d].said <=>
              turn'[u].phase = "stored" /\ turn'[u].conv = d /\ conv'[d].state \in {"open", "ended"}
      BY <1>13, <2>2, <3>1, Persisted DEF Wrote, Exists, Placed
    <3>4. c # NoConv BY DEF Conv, NoConv
    <3>5. conv'[c].state # "none" BY <3>1 DEF Wrote, Exists
    <3>6. \A u \in Turn : turn'[u].conv \in Conv \cup {NoConv}
      BY <1>13, <2>a, <3>1, Persisted DEF Wrote, TurnType
    <3>7. \A u \in Turn : turn'[u].phase = "stored" => turn'[u].conv # NoConv
      BY <1>13, <3>1, <3>4, Persisted DEF Wrote, Placed
    <3>8. \A u \in Turn : turn'[u].conv # NoConv => conv'[turn'[u].conv].state # "none"
      BY <1>13, <2>a, <3>1, <3>2, <3>5, <3>6, Persisted DEF Wrote, Placed
    <3>9. \A q \in Page : page[q].conv # NoConv => conv'[page[q].conv].state # "none"
      BY <2>a, <3>2 DEF Placed, PageType
    <3> QED BY <2>1, <3>3, <3>7, <3>8, <3>9 DEF Placed, Exists
  <2>4. CASE turn'[t].phase = "failed" /\ turn'[t].conv = NoConv /\ conv' = conv
    BY <1>13, <2>1, <2>2, <2>4, Persisted DEF Placed, Exists
  <2> QED BY <1>13, <2>3, <2>4, Persisted
<1>14. ASSUME NEW j \in judging, EvaluationInput(j) PROVE Placed'
  BY <1>14 DEF EvaluationInput, Placed, Exists
<1>15. ASSUME NEW j \in judging, JudgementFails(j) PROVE Placed'
  BY <1>15 DEF JudgementFails, TypeOK, Placed, Exists
<1>16. ASSUME NEW j \in judging, StoreEvaluation(j) PROVE Placed'
  BY <1>16 DEF StoreEvaluation, TypeOK, Placed, Exists, Report
<1>17. ASSUME NEW c \in Conv, Delete(c) PROVE Placed'
  <2>a. turn \in [Turn -> TurnType] /\ page \in [Page -> PageType] BY DEF TypeOK
  <2>1. turn' = turn /\ page' = page BY <1>17 DEF Delete
  <2>2. conv'[c].state = "deleted" /\ conv'[c].said = {}
        /\ \A d \in Conv \ {c} : conv'[d] = conv[d]
    BY <1>17, Deleted
  <2> QED BY <2>a, <2>1, <2>2 DEF Placed, Exists, TurnType, PageType
<1>18. CASE UNCHANGED vars BY <1>18 DEF vars, TypeOK, Placed, Phase, Exists
<1> QED
  BY <1>1, <1>2, <1>3, <1>4, <1>5, <1>6, <1>7, <1>8, <1>9, <1>10, <1>11, <1>12, <1>13, <1>14, <1>15, <1>16, <1>17, <1>18, <1>19
    DEF Next, PageStep, HearFalseError, Cut, ServerStep, JudgeStep

LEMMA FinalStep ==
  ASSUME IInv, [Next]_vars
  PROVE  Final'
<1> USE DEF IInv
<1>1. ASSUME NEW p \in Page, NEW t \in Turn, Send(p, t) PROVE Final'
  BY <1>1 DEF Send, NoConv, NoTurn, TypeOK, Final, Exists, InFlight, NextTurn
<1>2. ASSUME NEW p \in Page, NEW t \in Turn, Hear(p, t) PROVE Final'
  BY <1>2 DEF Hear, Final, InFlight
<1>3. ASSUME NEW p \in Page, NEW t \in Turn, page[p].awaits = t, Untold(p, t) PROVE Final'
  BY <1>3 DEF Untold, TypeOK, Final, Exists, InFlight, Failed
<1>4. ASSUME NEW p \in Page, NewConversation(p) PROVE Final'
  BY <1>4 DEF NewConversation, TypeOK, Final, Exists, InFlight
<1>5. ASSUME NEW p \in Page, NEW c \in Conv, OpenConversation(p, c) PROVE Final'
  BY <1>5 DEF OpenConversation, TypeOK, Final, Exists, InFlight
<1>6. ASSUME NEW p \in Page, End(p) PROVE Final'
  BY <1>6 DEF End, TypeOK, Final, Exists, InFlight
<1>7. ASSUME NEW p \in Page, EndOnServer(p) PROVE Final'
  <2>1. UNCHANGED <<turn, page, judging, report>> BY <1>7 DEF EndOnServer
  <2>2. PICK c \in Conv :
           /\ conv[c].state = "open" /\ conv'[c].state = "ended"
           /\ conv'[c].said = conv[c].said /\ conv'[c].atEnd = conv[c].said
           /\ conv'[c].inFlight = InFlight(c)
           /\ \A d \in Conv \ {c} : conv'[d] = conv[d]
    BY <1>7, Ended
  <2>3. \A j \in judging : j.conv \in Conv BY DEF TypeOK, JudgingType
  <2> QED BY <2>1, <2>2, <2>3 DEF Final, InFlight
<1>8. ASSUME NEW p \in Page, EndHeard(p) PROVE Final'
  BY <1>8 DEF EndHeard, TypeOK, Final, Exists, InFlight, Close, Ask, Asked
<1>9. ASSUME NEW p \in Page, EndFails(p) PROVE Final'
  BY <1>9 DEF EndFails, TypeOK, Final, Exists, InFlight
<1>10. ASSUME NEW p \in Page, AskAgain(p) PROVE Final'
  <2> DEFINE c == page[p].conv
  <2>1. UNCHANGED <<conv, turn, report>> /\ judging' = judging \cup {Asked(c, conv[c].state = "open")}
    BY <1>10 DEF AskAgain, Ask
  <2>2. c # NoConv /\ c \in Conv BY <1>10 DEF AskAgain, TypeOK, PageType
  <2>3. conv[c].state \in {"open", "ended", "deleted"} BY <2>2 DEF Placed, TypeOK, ConvType
  <2>4. ASSUME NEW j \in judging', j \notin judging, ~j.astray
        PROVE  conv[j.conv].state \in {"ended", "deleted"} /\ j.reading
    <3>1. j = Asked(c, conv[c].state = "open") BY <2>1, <2>4
    <3>2. j.conv = c /\ j.reading /\ j.astray = (conv[c].state = "open") BY <3>1 DEF Asked
    <3>3. conv[c].state # "open" BY <3>2, <2>4
    <3> QED BY <2>3, <3>2, <3>3
  <2>5. \A j \in judging' : ~j.astray =>
          /\ conv[j.conv].state \in {"ended", "deleted"}
          /\ ~j.reading => conv[j.conv].atEnd \subseteq j.read
    BY <2>4 DEF Final
  <2> HIDE DEF c
  <2> QED BY <2>1, <2>5 DEF Final, InFlight
<1>19. ASSUME NEW p \in Page, CloseWindow(p) PROVE Final'
  BY <1>19 DEF CloseWindow, TypeOK, Final, Exists, InFlight
<1>11. ASSUME NEW t \in Turn, TurnContext(t) PROVE Final'
  <2>a. turn \in [Turn -> TurnType] /\ page \in [Page -> PageType] BY DEF TypeOK
  <2>1. UNCHANGED <<conv, page, judging, report>> BY <1>11 DEF TurnContext
  <2>2. \A c \in Conv : conv[c].state = "ended" => InFlight(c)' \subseteq InFlight(c)
    BY <1>11, <2>a DEF TurnContext, InFlight, TurnType, Conv, NoConv
  <2> QED BY <2>1, <2>2 DEF Final
<1>12. ASSUME NEW t \in Turn, StreamFails(t) PROVE Final'
  BY <1>12 DEF StreamFails, TypeOK, Final, Exists, InFlight
<1>13. ASSUME NEW t \in Turn, PersistExchange(t) PROVE Final'
  <2>1. UNCHANGED <<page, judging, report>> BY <1>13 DEF PersistExchange
  <2>2. turn[t].phase = "streaming" BY <1>13 DEF PersistExchange
  <2>4. \A j \in judging : j.conv \in Conv BY DEF TypeOK, JudgingType
  <2>5. CASE \E c \in Conv : Wrote(t, c)
    <3>1. PICK c \in Conv : Wrote(t, c) BY <2>5
    <3>2. \A d \in Conv : InFlight(d)' \subseteq InFlight(d)
      BY <1>13, <3>1, Persisted DEF InFlight, Wrote
    <3>3. conv[c].state = "ended" => t \in InFlight(c) BY <2>2, <3>1 DEF Wrote, InFlight
    <3> QED BY <2>1, <2>4, <3>1, <3>2, <3>3 DEF Final, Wrote, Exists
  <2>6. CASE turn'[t].phase = "failed" /\ turn'[t].conv = NoConv /\ conv' = conv
    <3>1. \A d \in Conv : InFlight(d)' \subseteq InFlight(d)
      BY <1>13, <2>6, Persisted DEF InFlight
    <3> QED BY <2>1, <2>6, <3>1 DEF Final
  <2> QED BY <1>13, <2>5, <2>6, Persisted
<1>14. ASSUME NEW j \in judging, EvaluationInput(j) PROVE Final'
  <2>1. UNCHANGED <<conv, turn, page, report>> BY <1>14 DEF EvaluationInput
  <2>2. ASSUME NEW k \in judging', k \notin judging
        PROVE  /\ k = [j EXCEPT !.reading = FALSE, !.read = conv[j.conv].said]
               /\ j.conv \in Conv
    BY <1>14, <2>2 DEF EvaluationInput, TypeOK, JudgingType
  <2>3. ASSUME NEW k \in judging', k \notin judging, ~k.astray
        PROVE  /\ conv[k.conv].state \in {"ended", "deleted"}
               /\ ~k.reading => conv[k.conv].atEnd \subseteq k.read
    <3>1. j \in JudgingType /\ k = [j EXCEPT !.reading = FALSE, !.read = conv[j.conv].said]
      BY <2>2, <2>3 DEF TypeOK
    <3>2. k.conv = j.conv /\ k.astray = j.astray /\ k.read = conv[j.conv].said
      BY <3>1 DEF JudgingType
    <3>3. conv[j.conv].atEnd \subseteq conv[j.conv].said BY <2>2, <2>3 DEF Final
    <3> QED BY <2>3, <3>2, <3>3 DEF Final
  <2> QED BY <2>1, <2>3 DEF Final, InFlight
<1>15. ASSUME NEW j \in judging, JudgementFails(j) PROVE Final'
  BY <1>15 DEF JudgementFails, TypeOK, Final, Exists, InFlight
<1>16. ASSUME NEW j \in judging, StoreEvaluation(j) PROVE Final'
  BY <1>16 DEF StoreEvaluation, TypeOK, Final, Exists, InFlight, Report
<1>17. ASSUME NEW c \in Conv, Delete(c) PROVE Final'
  <2>1. UNCHANGED <<turn, page, judging>> BY <1>17 DEF Delete
  <2>2. \A j \in judging : j.conv \in Conv BY DEF TypeOK, JudgingType
  <2> QED BY <1>17, <2>1, <2>2, Deleted DEF Final, InFlight, NoReport
<1>18. CASE UNCHANGED vars BY <1>18 DEF vars, TypeOK, Final, Phase, Exists, InFlight
<1> QED
  BY <1>1, <1>2, <1>3, <1>4, <1>5, <1>6, <1>7, <1>8, <1>9, <1>10, <1>11, <1>12, <1>13, <1>14, <1>15, <1>16, <1>17, <1>18, <1>19
    DEF Next, PageStep, HearFalseError, Cut, ServerStep, JudgeStep

\* A step that sends nothing and answers nobody: composers are at most emptied
\* and requests go on or fail.
LEMMA OwnerKept ==
  ASSUME IInv, texts' = texts,
         \A t \in Turn : /\ turn'[t].text = turn[t].text /\ turn'[t].untold = turn[t].untold
                         /\ \/ turn'[t].phase = turn[t].phase
                            \/ turn[t].phase \in {"asked", "streaming"} /\ turn'[t].phase # "free",
         \A p \in Page : /\ page'[p].awaits = page[p].awaits
                         /\ page'[p].input = page[p].input \/ page'[p].input = NoText
  PROVE  OneOwner'
<1> USE DEF IInv
<1>1. \A t \in Turn : Active(t)' => Active(t) BY DEF Active
<1>2. \A p \in Page : page[p].awaits \in Turn \cup {NoTurn} BY DEF TypeOK, PageType
<1>3. texts \in Nat /\ NoText = 0 BY DEF TypeOK, NoText
<1>4. \A t \in Turn : Active(t)' => turn'[t].phase # "free" /\ turn'[t].text # NoText
  BY <1>1 DEF OneOwner
<1>5. \A p \in Page : page'[p].awaits # NoTurn => ~turn'[page'[p].awaits].untold
  BY <1>2 DEF OneOwner
<1>6. \A t, u \in Turn : Active(t)' /\ Active(u)' /\ turn'[t].text = turn'[u].text => t = u
  BY <1>1 DEF OneOwner
<1>7. \A t \in Turn : \A p \in Page : Active(t)' => page'[p].input # turn'[t].text
  BY <1>1 DEF OneOwner
<1>8. \A p, q \in Page : page'[p].input = page'[q].input /\ page'[p].input # NoText => p = q
  BY DEF OneOwner
<1>9. \A p \in Page : page'[p].input <= texts BY <1>3 DEF OneOwner
<1> QED BY <1>4, <1>5, <1>6, <1>7, <1>8, <1>9 DEF OneOwner

\* The text of a request that is over goes back to the composer of its page.
LEMMA Returned ==
  ASSUME IInv, NEW p \in Page, NEW t \in Turn, page[p].awaits = t, ~Active(t)', texts' = texts,
         page'[p].input = turn[t].text, page'[p].awaits = NoTurn,
         \A q \in Page \ {p} : page'[q] = page[q],
         turn'[t].text = turn[t].text, \A u \in Turn \ {t} : turn'[u] = turn[u]
  PROVE  OneOwner'
<1> USE DEF IInv
<1>1. Active(t) BY DEF Active
<1>2. \A u \in Turn : Active(u)' => u # t /\ Active(u) BY DEF Active, NoTurn, Turn
<1>3. \A q \in Page : page[q].awaits \in Turn \cup {NoTurn} BY DEF TypeOK, PageType
<1>4. \A q \in Page : page'[q].awaits # t BY DEF OneOwner, NoTurn, Turn
<1>5. \A u \in Turn : Active(u)' => turn'[u].phase # "free" /\ turn'[u].text # NoText
  BY <1>2 DEF OneOwner
<1>6. \A q \in Page : page'[q].awaits # NoTurn => ~turn'[page'[q].awaits].untold
  BY <1>3, <1>4 DEF OneOwner
<1>7. \A q, r \in Page : page'[q].awaits = page'[r].awaits /\ page'[q].awaits # NoTurn => q = r
  BY DEF OneOwner
<1>8. \A u, v \in Turn : Active(u)' /\ Active(v)' /\ turn'[u].text = turn'[v].text => u = v
  BY <1>2 DEF OneOwner
<1>9. \A u \in Turn : \A q \in Page : Active(u)' => page'[q].input # turn'[u].text
  BY <1>1, <1>2 DEF OneOwner
<1>10. \A q, r \in Page : page'[q].input = page'[r].input /\ page'[q].input # NoText => q = r
  BY <1>1 DEF OneOwner
<1>11. /\ \A u \in Turn : turn'[u].text <= texts'
       /\ \A q \in Page : page'[q].input <= texts'
  BY DEF OneOwner
<1> QED BY <1>5, <1>6, <1>7, <1>8, <1>9, <1>10, <1>11 DEF OneOwner

LEMMA OneOwnerStep ==
  ASSUME IInv, [Next]_vars
  PROVE  OneOwner'
<1> USE DEF IInv
<1>a. turn \in [Turn -> TurnType] /\ page \in [Page -> PageType] BY DEF TypeOK
<1>1. ASSUME NEW p \in Page, NEW t \in Turn, Send(p, t) PROVE OneOwner'
  <2>1. PICK text \in {page[p].input, texts + 1} \cap Texts :
          /\ turn' = [turn EXCEPT ![t] = [phase |-> "asked", conv |-> page[p].conv,
                                          text |-> text, untold |-> FALSE]]
          /\ texts' = IF text > texts THEN text ELSE texts
    BY <1>1 DEF Send
  <2>2. turn[t].phase = "free" /\ page[p].awaits = NoTurn BY <1>1 DEF Send, NextTurn
  <2>3. /\ turn'[t] = [phase |-> "asked", conv |-> page[p].conv, text |-> text, untold |-> FALSE]
        /\ \A u \in Turn \ {t} : turn'[u] = turn[u]
    BY <1>a, <2>1
  <2>4. /\ page'[p].input = NoText /\ page'[p].awaits = t
        /\ \A q \in Page \ {p} : page'[q] = page[q]
    BY <1>a, <1>1 DEF Send, PageType
  <2>5. ~Active(t) BY <2>2 DEF OneOwner
  <2>6. \A u \in Turn \ {t} : Active(u)' => Active(u) BY <2>3, <2>4 DEF Active
  <2>7. text # NoText /\ text \in Nat /\ NoText = 0 /\ texts \in Nat
    BY BoundsAssumption DEF Texts, NoText, TypeOK
  <2>a. /\ \A u \in Turn : turn[u].text \in Nat /\ turn[u].text <= texts
        /\ \A q \in Page : page[q].input \in Nat /\ page[q].input <= texts
    BY <1>a, BoundsAssumption DEF TurnType, PageType, Texts, NoText, OneOwner
  <2>8. \A u \in Turn : Active(u) => turn[u].text # text
    <3>1. CASE text = page[p].input BY <3>1 DEF OneOwner
    <3>2. CASE text = texts + 1 BY <3>2, <2>a, <2>7
    <3> QED BY <3>1, <3>2
  <2>9. \A q \in Page \ {p} : page[q].input # text
    <3>1. CASE text = page[p].input BY <3>1, <2>7 DEF OneOwner
    <3>2. CASE text = texts + 1 BY <3>2, <2>a, <2>7
    <3> QED BY <3>1, <3>2
  <2>10. texts' \in Nat /\ texts <= texts' /\ text <= texts' BY <2>1, <2>7
  <2>11. \A q \in Page : page[q].awaits # t BY <2>5 DEF Active
  <2>12. \A q \in Page : page[q].awaits \in Turn \cup {NoTurn} BY <1>a DEF PageType
  <2>13. \A u \in Turn : Active(u)' => turn'[u].phase # "free" /\ turn'[u].text # NoText
    BY <2>3, <2>6, <2>7 DEF OneOwner
  <2>14. \A q \in Page : page'[q].awaits # NoTurn => ~turn'[page'[q].awaits].untold
    BY <2>3, <2>4, <2>11, <2>12 DEF OneOwner
  <2>15. \A q, r \in Page : page'[q].awaits = page'[r].awaits /\ page'[q].awaits # NoTurn => q = r
    BY <2>4, <2>11 DEF OneOwner
  <2>16. \A u, v \in Turn : Active(u)' /\ Active(v)' /\ turn'[u].text = turn'[v].text => u = v
    BY <2>3, <2>6, <2>8 DEF OneOwner
  <2>17. \A u \in Turn : \A q \in Page : Active(u)' => page'[q].input # turn'[u].text
    BY <2>3, <2>4, <2>6, <2>7, <2>9, <2>13 DEF OneOwner
  <2>18. \A q, r \in Page : page'[q].input = page'[r].input /\ page'[q].input # NoText => q = r
    BY <2>4 DEF OneOwner
  <2>19. \A u \in Turn : turn'[u].text <= texts' BY <2>3, <2>7, <2>10, <2>a
  <2>20. \A q \in Page : page'[q].input <= texts' BY <2>4, <2>7, <2>10, <2>a
  <2> QED BY <2>13, <2>14, <2>15, <2>16, <2>17, <2>18, <2>19, <2>20 DEF OneOwner
<1>2. ASSUME NEW p \in Page, NEW t \in Turn, Hear(p, t) PROVE OneOwner'
  <2>1. page[p].awaits = t /\ turn[t].phase \in Over /\ turn' = turn /\ texts' = texts
    BY <1>2 DEF Hear
  <2>2. CASE turn[t].phase = "stored"
    <3>1. /\ page'[p].input = page[p].input /\ page'[p].awaits = NoTurn
          /\ \A q \in Page \ {p} : page'[q] = page[q]
      BY <1>a, <1>2, <2>2 DEF Hear, Succeeded, PageType
    <3>2. \A u \in Turn : Active(u)' => Active(u) BY <2>1, <3>1 DEF Active, NoTurn, Turn
    <3> QED BY <2>1, <3>1, <3>2, <1>a DEF OneOwner, PageType
  <2>3. CASE turn[t].phase # "stored"
    <3>1. /\ page'[p].input = turn[t].text /\ page'[p].awaits = NoTurn
          /\ \A q \in Page \ {p} : page'[q] = page[q]
      BY <1>a, <1>2, <2>3 DEF Hear, Failed, PageType
    <3>2. ~Active(t)' BY <2>1, <2>3, <3>1 DEF Active, Over, OneOwner, NoTurn, Turn
    <3> QED BY <2>1, <3>1, <3>2, Returned
  <2> QED BY <2>2, <2>3
<1>3. ASSUME NEW p \in Page, NEW t \in Turn, page[p].awaits = t, Untold(p, t) PROVE OneOwner'
  <2>1. page[p].awaits = t /\ texts' = texts BY <1>3 DEF Untold
  <2>2. /\ page'[p].input = turn[t].text /\ page'[p].awaits = NoTurn
        /\ \A q \in Page \ {p} : page'[q] = page[q]
    BY <1>a, <1>3 DEF Untold, Failed, PageType
  <2>3. /\ turn'[t].untold = TRUE /\ turn'[t].text = turn[t].text
        /\ turn'[t].phase = turn[t].phase
        /\ \A u \in Turn \ {t} : turn'[u] = turn[u]
    BY <1>a, <1>3 DEF Untold, TurnType
  <2>4. ~Active(t)' BY <2>1, <2>2, <2>3 DEF Active, OneOwner, NoTurn, Turn
  <2> QED BY <2>1, <2>2, <2>3, <2>4, Returned
<1>4. ASSUME NEW p \in Page, NewConversation(p) PROVE OneOwner'
  BY <1>4, <1>a, OwnerKept DEF NewConversation, PageType, TurnType
<1>5. ASSUME NEW p \in Page, NEW c \in Conv, OpenConversation(p, c) PROVE OneOwner'
  BY <1>5, <1>a, OwnerKept DEF OpenConversation, PageType, TurnType
<1>6. ASSUME NEW p \in Page, End(p) PROVE OneOwner'
  BY <1>6, <1>a, OwnerKept DEF End, PageType, TurnType
<1>7. ASSUME NEW p \in Page, EndOnServer(p) PROVE OneOwner'
  BY <1>7, <1>a, OwnerKept DEF EndOnServer, PageType, TurnType
<1>8. ASSUME NEW p \in Page, EndHeard(p) PROVE OneOwner'
  BY <1>8, <1>a, OwnerKept DEF EndHeard, Close, PageType, TurnType
<1>9. ASSUME NEW p \in Page, EndFails(p) PROVE OneOwner'
  BY <1>9, <1>a, OwnerKept DEF EndFails, PageType, TurnType
<1>10. ASSUME NEW p \in Page, AskAgain(p) PROVE OneOwner'
  BY <1>10, <1>a, OwnerKept DEF AskAgain, PageType, TurnType
<1>19. ASSUME NEW p \in Page, CloseWindow(p) PROVE OneOwner'
  BY <1>19, <1>a, OwnerKept DEF CloseWindow, PageType, TurnType
<1>11. ASSUME NEW t \in Turn, TurnContext(t) PROVE OneOwner'
  BY <1>11, <1>a, OwnerKept DEF TurnContext, PageType, TurnType
<1>12. ASSUME NEW t \in Turn, StreamFails(t) PROVE OneOwner'
  BY <1>12, <1>a, OwnerKept DEF StreamFails, PageType, TurnType
<1>13. ASSUME NEW t \in Turn, PersistExchange(t) PROVE OneOwner'
  <2>1. page' = page /\ texts' = texts /\ turn[t].phase = "streaming"
    BY <1>13 DEF PersistExchange
  <2> QED BY <1>13, <2>1, Persisted, OwnerKept DEF Wrote
<1>14. ASSUME NEW j \in judging, EvaluationInput(j) PROVE OneOwner'
  BY <1>14, <1>a, OwnerKept DEF EvaluationInput, PageType, TurnType
<1>15. ASSUME NEW j \in judging, JudgementFails(j) PROVE OneOwner'
  BY <1>15, <1>a, OwnerKept DEF JudgementFails, PageType, TurnType
<1>16. ASSUME NEW j \in judging, StoreEvaluation(j) PROVE OneOwner'
  BY <1>16, <1>a, OwnerKept DEF StoreEvaluation, PageType, TurnType
<1>17. ASSUME NEW c \in Conv, Delete(c) PROVE OneOwner'
  BY <1>17, <1>a, OwnerKept DEF Delete, PageType, TurnType
<1>18. CASE UNCHANGED vars BY <1>18, OwnerKept DEF vars
<1> QED BY <1>1, <1>2, <1>3, <1>4, <1>5, <1>6, <1>7, <1>8, <1>9, <1>10, <1>11, <1>12, <1>13,
           <1>14, <1>15, <1>16, <1>17, <1>18, <1>19
    DEF Next, PageStep, HearFalseError, Cut, ServerStep, JudgeStep

\* Requests go on and nobody sends.
LEMMA InTurnKept ==
  ASSUME InTurn,
         \A t \in Turn : /\ turn'[t].text = turn[t].text
                         /\ turn[t].untold => turn'[t].untold
                         /\ turn[t].phase = "failed" => turn'[t].phase = "failed"
                         /\ turn'[t].phase = "free" <=> turn[t].phase = "free"
  PROVE  InTurn'
BY DEF InTurn

LEMMA InTurnStep ==
  ASSUME IInv, [Next]_vars
  PROVE  InTurn'
<1> USE DEF IInv
<1>a. turn \in [Turn -> TurnType] BY DEF TypeOK
<1>1. ASSUME NEW p \in Page, NEW t \in Turn, Send(p, t) PROVE InTurn'
  <2>1. PICK text \in {page[p].input, texts + 1} \cap Texts :
          turn' = [turn EXCEPT ![t] = [phase |-> "asked", conv |-> page[p].conv,
                                       text |-> text, untold |-> FALSE]]
    BY <1>1 DEF Send
  <2>2. /\ turn'[t].phase = "asked" /\ turn'[t].text = text
        /\ \A u \in Turn \ {t} : turn'[u] = turn[u]
    BY <1>a, <2>1
  <2>3. turn[t].phase = "free" /\ \A u \in Turn : u < t => turn[u].phase # "free"
    BY <1>1 DEF Send, NextTurn, Turn
  <2>4. \A u \in Turn : t < u => turn[u].phase = "free" BY <2>3 DEF InTurn
  <2>5. text # NoText /\ text \in Nat /\ texts \in Nat
    BY BoundsAssumption DEF Texts, NoText, TypeOK
  <2>6. ASSUME NEW u \in Turn, u < t, turn[u].text = text
        PROVE  turn[u].untold \/ turn[u].phase = "failed"
    <3>1. turn[u].text <= texts BY DEF OneOwner
    <3>2. text = page[p].input BY <2>5, <2>6, <3>1
    <3>3. ~Active(u) BY <2>6, <3>2 DEF OneOwner
    <3>4. turn[u].phase \in Phase \ {"free"} BY <1>a, <2>3, <2>6 DEF TurnType
    <3> QED BY <3>3, <3>4 DEF Active, Phase
  <2> QED BY <2>2, <2>3, <2>4, <2>6 DEF InTurn, Turn
<1>2. ASSUME NEW p \in Page, NEW t \in Turn, page[p].awaits = t, Untold(p, t) PROVE InTurn'
  BY <1>2, <1>a, InTurnKept DEF Untold, TurnType
<1>3. ASSUME NEW t \in Turn, TurnContext(t) PROVE InTurn'
  BY <1>3, <1>a, InTurnKept DEF TurnContext, TurnType
<1>4. ASSUME NEW t \in Turn, StreamFails(t) PROVE InTurn'
  BY <1>4, <1>a, InTurnKept DEF StreamFails, TurnType
<1>5. ASSUME NEW t \in Turn, PersistExchange(t) PROVE InTurn'
  BY <1>5, Persisted, InTurnKept DEF PersistExchange, Wrote
<1>6. CASE turn' = turn BY <1>6, InTurnKept
<1> QED BY <1>1, <1>2, <1>3, <1>4, <1>5, <1>6
    DEF Next, PageStep, Hear, HearFalseError, Cut, NewConversation, OpenConversation, End, EndOnServer,
        EndHeard, Close, EndFails, CloseWindow, AskAgain, ServerStep, JudgeStep, EvaluationInput,
        JudgementFails, StoreEvaluation, Delete, vars

LEMMA Starts == Init => IInv
<1> SUFFICES ASSUME Init PROVE IInv OBVIOUS
<1>1. TypeOK
  BY BoundsAssumption DEF Init, TypeOK, ConvType, TurnType, PageType, Phase, Exists,
       NoReport, ReportType
<1>2. Placed BY DEF Init, Placed, Exists
<1>3. Final BY DEF Init, Final, NoReport, InFlight
<1>4. OneOwner BY DEF Init, OneOwner, Active, NoText, NoTurn, Turn
<1>5. InTurn BY DEF Init, InTurn
<1> QED BY <1>1, <1>2, <1>3, <1>4, <1>5 DEF IInv

LEMMA Holds == Spec => []IInv
<1>1. IInv /\ [Next]_vars => IInv'
  BY TypeStep, PlacedStep, FinalStep, OneOwnerStep, InTurnStep DEF IInv
<1> QED BY <1>1, Starts, PTL DEF Spec

---------------------------------------------------------------------------

\* The shape of the rows and of the page, and no message or judgement without
\* its conversation.
THEOREM TypeCorrect == Spec => []TypeOK
<1>1. IInv => TypeOK BY DEF IInv
<1> QED BY <1>1, Holds, PTL

\* A committed exchange is in its conversation and in no other.
THEOREM DoneStays == Spec => []DoneIsStored
<1>1. IInv => DoneIsStored
  <2> SUFFICES ASSUME IInv, NEW t \in Turn, turn[t].phase = "stored"
               PROVE  {c \in Conv : t \in conv[c].said} = {c \in {turn[t].conv} : Exists(c)}
    BY DEF DoneIsStored, IInv
  <2>1. turn[t].conv \in Conv BY DEF IInv, Placed, TypeOK, TurnType
  <2> QED BY <2>1 DEF IInv, Placed
<1> QED BY <1>1, Holds, PTL

\* A closed chat receives only what was being answered when it was closed.
THEOREM ClosedIsClosed == Spec => []LateWasInFlight
<1>1. IInv => LateWasInFlight BY DEF IInv, Final, LateWasInFlight
<1> QED BY <1>1, Holds, PTL

\* A text is stored twice only where its page could not know what had become of
\* the first request: the connection dropped, or an error followed the commit.
THEOREM NoDoubleTold == Spec => []TwiceOnlyIfUntold
<1>1. IInv => TwiceOnlyIfUntold
  <2> SUFFICES ASSUME IInv, NEW t \in Turn, NEW u \in Turn, t < u,
                      turn[t].text = turn[u].text,
                      \E c, d \in Conv : t \in conv[c].said /\ u \in conv[d].said
               PROVE  turn[t].untold
    BY DEF TwiceOnlyIfUntold
  <2>1. turn[t].phase = "stored" /\ turn[u].phase = "stored" BY DEF IInv, Placed
  <2> QED BY <2>1 DEF IInv, InTurn
<1> QED BY <1>1, Holds, PTL

\* The judgement of a chat missed nothing said before its end, unless it was
\* asked while the chat was still open, by the retry of another one's.
THEOREM JudgementsAreWhole == Spec => []JudgedWhole
<1>1. IInv => JudgedWhole BY DEF IInv, Final, JudgedWhole
<1> QED BY <1>1, Holds, PTL

---------------------------------------------------------------------------
(***************************************************************************)
(* The path.  What is derived of it goes from each step to the next: it is *)
(* reasoned about on the set of the steps of which a claim holds, by its   *)
(* least exception.                                                        *)
(***************************************************************************)

\* A set of numbers has a least.
LEMMA LeastNumber ==
  ASSUME NEW T, T \subseteq Nat, T # {}
  PROVE  \E n \in T : \A m \in T : n <= m
<1>1. \E R : IsWellFoundedOn(R, Nat) /\ \A m, n \in Nat : m < n => <<m, n>> \in R
  BY NatLessThanWellFounded DEF OpToRel
<1>2. PICK R : IsWellFoundedOn(R, Nat) /\ \A m, n \in Nat : m < n => <<m, n>> \in R
  BY <1>1
<1>3. IsWellFoundedOn(R, Nat)
  BY <1>2
<1>4. \E n \in T : \A m \in T : ~ (<<m, n>> \in R)
  BY ONLY <1>3, WFMin, T \subseteq Nat, T # {}
<1>5. PICK n \in T : \A m \in T : ~ (<<m, n>> \in R)
  BY <1>4
<1>6. ASSUME NEW m \in T PROVE n <= m
  <2>1. m \in Nat /\ n \in Nat
    OBVIOUS
  <2>2. ~(m < n)
    BY <1>2, <1>5, <2>1
  <2> QED BY <2>1, <2>2
<1> QED BY <1>6

\* What holds of 0 and goes from one number to the next holds of all up to n.
LEMMA UpTo ==
  ASSUME NEW n \in Nat, NEW S, 0 \in S, \A i \in 0..n : i \in S /\ i < n => i + 1 \in S
  PROVE  0..n \subseteq S
<1> DEFINE T == (0..n) \ S
<1>1. SUFFICES ASSUME T # {} PROVE FALSE
  OBVIOUS
<1>2. T \subseteq Nat
  OBVIOUS
<1>3. PICK m \in T : \A k \in T : m <= k
  <2> HIDE DEF T
  <2> QED BY <1>1, <1>2, LeastNumber
<1>4. m \in Nat /\ m # 0 /\ m <= n
  OBVIOUS
<1>5. m - 1 \in 0..n /\ m - 1 < n /\ m - 1 + 1 = m
  BY <1>4
<1>6. m - 1 \notin T
  BY <1>3, <1>4, <1>5
<1> QED BY <1>3, <1>5, <1>6

\* So the operators of the library find what they look for.
LEMMA MinIsLeast ==
  ASSUME NEW T, T \subseteq Nat, T # {}
  PROVE  Min(T) \in T /\ \A t \in T : Min(T) <= t
BY LeastNumber DEF Min

LEMMA MaxOfTwo ==
  ASSUME NEW a \in Nat, NEW b \in Nat, NEW T, T \subseteq {a, b}, T # {}
  PROVE  Max(T) \in T /\ \A t \in T : t <= Max(T)
<1>1. \E x \in T : \A t \in T : t <= x
  <2>1. CASE a \in T /\ b \in T /\ a <= b
    BY <2>1
  <2>2. CASE a \in T /\ b \in T /\ b <= a
    BY <2>2
  <2>3. CASE a \notin T
    <3>1. \A t \in T : t = b
      BY <2>3
    <3>2. PICK x \in T : TRUE
      OBVIOUS
    <3> QED BY <3>1, <3>2
  <2>4. CASE b \notin T
    <3>1. \A t \in T : t = a
      BY <2>4
    <3>2. PICK x \in T : TRUE
      OBVIOUS
    <3> QED BY <3>1, <3>2
  <2> QED BY <2>1, <2>2, <2>3, <2>4
<1> QED BY <1>1 DEF Max

---------------------------------------------------------------------------
(* The rows.                                                               *)

USE TrainingAssumption

\* The rows of a path are numbered from where the ids had come to.
LEMMA WrittenInOrder ==
  ASSUME NEW p \in Paths, NEW n \in Nat
  PROVE  /\ Len(p) \in Nat
         /\ Written(p, n) \in Seq(StepRow) /\ DOMAIN Written(p, n) = 1..Len(p)
         /\ \A i \in 1..Len(p) : Written(p, n)[i].id = n + i
<1>1. p \in Seq([target : Simulations \cup {Avatar}, score : Nat, criterion : Nat, due : 0..Never])
  OBVIOUS
<1>2. Len(p) \in Nat /\ DOMAIN p = 1..Len(p)
  BY <1>1
<1> DEFINE row(i) == [id |-> n + i, target |-> p[i].target, score |-> p[i].score,
                      criterion |-> p[i].criterion, due |-> p[i].due]
<1>3. ASSUME NEW i \in 1..Len(p)
      PROVE  row(i) \in StepRow /\ row(i).id = n + i
  <2>1. p[i] \in [target : Simulations \cup {Avatar}, score : Nat, criterion : Nat, due : 0..Never]
    BY <1>1, ElementOfSeq
  <2>2. n + i \in Nat
    BY <1>2
  <2> QED BY <2>1, <2>2 DEF StepRow
<1>4. Written(p, n) = [i \in 1..Len(p) |-> row(i)]
  BY <1>2 DEF Written
<1> HIDE DEF row
<1>5. Written(p, n) \in Seq(StepRow)
  BY <1>2, <1>3, <1>4, IsASeq
<1> QED BY <1>2, <1>3, <1>4, <1>5

\* At the start.
LEMMA Whole == PathInit => Rows
<1> SUFFICES ASSUME PathInit PROVE Rows
  OBVIOUS
<1>1. PICK p \in Paths : steps = Written(p, 0) /\ ids = Len(p)
  BY DEF PathInit
<1>2. 0 \in Nat
  OBVIOUS
<1>3. steps \in Seq(StepRow) /\ DOMAIN steps = 1..Len(p) /\ Len(p) \in Nat
  BY <1>1, <1>2, WrittenInOrder
<1>4. \A i \in DOMAIN steps : steps[i].id = i
  <2>1. \A i \in 1..Len(p) : steps[i].id = 0 + i
    BY <1>1, <1>2, WrittenInOrder
  <2> QED BY <1>3, <2>1
<1>5. convs = <<>> /\ tests = {} /\ reads = {} /\ now = 0 /\ writes = 0
      /\ given = [number |-> 0, at |-> Nothing]
  BY DEF PathInit
<1>6. convs \in Seq(Conversation) /\ Range(convs) = {}
  BY <1>5 DEF Range
<1>7. given \in [number : Nat, at : OrNothing(0..now)]
  BY <1>5 DEF OrNothing
<1>8. now \in Moment /\ writes \in 0..MaxWrites
  BY <1>5 DEF Moment
<1>9. ids \in Nat /\ \A i \in DOMAIN steps : steps[i].id <= ids
  BY <1>1, <1>3, <1>4
<1>10. \A i, j \in DOMAIN steps : i < j => steps[i].id < steps[j].id
  BY <1>4
<1> QED BY <1>3, <1>5, <1>6, <1>7, <1>8, <1>9, <1>10 DEF Rows

\* A conversation goes in the place of another, or after all.
LEMMA ConversationPut ==
  ASSUME Rows, UNCHANGED <<now, tests, steps, ids, given, reads>>, writes' \in 0..MaxWrites,
         NEW c \in Conversation, c.override # Nothing => c.reviewed # Nothing,
         convs' = Append(convs, c) \/ \E k \in DOMAIN convs : convs' = [convs EXCEPT ![k] = c]
  PROVE  Rows'
<1>1. convs \in Seq(Conversation)
  BY DEF Rows
<1>2. convs' \in Seq(Conversation) /\ \A d \in Range(convs') : d = c \/ d \in Range(convs)
  <2>1. CASE convs' = Append(convs, c)
    BY <1>1, <2>1 DEF Range
  <2>2. ASSUME NEW k \in DOMAIN convs, convs' = [convs EXCEPT ![k] = c]
        PROVE  convs' \in Seq(Conversation) /\ \A d \in Range(convs') : d = c \/ d \in Range(convs)
    BY <1>1, <2>2 DEF Range
  <2> QED BY <2>1, <2>2
<1>3. Conversation' = Conversation
  BY DEF Conversation
<1> QED BY <1>2, <1>3 DEF Rows

\* What is read of a row.
LEMMA ConversationHas ==
  ASSUME Rows, NEW k \in DOMAIN convs
  PROVE  convs[k] \in Conversation /\ convs[k] \in Range(convs)
         /\ (convs[k].override # Nothing => convs[k].reviewed # Nothing)
BY DEF Rows, Range

LEMMA StepHas ==
  ASSUME Rows
  PROVE  /\ Len(steps) \in Nat /\ DOMAIN steps = 1..Len(steps)
         /\ \A i \in DOMAIN steps : steps[i] \in StepRow
BY ElementOfSeq DEF Rows

\* The steps that change one row, the path, or what is read.
LEMMA RewriteKeepsRows ==
  ASSUME Rows, NEW k \in DOMAIN convs, NEW c \in Conversation, Rewrite(k, c),
         c.override # Nothing => c.reviewed # Nothing
  PROVE  Rows'
<1>1. writes' \in 0..MaxWrites
  BY DEF Rewrite, Write, Rows
<1> QED BY <1>1, ConversationPut DEF Rewrite

\* The path is written again, in part or all anew.
LEMMA StepsPut ==
  ASSUME Rows, UNCHANGED <<now, convs, tests, given, reads>>, writes' \in 0..MaxWrites,
         steps' \in Seq(StepRow), ids' \in Nat,
         \A i, j \in DOMAIN steps' : i < j => steps'[i].id < steps'[j].id,
         \A i \in DOMAIN steps' : steps'[i].id <= ids'
  PROVE  Rows'
BY DEF Rows, Conversation

LEMMA UpdateKeepsRows ==
  ASSUME Rows, NEW p \in Paths, UpdatePath(p)
  PROVE  Rows'
<1>1. ids \in Nat /\ ids' = ids + Len(p) /\ steps' = Written(p, ids)
  BY DEF Rows, UpdatePath
<1>2. ids' \in Nat /\ Len(p) \in Nat
  BY <1>1, WrittenInOrder
<1>3. steps' \in Seq(StepRow) /\ DOMAIN steps' = 1..Len(p)
  BY <1>1, WrittenInOrder
<1>4. \A i \in 1..Len(p) : steps'[i].id = ids + i
  BY <1>1, WrittenInOrder
<1>5. /\ \A i, j \in DOMAIN steps' : i < j => steps'[i].id < steps'[j].id
      /\ \A i \in DOMAIN steps' : steps'[i].id <= ids'
  <2>1. \A i, j \in 1..Len(p) : i < j => ids + i < ids + j
    BY <1>1
  <2>2. \A i \in 1..Len(p) : ids + i <= ids + Len(p)
    BY <1>1, <1>2
  <2>3. ASSUME NEW i \in DOMAIN steps'
        PROVE  i \in 1..Len(p) /\ steps'[i].id = ids + i
    BY <1>3, <1>4
  <2>4. ids' = ids + Len(p)
    BY <1>1
  <2>5. \A i, j \in DOMAIN steps' : i < j => steps'[i].id < steps'[j].id
    BY <2>1, <2>3
  <2>6. \A i \in DOMAIN steps' : steps'[i].id <= ids'
    BY <2>2, <2>3, <2>4
  <2> QED BY <2>5, <2>6
<1>6. writes' \in 0..MaxWrites
  BY DEF Rows, UpdatePath, Write
<1> QED BY <1>2, <1>3, <1>5, <1>6, StepsPut DEF UpdatePath

LEMMA DeleteKeepsRows ==
  ASSUME Rows, NEW sim, DeleteSimulation(sim)
  PROVE  Rows'
<1> DEFINE kept == {i \in DOMAIN steps : steps[i].target # sim}
<1>1. PICK place \in [1..Cardinality(kept) -> kept] :
        /\ \A i, j \in DOMAIN place : i < j => place[i] < place[j]
        /\ steps' = [i \in DOMAIN place |-> steps[place[i]]]
  BY DEF DeleteSimulation
<1>2. steps \in Seq(StepRow) /\ DOMAIN steps = 1..Len(steps) /\ Len(steps) \in Nat
  BY DEF Rows
<1>3. Cardinality(kept) \in Nat
  <2>1. IsFiniteSet(1..Len(steps))
    <3>1. 1 \in Int /\ Len(steps) \in Int
      BY <1>2
    <3> QED BY ONLY <3>1, FS_Interval
  <2>2. IsFiniteSet(kept)
    BY <1>2, <2>1, FS_Subset
  <2> QED BY <2>2, FS_CardinalityType
<1> DEFINE n == Cardinality(kept)
<1>4. place \in [1..n -> DOMAIN steps]
  BY <1>1
<1> HIDE DEF n, kept
<1>5. DOMAIN steps' = 1..n /\ \A i \in 1..n : place[i] \in DOMAIN steps /\ steps'[i] = steps[place[i]]
  BY <1>1, <1>4
<1>6. \A i \in 1..n : steps'[i] \in StepRow
  BY <1>2, <1>5
<1>7. steps' \in Seq(StepRow)
  <2>1. steps' = [i \in 1..n |-> steps[place[i]]]
    BY <1>1, <1>4
  <2>2. n \in Nat
    BY <1>3 DEF n
  <2> QED BY <1>5, <1>6, <2>1, <2>2, IsASeq
<1>8. \A i, j \in 1..n : i < j => place[i] < place[j]
  BY <1>1, <1>4
<1>9. /\ \A i, j \in DOMAIN steps' : i < j => steps'[i].id < steps'[j].id
      /\ \A i \in DOMAIN steps' : steps'[i].id <= ids
  <2>1. /\ \A i, j \in DOMAIN steps : i < j => steps[i].id < steps[j].id
        /\ \A i \in DOMAIN steps : steps[i].id <= ids
    BY DEF Rows
  <2> QED BY <1>5, <1>8, <2>1
<1>10. writes' \in 0..MaxWrites /\ ids' \in Nat /\ ids' = ids
  BY DEF Rows, DeleteSimulation, Write
<1> QED BY <1>7, <1>9, <1>10, StepsPut DEF DeleteSimulation

\* What is told follows from the rows.
LEMMA ToldAreKeys ==
  ASSUME Rows
  PROVE  Told \subseteq Key
<1>1. ASSUME NEW k \in DOMAIN convs, Touches(convs[k]) # {}
      PROVE  ReviewKey(k) \in Key
  <2>1. convs[k] \in Conversation /\ k \in Nat
    BY ConversationHas DEF Rows
  <2>2. now \in Nat
    BY DEF Rows, Moment
  <2>3. PICK a \in 0..now, b \in 0..now : Touches(convs[k]) \subseteq {a, b}
    BY <1>1, <2>1, <2>2 DEF Touches, Conversation, OrNothing
  <2>4. Max(Touches(convs[k])) \in Touches(convs[k])
    BY <1>1, <2>2, <2>3, MaxOfTwo
  <2>5. Max(Touches(convs[k])) \in Nat
    BY <2>2, <2>3, <2>4
  <2> QED BY <2>1, <2>5 DEF ReviewKey, Key
<1>2. given.number \in Nat
  BY DEF Rows
<1>3. ASSUME NEW i \in DOMAIN steps, NEW u, NEW st
      PROVE  StepKeys(i, u, st) \subseteq Key
  <2>1. steps[i] \in StepRow
    BY StepHas
  <2>2. steps[i].id \in Nat
    BY <2>1 DEF StepRow
  <2> QED BY <1>2, <2>2 DEF StepKeys, Key
<1>4. PathKeys \subseteq Key
  <2>1. {<<"assigned", given.number, 0>>, <<"completed", given.number, 0>>} \subseteq Key
    BY <1>2 DEF Key
  <2>2. DOMAIN Status = DOMAIN steps
    BY DEF Status
  <2>3. UNION {StepKeys(i, Achieved[i - 1], Status[i]) : i \in {j \in DOMAIN steps : Status[j] # "locked"}}
          \subseteq Key
    BY <1>3
  <2> QED BY <2>1, <2>3 DEF PathKeys
<1> QED BY <1>1, <1>4 DEF Told

LEMMA RowsStay ==
  ASSUME Rows, [PathNext]_pathVars
  PROVE  Rows'
<1>1. CASE Tick
  <2>1. now \in Nat /\ now' = now + 1 /\ now' \in Moment /\ 0..now \subseteq 0..now'
    BY <1>1 DEF Tick, Rows, Moment
  <2>2. convs' \in Seq(Conversation')
    <3>1. Conversation \subseteq Conversation'
      BY <2>1 DEF Conversation, OrNothing
    <3>2. convs' \in Seq(Conversation)
      BY <1>1 DEF Tick, Rows
    <3> HIDE DEF Conversation
    <3> QED BY <3>1, <3>2, SeqMonotonic
  <2>3. tests' \subseteq [sim : Simulations, at : 0..now', score : Marks]
    BY <1>1, <2>1 DEF Tick, Rows
  <2>4. given' \in [number : Nat, at : OrNothing(0..now')]
    BY <1>1, <2>1 DEF Tick, Rows, OrNothing
  <2> QED BY <1>1, <2>1, <2>2, <2>3, <2>4 DEF Tick, Rows
<1>2. CASE Converse
  <2> DEFINE c == [at |-> now, verdict |-> Nothing, override |-> Nothing,
                   reviewed |-> Nothing, note |-> Nothing]
  <2>1. now \in 0..now
    BY DEF Rows, Moment
  <2>2. c \in Conversation /\ c.override = Nothing
    BY <2>1 DEF Conversation, OrNothing
  <2>3. convs' = Append(convs, c) /\ writes' \in 0..MaxWrites
    BY <1>2 DEF Converse, Rows
  <2> HIDE DEF c
  <2> QED BY <1>2, <2>2, <2>3, ConversationPut DEF Converse
<1>3. ASSUME NEW s \in Simulations, NEW n \in Marks, Submit(s, n)
      PROVE  Rows'
  <2>1. [sim |-> s, at |-> now, score |-> n] \in [sim : Simulations, at : 0..now, score : Marks]
    BY DEF Rows, Moment
  <2> QED BY <1>3, <2>1 DEF Submit, Rows, Conversation
<1>4. ASSUME NEW k \in DOMAIN convs, NEW v \in Verdicts, Judge(k, v)
      PROVE  Rows'
  <2>1. [convs[k] EXCEPT !.verdict = v] \in Conversation
    BY ConversationHas DEF Conversation, OrNothing
  <2>2. [convs[k] EXCEPT !.verdict = v].override = convs[k].override
        /\ [convs[k] EXCEPT !.verdict = v].reviewed = convs[k].reviewed
    BY ConversationHas DEF Conversation
  <2> QED BY <1>4, <2>1, <2>2, ConversationHas, RewriteKeepsRows DEF Judge
<1>5. ASSUME NEW k \in DOMAIN convs, NEW o \in Corrections \cup {Nothing}, SaveReview(k, o)
      PROVE  Rows'
  <2>1. now \in 0..now /\ now # Nothing
    BY DEF Rows, Moment
  <2> DEFINE c == [convs[k] EXCEPT !.override = o, !.reviewed = now]
  <2>2. c \in Conversation /\ c.reviewed = now
    BY <2>1, ConversationHas DEF Conversation, OrNothing
  <2> HIDE DEF c
  <2>3. Rewrite(k, c)
    BY <1>5 DEF SaveReview, c
  <2> QED BY <2>1, <2>2, <2>3, RewriteKeepsRows
<1>6. ASSUME NEW k \in DOMAIN convs, DeleteReview(k)
      PROVE  Rows'
  <2> DEFINE c == [convs[k] EXCEPT !.override = Nothing, !.reviewed = Nothing]
  <2>1. c \in Conversation /\ c.override = Nothing
    BY ConversationHas DEF Conversation, OrNothing
  <2> HIDE DEF c
  <2>2. Rewrite(k, c)
    BY <1>6 DEF DeleteReview, c
  <2> QED BY <2>1, <2>2, RewriteKeepsRows
<1>7. ASSUME NEW k \in DOMAIN convs, Annotate(k) \/ DeleteAnnotation(k)
      PROVE  Rows'
  <2>1. now \in 0..now
    BY DEF Rows, Moment
  <2>2. PICK x \in {now, Nothing} : Rewrite(k, [convs[k] EXCEPT !.note = x])
    BY <1>7 DEF Annotate, DeleteAnnotation
  <2> DEFINE c == [convs[k] EXCEPT !.note = x]
  <2>3. c \in Conversation /\ c.override = convs[k].override /\ c.reviewed = convs[k].reviewed
    BY <2>1, ConversationHas DEF Conversation, OrNothing
  <2>4. Rewrite(k, c)
    BY <2>2
  <2> HIDE DEF c
  <2> QED BY <2>3, <2>4, ConversationHas, RewriteKeepsRows
<1>8. CASE Assign \/ DeleteAssignment
  <2>1. given \in [number : Nat, at : OrNothing(0..now)] /\ now \in 0..now
    BY DEF Rows, Moment
  <2>2. given' \in [number : Nat, at : OrNothing(0..now)]
    BY <1>8, <2>1 DEF Assign, DeleteAssignment, OrNothing
  <2>3. writes' \in 0..MaxWrites
    BY <1>8 DEF Assign, DeleteAssignment, Write, Rows
  <2> QED BY <1>8, <2>2, <2>3 DEF Assign, DeleteAssignment, Rows, Conversation
<1>9. ASSUME NEW p \in Paths, UpdatePath(p)
      PROVE  Rows'
  BY <1>9, UpdateKeepsRows
<1>10. ASSUME NEW s \in Simulations, DeleteSimulation(s)
       PROVE  Rows'
  BY <1>10, DeleteKeepsRows
<1>11. CASE Bell
  <2>1. PICK K : MarkRead(K)
    BY <1>11 DEF Bell
  <2>2. reads' \subseteq Key /\ writes' \in 0..MaxWrites
    BY <2>1, ToldAreKeys DEF MarkRead, Write, Rows
  <2> QED BY <2>1, <2>2 DEF MarkRead, Rows, Conversation
<1>12. CASE UNCHANGED pathVars
  BY <1>12 DEF pathVars, Rows, Conversation
<1> QED
  BY <1>1, <1>2, <1>3, <1>4, <1>5, <1>6, <1>7, <1>8, <1>9, <1>10, <1>11, <1>12
  DEF PathNext, Train, Trainer, Admin

\* The rows keep their shape: whatever an admin, a trainer, the person and the
\* clock do, ids grow along a path and no score is corrected without a review.
THEOREM RowsAlways == PathSpec => []Rows
<1>1. PathInit => Rows
  BY Whole
<1>2. Rows /\ [PathNext]_pathVars => Rows'
  BY RowsStay
<1> QED BY <1>1, <1>2, PTL DEF PathSpec

\* With them every notification derived from them has a key of its kind.
THEOREM PathTypeCorrect == PathSpec => []PathTypeOK
<1>1. Rows => PathTypeOK
  BY ToldAreKeys DEF PathTypeOK
<1> QED BY <1>1, RowsAlways, PTL

---------------------------------------------------------------------------
(* The chain of the steps.                                                 *)

\* A proof of the target of a step at a time, after the step opened, that
\* passes it.
Spendable(s, unlocked, t) ==
  /\ t > unlocked
  /\ \E p \in Proofs(s.target) : p.at = t /\ Passes(p, s)

\* Every proof is dated by something that was.
LEMMA ProofsArePast ==
  ASSUME Rows, NEW target, NEW p \in Proofs(target)
  PROVE  p.at \in 0..now
<1>1. CASE target = Avatar
  <2>1. PICK k \in DOMAIN convs : p.at = convs[k].at
    BY <1>1 DEF Proofs, Range
  <2> QED BY <2>1, ConversationHas DEF Conversation
<1>2. CASE target # Avatar
  BY <1>2 DEF Proofs, Rows
<1> QED BY <1>1, <1>2

\* A step is reached at the first moment at which it can be.
LEMMA ReachedIsFirst ==
  ASSUME Rows, NEW s, NEW u
  PROVE  /\ Reached(s, u) # Nothing =>
              Reached(s, u) \in 0..now /\ Spendable(s, u, Reached(s, u))
         /\ \A t : Spendable(s, u, t) => Reached(s, u) # Nothing /\ Reached(s, u) <= t
<1> DEFINE T == {p.at : p \in {q \in Relevant(s, u) : Passes(q, s)}}
<1>1. T \subseteq 0..now /\ 0..now \subseteq Nat /\ Nothing \notin 0..now
  BY ProofsArePast DEF Relevant, Rows, Moment
<1>2. \A t : t \in T <=> Spendable(s, u, t)
  BY DEF Relevant, Spendable
<1>3. Reached(s, u) = IF T = {} THEN Nothing ELSE Min(T)
  BY DEF Reached
<1> HIDE DEF T
<1>4. T # {} => Min(T) \in T /\ \A t \in T : Min(T) <= t
  BY <1>1, MinIsLeast
<1> QED BY <1>1, <1>2, <1>3, <1>4

\* What makes the row of moments what it is.
Chained(f, n) ==
  f = [i \in 0..n |-> IF i = 0 THEN given.at
                      ELSE IF f[i - 1] = Nothing THEN Nothing ELSE Reached(steps[i], f[i - 1])]

\* The same, one step at a time.
LEMMA ChainedStep ==
  ASSUME NEW n \in Nat, NEW f, Chained(f, n)
  PROVE  /\ DOMAIN f = 0..n /\ f[0] = given.at
         /\ \A i \in 1..n :
              f[i] = IF f[i - 1] = Nothing THEN Nothing ELSE Reached(steps[i], f[i - 1])
BY DEF Chained

\* There is such a row, by one step more at a time.
LEMMA ChainExists ==
  ASSUME NEW n \in Nat
  PROVE  \E f : Chained(f, n)
<1> DEFINE S == {m \in Nat : \E f : Chained(f, m)}
<1>1. 0 \in S
  <2> DEFINE f == [i \in 0..0 |-> given.at]
  <2>1. Chained(f, 0)
    BY DEF Chained
  <2> QED BY <2>1
<1>2. ASSUME NEW m \in Nat, m \in S
      PROVE  m + 1 \in S
  <2>1. PICK f : Chained(f, m)
    BY <1>2
  <2> DEFINE g == [i \in 0..(m + 1) |-> IF i = m + 1
                     THEN IF f[m] = Nothing THEN Nothing ELSE Reached(steps[m + 1], f[m])
                     ELSE f[i]]
  <2>2. DOMAIN g = 0..(m + 1) /\ g[0] = f[0] /\ \A i \in 0..m : g[i] = f[i]
    OBVIOUS
  <2>3. g[m + 1] = IF f[m] = Nothing THEN Nothing ELSE Reached(steps[m + 1], f[m])
    OBVIOUS
  <2> HIDE DEF g
  <2>4. ASSUME NEW i \in 1..(m + 1)
        PROVE  g[i] = IF g[i - 1] = Nothing THEN Nothing ELSE Reached(steps[i], g[i - 1])
    <3>1. CASE i = m + 1
      <4>1. i - 1 = m /\ g[i - 1] = f[m]
        BY <2>2, <3>1
      <4> QED BY <2>3, <3>1, <4>1
    <3>2. CASE i # m + 1
      <4>1. i \in 1..m /\ g[i] = f[i] /\ g[i - 1] = f[i - 1]
        BY <2>2, <3>2
      <4> QED BY <2>1, <4>1, ChainedStep
    <3> QED BY <3>1, <3>2
  <2>5. g[0] = given.at
    BY <2>1, <2>2, ChainedStep
  <2>6. g = [i \in 0..(m + 1) |-> g[i]]
    BY DEF g
  <2>7. \A i \in 0..(m + 1) : i = 0 \/ i \in 1..(m + 1)
    OBVIOUS
  <2>8. Chained(g, m + 1)
    BY <2>4, <2>5, <2>6, <2>7 DEF Chained
  <2> QED BY <2>8
<1>3. 0..n \subseteq S
  <2> HIDE DEF S
  <2>1. \A i \in 0..n : i \in S /\ i < n => i + 1 \in S
    BY <1>2
  <2> QED BY <1>1, <2>1, UpTo
<1> QED BY <1>3

\* So the recursive row is one.
LEMMA AchievedChained ==
  ASSUME Rows
  PROVE  Chained(Achieved, Len(steps))
<1>1. Len(steps) \in Nat
  BY StepHas
<1>2. \E f : Chained(f, Len(steps))
  BY <1>1, ChainExists
<1>3. Achieved = CHOOSE f : Chained(f, Len(steps))
  BY DEF Achieved, Chained
<1> QED BY <1>2, <1>3

\* Each step has the first moment at which it can be passed after the one before.
FirstMoments ==
  /\ Achieved[0] = given.at
  /\ \A i \in DOMAIN steps : \A s : s = steps[i] =>
       /\ Achieved[i] # Nothing =>
            /\ Achieved[i - 1] # Nothing /\ Achieved[i] \in 0..now
            /\ Spendable(s, Achieved[i - 1], Achieved[i])
       /\ Achieved[i - 1] # Nothing =>
            \A t : Spendable(s, Achieved[i - 1], t) => Achieved[i] # Nothing /\ Achieved[i] <= t

LEMMA MomentsAreFirst ==
  ASSUME Rows
  PROVE  FirstMoments
<1>1. Len(steps) \in Nat /\ DOMAIN steps = 1..Len(steps)
  BY StepHas
<1>2. /\ Achieved[0] = given.at
      /\ \A i \in 1..Len(steps) :
           Achieved[i] = IF Achieved[i - 1] = Nothing THEN Nothing
                         ELSE Reached(steps[i], Achieved[i - 1])
  BY <1>1, AchievedChained, ChainedStep
<1>3. ASSUME NEW i \in DOMAIN steps, NEW s, s = steps[i]
      PROVE  /\ Achieved[i] # Nothing =>
                  /\ Achieved[i - 1] # Nothing /\ Achieved[i] \in 0..now
                  /\ Spendable(s, Achieved[i - 1], Achieved[i])
             /\ Achieved[i - 1] # Nothing =>
                  \A t : Spendable(s, Achieved[i - 1], t) => Achieved[i] # Nothing /\ Achieved[i] <= t
  <2> DEFINE a == Achieved[i]
             u == Achieved[i - 1]
  <2>1. a = IF u = Nothing THEN Nothing ELSE Reached(s, u)
    BY <1>1, <1>2, <1>3
  <2>2. CASE u = Nothing
    BY <2>1, <2>2
  <2>3. CASE u # Nothing
    <3>1. a = Reached(s, u)
      BY <2>1, <2>3
    <3> HIDE DEF a, u
    <3>2. /\ a # Nothing => a \in 0..now /\ Spendable(s, u, a)
          /\ \A t : Spendable(s, u, t) => a # Nothing /\ a <= t
      BY <3>1, ReachedIsFirst
    <3> QED BY <2>3, <3>2 DEF a, u
  <2> QED BY <2>2, <2>3
<1> QED BY <1>2, <1>3 DEF FirstMoments

\* Who has passed a step has passed all those before it.
LEMMA PassedInOrder ==
  ASSUME Rows, NEW i \in DOMAIN steps, Achieved[i] # Nothing
  PROVE  \A j \in 0..i : Achieved[j] # Nothing /\ Achieved[j] \in 0..now
<1>1. Len(steps) \in Nat /\ DOMAIN steps = 1..Len(steps) /\ i \in Nat
  BY StepHas
<1> DEFINE S == {k \in 0..i : Achieved[i - k] # Nothing}
<1>2. 0 \in S
  BY <1>1
<1>3. ASSUME NEW k \in 0..i, k \in S, k < i
      PROVE  k + 1 \in S
  <2>1. i - k \in DOMAIN steps /\ (i - k) - 1 = i - (k + 1) /\ Achieved[i - k] # Nothing
    BY <1>1, <1>3
  <2>2. Achieved[(i - k) - 1] # Nothing
    BY <2>1, MomentsAreFirst DEF FirstMoments
  <2> QED BY <1>1, <1>3, <2>1, <2>2
<1>4. 0..i \subseteq S
  <2> HIDE DEF S
  <2> QED BY <1>1, <1>2, <1>3, UpTo
<1>5. ASSUME NEW j \in 0..i PROVE Achieved[j] # Nothing
  <2>1. i - j \in 0..i /\ i - (i - j) = j
    BY <1>1
  <2> QED BY <1>4, <2>1
<1>6. ASSUME NEW j \in 0..i PROVE Achieved[j] \in 0..now
  <2>1. CASE j = 0
    <3>1. Achieved[j] = given.at /\ given.at # Nothing
      BY <1>5, <2>1, MomentsAreFirst DEF FirstMoments
    <3> QED BY <3>1 DEF Rows, OrNothing
  <2>2. CASE j # 0
    <3>1. j \in DOMAIN steps
      BY <1>1, <2>2
    <3> QED BY <1>5, <3>1, MomentsAreFirst DEF FirstMoments
  <2> QED BY <2>1, <2>2
<1> QED BY <1>5, <1>6

\* The first moments come no later than any others that do: by the steps, from
\* the first.
LEMMA PassedIfPossible ==
  ASSUME Rows, Assigned, NEW i \in DOMAIN steps, NEW when \in [1..i -> Moment],
         \A j \in 1..i :
           /\ when[j] > (IF j = 1 THEN given.at ELSE when[j - 1])
           /\ \E p \in Proofs(steps[j].target) : p.at = when[j] /\ Passes(p, steps[j])
  PROVE  Achieved[i] # Nothing
<1>1. Len(steps) \in Nat /\ DOMAIN steps = 1..Len(steps) /\ i \in Nat
  BY StepHas
<1>2. Achieved[0] # Nothing /\ Achieved[0] = given.at
  BY MomentsAreFirst DEF FirstMoments, Assigned
<1> DEFINE S == {j \in 0..i : Achieved[j] # Nothing /\ (j > 0 => Achieved[j] <= when[j])}
<1>3. 0 \in S
  BY <1>1, <1>2
<1>4. ASSUME NEW k \in 0..i, k \in S, k < i
      PROVE  k + 1 \in S
  <2>1. k + 1 \in 1..i /\ k + 1 \in DOMAIN steps /\ (k + 1) - 1 = k
    BY <1>1, <1>4
  <2> DEFINE a == Achieved[k]
             w == when[k + 1]
  <2>2. w \in Nat /\ a # Nothing
    BY <1>4, <2>1 DEF Moment
  <2>3. a \in Nat
    <3>1. CASE k = 0
      BY <1>2, <2>2, <3>1 DEF Rows, Moment, OrNothing
    <3>2. CASE k # 0
      <4>1. k \in DOMAIN steps
        BY <1>1, <3>2
      <4> QED BY <2>2, <4>1, MomentsAreFirst DEF FirstMoments
    <3> QED BY <3>1, <3>2
  <2>4. w > a
    <3>1. CASE k = 0
      BY <1>2, <2>1, <3>1
    <3>2. CASE k # 0
      <4>1. w > when[k] /\ when[k] \in Nat /\ a <= when[k]
        BY <1>1, <1>4, <2>1, <3>2 DEF Moment
      <4> QED BY <2>2, <2>3, <4>1
    <3> QED BY <3>1, <3>2
  <2>5. \E p \in Proofs(steps[k + 1].target) : p.at = w /\ Passes(p, steps[k + 1])
    BY <2>1
  <2>6. Spendable(steps[k + 1], a, w)
    BY <2>4, <2>5 DEF Spendable
  <2>7. Achieved[k + 1] # Nothing /\ Achieved[k + 1] <= w
    BY <2>1, <2>2, <2>6, MomentsAreFirst DEF FirstMoments
  <2> QED BY <2>1, <2>7
<1>5. 0..i \subseteq S
  <2> HIDE DEF S
  <2> QED BY <1>1, <1>3, <1>4, UpTo
<1>6. i \in S
  <2> HIDE DEF S
  <2> QED BY <1>1, <1>5
<1> QED BY <1>6

\* The first moments are themselves a way to pass.
LEMMA PossibleIfPassed ==
  ASSUME Rows, NEW i \in DOMAIN steps, Achieved[i] # Nothing
  PROVE  \E when \in [1..i -> Moment] :
           \A j \in 1..i :
             /\ when[j] > (IF j = 1 THEN given.at ELSE when[j - 1])
             /\ \E p \in Proofs(steps[j].target) : p.at = when[j] /\ Passes(p, steps[j])
<1>1. Len(steps) \in Nat /\ DOMAIN steps = 1..Len(steps) /\ i \in Nat
  BY StepHas
<1>2. \A j \in 0..i : Achieved[j] # Nothing /\ Achieved[j] \in 0..now
  BY PassedInOrder
<1> DEFINE when == [j \in 1..i |-> Achieved[j]]
<1>3. when \in [1..i -> Moment]
  BY <1>1, <1>2 DEF Rows, Moment
<1>4. ASSUME NEW j \in 1..i
      PROVE  /\ when[j] > (IF j = 1 THEN given.at ELSE when[j - 1])
             /\ \E p \in Proofs(steps[j].target) : p.at = when[j] /\ Passes(p, steps[j])
  <2>1. j \in DOMAIN steps /\ j \in 0..i
    BY <1>1
  <2>2. Spendable(steps[j], Achieved[j - 1], Achieved[j])
    BY <1>2, <2>1, MomentsAreFirst DEF FirstMoments
  <2>3. when[j] = Achieved[j]
    OBVIOUS
  <2>4. Achieved[j - 1] = IF j = 1 THEN given.at ELSE when[j - 1]
    <3>1. CASE j = 1
      BY <3>1, MomentsAreFirst DEF FirstMoments
    <3>2. CASE j # 1
      BY <1>1, <3>2
    <3> QED BY <3>1, <3>2
  <2> HIDE DEF when
  <2> QED BY <2>2, <2>3, <2>4 DEF Spendable
<1> QED BY <1>3, <1>4

\* A path is passed as far as it can be.
LEMMA PossibleFacts ==
  ASSUME Rows
  PROVE  PassedIffPossible
<1> SUFFICES ASSUME Assigned, NEW i \in DOMAIN steps
             PROVE  i \in Passed <=>
                      \E when \in [1..i -> Moment] :
                        \A j \in 1..i :
                          /\ when[j] > (IF j = 1 THEN given.at ELSE when[j - 1])
                          /\ \E p \in Proofs(steps[j].target) : p.at = when[j] /\ Passes(p, steps[j])
  BY DEF PassedIffPossible
<1>1. i \in Passed <=> Achieved[i] # Nothing
  BY DEF Passed
<1>2. CASE Achieved[i] # Nothing
  BY <1>1, <1>2, PossibleIfPassed
<1>3. CASE Achieved[i] = Nothing
  BY <1>1, <1>3, PassedIfPossible
<1> QED BY <1>2, <1>3

\* A step is passed exactly when one proof after another could be spent on it and
\* on all those before it: the one reading of training_progress.py misses no way.
THEOREM PassedAsFarAsPossible == PathSpec => []PassedIffPossible
<1>1. Rows => PassedIffPossible
  BY PossibleFacts
<1> QED BY <1>1, RowsAlways, PTL

\* The first step that is not passed is the one that is open, whether or not
\* some are expired.
LEMMA OpenFacts ==
  ASSUME Rows
  PROVE  OneStepOpen
<1>1. PathTypeOK
  BY ToldAreKeys DEF PathTypeOK
<1> SUFFICES ASSUME Assigned, steps # <<>>, Passed # DOMAIN steps
             PROVE  /\ Current # 0
                    /\ \A i \in DOMAIN steps :
                         (i < Current <=> Achieved[i] # Nothing)
                         /\ (i > Current => Achieved[i - 1] = Nothing)
  BY <1>1 DEF OneStepOpen
<1>2. Len(steps) \in Nat /\ DOMAIN steps = 1..Len(steps)
  BY StepHas
<1> DEFINE T == {i \in DOMAIN steps : Achieved[i] = Nothing}
<1>3. T \subseteq Nat /\ T # {}
  BY <1>2 DEF Passed
<1>4. PICK k \in T : \A i \in T : k <= i
  <2> HIDE DEF T
  <2> QED BY <1>3, LeastNumber
<1>5. \A i \in DOMAIN steps : Achieved[i] # Nothing => i < k
  <2>1. SUFFICES ASSUME NEW i \in DOMAIN steps, Achieved[i] # Nothing, ~(i < k)
                 PROVE  FALSE
    OBVIOUS
  <2>2. k \in 0..i
    BY <1>2, <2>1
  <2> QED BY <1>4, <2>1, <2>2, PassedInOrder
<1>6. \A i \in DOMAIN steps : i < k => Achieved[i] # Nothing
  BY <1>2, <1>4
<1>7. Achieved[k - 1] # Nothing
  <2>1. CASE k = 1
    BY <2>1, MomentsAreFirst DEF FirstMoments, Assigned
  <2>2. CASE k # 1
    <3>1. k - 1 \in DOMAIN steps /\ k - 1 < k
      BY <1>2, <2>2
    <3> QED BY <1>6, <3>1
  <2> QED BY <2>1, <2>2
<1> DEFINE open == {i \in DOMAIN steps : Status[i] \in {"active", "overdue"}}
<1>8. k \in open
  <2>1. Status[k] = Standing(steps[k], Achieved[k - 1], Achieved[k])
    BY DEF Status
  <2>2. Status[k] \in {"active", "overdue"}
    BY <1>4, <1>7, <2>1 DEF Standing
  <2> QED BY <1>4, <2>2
<1>9. \A i \in open : k <= i
  <2>1. SUFFICES ASSUME NEW i \in open, i < k
                 PROVE  FALSE
    BY <1>2
  <2>2. Achieved[i] # Nothing
    BY <1>6, <2>1
  <2>3. Status[i] = Standing(steps[i], Achieved[i - 1], Achieved[i])
    BY DEF Status
  <2>4. Status[i] \in {"completed", "completed_late"}
    BY <2>2, <2>3 DEF Standing
  <2> QED BY <2>1, <2>4
<1>10. Current = k
  <2>1. open \subseteq Nat
    BY <1>2
  <2>2. Current = IF open = {} THEN 0 ELSE Min(open)
    BY DEF Current
  <2> HIDE DEF open
  <2>3. Min(open) \in open /\ Min(open) <= k
    BY <1>8, <2>1, MinIsLeast
  <2>4. k <= Min(open) /\ Min(open) \in Nat /\ k \in Nat
    BY <1>8, <1>9, <2>1, <2>3
  <2>5. Min(open) = k
    BY <2>3, <2>4
  <2> QED BY <1>8, <2>2, <2>5
<1>11. ASSUME NEW i \in DOMAIN steps, i > k
       PROVE  Achieved[i - 1] = Nothing
  <2>1. i - 1 \in DOMAIN steps /\ ~(i - 1 < k)
    BY <1>2, <1>11
  <2> QED BY <1>5, <2>1
<1>12. k # 0
  BY <1>2
<1> QED BY <1>5, <1>6, <1>10, <1>11, <1>12

\* Of a path that is not finished exactly one step is open, on a path of any
\* length: current_index finds it, expired steps after it or not.
THEOREM OnlyOneStepIsOpen == PathSpec => []OneStepOpen
<1>1. Rows => OneStepOpen
  BY OpenFacts
<1> QED BY <1>1, RowsAlways, PTL

---------------------------------------------------------------------------
(* What a step may not do.                                                 *)

\* Nothing proved is lost while the judgements stand.
LEMMA ProofsStay ==
  ASSUME Rows, [PathNext]_pathVars,
         \A k \in DOMAIN convs : convs[k].verdict # Nothing => convs'[k] = convs[k],
         NEW target
  PROVE  Proofs(target) \subseteq Proofs(target)'
<1>1. tests \subseteq tests'
  BY DEF PathNext, pathVars, Tick, Train, Trainer, Admin, Bell, Converse, Submit, Judge,
         SaveReview, DeleteReview, Annotate, DeleteAnnotation, Rewrite, Assign, DeleteAssignment,
         UpdatePath, DeleteSimulation, MarkRead
<1>2. DOMAIN convs \subseteq DOMAIN convs'
  <2>1. convs \in Seq(Conversation)
    BY DEF Rows
  <2>2. ASSUME NEW c PROVE DOMAIN convs \subseteq DOMAIN Append(convs, c)
    BY <2>1
  <2>3. ASSUME NEW k, NEW c PROVE DOMAIN [convs EXCEPT ![k] = c] = DOMAIN convs
    OBVIOUS
  <2>4. CASE Converse
    BY <2>2, <2>4 DEF Converse
  <2>5. CASE \E k, c : Rewrite(k, c)
    BY <2>3, <2>5 DEF Rewrite
  <2>6. UNCHANGED convs \/ Converse \/ \E k, c : Rewrite(k, c)
    BY DEF PathNext, pathVars, Tick, Train, Trainer, Admin, Bell, Submit, Judge,
           SaveReview, DeleteReview, Annotate, DeleteAnnotation, Assign, DeleteAssignment,
           UpdatePath, DeleteSimulation, MarkRead
  <2> QED BY <2>4, <2>5, <2>6
<1>3. {d \in Range(convs) : d.verdict # Nothing} \subseteq {d \in Range(convs)' : d.verdict # Nothing}
  BY <1>2 DEF Range
<1> QED BY <1>1, <1>3 DEF Proofs

\* With more proofs each first moment comes as early or earlier: by the steps.
LEMMA MomentsOnlyAdvance ==
  ASSUME Rows, FirstMoments, FirstMoments', [PathNext]_pathVars, Assigned,
         UNCHANGED <<steps, given>>,
         \A k \in DOMAIN convs : convs[k].verdict # Nothing => convs'[k] = convs[k],
         NEW i \in DOMAIN steps, Achieved[i] # Nothing
  PROVE  Achieved'[i] # Nothing /\ Achieved'[i] <= Achieved[i]
<1>1. Len(steps) \in Nat /\ DOMAIN steps = 1..Len(steps) /\ i \in Nat
  BY StepHas
<1>2. \A j \in 0..i : Achieved[j] # Nothing /\ Achieved[j] \in 0..now
  BY PassedInOrder
<1> DEFINE S == {j \in 0..i : Achieved'[j] # Nothing /\ Achieved'[j] \in Int /\ Achieved'[j] <= Achieved[j]}
<1>3. 0 \in S
  <2>1. Achieved'[0] = Achieved[0] /\ Achieved[0] # Nothing /\ Achieved[0] \in 0..now
    BY <1>1, <1>2 DEF FirstMoments
  <2>2. now \in Nat
    BY DEF Rows, Moment
  <2> QED BY <1>1, <2>1, <2>2
<1>4. ASSUME NEW k \in 0..i, k \in S, k < i
      PROVE  k + 1 \in S
  <2> DEFINE u == Achieved[k]
             t == Achieved[k + 1]
             v == Achieved'[k]
             w == Achieved'[k + 1]
  <2>1. k + 1 \in DOMAIN steps /\ k + 1 \in 0..i /\ (k + 1) - 1 = k
    BY <1>1, <1>4
  <2>2. u # Nothing /\ t # Nothing /\ u \in 0..now /\ t \in 0..now /\ v # Nothing /\ v <= u /\ v \in Int
    BY <1>2, <1>4, <2>1
  <2>3. PICK s : s = steps[k + 1]
    OBVIOUS
  <2>4. t > u /\ \E p \in Proofs(s.target) : p.at = t /\ Passes(p, s)
    BY <2>1, <2>2, <2>3 DEF FirstMoments, Spendable
  <2>5. \E p \in Proofs(s.target)' : p.at = t /\ Passes(p, s)
    BY <2>4, ProofsStay
  <2>6. t > v
    BY <2>2, <2>4 DEF Rows, Moment
  <2>7. /\ w # Nothing => w \in 0..now'
        /\ \A x : (x > v /\ \E p \in Proofs(s.target)' : p.at = x /\ Passes(p, s))
                    => w # Nothing /\ w <= x
    BY <2>1, <2>2, <2>3 DEF FirstMoments, Spendable, Passes
  <2>8. w # Nothing /\ w <= t /\ w \in Int
    BY <2>5, <2>6, <2>7
  <2> QED BY <2>1, <2>8
<1>5. 0..i \subseteq S
  <2> HIDE DEF S
  <2> QED BY <1>1, <1>3, <1>4, UpTo
<1>6. i \in S
  <2> HIDE DEF S
  <2> QED BY <1>1, <1>5
<1> QED BY <1>6

\* So no step goes, and none becomes late.
LEMMA NoStepIsTakenBack ==
  ASSUME Rows, Rows', FirstMoments, FirstMoments', [PathNext]_pathVars, Assigned,
         UNCHANGED <<steps, given>>,
         \A k \in DOMAIN convs : convs[k].verdict # Nothing => convs'[k] = convs[k]
  PROVE  /\ Passed \subseteq Passed' /\ InTime \subseteq InTime'
         /\ \A i \in Passed : Achieved'[i] <= Achieved[i]
<1>1. \A i \in DOMAIN steps : Achieved[i] # Nothing =>
        Achieved'[i] # Nothing /\ Achieved'[i] <= Achieved[i]
  BY MomentsOnlyAdvance
<1>2. Passed \subseteq Passed' /\ \A i \in Passed : Achieved'[i] <= Achieved[i]
  BY <1>1 DEF Passed
<1>3. ASSUME NEW i \in InTime
      PROVE  i \in InTime'
  <2>1. i \in DOMAIN steps /\ Standing(steps[i], Achieved[i - 1], Achieved[i]) = "completed"
    BY DEF InTime, Status
  <2>2. Achieved[i] # Nothing /\ ~(Achieved[i] > steps[i].due)
    BY <2>1 DEF Standing, LateAt
  <2>3. Achieved[i] \in Nat /\ Achieved'[i] \in Nat /\ steps[i].due \in Nat
    <3>1. Achieved[i] \in 0..now
      BY <2>1, <2>2 DEF FirstMoments
    <3>2. Achieved'[i] \in 0..now'
      BY <1>1, <2>1, <2>2 DEF FirstMoments
    <3>3. steps[i].due \in Nat
      BY <2>1, StepHas DEF StepRow
    <3> QED BY <3>1, <3>2, <3>3
  <2>4. Achieved'[i] # Nothing /\ ~(Achieved'[i] > steps[i].due)
    BY <1>1, <2>1, <2>2, <2>3
  <2>5. Status'[i] = "completed"
    BY <2>1, <2>4 DEF Status, Standing, LateAt, Expired
  <2> QED BY <2>1, <2>5 DEF InTime
<1> QED BY <1>2, <1>3

\* More proofs, and time that passes, take no step back from who has passed it
\* and make none late.
THEOREM NoPassedStepIsTakenBack == PathSpec => NothingIsTakenBack
<1>1. Rows => FirstMoments
  BY MomentsAreFirst
<1>2. Rows /\ Rows' /\ FirstMoments /\ FirstMoments' /\ [PathNext]_pathVars =>
        [(/\ Assigned /\ UNCHANGED <<steps, given>>
          /\ \A k \in DOMAIN convs : convs[k].verdict # Nothing => convs'[k] = convs[k])
         => /\ Passed \subseteq Passed' /\ InTime \subseteq InTime'
            /\ \A i \in Passed : Achieved'[i] <= Achieved[i]]_pathVars
  BY NoStepIsTakenBack
<1> QED BY <1>1, <1>2, RowsAlways, PTL DEF PathSpec, NothingIsTakenBack

\* What touches a conversation is past, and has a last.
LEMMA TouchesAre ==
  ASSUME Rows, NEW c \in Conversation
  PROVE  /\ Touches(c) \subseteq 0..now
         /\ Touches(c) # {} => /\ Max(Touches(c)) \in Touches(c)
                               /\ \A t \in Touches(c) : t <= Max(Touches(c))
<1>1. now \in Nat /\ Nothing \notin Nat
  BY DEF Rows, Moment
<1>2. Touches(c) \subseteq 0..now
  BY DEF Touches, Conversation, OrNothing
<1>3. ASSUME Touches(c) # {}
      PROVE  \E a, b \in Nat : Touches(c) \subseteq {a, b}
  <2>1. PICK a \in Touches(c) : TRUE
    BY <1>3
  <2>2. a \in Nat
    BY <1>1, <1>2
  <2>3. CASE c.reviewed \in Nat /\ c.note \in Nat
    BY <2>3 DEF Touches
  <2>4. CASE c.reviewed \notin Nat
    <3>1. Touches(c) \subseteq {a}
      BY <1>1, <1>2, <2>1, <2>4 DEF Touches
    <3> QED BY <2>2, <3>1
  <2>5. CASE c.note \notin Nat
    <3>1. Touches(c) \subseteq {a}
      BY <1>1, <1>2, <2>1, <2>5 DEF Touches
    <3> QED BY <2>2, <3>1
  <2> QED BY <2>3, <2>4, <2>5
<1> QED BY <1>2, <1>3, MaxOfTwo

\* What touches a conversation and did not is of this moment, and nothing is
\* read in that step.
LEMMA TouchedNow ==
  ASSUME Rows, [PathNext]_pathVars, NEW k \in DOMAIN convs,
         Touches(convs'[k]) \ Touches(convs[k]) # {}
  PROVE  reads' = reads /\ now' = now /\ k \in DOMAIN convs' /\ now \in Touches(convs'[k])
<1>1. convs \in Seq(Conversation) /\ convs[k] \in Conversation
  BY ConversationHas DEF Rows
<1>2. convs'[k] # convs[k]
  OBVIOUS
<1>3. ~ UNCHANGED convs
  BY <1>2
<1>4. ASSUME Converse PROVE FALSE
  <2>1. PICK c : convs' = Append(convs, c)
    BY <1>4 DEF Converse
  <2>2. convs'[k] = convs[k]
    BY <1>1, <2>1
  <2> QED BY <1>2, <2>2
<1>5. ASSUME NEW j \in DOMAIN convs, NEW c, Rewrite(j, c)
      PROVE  j = k /\ convs'[k] = c /\ DOMAIN convs' = DOMAIN convs /\ reads' = reads /\ now' = now
  BY <1>2, <1>5 DEF Rewrite
<1>6. ASSUME NEW j \in DOMAIN convs, NEW v, Judge(j, v) PROVE FALSE
  <2>1. convs'[k] = [convs[k] EXCEPT !.verdict = v]
    BY <1>5, <1>6 DEF Judge
  <2>2. Touches(convs'[k]) = Touches(convs[k])
    BY <1>1, <2>1 DEF Touches, Conversation
  <2> QED BY <2>2
<1>7. ASSUME NEW j \in DOMAIN convs, DeleteReview(j) \/ DeleteAnnotation(j) PROVE FALSE
  <2>1. \/ convs'[k] = [convs[k] EXCEPT !.override = Nothing, !.reviewed = Nothing]
        \/ convs'[k] = [convs[k] EXCEPT !.note = Nothing]
    BY <1>5, <1>7 DEF DeleteReview, DeleteAnnotation
  <2>2. Touches(convs'[k]) \subseteq Touches(convs[k])
    BY <1>1, <2>1 DEF Touches, Conversation
  <2> QED BY <2>2
<1>8. ASSUME NEW j \in DOMAIN convs, NEW o, SaveReview(j, o) \/ Annotate(j)
      PROVE  reads' = reads /\ now' = now /\ k \in DOMAIN convs' /\ now \in Touches(convs'[k])
  <2>1. \/ convs'[k] = [convs[k] EXCEPT !.override = o, !.reviewed = now]
        \/ convs'[k] = [convs[k] EXCEPT !.note = now]
    BY <1>5, <1>8 DEF SaveReview, Annotate
  <2>2. now # Nothing
    BY DEF Rows, Moment
  <2>3. now \in Touches(convs'[k])
    BY <1>1, <2>1, <2>2 DEF Touches, Conversation
  <2>4. reads' = reads /\ now' = now /\ DOMAIN convs' = DOMAIN convs
    BY <1>5, <1>8 DEF SaveReview, Annotate
  <2> QED BY <2>3, <2>4
<1> QED
  BY <1>3, <1>4, <1>6, <1>7, <1>8
  DEF PathNext, pathVars, Tick, Train, Trainer, Admin, Bell, Submit, Assign, DeleteAssignment,
      UpdatePath, DeleteSimulation, MarkRead

\* The key of that conversation is then of this moment, and nobody has read it.
LEMMA PassageIsTold ==
  ASSUME Rows, Rows', [PathNext]_pathVars, NEW k \in DOMAIN convs,
         Touches(convs'[k]) \ Touches(convs[k]) # {},
         ~ \E key \in reads : key[1] = "review" /\ key[2] = k /\ key[3] >= now
  PROVE  \E key \in Told' \ reads' : key[1] = "review" /\ key[2] = k
<1>1. reads' = reads /\ now' = now /\ k \in DOMAIN convs' /\ now \in Touches(convs'[k])
  BY TouchedNow
<1>2. convs'[k] \in Conversation /\ now \in Nat
  <2>1. convs' \in Seq(Conversation')
    BY DEF Rows
  <2>2. Conversation' = Conversation
    BY <1>1 DEF Conversation
  <2> QED BY <1>1, <2>1, <2>2 DEF Rows, Moment
<1> DEFINE m == Max(Touches(convs'[k]))
<1>3. m = now
  <2>1. m \in 0..now /\ now <= m
    BY <1>1, <1>2, TouchesAre
  <2> QED BY <1>2, <2>1
<1>4. <<"review", k, m>> \in Told'
  <2>1. ReviewKey(k)' = <<"review", k, m>>
    BY DEF ReviewKey
  <2>2. k \in {j \in DOMAIN convs' : Touches(convs'[j]) # {}}
    BY <1>1
  <2> QED BY <2>1, <2>2 DEF Told, ReviewKey
<1>5. <<"review", k, now>> \notin reads'
  BY <1>1, <1>2
<1> QED BY <1>3, <1>4, <1>5

\* Whoever has read of a conversation is told again when its trainer comes back
\* to it, unless it was in the second of that reading.
THEOREM PassagesAreTold == PathSpec => RewrittenIsTold
<1>1. Rows /\ Rows' /\ [PathNext]_pathVars =>
        [\A k \in DOMAIN convs :
           LET later == Touches(convs'[k]) \ Touches(convs[k]) IN
           (later # {} /\ Touches(convs[k]) # {} /\ Max(later) > Max(Touches(convs[k]))
            /\ ~\E key \in reads : key[1] = "review" /\ key[2] = k /\ key[3] >= now)
             => \E key \in Told' \ reads' : key[1] = "review" /\ key[2] = k]_pathVars
  BY PassageIsTold
<1> QED BY <1>1, RowsAlways, PTL DEF PathSpec, RewrittenIsTold
=============================================================================
