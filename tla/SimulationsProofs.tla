------------------------- MODULE SimulationsProofs -------------------------
(***************************************************************************)
(* What is proved of the two ends of a test: of Simulations, where the     *)
(* server keeps the pool and grades, for every set of contents and every   *)
(* number of writes, draws and deliveries; and of SimulationRunner, the    *)
(* page, for every number of shares, draws, attempts and questions.        *)
(***************************************************************************)
EXTENDS Simulations, SimulationRunner, FiniteSetTheorems, TLAPS

USE SimulationsAssumption

---------------------------------------------------------------------------
(* The records of the model.                                               *)

LEMMA Numbers == /\ DrawCount \in Nat /\ MaxWrites \in Nat /\ MaxReviews \in Nat
                 /\ MaxDraws \in Nat /\ MaxSubs \in Nat
                 /\ NoSub \notin Sub
  BY DEF Sub, NoSub

\* A transaction that another one crossed is the same but for the mark.
Crossed(w) == [w EXCEPT !.block.alone = FALSE]

LEMMA CrossedTyped ==
  ASSUME NEW w \in WriteType
  PROVE  /\ Crossed(w) \in WriteType
         /\ Crossed(w).seen = w.seen /\ Crossed(w).loaded = w.loaded
         /\ Crossed(w).block.write = w.block.write /\ Crossed(w).block.content = w.block.content
         /\ Crossed(w).block.by = w.block.by /\ Crossed(w).block.alone = FALSE
  <1>1. w.block \in BlockType /\ w.seen \in SUBSET BlockType /\ w.loaded \in Admitted
        /\ w = [block |-> w.block, seen |-> w.seen, loaded |-> w.loaded]
    BY DEF WriteType
  <1>2. Crossed(w) = [block |-> [w.block EXCEPT !.alone = FALSE], seen |-> w.seen, loaded |-> w.loaded]
    <2> DEFINE c == [w.block EXCEPT !.alone = FALSE]
    <2>1. Crossed(w) = [w EXCEPT !.block = c] BY Zenon DEF Crossed
    <2> HIDE DEF c
    <2>2. [w EXCEPT !.block = c] = [block |-> c, seen |-> w.seen, loaded |-> w.loaded] BY <1>1
    <2> QED BY <2>1, <2>2 DEF c
  <1>3. \A b \in BlockType : /\ [b EXCEPT !.alone = FALSE] \in BlockType
                             /\ [b EXCEPT !.alone = FALSE].write = b.write
                             /\ [b EXCEPT !.alone = FALSE].content = b.content
                             /\ [b EXCEPT !.alone = FALSE].by = b.by
                             /\ [b EXCEPT !.alone = FALSE].alone = FALSE
    BY DEF BlockType
  <1> DEFINE c == [w.block EXCEPT !.alone = FALSE]
  <1>4. /\ c \in BlockType /\ c.write = w.block.write /\ c.content = w.block.content
        /\ c.by = w.block.by /\ c.alone = FALSE
    BY <1>1, <1>3
  <1> HIDE DEF c
  <1>5. Crossed(w) = [block |-> c, seen |-> w.seen, loaded |-> w.loaded] BY <1>2 DEF c
  <1> QED BY <1>1, <1>4, <1>5 DEF WriteType

LEMMA OverlappedIs == Overlapped <=> writing' = {Crossed(w) : w \in writing}
  BY DEF Overlapped, Crossed

\* What a new write of the pool adds.
LEMMA NewWriteAdds ==
  ASSUME TypeOK, status \in Admitted, NEW content \in Contents, NEW by \in {"human", "model"},
         NewWrite(content, by)
  PROVE  \E w \in WriteType :
           /\ writing' = {Crossed(v) : v \in writing} \cup {w}
           /\ w.block.write = count.writes + 1 /\ w.block.content = content /\ w.loaded = status
           /\ w.block.alone <=> writing = {} /\ publishing = {}
           /\ count'.writes = count.writes + 1 /\ count' \in [writes : 0..MaxWrites, reviews : 0..MaxReviews]
  <1>1. count \in [writes : 0..MaxWrites, reviews : 0..MaxReviews] /\ count.writes < MaxWrites
        /\ count' = [count EXCEPT !.writes = @ + 1] /\ pool \subseteq BlockType
    BY DEF TypeOK, NewWrite
  <1>2. count'.writes = count.writes + 1 /\ count' \in [writes : 0..MaxWrites, reviews : 0..MaxReviews]
        /\ count.writes + 1 \in Write
    BY <1>1, Numbers DEF Write
  <1> DEFINE alone == writing = {} /\ publishing = {}
             w == [block |-> Block(count'.writes, content, by, alone), seen |-> pool, loaded |-> status]
  <1>3. writing' = {Crossed(v) : v \in writing} \cup {w} BY DEF NewWrite, Crossed
  <1>4. w \in WriteType BY <1>1, <1>2 DEF WriteType, BlockType, Block
  <1>5. /\ w.block.write = count.writes + 1 /\ w.block.content = content /\ w.loaded = status
        /\ w.block.alone <=> writing = {} /\ publishing = {}
    BY <1>2 DEF Block
  <1> HIDE DEF w
  <1> QED BY <1>2, <1>3, <1>4, <1>5

LEMMA QuestionsTyped ==
  ASSUME NEW p \in SUBSET BlockType
  PROVE  /\ Questions(p) \subseteq QuestionType
         /\ \A q \in Questions(p) : \E b \in p : q.write = b.write /\ q.content = b.content
  <1> SUFFICES ASSUME NEW q \in Questions(p)
               PROVE  q \in QuestionType /\ \E b \in p : q.write = b.write /\ q.content = b.content
    OBVIOUS
  <1>1. PICK b \in p : q \in {[write |-> b.write, n |-> n, content |-> b.content] : n \in 1..b.content.size}
    BY DEF Questions
  <1>2. PICK n \in 1..b.content.size : q = [write |-> b.write, n |-> n, content |-> b.content]
    BY <1>1
  <1>3. b.write \in Write /\ b.content \in Contents /\ b.content.size \in Nat BY DEF BlockType
  <1> QED BY <1>2, <1>3 DEF QuestionType

\* What a function makes of a finite set is finite.
LEMMA ImageFinite ==
  ASSUME NEW S, IsFiniteSet(S), NEW R, NEW f \in [S -> R], \A y \in R : \E x \in S : f[x] = y
  PROVE  IsFiniteSet(R)
  <1>1. f \in Surjection(S, R) BY DEF Surjection
  <1> QED BY <1>1, FS_Surjection

\* A pool of finitely many blocks has finitely many questions.
LEMMA QuestionsFinite ==
  ASSUME NEW p \in SUBSET BlockType, IsFiniteSet(p)
  PROVE  IsFiniteSet(Questions(p))
  <1> DEFINE Rows(b) == {[write |-> b.write, n |-> n, content |-> b.content] : n \in 1..b.content.size}
  <1>1. \A b \in p : IsFiniteSet(Rows(b))
    <2> TAKE b \in p
    <2> DEFINE N == 1..b.content.size
               f == [n \in N |-> [write |-> b.write, n |-> n, content |-> b.content]]
    <2>1. 1 \in Int /\ b.content.size \in Int BY DEF BlockType
    <2>2. IsFiniteSet(N) BY <2>1, FS_Interval
    <2>3. f \in [N -> Rows(b)] OBVIOUS
    <2>4. \A y \in Rows(b) : \E x \in N : f[x] = y OBVIOUS
    <2> HIDE DEF f, N, Rows
    <2> QED BY <2>2, <2>3, <2>4, ImageFinite
  <1> DEFINE All == {Rows(b) : b \in p}
             g == [b \in p |-> Rows(b)]
  <1>2. g \in [p -> All] /\ \A y \in All : \E x \in p : g[x] = y OBVIOUS
  <1>3. \A y \in All : IsFiniteSet(y) BY <1>1
  <1>4. UNION All = Questions(p) BY DEF Questions
  <1> HIDE DEF All, g
  <1>5. IsFiniteSet(All) BY <1>2, ImageFinite
  <1> QED BY <1>3, <1>4, <1>5, FS_UNION

---------------------------------------------------------------------------
(* What the steps of the operator do to the page and to the delivery.      *)

\* A delivery goes on, and the others stay where they are.
Becomes(s, phase, asked, graded, lost) ==
  /\ sub' \in [Sub -> SubType] /\ \A u \in Sub \ {s} : sub'[u] = sub[u]
  /\ sub'[s].phase = phase /\ sub'[s].draw = sub[s].draw
  /\ sub'[s].asked = asked /\ sub'[s].graded = graded /\ sub'[s].lost = lost

Refuses(s) == Becomes(s, "failed", {}, {}, sub[s].lost)

LEMMA RefusedIs ==
  ASSUME NEW x \in SubType
  PROVE  LET y == [x EXCEPT !.phase = "failed", !.asked = {}, !.graded = {}]
         IN  y \in SubType /\ y.phase = "failed" /\ y.asked = {} /\ y.graded = {}
             /\ y.draw = x.draw /\ y.lost = x.lost
  BY DEF SubType

LEMMA RefusedRefuses ==
  ASSUME sub \in [Sub -> SubType], NEW s \in Sub, sub' = [sub EXCEPT ![s] = Refused(s)]
  PROVE  Refuses(s)
  <1>1. sub[s] \in SubType OBVIOUS
  <1>2. /\ Refused(s) \in SubType /\ Refused(s).phase = "failed" /\ Refused(s).asked = {}
        /\ Refused(s).graded = {} /\ Refused(s).draw = sub[s].draw /\ Refused(s).lost = sub[s].lost
    BY <1>1, RefusedIs DEF Refused
  <1> QED BY <1>2 DEF Refuses, Becomes

LEMMA FoundTyped ==
  ASSUME TypeOK, NEW s \in Sub
  PROVE  Found(s) \in SUBSET QuestionType
  BY QuestionsTyped DEF Found, TypeOK

LEMMA ReadMoves ==
  ASSUME TypeOK, NEW s \in Sub, Read(s)
  PROVE  \/ /\ Becomes(s, "graded", sub[s].asked, Found(s), sub[s].lost)
            /\ status = "published" /\ Cardinality(Found(s)) = Cardinality(sub[s].asked)
         \/ Refuses(s)
  <1>1. sub \in [Sub -> SubType] BY DEF TypeOK
  <1>2. CASE /\ status = "published" /\ Cardinality(Found(s)) = Cardinality(sub[s].asked)
             /\ sub' = [sub EXCEPT ![s].phase = "graded", ![s].graded = Found(s)]
    <2>1. \A x \in SubType, g \in SUBSET QuestionType :
            LET y == [[x EXCEPT !.phase = "graded"] EXCEPT !.graded = g]
            IN  y \in SubType /\ y.phase = "graded" /\ y.asked = x.asked /\ y.graded = g
                /\ y.draw = x.draw /\ y.lost = x.lost
      BY DEF SubType
    <2> DEFINE y == [[sub[s] EXCEPT !.phase = "graded"] EXCEPT !.graded = Found(s)]
    <2>2. /\ y \in SubType /\ y.phase = "graded" /\ y.asked = sub[s].asked /\ y.graded = Found(s)
          /\ y.draw = sub[s].draw /\ y.lost = sub[s].lost
      BY <1>1, <2>1, FoundTyped
    <2>3. sub' = [sub EXCEPT ![s] = y] BY <1>1, <1>2
    <2> HIDE DEF y
    <2> QED BY <1>1, <1>2, <2>2, <2>3 DEF Becomes
  <1>3. CASE sub' = [sub EXCEPT ![s] = Refused(s)]
    BY <1>1, <1>3, RefusedRefuses
  <1> QED BY <1>2, <1>3 DEF Read

LEMMA StoreAttemptMoves ==
  ASSUME TypeOK, NEW s \in Sub, StoreAttempt(s)
  PROVE  \/ /\ Becomes(s, "stored", sub[s].asked, sub[s].graded, sub[s].lost)
            /\ status = "published"
         \/ Refuses(s)
  <1>1. sub \in [Sub -> SubType] BY DEF TypeOK
  <1>2. CASE status = "published"
    <2> DEFINE y == [sub[s] EXCEPT !.phase = "stored"]
    <2>1. sub' = [sub EXCEPT ![s] = y] BY <1>1, <1>2 DEF StoreAttempt
    <2>2. \A x \in SubType :
            LET z == [x EXCEPT !.phase = "stored"]
            IN  z \in SubType /\ z.phase = "stored" /\ z.asked = x.asked /\ z.graded = x.graded
                /\ z.draw = x.draw /\ z.lost = x.lost
      BY DEF SubType
    <2>3. /\ y \in SubType /\ y.phase = "stored" /\ y.asked = sub[s].asked
          /\ y.graded = sub[s].graded /\ y.draw = sub[s].draw /\ y.lost = sub[s].lost
      BY <1>1, <2>2
    <2> HIDE DEF y
    <2> QED BY <1>1, <1>2, <2>1, <2>3 DEF Becomes
  <1>3. CASE status # "published"
    <2>1. sub' = [sub EXCEPT ![s] = Refused(s)] BY <1>3 DEF StoreAttempt
    <2> QED BY <1>1, <2>1, RefusedRefuses
  <1> QED BY <1>2, <1>3

LEMMA LoseMoves ==
  ASSUME TypeOK, NEW s \in Sub, Lose(s)
  PROVE  Becomes(s, sub[s].phase, sub[s].asked, sub[s].graded, TRUE)
  <1>1. sub \in [Sub -> SubType] BY DEF TypeOK
  <1> DEFINE y == [sub[s] EXCEPT !.lost = TRUE]
  <1>2. sub' = [sub EXCEPT ![s] = y] BY <1>1 DEF Lose
  <1>3. \A x \in SubType :
          LET z == [x EXCEPT !.lost = TRUE]
          IN  z \in SubType /\ z.phase = x.phase /\ z.asked = x.asked /\ z.graded = x.graded
              /\ z.draw = x.draw /\ z.lost = TRUE
    BY DEF SubType
  <1>4. /\ y \in SubType /\ y.phase = sub[s].phase /\ y.asked = sub[s].asked
        /\ y.graded = sub[s].graded /\ y.draw = sub[s].draw /\ y.lost = TRUE
    BY <1>1, <1>3
  <1> HIDE DEF y
  <1> QED BY <1>1, <1>2, <1>4 DEF Becomes

LEMMA SubmitMoves ==
  ASSUME TypeOK, NEW s \in Sub, Submit(s)
  PROVE  /\ sub' \in [Sub -> SubType] /\ \A u \in Sub \ {s} : sub'[u] = sub[u]
         /\ sub'[s].phase = "asked" /\ sub'[s].draw = page.draw
         /\ sub'[s].asked = page.questions /\ sub'[s].lost = FALSE
  <1>1. sub \in [Sub -> SubType] /\ page.draw \in 0..MaxDraws /\ page.questions \in SUBSET QuestionType
    BY DEF TypeOK, PageType
  <1> DEFINE y == [NewSub EXCEPT !.phase = "asked", !.draw = page.draw, !.asked = page.questions]
  <1>2. /\ y \in SubType /\ y.phase = "asked" /\ y.draw = page.draw
        /\ y.asked = page.questions /\ y.lost = FALSE
    BY <1>1 DEF NewSub, SubType
  <1>3. sub' = [sub EXCEPT ![s] = y] BY DEF Submit
  <1> HIDE DEF y
  <1> QED BY <1>1, <1>2, <1>3

\* Everything graded, or being graded, goes with the simulation.
LEMMA DeleteMoves ==
  ASSUME TypeOK, Delete
  PROVE  /\ sub' \in [Sub -> SubType]
         /\ \A s \in Sub : \/ sub[s].phase \notin {"stored", "graded"} /\ sub'[s] = sub[s]
                           \/ /\ sub'[s].phase = "failed" /\ sub'[s].asked = {} /\ sub'[s].graded = {}
                              /\ sub'[s].draw = sub[s].draw /\ sub'[s].lost = sub[s].lost
  <1>1. sub \in [Sub -> SubType] BY DEF TypeOK
  <1>2. \A s \in Sub : /\ Refused(s) \in SubType /\ Refused(s).phase = "failed"
                       /\ Refused(s).asked = {} /\ Refused(s).graded = {}
                       /\ Refused(s).draw = sub[s].draw /\ Refused(s).lost = sub[s].lost
    BY <1>1, RefusedIs DEF Refused
  <1> QED BY <1>1, <1>2 DEF Delete

\* The three ways the page is updated.
PageIs(y, d, q, a) == y \in PageType /\ y.draw = d /\ y.questions = q /\ y.awaits = a

LEMMA PageMoves ==
  ASSUME NEW x \in PageType, NEW d \in 0..MaxDraws, NEW q \in SUBSET QuestionType,
         NEW a \in Sub \cup {NoSub}
  PROVE  /\ PageIs([x EXCEPT !.awaits = a], x.draw, x.questions, a)
         /\ PageIs([x EXCEPT !.awaits = a, !.questions = q], x.draw, q, a)
         /\ PageIs([x EXCEPT !.draw = d, !.questions = q], d, q, x.awaits)
  BY DEF PageType, PageIs

LEMMA StartMoves ==
  ASSUME TypeOK, Start
  PROVE  /\ PageIs(page', page.draw + 1, page'.questions, NoSub) /\ page.awaits = NoSub
         /\ page'.questions \in SUBSET Questions(pool)
  <1> DEFINE d == page.draw + 1
  <1>1. page \in PageType /\ d \in 0..MaxDraws /\ page.awaits = NoSub
    BY Numbers DEF TypeOK, PageType, Start
  <1>2. PICK q \in SUBSET Questions(pool) : page' = [page EXCEPT !.draw = d, !.questions = q]
    BY DEF Start, kSubset
  <1>3. q \in SUBSET QuestionType BY <1>2, QuestionsTyped DEF TypeOK
  <1> HIDE DEF d
  <1>4. PageIs(page', d, q, NoSub) BY <1>1, <1>2, <1>3, PageMoves
  <1> QED BY <1>1, <1>2, <1>4 DEF PageIs, d

LEMMA HearMoves ==
  ASSUME TypeOK, NEW s \in Sub, Hear(s)
  PROVE  PageIs(page', page.draw, IF sub[s].phase = "stored" THEN {} ELSE page.questions, NoSub)
  <1> DEFINE q == IF sub[s].phase = "stored" THEN {} ELSE page.questions
  <1>1. page \in PageType /\ page.draw \in 0..MaxDraws /\ q \in SUBSET QuestionType
    BY DEF TypeOK, PageType
  <1>2. page' = [page EXCEPT !.awaits = NoSub, !.questions = q] BY DEF Hear
  <1> HIDE DEF q
  <1>3. PageIs(page', page.draw, q, NoSub) BY <1>1, <1>2, PageMoves
  <1> QED BY <1>3 DEF q

LEMMA AwaitMoves ==
  ASSUME TypeOK, NEW s \in Sub
  PROVE  /\ Submit(s) => PageIs(page', page.draw, page.questions, s)
         /\ Lose(s) => PageIs(page', page.draw, page.questions, NoSub)
  <1>1. /\ page \in PageType /\ page.questions \in SUBSET QuestionType /\ page.draw \in 0..MaxDraws
        /\ s \in Sub \cup {NoSub} /\ NoSub \in Sub \cup {NoSub}
    BY DEF TypeOK, PageType
  <1>2. \A a \in Sub \cup {NoSub} : PageIs([page EXCEPT !.awaits = a], page.draw, page.questions, a)
    BY <1>1, PageMoves
  <1> QED BY <1>1, <1>2 DEF Submit, Lose

---------------------------------------------------------------------------
(* Types.                                                                  *)

\* Whoever was about to write into a deleted simulation is gone with it.
Gone == status = "deleted" => writing = {} /\ publishing = {} /\ reviewing = {}

AdminType ==
  /\ status \in Admitted \cup {"deleted"}
  /\ pool \subseteq BlockType /\ checked \subseteq BlockType
  /\ writing \subseteq WriteType /\ publishing \subseteq PublicationType
  /\ reviewing \subseteq SUBSET BlockType /\ report.there \in BOOLEAN
  /\ count \in [writes : 0..MaxWrites, reviews : 0..MaxReviews]

OperatorType == page \in PageType /\ sub \in [Sub -> SubType]

NothingLeft == status = "deleted" => pool = {} /\ ~report.there /\ \A s \in Sub : sub[s].phase # "stored"

LEMMA TypeParts == /\ TypeOK <=> AdminType /\ OperatorType /\ NothingLeft
                   /\ TypeOK' <=> AdminType' /\ OperatorType' /\ NothingLeft'
  BY DEF TypeOK, AdminType, OperatorType, NothingLeft

LEMMA OverlappedTyped ==
  ASSUME writing \subseteq WriteType, Overlapped
  PROVE  writing' \subseteq WriteType
  BY CrossedTyped, OverlappedIs

\* The administrators' part of the state.
LEMMA AdminTyped ==
  ASSUME TypeOK, Gone, AdminStep
  PROVE  AdminType' /\ Gone'
  <1>1. AdminType BY TypeParts
  <1>2. CASE SaveBegins
    <2>1. PICK content \in Contents, by \in {"human", "model"} : NewWrite(content, by)
      BY <1>2 DEF SaveBegins
    <2>2. /\ writing' \subseteq WriteType
          /\ count' \in [writes : 0..MaxWrites, reviews : 0..MaxReviews]
      <3>1. PICK w \in WriteType :
              /\ writing' = {Crossed(v) : v \in writing} \cup {w}
              /\ count' \in [writes : 0..MaxWrites, reviews : 0..MaxReviews]
        BY <1>2, <2>1, NewWriteAdds DEF SaveBegins
      <3>2. \A v \in writing : Crossed(v) \in WriteType BY <1>1, CrossedTyped DEF AdminType
      <3> QED BY <3>1, <3>2
    <2> QED BY <1>1, <1>2, <2>2 DEF SaveBegins, AdminType, Gone, Admitted
  <1>3. CASE PublishBegins
    <2>1. [pool |-> pool, loaded |-> status] \in PublicationType
      BY <1>1, <1>3 DEF PublishBegins, PublicationType, AdminType
    <2>2. writing' \subseteq WriteType BY <1>1, <1>3, OverlappedTyped DEF PublishBegins, AdminType
    <2> QED BY <1>1, <1>3, <2>1, <2>2 DEF PublishBegins, AdminType, Gone, Admitted
  <1>4. CASE Withdraw BY <1>1, <1>4 DEF Withdraw, AdminType, Gone, Admitted
  <1>5. CASE ReviewBegins
    <2>1. count' \in [writes : 0..MaxWrites, reviews : 0..MaxReviews]
      <3>1. count.reviews + 1 \in 0..MaxReviews
        BY <1>1, <1>5, Numbers DEF ReviewBegins, AdminType
      <3>2. count' = [count EXCEPT !.reviews = count.reviews + 1] BY <1>5 DEF ReviewBegins
      <3> QED BY <1>1, <3>1, <3>2 DEF AdminType
    <2> QED BY <1>1, <1>5, <2>1 DEF ReviewBegins, AdminType, Gone, Admitted
  <1>6. CASE Delete BY <1>1, <1>6 DEF Delete, AdminType, Gone, NoReport
  <1>7. ASSUME NEW w \in writing, WriteCommits(w) PROVE AdminType' /\ Gone'
    <2>1. status # "deleted" /\ w \in WriteType BY <1>1, <1>7 DEF Gone, AdminType
    <2>2. pool' \subseteq BlockType BY <1>1, <1>7, <2>1 DEF WriteCommits, Replaced, AdminType, WriteType
    <2>3. status' \in Admitted
      BY <1>1, <1>7, <2>1 DEF WriteCommits, AdminType, Admitted
    <2> QED BY <1>1, <1>7, <2>2, <2>3 DEF WriteCommits, AdminType, Gone, Admitted
  <1>8. ASSUME NEW p \in publishing, PublishCommits(p) PROVE AdminType' /\ Gone'
    <2>1. status # "deleted" /\ p \in PublicationType BY <1>1, <1>8 DEF Gone, AdminType
    <2>2. status' \in Admitted /\ checked' \subseteq BlockType
      BY <1>1, <1>8, <2>1 DEF PublishCommits, AdminType, Admitted, PublicationType
    <2>3. writing' \subseteq WriteType BY <1>1, <1>8, OverlappedTyped DEF PublishCommits, AdminType
    <2> QED BY <1>1, <1>8, <2>2, <2>3 DEF PublishCommits, AdminType, Gone, Admitted
  <1>9. ASSUME NEW r \in reviewing, ReviewFails(r) \/ StoreReview(r) PROVE AdminType' /\ Gone'
    <2>1. report'.there \in BOOLEAN
      <3>1. [there |-> TRUE, read |-> Fingerprint(r), print |-> Fingerprint(r)].there = TRUE
        OBVIOUS
      <3> QED BY <1>1, <1>9, <3>1, Zenon DEF ReviewFails, StoreReview, AdminType
    <2>2. UNCHANGED <<status, pool, writing, publishing, checked, count>>
          /\ reviewing' \subseteq reviewing
      BY <1>9 DEF ReviewFails, StoreReview
    <2> QED BY <1>1, <2>1, <2>2 DEF AdminType, Gone
  <1> QED BY <1>2, <1>3, <1>4, <1>5, <1>6, <1>7, <1>8, <1>9 DEF AdminStep

LEMMA OperatorTyped ==
  ASSUME TypeOK, OperatorStep
  PROVE  OperatorType'
  <1>1. OperatorType BY TypeParts
  <1>2. CASE Start BY <1>1, <1>2, StartMoves DEF Start, OperatorType, PageIs
  <1>3. ASSUME NEW s \in Sub, Submit(s) PROVE OperatorType'
    BY <1>3, SubmitMoves, AwaitMoves DEF OperatorType, PageIs
  <1>4. ASSUME NEW s \in Sub, Read(s) PROVE OperatorType'
    BY <1>1, <1>4, ReadMoves DEF Read, Becomes, Refuses, OperatorType
  <1>5. ASSUME NEW s \in Sub, GradingFails(s) PROVE OperatorType'
    BY <1>1, <1>5, RefusedRefuses DEF GradingFails, Becomes, Refuses, OperatorType
  <1>6. ASSUME NEW s \in Sub, StoreAttempt(s) PROVE OperatorType'
    BY <1>1, <1>6, StoreAttemptMoves DEF StoreAttempt, Becomes, Refuses, OperatorType
  <1>7. ASSUME NEW s \in Sub, Hear(s) PROVE OperatorType'
    BY <1>1, <1>7, HearMoves DEF Hear, OperatorType, PageIs
  <1>8. ASSUME NEW s \in Sub, Lose(s) PROVE OperatorType'
    BY <1>8, LoseMoves, AwaitMoves DEF Becomes, OperatorType, PageIs
  <1> QED BY <1>2, <1>3, <1>4, <1>5, <1>6, <1>7, <1>8 DEF OperatorStep

\* A deleted simulation takes its attempts with it, and none is stored after.
LEMMA NothingLeftStep ==
  ASSUME TypeOK, Gone, [Next]_vars
  PROVE  NothingLeft'
  <1>1. NothingLeft /\ AdminType BY TypeParts
  <1>2. CASE Delete
    BY <1>2, DeleteMoves DEF Delete, NoReport, NothingLeft
  <1>3. CASE AdminStep /\ ~Delete
    <2>1. status' = "deleted" => status = "deleted" /\ pool' = {} /\ ~report'.there
      BY <1>1, <1>3 DEF AdminStep, SaveBegins, PublishBegins, Withdraw, ReviewBegins, WriteCommits,
         PublishCommits, ReviewFails, StoreReview, Gone, NothingLeft
    <2>2. UNCHANGED sub
      BY <1>3 DEF AdminStep, SaveBegins, PublishBegins, Withdraw, ReviewBegins, WriteCommits,
         PublishCommits, ReviewFails, StoreReview, operator
    <2> QED BY <1>1, <2>1, <2>2 DEF NothingLeft
  <1>4. CASE OperatorStep
    <2>1. UNCHANGED <<status, pool, report>>
      BY <1>4 DEF OperatorStep, Start, Submit, Read, GradingFails, StoreAttempt, Hear, Lose, admin
    <2> SUFFICES ASSUME status = "deleted", NEW u \in Sub PROVE sub'[u].phase # "stored"
      BY <1>1, <2>1 DEF NothingLeft
    <2>2. sub[u].phase # "stored" BY <1>1 DEF NothingLeft
    <2>3. ASSUME NEW s \in Sub, Submit(s) PROVE sub'[u].phase # "stored"
      BY <2>2, <2>3, SubmitMoves
    <2>4. ASSUME NEW s \in Sub, Read(s) PROVE sub'[u].phase # "stored"
      BY <2>2, <2>4, ReadMoves DEF Becomes, Refuses
    <2>5. ASSUME NEW s \in Sub, GradingFails(s) PROVE sub'[u].phase # "stored"
      BY <2>2, <2>5, RefusedRefuses DEF GradingFails, Becomes, Refuses, TypeOK
    <2>6. ASSUME NEW s \in Sub, StoreAttempt(s) PROVE sub'[u].phase # "stored"
      BY <2>2, <2>6, StoreAttemptMoves DEF Becomes, Refuses
    <2>7. ASSUME NEW s \in Sub, Lose(s) PROVE sub'[u].phase # "stored"
      BY <2>2, <2>7, LoseMoves DEF Becomes
    <2>8. CASE UNCHANGED sub BY <2>2, <2>8
    <2> QED BY <1>4, <2>3, <2>4, <2>5, <2>6, <2>7, <2>8 DEF OperatorStep, Start, Hear
  <1>5. CASE UNCHANGED vars BY <1>1, <1>5 DEF vars, NothingLeft
  <1> QED BY <1>2, <1>3, <1>4, <1>5 DEF Next

\* Every reachable state is well typed, and nothing is left of a deleted
\* simulation, nor anybody about to write into it.
THEOREM TypeCorrect == Spec => [](TypeOK /\ Gone)
  <1>1. Init => TypeOK /\ Gone
    <2> SUFFICES ASSUME Init PROVE TypeOK /\ Gone OBVIOUS
    <2>1. NewSub \in SubType BY Numbers DEF NewSub, SubType
    <2>2. page \in PageType BY Numbers DEF Init, PageType
    <2>3. count \in [writes : 0..MaxWrites, reviews : 0..MaxReviews] BY Numbers DEF Init
    <2> QED BY <2>1, <2>2, <2>3 DEF Init, TypeOK, Gone, Admitted, NoReport
  <1>2. TypeOK /\ Gone /\ [Next]_vars => (TypeOK /\ Gone)'
    <2> SUFFICES ASSUME TypeOK, Gone, [Next]_vars PROVE TypeOK' /\ Gone' OBVIOUS
    <2>1. NothingLeft' BY NothingLeftStep
    <2>2. CASE AdminStep
      <3>1. OperatorType'
        <4>1. CASE Delete BY <4>1, TypeParts, DeleteMoves DEF Delete, OperatorType
        <4>2. CASE UNCHANGED operator BY <4>2, TypeParts DEF operator, OperatorType
        <4> QED BY <2>2, <4>1, <4>2 DEF AdminStep, SaveBegins, PublishBegins, Withdraw, ReviewBegins,
                   WriteCommits, PublishCommits, ReviewFails, StoreReview
      <3> QED BY <2>1, <2>2, <3>1, AdminTyped, TypeParts
    <2>3. CASE OperatorStep
      <3>1. UNCHANGED admin
        BY <2>3 DEF OperatorStep, Start, Submit, Read, GradingFails, StoreAttempt, Hear, Lose, admin
      <3>2. AdminType' /\ Gone' BY <3>1, TypeParts DEF admin, AdminType, Gone
      <3> QED BY <2>1, <2>3, <3>2, OperatorTyped, TypeParts
    <2>4. CASE UNCHANGED vars BY <2>4 DEF vars, TypeOK, Gone
    <2> QED BY <2>2, <2>3, <2>4 DEF Next
  <1> QED BY <1>1, <1>2, PTL DEF Spec

---------------------------------------------------------------------------
(* A write is one text.  The ids of a test are found again with what they  *)
(* asked, because no row is ever rewritten: a new text is a new write.     *)

Blocks == pool \cup {w.block : w \in writing}

\* q is a row, or a block of rows, of a write that began, and of its text.
Agrees(q) ==
  /\ q.write \in 1..count.writes
  /\ \A b \in Blocks : b.write = q.write => b.content = q.content

OneText ==
  /\ \A b \in Blocks : Agrees(b)
  /\ \A q \in page.questions : Agrees(q)
  /\ \A s \in Sub : \A q \in sub[s].asked : Agrees(q)

Finite == /\ IsFiniteSet(pool) /\ IsFiniteSet(page.questions)
          /\ \A s \in Sub : IsFiniteSet(sub[s].asked)

Graded == \A s \in Sub : sub[s].phase \in {"graded", "stored"} => sub[s].graded = sub[s].asked

\* A step leaves the texts of the writes, or one more write begins.
Same(b) == \E c \in Blocks : c.write = b.write /\ c.content = b.content

BlocksMove ==
  \/ count'.writes = count.writes /\ \A b \in Blocks' : Same(b)
  \/ /\ count'.writes = count.writes + 1
     /\ \E k \in Contents : \A b \in Blocks' :
          \/ b.write = count.writes + 1 /\ b.content = k
          \/ Same(b)

LEMMA EveryStepBlocks ==
  ASSUME TypeOK, [Next]_vars
  PROVE  BlocksMove
  <1>1. writing \subseteq WriteType /\ count \in [writes : 0..MaxWrites, reviews : 0..MaxReviews]
    BY DEF TypeOK
  <1>2. ASSUME NEW v \in writing PROVE Same(v.block) /\ Same(Crossed(v).block)
    <2>1. v.block \in Blocks BY DEF Blocks
    <2> QED BY <1>1, <2>1, CrossedTyped DEF Same
  <1>3. ASSUME NEW b \in pool PROVE Same(b) BY DEF Same, Blocks
  <1>4. ASSUME UNCHANGED <<pool, writing>>, count'.writes = count.writes PROVE BlocksMove
    BY <1>4 DEF BlocksMove, Same, Blocks
  <1>5. CASE SaveBegins
    <2>1. PICK content \in Contents, by \in {"human", "model"} : NewWrite(content, by)
      BY <1>5 DEF SaveBegins
    <2>2. PICK w \in WriteType :
            /\ writing' = {Crossed(v) : v \in writing} \cup {w}
            /\ w.block.write = count.writes + 1 /\ w.block.content = content
            /\ count'.writes = count.writes + 1
      BY <1>5, <2>1, NewWriteAdds DEF SaveBegins
    <2>3. \A b \in Blocks' : Same(b) \/ b = w.block
      BY <1>2, <1>3, <1>5, <2>2 DEF SaveBegins, Blocks
    <2> QED BY <2>2, <2>3 DEF BlocksMove
  <1>6. CASE PublishBegins \/ \E p \in publishing : PublishCommits(p)
    <2>1. writing' = {Crossed(v) : v \in writing} /\ UNCHANGED <<pool, count>>
      BY <1>6, OverlappedIs DEF PublishBegins, PublishCommits
    <2> QED BY <1>2, <1>3, <2>1 DEF BlocksMove, Blocks
  <1>7. CASE Withdraw \/ ReviewBegins \/ \E r \in reviewing : ReviewFails(r) \/ StoreReview(r)
    BY <1>1, <1>4, <1>7 DEF Withdraw, ReviewBegins, ReviewFails, StoreReview
  <1>8. CASE Delete BY <1>8 DEF Delete, BlocksMove, Blocks
  <1>9. ASSUME NEW w \in writing, WriteCommits(w) PROVE BlocksMove
    BY <1>2, <1>3, <1>9 DEF WriteCommits, Replaced, BlocksMove, Blocks
  <1>10. CASE OperatorStep
    BY <1>4, <1>10 DEF OperatorStep, Start, Submit, Read, GradingFails, StoreAttempt, Hear, Lose, admin
  <1>11. CASE UNCHANGED vars BY <1>4, <1>11 DEF vars
  <1> QED BY <1>5, <1>6, <1>7, <1>8, <1>9, <1>10, <1>11 DEF Next, AdminStep

LEMMA AgreesKept ==
  ASSUME TypeOK, NEW q, Agrees(q), BlocksMove
  PROVE  Agrees(q)'
  <1>1. count.writes \in Nat BY DEF TypeOK
  <1>2. CASE count'.writes = count.writes /\ \A b \in Blocks' : Same(b)
    BY <1>2 DEF Agrees, Same
  <1>3. CASE /\ count'.writes = count.writes + 1
             /\ \A b \in Blocks' : b.write = count.writes + 1 \/ Same(b)
    BY <1>1, <1>3 DEF Agrees, Same
  <1> QED BY <1>2, <1>3 DEF BlocksMove

LEMMA BlocksAgree ==
  ASSUME TypeOK, OneText, BlocksMove
  PROVE  \A b \in Blocks' : Agrees(b)'
  <1>1. count.writes \in Nat BY DEF TypeOK
  <1> SUFFICES ASSUME NEW b \in Blocks' PROVE Agrees(b)' OBVIOUS
  <1>2. CASE Same(b)
    <2>1. PICK c \in Blocks : c.write = b.write /\ c.content = b.content BY <1>2 DEF Same
    <2>2. Agrees(b) BY <2>1 DEF OneText, Agrees
    <2> QED BY <2>2, AgreesKept
  <1>3. CASE ~Same(b)
    <2>1. PICK k \in Contents :
            /\ count'.writes = count.writes + 1
            /\ \A c \in Blocks' : (c.write = count.writes + 1 /\ c.content = k) \/ Same(c)
      BY <1>3 DEF BlocksMove
    <2>2. b.write = count.writes + 1 /\ b.content = k BY <1>3, <2>1
    <2>3. \A c \in Blocks' : Same(c) => c.write <= count.writes /\ c.write \in Nat
      BY <1>1 DEF OneText, Agrees, Same
    <2>4. \A c \in Blocks' : c.write = b.write => c.content = b.content
      BY <1>1, <2>1, <2>2, <2>3
    <2> QED BY <1>1, <2>1, <2>2, <2>4 DEF Agrees
  <1> QED BY <1>2, <1>3

\* The page shows what it showed, nothing, or rows of the pool; a delivery
\* carries what it carried, nothing, or what the page shows.
ShownMove ==
  /\ \/ page'.questions \in {page.questions, {}}
     \/ page'.questions \in SUBSET Questions(pool)
  /\ \A s \in Sub : sub'[s].asked \in {sub[s].asked, {}, page.questions}

LEMMA EveryStepShows ==
  ASSUME TypeOK, [Next]_vars
  PROVE  ShownMove
  <1>1. ASSUME UNCHANGED operator PROVE ShownMove BY <1>1 DEF operator, ShownMove
  <1>2. CASE Delete
    BY <1>2, DeleteMoves DEF Delete, ShownMove
  <1>3. CASE AdminStep /\ ~Delete
    BY <1>1, <1>3 DEF AdminStep, SaveBegins, PublishBegins, Withdraw, ReviewBegins,
       WriteCommits, PublishCommits, ReviewFails, StoreReview
  <1>4. CASE Start BY <1>4, StartMoves DEF Start, ShownMove
  <1>5. ASSUME NEW s \in Sub, Submit(s) PROVE ShownMove
    BY <1>5, SubmitMoves, AwaitMoves DEF PageIs, ShownMove
  <1>6. ASSUME NEW s \in Sub, Read(s) \/ GradingFails(s) \/ StoreAttempt(s) PROVE ShownMove
    <2>1. UNCHANGED page BY <1>6 DEF Read, GradingFails, StoreAttempt
    <2>2. Refuses(s) \/ \E phase, graded, lost : Becomes(s, phase, sub[s].asked, graded, lost)
      BY <1>6, ReadMoves, StoreAttemptMoves, RefusedRefuses DEF GradingFails, TypeOK
    <2> QED BY <2>1, <2>2 DEF Refuses, Becomes, ShownMove
  <1>7. ASSUME NEW s \in Sub, Hear(s) PROVE ShownMove
    BY <1>7, HearMoves DEF Hear, PageIs, ShownMove
  <1>8. ASSUME NEW s \in Sub, Lose(s) PROVE ShownMove
    BY <1>8, LoseMoves, AwaitMoves DEF Becomes, PageIs, ShownMove
  <1>9. CASE UNCHANGED vars BY <1>1, <1>9 DEF vars, operator
  <1> QED BY <1>2, <1>3, <1>4, <1>5, <1>6, <1>7, <1>8, <1>9 DEF Next, OperatorStep

LEMMA OneTextStep ==
  ASSUME TypeOK, OneText, BlocksMove, ShownMove
  PROVE  OneText'
  <1>1. \A b \in Blocks' : Agrees(b)' BY BlocksAgree
  <1>2. ASSUME NEW q \in Questions(pool) PROVE Agrees(q)
    <2>1. PICK b \in pool : q.write = b.write /\ q.content = b.content
      BY QuestionsTyped DEF TypeOK
    <2> QED BY <2>1 DEF OneText, Agrees, Blocks
  <1>3. \A q \in page'.questions : Agrees(q) BY <1>2 DEF ShownMove, OneText
  <1>4. \A s \in Sub : \A q \in sub'[s].asked : Agrees(q) BY DEF ShownMove, OneText
  <1>5. \A q : Agrees(q) => Agrees(q)' BY AgreesKept
  <1> QED BY <1>1, <1>3, <1>4, <1>5 DEF OneText

LEMMA FiniteStep ==
  ASSUME TypeOK, Finite, ShownMove, [Next]_vars
  PROVE  Finite'
  <1>1. IsFiniteSet({}) BY FS_EmptySet
  <1>2. IsFiniteSet(pool')
    <2>1. CASE pool' = pool \/ pool' = {} BY <1>1, <2>1 DEF Finite
    <2>2. ASSUME NEW w \in writing, WriteCommits(w) PROVE IsFiniteSet(pool')
      <3>1. IsFiniteSet(pool \ w.seen) BY FS_Subset DEF Finite
      <3>2. IsFiniteSet((pool \ w.seen) \cup {w.block}) BY <3>1, FS_AddElement
      <3> QED BY <2>2, <3>2 DEF WriteCommits, Replaced
    <2> QED BY <2>1, <2>2 DEF Next, AdminStep, OperatorStep, SaveBegins, PublishBegins, Withdraw,
         ReviewBegins, PublishCommits, ReviewFails, StoreReview, Delete, Start, Submit, Read,
         GradingFails, StoreAttempt, Hear, Lose, admin, vars
  <1>3. IsFiniteSet(Questions(pool)) BY QuestionsFinite DEF Finite, TypeOK
  <1>4. IsFiniteSet(page'.questions)
    <2>1. CASE page'.questions \in SUBSET Questions(pool) BY <1>3, <2>1, FS_Subset
    <2> QED BY <1>1, <2>1 DEF ShownMove, Finite
  <1>5. \A s \in Sub : IsFiniteSet(sub'[s].asked) BY <1>1 DEF ShownMove, Finite
  <1> QED BY <1>2, <1>4, <1>5 DEF Finite

\* The rows found again are rows of the test, with what they asked: if as many
\* are found as were handed in, they are the test.
LEMMA FoundIsAsked ==
  ASSUME TypeOK, OneText, Finite, NEW s \in Sub, Cardinality(Found(s)) = Cardinality(sub[s].asked)
  PROVE  Found(s) = sub[s].asked
  <1>1. Found(s) \subseteq sub[s].asked
    <2> SUFFICES ASSUME NEW q \in Found(s) PROVE q \in sub[s].asked OBVIOUS
    <2>1. PICK a \in sub[s].asked : q \in Questions(pool) /\ a.write = q.write /\ a.n = q.n
      BY DEF Found
    <2>2. PICK b \in pool : q.write = b.write /\ q.content = b.content
      BY <2>1, QuestionsTyped DEF TypeOK
    <2>3. a.content = q.content BY <2>1, <2>2 DEF OneText, Agrees, Blocks
    <2>4. a \in QuestionType /\ q \in QuestionType
      BY <2>1, QuestionsTyped DEF TypeOK, SubType
    <2>5. a = q BY <2>1, <2>3, <2>4 DEF QuestionType
    <2> QED BY <2>5
  <1>2. IsFiniteSet(sub[s].asked) BY DEF Finite
  <1> QED BY <1>1, <1>2, FS_Subset

LEMMA GradedStep ==
  ASSUME TypeOK, OneText, Finite, Graded, [Next]_vars
  PROVE  Graded'
  <1>1. CASE UNCHANGED sub BY <1>1 DEF Graded
  <1>2. CASE Delete BY <1>2, DeleteMoves DEF Graded
  <1>3. ASSUME NEW s \in Sub, Submit(s) PROVE Graded' BY <1>3, SubmitMoves DEF Graded
  <1>4. ASSUME NEW s \in Sub, Refuses(s) PROVE Graded' BY <1>4 DEF Refuses, Becomes, Graded
  <1>5. ASSUME NEW s \in Sub, Read(s) PROVE Graded'
    BY <1>4, <1>5, ReadMoves, FoundIsAsked DEF Becomes, Graded
  <1>6. ASSUME NEW s \in Sub, StoreAttempt(s) PROVE Graded'
    BY <1>4, <1>6, StoreAttemptMoves DEF StoreAttempt, Becomes, Graded
  <1>7. ASSUME NEW s \in Sub, GradingFails(s) PROVE Graded'
    BY <1>4, <1>7, RefusedRefuses DEF GradingFails, TypeOK
  <1>8. ASSUME NEW s \in Sub, Lose(s) PROVE Graded'
    <2>1. /\ sub'[s].phase = sub[s].phase /\ sub'[s].asked = sub[s].asked
          /\ sub'[s].graded = sub[s].graded /\ \A u \in Sub \ {s} : sub'[u] = sub[u]
      BY <1>8, LoseMoves DEF Becomes
    <2> QED BY <2>1 DEF Graded
  <1> QED BY <1>1, <1>2, <1>3, <1>5, <1>6, <1>7, <1>8 DEF Next, AdminStep, OperatorStep, SaveBegins,
       PublishBegins, Withdraw, ReviewBegins, WriteCommits, PublishCommits, ReviewFails, StoreReview,
       Start, Hear, operator, vars

\* An attempt that is stored was graded on the questions its page showed,
\* however often the pool was rewritten between the draw, the reading of the
\* delivery and its writing (routers/simulations.py:518-539).
THEOREM AttemptsGradedAsAsked == Spec => []GradedAsAsked
  <1> DEFINE Inv == OneText /\ Finite /\ Graded
  <1>1. Init => Inv
    <2> SUFFICES ASSUME Init PROVE Inv OBVIOUS
    <2>1. IsFiniteSet({}) BY FS_EmptySet
    <2>2. Blocks = {} BY DEF Init, Blocks
    <2> QED BY <2>1, <2>2 DEF Init, OneText, Finite, Graded, NewSub
  <1>2. TypeOK /\ Inv /\ [Next]_vars => Inv'
    BY EveryStepBlocks, EveryStepShows, OneTextStep, FiniteStep, GradedStep
  <1>3. TypeOK /\ Inv => GradedAsAsked BY DEF GradedAsAsked, Graded
  <1> QED BY <1>1, <1>2, <1>3, TypeCorrect, PTL DEF Spec

---------------------------------------------------------------------------
(* The review.                                                             *)

\* A review that does not call itself stale is about the questions that are
\* there: its fingerprint was taken when the pool was read
\* (admin_simulations.py:732-784).
THEOREM ReviewTells == Spec => []ReviewIsOfThisPool
  <1> DEFINE Inv == report.there => report.print = report.read
  <1>1. Init => Inv BY DEF Init, NoReport
  <1>2. Inv /\ [Next]_vars => Inv'
    <2> SUFFICES ASSUME Inv, [Next]_vars PROVE Inv' OBVIOUS
    <2>1. CASE UNCHANGED report BY <2>1
    <2>2. ASSUME NEW r \in reviewing, StoreReview(r) PROVE Inv'
      BY <2>2 DEF StoreReview
    <2>3. CASE Delete BY <2>3 DEF Delete, NoReport
    <2> QED BY <2>1, <2>2, <2>3 DEF Next, AdminStep, OperatorStep, SaveBegins, PublishBegins, Withdraw,
         ReviewBegins, WriteCommits, PublishCommits, ReviewFails, Start, Submit, Read,
         GradingFails, StoreAttempt, Hear, Lose, admin, vars
  <1>3. Inv => ReviewIsOfThisPool BY DEF ReviewIsOfThisPool
  <1> QED BY <1>1, <1>2, <1>3, PTL DEF Spec

---------------------------------------------------------------------------
(* The publication.                                                        *)

\* Written by the model, in a transaction no other one crossed.
Unread(b) == b.by = "model" /\ b.alone

Counted(b, p) == b.write \in {c.write : c \in p}

\* A lone transaction that loaded a draft still finds one, because whoever
\* publishes crosses it; and so what was counted is what is there, or was
\* replaced by somebody who knows that it is public.
Publication ==
  /\ \A w \in writing : w.block.alone /\ w.loaded = "draft" => status = "draft"
  /\ \A p \in publishing : /\ Whole(p.pool)
                           /\ \A b \in pool : Unread(b) => Counted(b, p.pool)
                           /\ \A w \in writing : ~w.block.alone

LEMMA PublicationStep ==
  ASSUME TypeOK, Gone, Publication, PublishedWasRead, [Next]_vars
  PROVE  Publication' /\ PublishedWasRead'
  <1> USE DEF PublishedWasRead, PublishedWasWhole
  <1>1. /\ writing \subseteq WriteType /\ pool \subseteq BlockType
        /\ publishing \subseteq PublicationType /\ status \in Admitted \cup {"deleted"}
    BY DEF TypeOK
  <1>2. GeneratedIsReadFirst <=> (status = "published" => \A b \in pool : Unread(b) => Counted(b, checked))
    BY DEF GeneratedIsReadFirst, Unread, Counted
  <1>3. GeneratedIsReadFirst' <=> (status' = "published" => \A b \in pool' : Unread(b) => Counted(b, checked'))
    BY DEF GeneratedIsReadFirst, Unread, Counted
  <1>4. ASSUME UNCHANGED <<status, pool, writing, publishing, checked>>
        PROVE  Publication' /\ PublishedWasRead'
    BY <1>2, <1>3, <1>4 DEF Publication
  <1>5. CASE SaveBegins
    <2>1. PICK content \in Contents, by \in {"human", "model"} : NewWrite(content, by)
      BY <1>5 DEF SaveBegins
    <2>2. PICK w \in WriteType :
            /\ writing' = {Crossed(v) : v \in writing} \cup {w} /\ w.loaded = status
            /\ w.block.alone <=> writing = {} /\ publishing = {}
      BY <1>5, <2>1, NewWriteAdds DEF SaveBegins
    <2>3. \A v \in writing' : v = w \/ ~v.block.alone BY <1>1, <2>2, CrossedTyped
    <2>4. UNCHANGED <<status, pool, publishing, checked>> BY <1>5 DEF SaveBegins
    <2> QED BY <1>2, <1>3, <2>2, <2>3, <2>4 DEF Publication
  <1>6. CASE PublishBegins
    <2>1. \A v \in writing' : ~v.block.alone
      BY <1>1, <1>6, OverlappedIs, CrossedTyped DEF PublishBegins
    <2>2. /\ publishing' = {[pool |-> pool, loaded |-> status]} /\ Whole(pool)
          /\ UNCHANGED <<status, pool, checked>>
      BY <1>6 DEF PublishBegins
    <2>3. \A b \in pool : Counted(b, pool) BY DEF Counted
    <2> QED BY <1>2, <1>3, <2>1, <2>2, <2>3 DEF Publication
  <1>7. CASE Withdraw
    BY <1>2, <1>3, <1>7 DEF Withdraw, Publication
  <1>8. CASE ReviewBegins \/ \E r \in reviewing : ReviewFails(r) \/ StoreReview(r)
    BY <1>4, <1>8 DEF ReviewBegins, ReviewFails, StoreReview
  <1>9. CASE Delete BY <1>3, <1>9 DEF Delete, Publication
  <1>10. ASSUME NEW w \in writing, WriteCommits(w) PROVE Publication' /\ PublishedWasRead'
    <2>1. w \in WriteType /\ status \in Admitted BY <1>1, <1>10 DEF Gone
    <2>2. /\ writing' = writing \ {w} /\ pool' = (pool \ w.seen) \cup {w.block}
          /\ UNCHANGED publishing
      BY <1>10 DEF WriteCommits, Replaced
    <2>3. CASE w.block.by = "model" /\ w.loaded = "published"
      <3>1. status' = "draft" BY <1>10, <2>3 DEF WriteCommits
      <3> QED BY <1>3, <2>2, <3>1 DEF Publication, Unread
    <2>4. CASE ~(w.block.by = "model" /\ w.loaded = "published")
      <3>1. UNCHANGED <<status, checked>> BY <1>10, <2>4 DEF WriteCommits
      <3>2. w.loaded \in Admitted /\ status # "deleted" BY <2>1 DEF WriteType, Admitted
      <3>3. Unread(w.block) => status = "draft" /\ publishing = {}
        BY <2>4, <3>2 DEF Unread, Publication, Admitted
      <3> QED BY <1>2, <1>3, <2>2, <3>1, <3>3 DEF Publication
    <2> QED BY <2>3, <2>4
  <1>11. ASSUME NEW p \in publishing, PublishCommits(p) PROVE Publication' /\ PublishedWasRead'
    <2>1. \A v \in writing' : ~v.block.alone
      BY <1>1, <1>11, OverlappedIs, CrossedTyped DEF PublishCommits
    <2>2. publishing' = {} /\ UNCHANGED pool BY <1>11 DEF PublishCommits
    <2>3. CASE p.loaded = "draft"
      <3>1. status' = "published" /\ checked' = p.pool BY <1>11, <2>3 DEF PublishCommits
      <3> QED BY <1>3, <2>1, <2>2, <3>1 DEF Publication
    <2>4. CASE p.loaded # "draft"
      <3>1. UNCHANGED <<status, checked>> BY <1>11, <2>4 DEF PublishCommits
      <3> QED BY <1>2, <1>3, <2>1, <2>2, <3>1 DEF Publication
    <2> QED BY <2>3, <2>4
  <1>12. CASE OperatorStep
    BY <1>4, <1>12 DEF OperatorStep, Start, Submit, Read, GradingFails, StoreAttempt, Hear, Lose, admin
  <1>13. CASE UNCHANGED vars BY <1>4, <1>13 DEF vars
  <1> QED BY <1>5, <1>6, <1>7, <1>8, <1>9, <1>10, <1>11, <1>12, <1>13 DEF Next, AdminStep

\* Whatever publications, withdrawals, generations and edits cross: what is
\* public was whole when it was counted, and questions the model wrote were
\* there when somebody published them (admin_simulations.py:656-678, 941-985).
THEOREM PublicIsRead == Spec => []PublishedWasRead
  <1>1. Init => Publication /\ PublishedWasRead
    BY DEF Init, Publication, PublishedWasRead, PublishedWasWhole, GeneratedIsReadFirst
  <1>2. TypeOK /\ Gone /\ Publication /\ PublishedWasRead /\ [Next]_vars
          => (Publication /\ PublishedWasRead)'
    BY PublicationStep
  <1> QED BY <1>1, <1>2, TypeCorrect, PTL DEF Spec

---------------------------------------------------------------------------
(* One draw, one attempt.                                                  *)

\* Delivered, and no answer of it was lost or refused.
Alive(s) == sub[s].phase \in {"asked", "graded", "stored"} /\ ~sub[s].lost

\* A delivery of the test the page is on is the one it awaits, or the page
\* has heard of it and has nothing left to hand in.
OneDelivery ==
  /\ \A s \in Sub : sub[s].draw <= page.draw
  /\ \A s \in Sub : Alive(s) /\ sub[s].draw = page.draw
       => page.awaits = s \/ (page.awaits = NoSub /\ page.questions = {})
  /\ \A s, u \in Sub : s # u /\ Alive(s) /\ Alive(u) => sub[s].draw # sub[u].draw

\* A step that makes no delivery alive that was not.
LEMMA NobodyRises ==
  ASSUME OneDelivery, \A s \in Sub : sub'[s].draw = sub[s].draw /\ (Alive(s)' => Alive(s))
  PROVE  /\ \A s, u \in Sub : s # u /\ Alive(s)' /\ Alive(u)' => sub'[s].draw # sub'[u].draw
         /\ UNCHANGED page => OneDelivery'
  BY DEF OneDelivery

LEMMA OneDeliveryStep ==
  ASSUME TypeOK, OneDelivery, [Next]_vars
  PROVE  OneDelivery'
  <1>1. /\ page.draw \in Nat /\ \A s \in Sub : sub[s].draw \in Nat /\ s # NoSub
        /\ sub \in [Sub -> SubType]
    BY Numbers DEF TypeOK, PageType, SubType
  <1>2. ASSUME UNCHANGED operator PROVE OneDelivery'
    BY <1>2 DEF operator, OneDelivery, Alive
  <1>3. CASE Delete
    <2>1. \A s \in Sub : sub'[s].draw = sub[s].draw /\ (Alive(s)' => Alive(s))
      BY <1>3, DeleteMoves DEF Alive
    <2> QED BY <1>3, <2>1, NobodyRises DEF Delete
  <1>4. CASE AdminStep /\ ~Delete
    BY <1>2, <1>4 DEF AdminStep, SaveBegins, PublishBegins, Withdraw, ReviewBegins,
       WriteCommits, PublishCommits, ReviewFails, StoreReview
  <1>5. CASE Start
    <2>1. UNCHANGED sub /\ page'.draw = page.draw + 1
      BY <1>5, StartMoves DEF Start, PageIs
    <2>2. \A s \in Sub : sub[s].draw <= page.draw BY DEF OneDelivery
    <2>3. \A s \in Sub : sub'[s].draw <= page'.draw /\ sub'[s].draw # page'.draw
      BY <1>1, <2>1, <2>2
    <2> QED BY <2>1, <2>3 DEF OneDelivery, Alive
  <1>6. ASSUME NEW s \in Sub, Submit(s) PROVE OneDelivery'
    <2>1. page.awaits = NoSub /\ page.questions # {} BY <1>6 DEF Submit
    <2>2. \A u \in Sub : Alive(u) => sub[u].draw # page.draw BY <1>1, <2>1 DEF OneDelivery
    <2>3. page'.draw = page.draw /\ page'.awaits = s BY <1>6, AwaitMoves DEF PageIs
    <2>4. sub'[s].draw = page.draw /\ \A u \in Sub \ {s} : sub'[u] = sub[u]
      BY <1>6, SubmitMoves
    <2> QED BY <1>1, <2>2, <2>3, <2>4 DEF OneDelivery, Alive
  <1>7. ASSUME NEW s \in Sub, Read(s) \/ GradingFails(s) \/ StoreAttempt(s) PROVE OneDelivery'
    <2>1. UNCHANGED page BY <1>7 DEF Read, GradingFails, StoreAttempt
    <2>2. \/ Refuses(s)
          \/ /\ sub[s].phase \in {"asked", "graded"}
             /\ \E phase, asked, graded : Becomes(s, phase, asked, graded, sub[s].lost)
      BY <1>1, <1>7, ReadMoves, StoreAttemptMoves, RefusedRefuses DEF Read, GradingFails, StoreAttempt
    <2>3. \A u \in Sub : sub'[u].draw = sub[u].draw /\ (Alive(u)' => Alive(u))
      BY <2>2 DEF Refuses, Becomes, Alive
    <2> QED BY <2>1, <2>3, NobodyRises
  <1>8. ASSUME NEW s \in Sub, Hear(s) PROVE OneDelivery'
    <2>1. UNCHANGED sub /\ page.awaits = s /\ sub[s].phase \in {"stored", "failed"}
      BY <1>8 DEF Hear
    <2>2. /\ page'.draw = page.draw /\ page'.awaits = NoSub
          /\ sub[s].phase = "stored" => page'.questions = {}
      BY <1>8, HearMoves DEF PageIs
    <2>3. \A u \in Sub : Alive(u) /\ sub[u].draw = page.draw => u = s /\ sub[s].phase = "stored"
      BY <1>1, <2>1 DEF OneDelivery, Alive
    <2> QED BY <1>1, <2>1, <2>2, <2>3 DEF OneDelivery, Alive
  <1>9. ASSUME NEW s \in Sub, Lose(s) PROVE OneDelivery'
    <2>1. page.awaits = s BY <1>9 DEF Lose
    <2>2. \A u \in Sub : Alive(u) /\ sub[u].draw = page.draw => u = s
      BY <1>1, <2>1 DEF OneDelivery
    <2>3. /\ page'.draw = page.draw /\ sub'[s].draw = sub[s].draw /\ ~Alive(s)'
          /\ \A u \in Sub \ {s} : sub'[u] = sub[u]
      BY <1>9, LoseMoves, AwaitMoves DEF Becomes, PageIs, Alive
    <2> QED BY <1>1, <2>2, <2>3 DEF OneDelivery, Alive
  <1>10. CASE UNCHANGED vars BY <1>2, <1>10 DEF vars, operator
  <1> QED BY <1>3, <1>4, <1>5, <1>6, <1>7, <1>8, <1>9, <1>10 DEF Next, OperatorStep

\* A test is marked twice only if the answer to the first delivery was lost:
\* as long as the page hears back it has one delivery under way, and nothing to
\* deliver after it (SimulationRunner.tsx:303-314, routers/simulations.py:781-820).
THEOREM MarkedTwiceOnlyIfLost == Spec => []TwiceOnlyIfLost
  <1>1. Init => OneDelivery
    BY Numbers DEF Init, OneDelivery, NewSub, Alive
  <1>2. TypeOK /\ OneDelivery /\ [Next]_vars => OneDelivery'
    BY OneDeliveryStep
  <1>3. TypeOK /\ OneDelivery => TwiceOnlyIfLost
    BY DEF TypeOK, SubType, OneDelivery, TwiceOnlyIfLost, Alive
  <1> QED BY <1>1, <1>2, <1>3, TypeCorrect, PTL DEF Spec

HIDE SimulationsAssumption

---------------------------------------------------------------------------
(* The page's end: SimulationRunner.                                       *)

ClosingType == [attempt : Attempt, share : Share, expected : BOOLEAN]
UploadType == [attempt : Attempt, share : Share, expected : BOOLEAN, watched : BOOLEAN,
               again : BOOLEAN]
AttemptType == [test : Test \cup {None}, video : Share \cup {None}, again : BOOLEAN]
Statuses == {"idle", "pending", "error", "success"}

\* A file, or that there is none, is of a recorder that is done.
SharesTyped ==
  /\ share \in [Share -> ShareType]
  /\ \A s \in Share : share[s].pc # "done" => share[s].video = "none"

\* The shape of the state; the page follows one upload at most.
RunnerShape ==
  /\ view \in ViewType /\ view.index <= view.reached
  /\ SharesTyped
  /\ closing \subseteq ClosingType /\ uploads \subseteq UploadType
  /\ attempt \in [Attempt -> AttemptType]
  /\ records \in BOOLEAN
  /\ \A u, v \in uploads : u.watched /\ v.watched => u = v

---------------------------------------------------------------------------
(* The records of the page.                                                *)

LEMMA ViewUpdates ==
  ASSUME NEW v \in ViewType
  PROVE  /\ \A b \in BOOLEAN : [v EXCEPT !.mounted = b] \in ViewType
         /\ \A b \in BOOLEAN : [v EXCEPT !.timed = b] \in ViewType
         /\ \A n \in 0..MaxTests : [v EXCEPT !.tests = n] \in ViewType
         /\ \A b \in BOOLEAN : [v EXCEPT !.deaf = b] \in ViewType
         /\ \A b \in BOOLEAN : [v EXCEPT !.cut = b] \in ViewType
         /\ \A b \in BOOLEAN : [v EXCEPT !.taped = b] \in ViewType
         /\ \A s \in Share \cup {None} : [v EXCEPT !.ref = s] \in ViewType
         /\ \A t \in Test \cup {None} : [v EXCEPT !.test = t] \in ViewType
         /\ \A q \in Question : [v EXCEPT !.index = q] \in ViewType
         /\ \A q \in Question : [v EXCEPT !.reached = q] \in ViewType
         /\ \A g \in SUBSET (Test \X Question) : [v EXCEPT !.answers = g] \in ViewType
         /\ \A t \in Test \cup {None} : [v EXCEPT !.of = t] \in ViewType
         /\ \A g \in SUBSET Question : [v EXCEPT !.sent = g] \in ViewType
         /\ \A a \in Attempt \cup {None} : [v EXCEPT !.result = a] \in ViewType
         /\ \A b \in BOOLEAN : [v EXCEPT !.expected = b] \in ViewType
         /\ \A r \in {"undefined", "nothing", "video"} : [v EXCEPT !.recording = r] \in ViewType
         /\ \A s \in Share \cup {None} : [v EXCEPT !.tape = s] \in ViewType
         /\ \A b \in BOOLEAN : [v EXCEPT !.interrupted = b] \in ViewType
         /\ \A b \in BOOLEAN : [v EXCEPT !.autoSent = b] \in ViewType
         /\ \A d \in {"idle", "pending"} : [v EXCEPT !.draw = d] \in ViewType
         /\ \A m \in Statuses : [v EXCEPT !.submit = m] \in ViewType
         /\ \A m \in Statuses : [v EXCEPT !.upload = m] \in ViewType
  <1> USE DEF ViewType, Statuses
  <1>1. \A b \in BOOLEAN : [v EXCEPT !.mounted = b] \in ViewType OBVIOUS
  <1>2. \A b \in BOOLEAN : [v EXCEPT !.timed = b] \in ViewType OBVIOUS
  <1>3. \A n \in 0..MaxTests : [v EXCEPT !.tests = n] \in ViewType OBVIOUS
  <1>4. \A b \in BOOLEAN : [v EXCEPT !.deaf = b] \in ViewType OBVIOUS
  <1>22. \A b \in BOOLEAN : [v EXCEPT !.cut = b] \in ViewType OBVIOUS
  <1>5. \A b \in BOOLEAN : [v EXCEPT !.taped = b] \in ViewType OBVIOUS
  <1>6. \A s \in Share \cup {None} : [v EXCEPT !.ref = s] \in ViewType OBVIOUS
  <1>7. \A t \in Test \cup {None} : [v EXCEPT !.test = t] \in ViewType OBVIOUS
  <1>8. \A q \in Question : [v EXCEPT !.index = q] \in ViewType OBVIOUS
  <1>9. \A q \in Question : [v EXCEPT !.reached = q] \in ViewType OBVIOUS
  <1>10. \A g \in SUBSET (Test \X Question) : [v EXCEPT !.answers = g] \in ViewType OBVIOUS
  <1>11. \A t \in Test \cup {None} : [v EXCEPT !.of = t] \in ViewType OBVIOUS
  <1>12. \A g \in SUBSET Question : [v EXCEPT !.sent = g] \in ViewType OBVIOUS
  <1>13. \A a \in Attempt \cup {None} : [v EXCEPT !.result = a] \in ViewType OBVIOUS
  <1>14. \A b \in BOOLEAN : [v EXCEPT !.expected = b] \in ViewType OBVIOUS
  <1>15. \A r \in {"undefined", "nothing", "video"} : [v EXCEPT !.recording = r] \in ViewType OBVIOUS
  <1>16. \A s \in Share \cup {None} : [v EXCEPT !.tape = s] \in ViewType OBVIOUS
  <1>17. \A b \in BOOLEAN : [v EXCEPT !.interrupted = b] \in ViewType OBVIOUS
  <1>18. \A b \in BOOLEAN : [v EXCEPT !.autoSent = b] \in ViewType OBVIOUS
  <1>19. \A d \in {"idle", "pending"} : [v EXCEPT !.draw = d] \in ViewType OBVIOUS
  <1>20. \A m \in Statuses : [v EXCEPT !.submit = m] \in ViewType OBVIOUS
  <1>21. \A m \in Statuses : [v EXCEPT !.upload = m] \in ViewType OBVIOUS
  <1> HIDE DEF ViewType, Statuses
  <1> QED BY <1>1, <1>2, <1>3, <1>4, <1>5, <1>6, <1>7, <1>8, <1>9, <1>10, <1>11, <1>12, <1>13,
             <1>14, <1>15, <1>16, <1>17, <1>18, <1>19, <1>20, <1>21, <1>22

\* Emptying the page.
LEMMA EmptiedShape ==
  ASSUME RunnerAssumption, view \in ViewType
  PROVE  /\ Emptied \in ViewType
         /\ Emptied.mounted = view.mounted /\ Emptied.ref = None /\ Emptied.test = None
         /\ Emptied.of = None /\ Emptied.sent = {} /\ Emptied.answers = {}
         /\ Emptied.result = None /\ Emptied.recording = "undefined"
         /\ ~Emptied.interrupted /\ ~Emptied.autoSent /\ ~Emptied.cut
         /\ Emptied.draw = "idle" /\ Emptied.submit = "idle"
         /\ Emptied.index = 0 /\ Emptied.reached = 0
  <1> DEFINE a == [[[view EXCEPT !.ref = None] EXCEPT !.test = None] EXCEPT !.index = 0]
             b == [[[a EXCEPT !.reached = 0] EXCEPT !.answers = {}] EXCEPT !.of = None]
             c == [[[b EXCEPT !.sent = {}] EXCEPT !.result = None] EXCEPT !.expected = FALSE]
             d == [[[c EXCEPT !.recording = "undefined"] EXCEPT !.tape = None]
                   EXCEPT !.interrupted = FALSE]
             e == [[[d EXCEPT !.autoSent = FALSE] EXCEPT !.draw = "idle"] EXCEPT !.submit = "idle"]
             f == [[[[e EXCEPT !.upload = "idle"] EXCEPT !.deaf = FALSE] EXCEPT !.cut = FALSE]
                   EXCEPT !.taped = FALSE]
  <1>1. Emptied = f BY DEF Emptied
  <1>2. /\ 0 \in Question /\ {} \in SUBSET Question /\ {} \in SUBSET (Test \X Question)
        /\ "idle" \in Statuses /\ None \in Share \cup {None} /\ None \in Test \cup {None}
        /\ None \in Attempt \cup {None}
    BY DEF RunnerAssumption, Question, Statuses
  <1>3. a \in ViewType BY <1>2, ViewUpdates
  <1> HIDE DEF a
  <1>4. b \in ViewType BY <1>2, <1>3, ViewUpdates
  <1> HIDE DEF b
  <1>5. c \in ViewType BY <1>2, <1>4, ViewUpdates
  <1> HIDE DEF c
  <1>6. d \in ViewType BY <1>2, <1>5, ViewUpdates
  <1> HIDE DEF d
  <1>7. e \in ViewType BY <1>2, <1>6, ViewUpdates
  <1> HIDE DEF e
  <1>8. f \in ViewType BY <1>2, <1>7, ViewUpdates
  <1>9. /\ Emptied.mounted = view.mounted /\ Emptied.ref = None /\ Emptied.test = None
        /\ Emptied.of = None /\ Emptied.sent = {} /\ Emptied.answers = {}
        /\ Emptied.result = None /\ Emptied.recording = "undefined"
    BY DEF Emptied, ViewType
  <1>10. /\ ~Emptied.interrupted /\ ~Emptied.autoSent /\ ~Emptied.cut
         /\ Emptied.draw = "idle" /\ Emptied.submit = "idle"
         /\ Emptied.index = 0 /\ Emptied.reached = 0
    BY DEF Emptied, ViewType
  <1> QED BY <1>1, <1>8, <1>9, <1>10

LEMMA SendShape ==
  ASSUME NEW p \in ViewType, NEW answers \in SUBSET (Test \X Question)
  PROVE  LET n == Send(p, answers) IN
         /\ n \in ViewType
         /\ n.submit = "pending" /\ n.of = p.test
         /\ n.sent = {q \in Question : <<p.test, q>> \in answers}
         /\ n.mounted = p.mounted /\ n.ref = p.ref /\ n.test = p.test /\ n.answers = p.answers
         /\ n.result = p.result /\ n.recording = p.recording /\ n.tape = p.tape
         /\ n.interrupted = p.interrupted /\ n.autoSent = p.autoSent /\ n.deaf = p.deaf /\ n.cut = p.cut
         /\ n.draw = p.draw /\ n.index = p.index /\ n.reached = p.reached
  <1> DEFINE g == {q \in Question : <<p.test, q>> \in answers}
             n == [[[p EXCEPT !.submit = "pending"] EXCEPT !.of = p.test] EXCEPT !.sent = g]
  <1>1. Send(p, answers) = n BY DEF Send
  <1>2. "pending" \in Statuses /\ g \in SUBSET Question BY DEF Statuses
  <1>3. p.test \in Test \cup {None} BY DEF ViewType
  <1> HIDE DEF g
  <1>4. n \in ViewType BY <1>2, <1>3, ViewUpdates
  <1>5. /\ n.submit = "pending" /\ n.of = p.test /\ n.sent = g
        /\ n.mounted = p.mounted /\ n.ref = p.ref /\ n.test = p.test /\ n.answers = p.answers
        /\ n.result = p.result /\ n.recording = p.recording /\ n.tape = p.tape
        /\ n.interrupted = p.interrupted /\ n.autoSent = p.autoSent /\ n.deaf = p.deaf /\ n.cut = p.cut
        /\ n.draw = p.draw /\ n.index = p.index /\ n.reached = p.reached
    BY DEF ViewType
  <1> HIDE DEF n
  <1> QED BY <1>1, <1>4, <1>5 DEF g

LEMMA ShownShape ==
  ASSUME NEW p \in ViewType, p.index <= p.reached, NEW target \in Question
  PROVE  LET n == Shown(p, target) IN
         /\ n \in ViewType /\ n.index <= n.reached
         /\ n.submit = p.submit /\ n.of = p.of /\ n.sent = p.sent
         /\ n.mounted = p.mounted /\ n.ref = p.ref /\ n.test = p.test /\ n.answers = p.answers
         /\ n.result = p.result /\ n.recording = p.recording /\ n.tape = p.tape
         /\ n.interrupted = p.interrupted /\ n.autoSent = p.autoSent /\ n.deaf = p.deaf /\ n.cut = p.cut
         /\ n.draw = p.draw
  <1> DEFINE r == IF target > p.reached THEN target ELSE p.reached
             n == [[p EXCEPT !.index = target] EXCEPT !.reached = r]
  <1>1. Shown(p, target) = n BY DEF Shown, ViewType
  <1>2. p.reached \in Question /\ Question \subseteq Int BY DEF ViewType, Question
  <1>3. r \in Question /\ target <= r
    <2>1. target \in Int /\ p.reached \in Int BY <1>2
    <2>2. CASE target > p.reached BY <2>1, <2>2
    <2>3. CASE ~(target > p.reached) BY <1>2, <2>1, <2>3
    <2> QED BY <2>2, <2>3
  <1> HIDE DEF r
  <1>4. n \in ViewType BY <1>3, ViewUpdates
  <1>5. /\ n.index = target /\ n.reached = r
        /\ n.submit = p.submit /\ n.of = p.of /\ n.sent = p.sent
        /\ n.mounted = p.mounted /\ n.ref = p.ref /\ n.test = p.test /\ n.answers = p.answers
        /\ n.result = p.result /\ n.recording = p.recording /\ n.tape = p.tape
        /\ n.interrupted = p.interrupted /\ n.autoSent = p.autoSent /\ n.deaf = p.deaf /\ n.cut = p.cut
        /\ n.draw = p.draw
    BY DEF ViewType
  <1> HIDE DEF n
  <1> QED BY <1>1, <1>3, <1>4, <1>5

LEMMA AskedShape ==
  ASSUME view \in ViewType, NEW outcome \in Statuses
  PROVE  LET n == Asked(outcome) IN
         /\ n \in ViewType
         /\ n.submit = outcome /\ n.of = None /\ n.sent = {}
         /\ n.mounted = view.mounted /\ n.ref = view.ref /\ n.test = view.test
         /\ n.answers = view.answers
         /\ n.result = view.result /\ n.recording = view.recording /\ n.tape = view.tape
         /\ n.interrupted = view.interrupted /\ n.autoSent = view.autoSent /\ n.deaf = view.deaf /\ n.cut = view.cut
         /\ n.draw = view.draw /\ n.index = view.index /\ n.reached = view.reached
  <1> DEFINE n == [[[view EXCEPT !.submit = outcome] EXCEPT !.of = None] EXCEPT !.sent = {}]
  <1>1. Asked(outcome) = n BY DEF Asked
  <1>2. None \in Test \cup {None} /\ {} \in SUBSET Question OBVIOUS
  <1>3. n \in ViewType BY <1>2, ViewUpdates
  <1>4. /\ n.submit = outcome /\ n.of = None /\ n.sent = {}
        /\ n.mounted = view.mounted /\ n.ref = view.ref /\ n.test = view.test
        /\ n.answers = view.answers
        /\ n.result = view.result /\ n.recording = view.recording /\ n.tape = view.tape
        /\ n.interrupted = view.interrupted /\ n.autoSent = view.autoSent /\ n.deaf = view.deaf /\ n.cut = view.cut
        /\ n.draw = view.draw /\ n.index = view.index /\ n.reached = view.reached
    BY DEF ViewType
  <1> HIDE DEF n
  <1> QED BY <1>1, <1>3, <1>4

---------------------------------------------------------------------------
(* What holds of the page and of its shares.                               *)

Asking(s) == share[s].pc = "asked"

\* A screen that is captured is the one the page would stop.
OnScreen == \A s \in Share : share[s].pc = "on" /\ ~share[s].stray => view.mounted /\ view.ref = s

\* Two prompts, or a prompt over a capture: both are stray.
Prompts ==
  \A r, s \in Share : r # s /\ Asking(s) /\ (Asking(r) \/ Capturing(r)) => share[r].stray

\* The stop of the share and the submission it owes are one step.
Fired ==
  /\ view.interrupted <=> view.autoSent
  /\ view.cut => view.interrupted
  /\ OnTest /\ view.interrupted /\ ~view.deaf => view.submit # "idle"

\* What is under way to the server is what is answered: nothing more can be
\* answered meanwhile.
SentIsGiven ==
  (view.mounted /\ view.submit = "pending")
    => view.sent = {q \in Question : <<view.of, q>> \in view.answers}

\* A share whose file, if there ever is one, is the one of a single test.
Untangled(s) == ~share[s].stray /\ share[s].video # "nothing"

Filed(s) == share[s].pc = "done" /\ share[s].video = "file"

\* Where the page may be: no recorder before "begin", no submission without a
\* test, no share that is asked for once a test is drawn.
Order ==
  /\ view.submit = "pending" => view.of # None
  /\ view.result # None => attempt[view.result].test # None
  /\ view.ref # None => share[view.ref].pc \notin {"none", "asked"}
  /\ view.mounted /\ view.test = None => view.submit = "idle"
  /\ view.mounted /\ view.submit = "pending" => view.result = None
  /\ view.mounted /\ view.test = None /\ view.result = None /\ view.draw = "idle"
       => view.ref = None
  /\ view.mounted => \A s \in Share : Asking(s) /\ ~share[s].stray
                       => view.test = None /\ view.result = None /\ view.draw = "idle"

\* The share the page holds is the one of the test it shows, and of the
\* submission under way.
RefSound ==
  view.mounted /\ view.ref # None /\ Untangled(view.ref) =>
    /\ view.draw = "pending" => view.test = None /\ view.result = None
    /\ view.test # None => share[view.ref].test = view.test
    /\ view.submit = "pending" => view.of = view.test

OfTest(s, a) == attempt[a].test # None /\ (Untangled(s) => share[s].test = attempt[a].test)

\* So it is, or it was left on the page by a restart and sent again by hand.
OrLeft(s, a, again) ==
  /\ attempt[a].test # None
  /\ Untangled(s) /\ ~(share[s].left /\ again) => share[s].test = attempt[a].test

\* A share that was taken by an attempt is no longer the page's, and wherever its
\* video has come to, it is of the test of that attempt.
ClosingSound ==
  \A c \in closing : /\ share[c.share].pc \notin {"none", "asked", "on"}
                      /\ view.ref # c.share /\ OfTest(c.share, c.attempt)

UploadsSound ==
  \A u \in uploads :
    Filed(u.share) /\ view.ref # u.share /\ OrLeft(u.share, u.attempt, u.again)

VideosSound ==
  \A a \in Attempt : attempt[a].video # None =>
    /\ Filed(attempt[a].video) /\ view.ref # attempt[a].video
    /\ OrLeft(attempt[a].video, a, attempt[a].again)

TapeSound ==
  view.recording = "video" /\ view.mounted =>
    /\ view.tape # None /\ Filed(view.tape) /\ view.ref # view.tape
    /\ Untangled(view.tape) /\ ~share[view.tape].left
         => view.result # None /\ OfTest(view.tape, view.result)

Taken == ClosingSound /\ UploadsSound /\ VideosSound /\ TapeSound

RunnerInv ==
  /\ RunnerShape /\ OnScreen /\ Prompts /\ Fired /\ SentIsGiven
  /\ Order /\ RefSound /\ Taken

\* What a share may become while nobody asks for it, is granted it or draws
\* questions for it.
Settles(s) ==
  /\ share'[s].pc \in {"none", "asked", "on"} => share'[s].pc = share[s].pc
  /\ share'[s].pc # "done" /\ share[s].stray => share'[s].stray
  /\ Capturing(s)' => Capturing(s)
  /\ Untangled(s)' => /\ Untangled(s) /\ share'[s].test = share[s].test
                      /\ share[s].left => share'[s].left
  /\ Filed(s) => Filed(s)'

LEMMA NoneIsNothing ==
  None \notin Share /\ None \notin Test /\ None \notin Attempt
  BY DEF None, Share, Test, Attempt

---------------------------------------------------------------------------
(* What a step leaves as it was.                                           *)

ClosingOK(c) == /\ share[c.share].pc \notin {"none", "asked", "on"}
                /\ view.ref # c.share /\ OfTest(c.share, c.attempt)

UploadOK(u) ==
  Filed(u.share) /\ view.ref # u.share /\ OrLeft(u.share, u.attempt, u.again)

VideoOK(a) == /\ Filed(attempt[a].video) /\ view.ref # attempt[a].video
              /\ OrLeft(attempt[a].video, a, attempt[a].again)

TapeOK == /\ view.tape # None /\ Filed(view.tape) /\ view.ref # view.tape
          /\ Untangled(view.tape) /\ ~share[view.tape].left
               => view.result # None /\ OfTest(view.tape, view.result)

\* An attempt keeps its test; a video that comes to it was under way.
AttemptsGrow ==
  \A b \in Attempt :
    /\ attempt[b].test # None => attempt'[b].test = attempt[b].test
    /\ attempt'[b].video # None =>
         \/ attempt'[b].video = attempt[b].video /\ attempt'[b].again = attempt[b].again
         \/ \E u \in uploads : /\ attempt'[b].video = u.share /\ b = u.attempt
                                /\ attempt'[b].again = u.again

\* What awaits the file of a recorder, what goes up and what is at hand: each is as
\* it was or is sound by itself.
TakenFrom ==
  /\ \A c \in closing' : c \in closing \/ ClosingOK(c)'
  /\ \A u \in uploads' :
       UploadOK(u)' \/ \E v \in uploads : v.share = u.share /\ v.attempt = u.attempt /\ v.again = u.again
  /\ view'.recording = "video" /\ view'.mounted =>
       \/ TapeOK'
       \/ /\ view.recording = "video" /\ view.mounted /\ view'.tape = view.tape
          /\ view'.result = view.result \/ view.result = None

\* What was taken stays what it is: only the share the page holds, or one nobody
\* was granted yet, is drawn for.
LEMMA TakenStays ==
  ASSUME RunnerShape, Taken,
         \A s \in Share : share[s].pc \notin {"none", "asked", "on"} /\ s # view.ref => Settles(s),
         \/ view'.ref = view.ref \/ view'.ref = None
         \/ view'.ref \in Share /\ share[view'.ref].pc \in {"none", "asked"},
         AttemptsGrow, TakenFrom
  PROVE  Taken'
  <1> USE NoneIsNothing
  <1>1. /\ view.tape \in Share \cup {None} /\ view.result \in Attempt \cup {None}
        /\ \A c \in closing : c.share \in Share /\ c.attempt \in Attempt
        /\ \A u \in uploads : u.share \in Share /\ u.attempt \in Attempt /\ u.again \in BOOLEAN
        /\ \A a \in Attempt : attempt[a].video \in Share \cup {None} /\ attempt[a].again \in BOOLEAN
    BY DEF RunnerShape, ViewType, ClosingType, UploadType, AttemptType
  <1>2. ASSUME NEW s \in Share, share[s].pc \notin {"none", "asked", "on"}, view.ref # s
        PROVE  /\ Settles(s) /\ view'.ref # s
               /\ share'[s].pc \notin {"none", "asked", "on"}
               /\ \A a \in Attempt : OfTest(s, a) => OfTest(s, a)'
               /\ \A a \in Attempt : \A g \in BOOLEAN : OrLeft(s, a, g) => OrLeft(s, a, g)'
    <2>1. Settles(s) /\ view'.ref # s BY <1>2
    <2>2. share'[s].pc \notin {"none", "asked", "on"} BY <1>2, <2>1 DEF Settles
    <2>3. ASSUME NEW a \in Attempt, OfTest(s, a) PROVE OfTest(s, a)'
      BY <2>1, <2>3 DEF Settles, OfTest, AttemptsGrow
    <2>4. ASSUME NEW a \in Attempt, NEW g \in BOOLEAN, OrLeft(s, a, g) PROVE OrLeft(s, a, g)'
      BY <2>1, <2>4 DEF Settles, OrLeft, AttemptsGrow
    <2> QED BY <2>1, <2>2, <2>3, <2>4
  <1>3. ASSUME NEW c \in closing' PROVE ClosingOK(c)'
    <2>1. CASE c \in closing
      <3>1. ClosingOK(c) BY <2>1 DEF Taken, ClosingSound, ClosingOK
      <3> QED BY <1>1, <1>2, <2>1, <3>1 DEF ClosingOK
    <2> QED BY <2>1 DEF TakenFrom
  <1>4. ASSUME NEW v \in uploads
        PROVE  Filed(v.share)' /\ view'.ref # v.share /\ OrLeft(v.share, v.attempt, v.again)'
    <2>1. UploadOK(v) BY DEF Taken, UploadsSound, UploadOK
    <2>2. Settles(v.share) /\ view'.ref # v.share /\ OrLeft(v.share, v.attempt, v.again)'
      BY <1>1, <1>2, <2>1 DEF UploadOK, Filed
    <2> QED BY <2>1, <2>2 DEF UploadOK, Settles
  <1>5. ASSUME NEW u \in uploads' PROVE UploadOK(u)'
    <2>1. ASSUME NEW v \in uploads, v.share = u.share, v.attempt = u.attempt, v.again = u.again
          PROVE  UploadOK(u)'
      BY <1>4, <2>1 DEF UploadOK, Filed, OrLeft, Untangled
    <2> QED BY <2>1 DEF TakenFrom
  <1>6. ASSUME NEW a \in Attempt, attempt'[a].video # None PROVE VideoOK(a)'
    <2>1. ASSUME NEW s \in Share, s = attempt[a].video, attempt'[a].video = s,
                 NEW g \in BOOLEAN, g = attempt[a].again, attempt'[a].again = g
          PROVE  VideoOK(a)'
      <3>1. Filed(s) /\ view.ref # s /\ OrLeft(s, a, g)
        BY <2>1 DEF Taken, VideosSound
      <3>2. Settles(s) /\ view'.ref # s /\ OrLeft(s, a, g)' BY <1>2, <3>1 DEF Filed
      <3>3. Filed(s)' BY <3>1, <3>2 DEF Settles
      <3> QED BY <2>1, <3>2, <3>3 DEF VideoOK, Filed, OrLeft, Untangled
    <2>2. ASSUME NEW u \in uploads, attempt'[a].video = u.share, a = u.attempt,
                 attempt'[a].again = u.again
          PROVE  VideoOK(a)'
      BY <1>4, <2>2 DEF VideoOK, Filed, OrLeft, Untangled
    <2> QED BY <1>1, <1>6, <2>1, <2>2 DEF AttemptsGrow
  <1>7. ASSUME view'.recording = "video", view'.mounted PROVE TapeOK'
    <2>1. ASSUME NEW s \in Share, s = view.tape, view.recording = "video", view.mounted,
                 view'.tape = s, view'.result = view.result \/ view.result = None
          PROVE  TapeOK'
      <3>1. /\ Filed(s) /\ view.ref # s
            /\ Untangled(s) /\ ~share[s].left => view.result # None /\ OfTest(s, view.result)
        BY <2>1 DEF Taken, TapeSound
      <3>2. Settles(s) /\ view'.ref # s /\ \A a \in Attempt : OfTest(s, a) => OfTest(s, a)'
        BY <1>2, <3>1 DEF Filed
      <3>3. Filed(s)' BY <3>1, <3>2 DEF Settles
      <3>4. ASSUME NEW a \in Attempt, a = view.result, Untangled(s)', ~share'[s].left, view'.result = a
            PROVE  OfTest(s, a)'
        <4>1. OfTest(s, a) BY <3>1, <3>2, <3>4 DEF Settles
        <4> QED BY <3>2, <4>1
      <3>5. Untangled(s)' /\ ~share'[s].left =>
                            view'.result # None /\ attempt'[view'.result].test # None
                         /\ share'[s].test = attempt'[view'.result].test
        <4>1. SUFFICES ASSUME Untangled(s)', ~share'[s].left
              PROVE  view'.result # None /\ attempt'[view'.result].test # None
                     /\ share'[s].test = attempt'[view'.result].test
          OBVIOUS
        <4>2. view.result # None BY <3>1, <3>2, <4>1 DEF Settles
        <4>3. view'.result = view.result /\ view.result \in Attempt BY <1>1, <2>1, <4>2
        <4> QED BY <3>4, <4>1, <4>2, <4>3 DEF OfTest, Untangled
      <3> QED BY <2>1, <3>2, <3>3, <3>5 DEF TapeOK, Filed, Untangled, OfTest
    <2>2. view.recording = "video" /\ view.mounted => view.tape \in Share
      BY <1>1 DEF Taken, TapeSound
    <2> QED BY <1>1, <1>7, <2>1, <2>2 DEF TakenFrom
  <1> QED BY <1>3, <1>5, <1>6, <1>7
          DEF Taken, ClosingSound, UploadsSound, VideosSound, TapeSound,
              ClosingOK, UploadOK, VideoOK, TapeOK

\* The shares settle, the uploads get fewer, and the page stays where it is.
LEMMA CalmStep ==
  ASSUME RunnerInv, RunnerShape', Fired', SentIsGiven', \A s \in Share : Settles(s),
         AttemptsGrow, TakenFrom,
         view'.mounted = view.mounted, view'.ref = view.ref, view'.test = view.test,
         view'.result = view.result,
         \/ view'.draw = view.draw
         \/ view.ref = None /\ \A s \in Share : Asking(s)' => share'[s].stray,
         view'.submit = "pending" => \/ view.submit = "pending" /\ view'.of = view.of
                                     \/ /\ view.test # None /\ view.result = None
                                        /\ view'.of = view.test,
         view'.submit # "idle" => view.submit # "idle" \/ view.test # None
  PROVE  RunnerInv'
  <1> USE NoneIsNothing
  <1>1. view.ref \in Share \cup {None} BY DEF RunnerInv, RunnerShape, ViewType
  <1>2. OnScreen' BY DEF RunnerInv, OnScreen, Settles
  <1>3. Prompts' BY DEF RunnerInv, Prompts, Settles, Asking, Capturing
  <1>4. Order'
    <2>1. view'.submit = "pending" => view'.of # None BY DEF RunnerInv, Order
    <2>2. view'.ref # None => share'[view'.ref].pc \notin {"none", "asked"}
      BY <1>1 DEF RunnerInv, Order, Settles
    <2>3. view'.mounted => \A s \in Share : Asking(s)' /\ ~share'[s].stray
                             => view'.test = None /\ view'.result = None /\ view'.draw = "idle"
      BY DEF RunnerInv, Order, Settles, Asking
    <2>4. view'.result # None => attempt'[view'.result].test # None
      BY DEF RunnerInv, RunnerShape, ViewType, Order, AttemptsGrow
    <2> QED BY <2>1, <2>2, <2>3, <2>4 DEF RunnerInv, Order
  <1>5. RefSound'
    <2> SUFFICES ASSUME view.mounted, view.ref # None, Untangled(view.ref)'
                 PROVE  /\ view'.draw = "pending" => view.test = None /\ view.result = None
                        /\ view.test # None => share'[view.ref].test = view.test
                        /\ view'.submit = "pending" => view'.of = view.test
      BY DEF RefSound, Untangled
    <2>1. Untangled(view.ref) /\ share'[view.ref].test = share[view.ref].test BY <1>1 DEF Settles
    <2> QED BY <2>1 DEF RunnerInv, RefSound
  <1>6. Taken' BY TakenStays DEF RunnerInv
  <1> QED BY <1>2, <1>3, <1>4, <1>5, <1>6 DEF RunnerInv

---------------------------------------------------------------------------
(* The shares that move.                                                   *)

LEMMA ShareUpdates ==
  ASSUME NEW x \in ShareType
  PROVE  /\ \A p \in {"none", "asked", "on", "stopping", "ended", "done"} :
              LET y == [x EXCEPT !.pc = p] IN
              /\ y \in ShareType /\ y.pc = p /\ y.video = x.video /\ y.test = x.test
              /\ y.stray = x.stray /\ y.left = x.left
         /\ LET y == [x EXCEPT !.pc = "done", !.video = "file"] IN
            /\ y \in ShareType /\ y.pc = "done" /\ y.video = "file" /\ y.test = x.test
            /\ y.stray = x.stray /\ y.left = x.left
         /\ LET y == [x EXCEPT !.stray = TRUE, !.test = None] IN
            /\ y \in ShareType /\ y.pc = x.pc /\ y.video = x.video /\ y.test = None /\ y.stray
            /\ y.left = x.left
         /\ LET y == [x EXCEPT !.left = TRUE] IN
            /\ y \in ShareType /\ y.pc = x.pc /\ y.video = x.video /\ y.test = x.test
            /\ y.stray = x.stray /\ y.left
         /\ \A t \in Test \cup {None} :
              LET y == [x EXCEPT !.test = t] IN
              /\ y \in ShareType /\ y.pc = x.pc /\ y.video = x.video /\ y.test = t
              /\ y.stray = x.stray /\ y.left = x.left
  <1> USE DEF ShareType
  <1>1. \A p \in {"none", "asked", "on", "stopping", "ended", "done"} :
          LET y == [x EXCEPT !.pc = p] IN
          /\ y \in ShareType /\ y.pc = p /\ y.video = x.video /\ y.test = x.test
          /\ y.stray = x.stray /\ y.left = x.left
    OBVIOUS
  <1>2. LET y == [x EXCEPT !.pc = "done", !.video = "file"] IN
        /\ y \in ShareType /\ y.pc = "done" /\ y.video = "file" /\ y.test = x.test
        /\ y.stray = x.stray /\ y.left = x.left
    OBVIOUS
  <1>3. LET y == [x EXCEPT !.stray = TRUE, !.test = None] IN
        /\ y \in ShareType /\ y.pc = x.pc /\ y.video = x.video /\ y.test = None /\ y.stray
        /\ y.left = x.left
    OBVIOUS
  <1>4. \A t \in Test \cup {None} :
          LET y == [x EXCEPT !.test = t] IN
          /\ y \in ShareType /\ y.pc = x.pc /\ y.video = x.video /\ y.test = t
          /\ y.stray = x.stray /\ y.left = x.left
    OBVIOUS
  <1>5. LET y == [x EXCEPT !.left = TRUE] IN
        /\ y \in ShareType /\ y.pc = x.pc /\ y.video = x.video /\ y.test = x.test
        /\ y.stray = x.stray /\ y.left
    OBVIOUS
  <1> HIDE DEF ShareType
  <1> QED BY <1>1, <1>2, <1>3, <1>4, <1>5

LEMMA ThrownShape ==
  Thrown \in ShareType /\ Thrown.pc = "done" /\ Thrown.video = "nothing"
  BY DEF Thrown, ShareType

\* One share moves on.
LEMMA OneSettles ==
  ASSUME SharesTyped, NEW s \in Share, NEW x,
         share' = [share EXCEPT ![s] = x],
         \/ x = Thrown /\ (Asking(s) \/ Capturing(s))
         \/ /\ x = [share[s] EXCEPT !.pc = "done", !.video = "file"]
            /\ share[s].pc \in {"stopping", "ended"}
         \/ x = [share[s] EXCEPT !.pc = "ended"] /\ share[s].pc \in {"on", "stopping"}
         \/ x = [share[s] EXCEPT !.pc = "stopping"] /\ share[s].pc = "on"
         \/ x = [share[s] EXCEPT !.stray = TRUE, !.test = None]
         \/ x = [share[s] EXCEPT !.left = TRUE]
  PROVE  SharesTyped' /\ \A r \in Share : Settles(r)
  <1>1. share[s] \in ShareType BY DEF SharesTyped
  <1>2. CASE x = Thrown /\ (Asking(s) \/ Capturing(s))
    <2>1. x \in ShareType /\ x.pc = "done" /\ x.video = "nothing" BY <1>2, ThrownShape
    <2> QED BY <1>2, <2>1 DEF SharesTyped, Settles, Capturing, Untangled, Filed, Asking
  <1>3. CASE /\ x = [share[s] EXCEPT !.pc = "done", !.video = "file"]
             /\ share[s].pc \in {"stopping", "ended"}
    <2>1. /\ x \in ShareType /\ x.pc = "done" /\ x.video = "file" /\ x.test = share[s].test
          /\ x.stray = share[s].stray /\ x.left = share[s].left
      BY <1>1, <1>3, ShareUpdates
    <2>2. share[s].video = "none" BY <1>3 DEF SharesTyped
    <2> QED BY <1>3, <2>1, <2>2 DEF SharesTyped, Settles, Capturing, Untangled, Filed
  <1>4. CASE x = [share[s] EXCEPT !.pc = "ended"] /\ share[s].pc \in {"on", "stopping"}
    <2>1. /\ x \in ShareType /\ x.pc = "ended" /\ x.video = share[s].video
          /\ x.test = share[s].test /\ x.stray = share[s].stray /\ x.left = share[s].left
      BY <1>1, <1>4, ShareUpdates
    <2> QED BY <1>4, <2>1 DEF SharesTyped, Settles, Capturing, Untangled, Filed
  <1>5. CASE x = [share[s] EXCEPT !.pc = "stopping"] /\ share[s].pc = "on"
    <2>1. /\ x \in ShareType /\ x.pc = "stopping" /\ x.video = share[s].video
          /\ x.test = share[s].test /\ x.stray = share[s].stray /\ x.left = share[s].left
      BY <1>1, <1>5, ShareUpdates
    <2> QED BY <1>5, <2>1 DEF SharesTyped, Settles, Capturing, Untangled, Filed
  <1>6. CASE x = [share[s] EXCEPT !.stray = TRUE, !.test = None]
    <2>1. /\ x \in ShareType /\ x.pc = share[s].pc /\ x.video = share[s].video /\ x.stray
      BY <1>1, <1>6, ShareUpdates
    <2> QED BY <1>6, <2>1 DEF SharesTyped, Settles, Capturing, Untangled, Filed
  <1>7. CASE x = [share[s] EXCEPT !.left = TRUE]
    <2>1. /\ x \in ShareType /\ x.pc = share[s].pc /\ x.video = share[s].video
          /\ x.test = share[s].test /\ x.stray = share[s].stray /\ x.left
      BY <1>1, <1>7, ShareUpdates
    <2> QED BY <1>7, <2>1 DEF SharesTyped, Settles, Capturing, Untangled, Filed
  <1> QED BY <1>2, <1>3, <1>4, <1>5, <1>6, <1>7

LEMMA NoneMoves ==
  ASSUME share' = share, SharesTyped
  PROVE  SharesTyped' /\ \A r \in Share : Settles(r)
  BY DEF Settles, Capturing, Untangled, Filed, SharesTyped

---------------------------------------------------------------------------
(* Each action keeps it all.                                               *)

\* The recorder, and the end of a prompt.
LEMMA RecorderStep ==
  ASSUME RunnerInv, NEW s \in Share, RecorderStops(s) \/ RecorderFails(s) \/ ShareRefused(s)
  PROVE  RunnerInv'
  <1>1. UNCHANGED <<view, closing, uploads, attempt, records>> /\ SharesTyped
    BY DEF RecorderStops, RecorderFails, ShareRefused, RunnerInv, RunnerShape
  <1>2. SharesTyped' /\ \A r \in Share : Settles(r)
    <2>1. CASE RecorderStops(s)
      <3>1. CASE share' = [share EXCEPT ![s] = Thrown]
        <4>1. Capturing(s) BY <2>1 DEF RecorderStops, Capturing
        <4> QED BY <1>1, <3>1, <4>1, OneSettles
      <3>2. CASE share' = [share EXCEPT ![s].pc = "done", ![s].video = "file"]
        <4> DEFINE x == [share[s] EXCEPT !.pc = "done", !.video = "file"]
        <4>1. share' = [share EXCEPT ![s] = x] BY <1>1, <3>2 DEF SharesTyped
        <4>2. share[s].pc \in {"stopping", "ended"} BY <2>1 DEF RecorderStops
        <4> QED BY <1>1, <4>1, <4>2, OneSettles
      <3> QED BY <2>1, <3>1, <3>2 DEF RecorderStops
    <2>2. CASE RecorderFails(s) BY <1>1, <2>2, OneSettles DEF RecorderFails
    <2>3. CASE ShareRefused(s) BY <1>1, <2>3, OneSettles DEF ShareRefused, Asking
    <2> QED BY <2>1, <2>2, <2>3
  <1>3. RunnerShape' BY <1>1, <1>2 DEF RunnerInv, RunnerShape
  <1>4. Fired' /\ SentIsGiven'
    BY <1>1 DEF RunnerInv, Fired, OnTest, SentIsGiven
  <1>5. AttemptsGrow /\ TakenFrom BY <1>1 DEF AttemptsGrow, TakenFrom
  <1> QED BY <1>1, <1>2, <1>3, <1>4, <1>5, CalmStep DEF RunnerInv, Order

\* A step of the page's questions or of its submission, of the test it shows.
LEMMA PageStep ==
  ASSUME RunnerInv, UNCHANGED <<closing, uploads, attempt, records>>,
         SharesTyped', \A s \in Share : Settles(s),
         view' \in ViewType, view'.index <= view'.reached,
         Fired', SentIsGiven',
         view'.mounted = view.mounted, view'.ref = view.ref, view'.test = view.test,
         view'.result = view.result, view'.recording = view.recording,
         view'.tape = view.tape, view'.draw = view.draw,
         view'.submit = "pending" => \/ view.submit = "pending" /\ view'.of = view.of
                                     \/ /\ view.test # None /\ view.result = None
                                        /\ view'.of = view.test,
         view'.submit # "idle" => view.submit # "idle" \/ view.test # None
  PROVE  RunnerInv'
  <1>1. RunnerShape' BY DEF RunnerInv, RunnerShape
  <1>2. AttemptsGrow /\ TakenFrom BY DEF AttemptsGrow, TakenFrom
  <1> QED BY <1>1, <1>2, CalmStep

LEMMA AnswerStepKeeps ==
  ASSUME RunnerAssumption, RunnerInv, AnswerStep
  PROVE  RunnerInv'
  <1>1. /\ UNCHANGED <<share, closing, uploads, attempt, records>>
        /\ Answering /\ view \in ViewType /\ view.index <= view.reached /\ SharesTyped
    BY DEF AnswerStep, Choose, Give, NextQuestion, GoTo, RunnerInv, RunnerShape
  <1>2. SharesTyped' /\ \A s \in Share : Settles(s) BY <1>1, NoneMoves
  <1>3. /\ view.test \in Test /\ view.index \in Question /\ view.answers \in SUBSET (Test \X Question)
        /\ Length \in Nat /\ view.mounted /\ view.test # None /\ view.result = None
        /\ view.submit = "idle"
    BY <1>1 DEF Answering, OnTest, ViewType, RunnerAssumption
  <1>4. Fired BY DEF RunnerInv
  <1>5. view.interrupted => view.deaf BY <1>3, <1>4 DEF Fired, OnTest
  <1> DEFINE given == view.answers \cup {<<view.test, view.index>>}
             p == [view EXCEPT !.answers = given]
  <1>6. given \in SUBSET (Test \X Question) BY <1>3
  <1>7. /\ p \in ViewType /\ p.answers = given /\ p.index <= p.reached
        /\ p.mounted = view.mounted /\ p.ref = view.ref /\ p.test = view.test
        /\ p.result = view.result /\ p.recording = view.recording /\ p.tape = view.tape
        /\ p.interrupted = view.interrupted /\ p.autoSent = view.autoSent /\ p.deaf = view.deaf /\ p.cut = view.cut
        /\ p.draw = view.draw /\ p.submit = view.submit /\ p.index = view.index
    <2> HIDE DEF given
    <2>1. p \in ViewType BY <1>1, <1>6, ViewUpdates
    <2>2. p.index = view.index /\ p.reached = view.reached BY <1>1 DEF ViewType
    <2> QED BY <1>1, <2>1, <2>2 DEF ViewType
  <1> HIDE DEF given, p
  <1>8. ASSUME NEW v \in ViewType, view' = v, v.index <= v.reached, v.mounted = view.mounted,
               v.ref = view.ref, v.test = view.test, v.result = view.result,
               v.recording = view.recording, v.tape = view.tape,
               v.interrupted = view.interrupted, v.autoSent = view.autoSent,
               v.deaf = view.deaf, v.cut = view.cut, v.draw = view.draw,
               \/ v.submit = "idle"
               \/ /\ v.submit = "pending" /\ v.of = view.test
                  /\ v.sent = {q \in Question : <<view.test, q>> \in v.answers}
        PROVE  RunnerInv'
    <2>1. Fired' BY <1>4, <1>5, <1>8 DEF Fired, OnTest
    <2>2. SentIsGiven' BY <1>8 DEF SentIsGiven
    <2> QED BY <1>1, <1>2, <1>3, <1>8, <2>1, <2>2, PageStep
  <1>9. ASSUME NEW v \in ViewType, v.index <= v.reached, v.mounted = view.mounted,
               v.ref = view.ref, v.test = view.test, v.result = view.result,
               v.recording = view.recording, v.tape = view.tape,
               v.interrupted = view.interrupted, v.autoSent = view.autoSent,
               v.deaf = view.deaf, v.cut = view.cut, v.draw = view.draw, v.submit = "idle",
               \/ \E target \in Question : view' = Shown(v, target)
               \/ view' = Send(v, v.answers)
        PROVE  RunnerInv'
    <2>1. ASSUME NEW target \in Question, view' = Shown(v, target) PROVE RunnerInv'
      BY <1>8, <1>9, <2>1, ShownShape
    <2>2. CASE view' = Send(v, v.answers)
      <3>1. v.answers \in SUBSET (Test \X Question) BY DEF ViewType
      <3> QED BY <1>8, <1>9, <2>2, <3>1, SendShape
    <2> QED BY <1>9, <2>1, <2>2
  <1>10. view.index + 1 < Length => view.index + 1 \in Question BY <1>3 DEF Question
  <1>11. CASE Choose
    <2>1. view' = IF view.index + 1 < Length THEN Shown(p, view.index + 1) ELSE Send(p, given)
      BY <1>11 DEF Choose, given, p
    <2> QED BY <1>3, <1>7, <1>9, <1>10, <2>1
  <1>12. CASE Give
    <2>1. view' = p BY <1>12 DEF Give, given, p
    <2> QED BY <1>3, <1>7, <1>8, <2>1
  <1>13. CASE NextQuestion
    <2>1. view' = IF view.index + 1 < Length THEN Shown(view, view.index + 1)
                  ELSE Send(view, view.answers)
      BY <1>13 DEF NextQuestion
    <2> QED BY <1>1, <1>3, <1>9, <1>10, <2>1
  <1>14. ASSUME NEW q \in Question, GoTo(q) PROVE RunnerInv'
    BY <1>1, <1>3, <1>9, <1>14 DEF GoTo
  <1> QED BY <1>11, <1>12, <1>13, <1>14 DEF AnswerStep

LEMMA ShareEndsKeeps ==
  ASSUME RunnerInv, NEW s \in Share, ShareEnds(s)
  PROVE  RunnerInv'
  <1>1. /\ UNCHANGED <<closing, uploads, attempt, records>>
        /\ view \in ViewType /\ view.index <= view.reached /\ SharesTyped
    BY DEF ShareEnds, RunnerInv, RunnerShape
  <1>2. SharesTyped' /\ \A r \in Share : Settles(r)
    <2> DEFINE x == [share[s] EXCEPT !.pc = "ended"]
    <2>1. share' = [share EXCEPT ![s] = x] /\ share[s].pc \in {"on", "stopping"}
      BY <1>1 DEF ShareEnds, SharesTyped
    <2> QED BY <1>1, <2>1, OneSettles
  <1> DEFINE over == view.cut \/ (s = view.ref /\ OnTest)
             seen == [view EXCEPT !.cut = over]
             p == [seen EXCEPT !.interrupted = TRUE, !.autoSent = TRUE]
  <1>a. /\ seen \in ViewType /\ seen.index = view.index /\ seen.reached = view.reached
        /\ seen.mounted = view.mounted /\ seen.ref = view.ref /\ seen.test = view.test
        /\ seen.result = view.result /\ seen.recording = view.recording
        /\ seen.tape = view.tape /\ seen.interrupted = view.interrupted
        /\ seen.autoSent = view.autoSent /\ seen.deaf = view.deaf /\ seen.of = view.of
        /\ seen.draw = view.draw /\ seen.submit = view.submit /\ seen.sent = view.sent
        /\ seen.answers = view.answers /\ seen.cut = over
    <2>1. over \in BOOLEAN BY <1>1 DEF ViewType
    <2> HIDE DEF over
    <2>2. seen \in ViewType BY <1>1, <2>1, ViewUpdates
    <2> QED BY <1>1, <2>2 DEF ViewType
  <1>5. view' = IF ~view.mounted \/ view.interrupted THEN seen
                ELSE IF ~view.autoSent /\ OnTest /\ view.submit # "pending"
                THEN Send(p, view.answers) ELSE p
    BY <1>1 DEF ShareEnds, ViewType
  <1> HIDE DEF seen
  <1>3. /\ p \in ViewType /\ p.index <= p.reached
        /\ p.mounted = view.mounted /\ p.ref = view.ref /\ p.test = view.test
        /\ p.result = view.result /\ p.recording = view.recording /\ p.tape = view.tape
        /\ p.interrupted /\ p.autoSent /\ p.deaf = view.deaf /\ p.of = view.of
        /\ p.draw = view.draw /\ p.submit = view.submit /\ p.sent = view.sent
        /\ p.answers = view.answers
    <2> DEFINE q == [[seen EXCEPT !.interrupted = TRUE] EXCEPT !.autoSent = TRUE]
    <2>1. p = q OBVIOUS
    <2>2. q \in ViewType BY <1>a, ViewUpdates
    <2> QED BY <1>1, <1>a, <2>1, <2>2 DEF ViewType
  <1>4. Fired /\ SentIsGiven BY DEF RunnerInv
  <1> HIDE DEF p
  <1>6. CASE view' = seen /\ (~view.mounted \/ view.interrupted)
    <2>1. over => view.interrupted BY <1>4, <1>6 DEF Fired, OnTest
    <2>2. Fired' /\ SentIsGiven'
      BY <1>4, <1>6, <1>a, <2>1 DEF Fired, OnTest, SentIsGiven
    <2> QED BY <1>1, <1>2, <1>6, <1>a, <2>2, PageStep
  <1>7. CASE /\ view' = Send(p, view.answers)
             /\ OnTest /\ view.submit # "pending"
    <2>1. view.answers \in SUBSET (Test \X Question) BY <1>1 DEF ViewType
    <2>2. Fired' /\ SentIsGiven'
      BY <1>3, <1>7, <2>1, SendShape DEF Fired, OnTest, SentIsGiven
    <2>3. view.test # None /\ view.result = None BY <1>7 DEF OnTest
    <2>4. /\ view' \in ViewType /\ view'.index <= view'.reached
          /\ view'.mounted = view.mounted /\ view'.ref = view.ref /\ view'.test = view.test
          /\ view'.result = view.result /\ view'.recording = view.recording
          /\ view'.tape = view.tape /\ view'.draw = view.draw /\ view'.of = view.test
      BY <1>3, <1>7, <2>1, SendShape
    <2> QED BY <1>1, <1>2, <2>2, <2>3, <2>4, PageStep
  <1>8. CASE /\ view' = p /\ ~view.interrupted
             /\ ~(~view.autoSent /\ OnTest /\ view.submit # "pending")
    <2>1. Fired' /\ SentIsGiven'
      BY <1>3, <1>4, <1>8 DEF Fired, OnTest, SentIsGiven
    <2> QED BY <1>1, <1>2, <1>3, <1>8, <2>1, PageStep
  <1> QED BY <1>5, <1>6, <1>7, <1>8

\* A share that becomes nobody's.
LEMMA StrayShape ==
  ASSUME SharesTyped, NEW s \in Share
  PROVE  /\ Stray(s) \in ShareType /\ Stray(s).stray /\ Stray(s).pc = share[s].pc
         /\ Stray(s).video = share[s].video
  <1>1. share[s] \in ShareType BY DEF SharesTyped
  <1> QED BY <1>1, ShareUpdates DEF Stray

LEMMA BeginKeeps ==
  ASSUME RunnerInv, Begin
  PROVE  RunnerInv'
  <1>1. /\ UNCHANGED <<closing, uploads, attempt, records>>
        /\ view \in ViewType /\ view.index <= view.reached /\ SharesTyped
        /\ view.mounted /\ view.test = None /\ view.result = None /\ view.draw = "idle"
    BY DEF Begin, OnIntro, RunnerInv, RunnerShape, ViewType
  <1>2. view.ref = None BY <1>1 DEF RunnerInv, Order
  <1>3. /\ share' \in [Share -> ShareType]
        /\ \A s \in Share : /\ Asking(s) => share'[s] = Stray(s)
                            /\ ~Asking(s) => share'[s] = share[s]
    BY <1>1, StrayShape DEF Begin, Asking, SharesTyped
  <1>4. SharesTyped' /\ \A s \in Share : Settles(s)
    BY <1>1, <1>3, StrayShape DEF SharesTyped, Settles, Asking, Capturing, Untangled, Filed
  <1>5. \A s \in Share : Asking(s)' => share'[s].stray
    BY <1>1, <1>3, StrayShape DEF Asking
  <1>6. view' = [view EXCEPT !.draw = "pending"] BY DEF Begin
  <1>7. view' \in ViewType BY <1>1, <1>6, ViewUpdates
  <1>8. /\ view'.index = view.index /\ view'.reached = view.reached
        /\ view'.mounted = view.mounted /\ view'.ref = view.ref /\ view'.test = view.test
        /\ view'.result = view.result /\ view'.recording = view.recording
        /\ view'.tape = view.tape /\ view'.submit = view.submit /\ view'.of = view.of
        /\ view'.interrupted = view.interrupted /\ view'.autoSent = view.autoSent
        /\ view'.deaf = view.deaf /\ view'.cut = view.cut /\ view'.sent = view.sent /\ view'.answers = view.answers
    BY <1>1, <1>6 DEF ViewType
  <1>9. RunnerShape' BY <1>1, <1>4, <1>7, <1>8 DEF RunnerInv, RunnerShape
  <1>10. Fired' /\ SentIsGiven'
    BY <1>8 DEF RunnerInv, Fired, OnTest, SentIsGiven
  <1>11. AttemptsGrow /\ TakenFrom BY <1>1, <1>8 DEF AttemptsGrow, TakenFrom
  <1> QED BY <1>2, <1>4, <1>5, <1>8, <1>9, <1>10, <1>11, CalmStep

LEMMA BeginRecordedKeeps ==
  ASSUME RunnerInv, NEW s \in Share, BeginRecorded(s)
  PROVE  RunnerInv'
  <1> USE NoneIsNothing
  <1>1. /\ UNCHANGED <<view, closing, uploads, attempt, records>> /\ SharesTyped
        /\ view.mounted /\ view.test = None /\ view.result = None /\ view.draw = "idle"
        /\ share[s].pc = "none"
    BY DEF BeginRecorded, OnIntro, RunnerInv, RunnerShape, ViewType
  <1>2. view.ref = None BY <1>1 DEF RunnerInv, Order
  <1> DEFINE others == {r \in Share : share[r].pc = "asked" \/ Capturing(r)}
             many == (others # {})
             asked == [share[s] EXCEPT !.pc = "asked", !.stray = many]
  <1>3. share' = [r \in Share |-> IF r = s THEN asked
                                  ELSE IF r \in others THEN Stray(r) ELSE share[r]]
    BY DEF BeginRecorded
  <1>4. /\ asked \in ShareType /\ asked.pc = "asked" /\ asked.video = share[s].video
        /\ asked.stray = many
    <2>1. share[s] \in ShareType /\ many \in BOOLEAN BY <1>1 DEF SharesTyped
    <2> HIDE DEF many
    <2> QED BY <2>1 DEF ShareType
  <1>5. \A r \in Share : r \in others <=> Asking(r) \/ Capturing(r) BY DEF Asking
  <1> HIDE DEF others, asked
  <1>6. /\ share' \in [Share -> ShareType] /\ share'[s] = asked
        /\ \A r \in Share \ {s} : /\ r \in others => share'[r] = Stray(r)
                                  /\ r \notin others => share'[r] = share[r]
    BY <1>1, <1>3, <1>4, StrayShape DEF SharesTyped
  <1>7. SharesTyped'
    BY <1>1, <1>4, <1>6, StrayShape DEF SharesTyped
  <1>8. \A r \in Share \ {s} : /\ Settles(r) /\ share'[r].pc = share[r].pc
                               /\ r \in others => share'[r].stray
    BY <1>1, <1>6, StrayShape DEF Settles, Capturing, Untangled, Filed
  <1>9. RunnerShape' BY <1>1, <1>7 DEF RunnerInv, RunnerShape
  <1>10. OnScreen'
    <2>1. ASSUME NEW r \in Share, share'[r].pc = "on" PROVE share'[r].stray
      BY <1>4, <1>5, <1>6, <1>8, <2>1 DEF Capturing
    <2> QED BY <2>1 DEF OnScreen
  <1>11. Prompts'
    <2>1. ASSUME NEW r \in Share, NEW t \in Share, r # t, Asking(t)', Asking(r)' \/ Capturing(r)'
          PROVE  share'[r].stray
      <3>1. CASE r = s
        <4>1. t \in others BY <1>5, <1>8, <2>1, <3>1 DEF Asking
        <4> QED BY <1>4, <1>6, <3>1, <4>1
      <3>2. CASE r # s
        BY <1>5, <1>8, <2>1, <3>2 DEF Asking, Capturing
      <3> QED BY <3>1, <3>2
    <2> QED BY <2>1 DEF Prompts
  <1>12. Fired' /\ SentIsGiven'
    BY <1>1 DEF RunnerInv, Fired, OnTest, SentIsGiven
  <1>13. Order' BY <1>1, <1>2 DEF RunnerInv, Order
  <1>14. RefSound' BY <1>1, <1>2 DEF RefSound
  <1>15. Taken'
    <2>1. AttemptsGrow /\ TakenFrom BY <1>1 DEF AttemptsGrow, TakenFrom
    <2> QED BY <1>1, <1>8, <2>1, TakenStays DEF RunnerInv
  <1> QED BY <1>9, <1>10, <1>11, <1>12, <1>13, <1>14, <1>15 DEF RunnerInv

LEMMA ShareGrantedKeeps ==
  ASSUME RunnerInv, NEW s \in Share, ShareGranted(s)
  PROVE  RunnerInv'
  <1> USE NoneIsNothing
  <1>1. /\ UNCHANGED <<closing, uploads, attempt, records>>
        /\ view \in ViewType /\ view.index <= view.reached /\ SharesTyped /\ Asking(s)
    BY DEF ShareGranted, RunnerInv, RunnerShape, Asking
  <1> DEFINE left == share[s].stray \/ ~view.mounted
             on == [share[s] EXCEPT !.pc = "on", !.stray = left]
  <1>2. share' = [share EXCEPT ![s] = on] BY <1>1 DEF ShareGranted, SharesTyped
  <1>3. /\ on \in ShareType /\ on.pc = "on" /\ on.video = share[s].video
        /\ on.stray = left
    <2>1. share[s] \in ShareType /\ left \in BOOLEAN
      BY <1>1 DEF SharesTyped, ShareType, ViewType
    <2> HIDE DEF left
    <2> QED BY <2>1 DEF ShareType
  <1> HIDE DEF on
  <1>4. share'[s] = on /\ \A r \in Share \ {s} : share'[r] = share[r]
    BY <1>1, <1>2 DEF SharesTyped
  <1>5. SharesTyped' BY <1>1, <1>2, <1>3, <1>4 DEF SharesTyped, Asking
  <1>6. /\ view' \in ViewType /\ view'.ref = s /\ view'.draw = "pending"
        /\ view'.index = view.index /\ view'.reached = view.reached
        /\ view'.mounted = view.mounted /\ view'.test = view.test
        /\ view'.result = view.result /\ view'.recording = view.recording
        /\ view'.tape = view.tape /\ view'.submit = view.submit /\ view'.of = view.of
        /\ view'.interrupted = view.interrupted /\ view'.autoSent = view.autoSent
        /\ view'.deaf = view.deaf /\ view'.cut = view.cut /\ view'.sent = view.sent /\ view'.answers = view.answers
    <2> DEFINE v == [[view EXCEPT !.ref = s] EXCEPT !.draw = "pending"]
    <2>1. view' = v BY DEF ShareGranted
    <2>2. v \in ViewType BY <1>1, ViewUpdates
    <2>3. /\ v.ref = s /\ v.draw = "pending"
          /\ v.index = view.index /\ v.reached = view.reached
          /\ v.mounted = view.mounted /\ v.test = view.test
          /\ v.result = view.result /\ v.recording = view.recording
          /\ v.tape = view.tape /\ v.submit = view.submit /\ v.of = view.of
          /\ v.interrupted = view.interrupted /\ v.autoSent = view.autoSent
          /\ v.deaf = view.deaf /\ v.cut = view.cut /\ v.sent = view.sent /\ v.answers = view.answers
      BY <1>1 DEF ViewType
    <2> HIDE DEF v
    <2> QED BY <2>1, <2>2, <2>3
  <1>7. RunnerShape' BY <1>1, <1>5, <1>6 DEF RunnerInv, RunnerShape
  <1>8. \A r \in Share \ {s} : Asking(r) \/ Capturing(r) => share[r].stray
    BY <1>1 DEF RunnerInv, Prompts
  <1>9. OnScreen'
    BY <1>3, <1>4, <1>6, <1>8 DEF OnScreen, Capturing
  <1>10. Prompts'
    <2>1. ASSUME NEW r \in Share, NEW t \in Share, r # t, Asking(t)', Asking(r)' \/ Capturing(r)'
          PROVE  share'[r].stray
      <3>1. t # s /\ Asking(t) BY <1>3, <1>4, <2>1 DEF Asking
      <3>2. CASE r = s
        <4>1. share[s].stray BY <1>1, <2>1, <3>1, <3>2 DEF RunnerInv, Prompts
        <4> QED BY <1>3, <1>4, <3>2, <4>1
      <3>3. CASE r # s
        BY <1>4, <1>8, <2>1, <3>3 DEF Asking, Capturing
      <3> QED BY <3>2, <3>3
    <2> QED BY <2>1 DEF Prompts
  <1>11. Fired' /\ SentIsGiven'
    BY <1>6 DEF RunnerInv, Fired, OnTest, SentIsGiven
  <1>12. Order'
    <2>1. \A r \in Share : Asking(r)' => share'[r].stray
      BY <1>3, <1>4, <1>8 DEF Asking
    <2> QED BY <1>1, <1>3, <1>4, <1>6, <2>1 DEF RunnerInv, Order
  <1>13. RefSound'
    <2>1. SUFFICES ASSUME view'.mounted, Untangled(s)'
                   PROVE  view.test = None /\ view.result = None /\ view.submit = "idle"
      BY <1>6 DEF RefSound, Untangled
    <2>2. ~share[s].stray BY <1>3, <1>4, <1>6, <2>1 DEF Untangled
    <2>3. view.test = None /\ view.result = None BY <1>1, <1>6, <2>1, <2>2 DEF RunnerInv, Order
    <2> QED BY <1>6, <2>1, <2>3 DEF RunnerInv, Order
  <1>14. Taken'
    <2>1. AttemptsGrow /\ TakenFrom BY <1>1, <1>6 DEF AttemptsGrow, TakenFrom
    <2>2. \A r \in Share : share[r].pc \notin {"none", "asked", "on"} => Settles(r)
      BY <1>1, <1>4 DEF Asking, Settles, Capturing, Untangled, Filed
    <2> QED BY <1>1, <1>6, <2>1, <2>2, TakenStays DEF RunnerInv, Asking
  <1> QED BY <1>7, <1>9, <1>10, <1>11, <1>12, <1>13, <1>14 DEF RunnerInv

LEMMA DrawnKeeps ==
  ASSUME RunnerAssumption, RunnerInv, Drawn
  PROVE  RunnerInv'
  <1> USE NoneIsNothing
  <1>1. /\ UNCHANGED <<closing, uploads, attempt, records>> /\ view \in ViewType
        /\ view.index <= view.reached /\ SharesTyped /\ view.mounted /\ view.draw = "pending"
    BY DEF Drawn, RunnerInv, RunnerShape
  <1> DEFINE n == view.tests + 1
  <1>2. n \in Test /\ n \in 0..MaxTests /\ n # None
    BY <1>1 DEF Drawn, ViewType, Test, None, RunnerAssumption
  <1>3. view' = [view EXCEPT !.draw = "idle", !.tests = n, !.test = n,
                             !.deaf = view.interrupted, !.cut = FALSE]
    BY <1>1 DEF Drawn, ViewType
  <1> HIDE DEF n
  <1>4. /\ view' \in ViewType /\ view'.test = n /\ view'.draw = "idle"
        /\ view'.deaf = view.interrupted /\ ~view'.cut
        /\ view'.index = view.index /\ view'.reached = view.reached
        /\ view'.mounted = view.mounted /\ view'.ref = view.ref
        /\ view'.result = view.result /\ view'.recording = view.recording
        /\ view'.tape = view.tape /\ view'.submit = view.submit /\ view'.of = view.of
        /\ view'.interrupted = view.interrupted /\ view'.autoSent = view.autoSent
        /\ view'.sent = view.sent /\ view'.answers = view.answers
    <2> DEFINE v == [[[[[view EXCEPT !.draw = "idle"] EXCEPT !.tests = n] EXCEPT !.test = n]
                      EXCEPT !.deaf = view.interrupted] EXCEPT !.cut = FALSE]
    <2>1. view' = v BY <1>3
    <2>2. view.interrupted \in BOOLEAN BY <1>1 DEF ViewType
    <2>3. v \in ViewType BY <1>1, <1>2, <2>2, ViewUpdates
    <2>4. /\ v.test = n /\ v.draw = "idle" /\ v.deaf = view.interrupted /\ ~v.cut
          /\ v.index = view.index /\ v.reached = view.reached
          /\ v.mounted = view.mounted /\ v.ref = view.ref
          /\ v.result = view.result /\ v.recording = view.recording
          /\ v.tape = view.tape /\ v.submit = view.submit /\ v.of = view.of
          /\ v.interrupted = view.interrupted /\ v.autoSent = view.autoSent
          /\ v.sent = view.sent /\ v.answers = view.answers
      BY <1>1 DEF ViewType
    <2> HIDE DEF v
    <2> QED BY <2>1, <2>3, <2>4
  <1>5. view.ref \in Share \cup {None} BY <1>1 DEF ViewType
  <1>6. /\ SharesTyped'
        /\ \A r \in Share : /\ share'[r].pc = share[r].pc /\ share'[r].video = share[r].video
                            /\ share'[r].stray = share[r].stray
                            /\ r # view.ref => share'[r] = share[r]
        /\ view.ref # None /\ ~share[view.ref].stray => share'[view.ref].test = n
    <2>1. CASE view.ref = None
      <3>1. share' = share BY <2>1 DEF Drawn
      <3> QED BY <1>1, <2>1, <3>1 DEF SharesTyped
    <2>2. CASE view.ref # None
      <3> DEFINE t == IF share[view.ref].stray THEN None ELSE n
                 x == [share[view.ref] EXCEPT !.test = t]
      <3>1. view.ref \in Share /\ share[view.ref] \in ShareType BY <1>1, <1>5, <2>2 DEF SharesTyped
      <3>2. share' = [share EXCEPT ![view.ref] = x]
        BY <1>1, <2>2, <3>1 DEF Drawn, SharesTyped, n
      <3>3. t \in Test \cup {None} BY <1>2
      <3>4. ~share[view.ref].stray => t = n OBVIOUS
      <3> HIDE DEF t
      <3>5. /\ x \in ShareType /\ x.pc = share[view.ref].pc /\ x.video = share[view.ref].video
            /\ x.test = t /\ x.stray = share[view.ref].stray
        BY <3>1, <3>3 DEF ShareType
      <3> HIDE DEF x
      <3>6. share'[view.ref] = x /\ \A r \in Share \ {view.ref} : share'[r] = share[r]
        BY <1>1, <3>1, <3>2 DEF SharesTyped
      <3>7. SharesTyped' BY <1>1, <3>1, <3>2, <3>5, <3>6 DEF SharesTyped
      <3> QED BY <3>1, <3>4, <3>5, <3>6, <3>7
    <2> QED BY <2>1, <2>2
  <1>7. RunnerShape' BY <1>1, <1>4, <1>6 DEF RunnerInv, RunnerShape
  <1>8. OnScreen' BY <1>4, <1>6 DEF RunnerInv, OnScreen
  <1>9. Prompts' BY <1>6 DEF RunnerInv, Prompts, Asking, Capturing
  <1>10. Fired' /\ SentIsGiven'
    BY <1>4 DEF RunnerInv, Fired, OnTest, SentIsGiven
  <1>11. Order'
    <2>1. \A r \in Share : Asking(r)' => share'[r].stray
      BY <1>1, <1>6 DEF RunnerInv, Order, Asking
    <2> QED BY <1>1, <1>2, <1>4, <1>5, <1>6, <2>1 DEF RunnerInv, Order
  <1>12. RefSound'
    <2>1. SUFFICES ASSUME view.ref # None, Untangled(view.ref)'
                   PROVE  share'[view.ref].test = n /\ view.submit # "pending"
      BY <1>4 DEF RefSound, Untangled
    <2>2. Untangled(view.ref) BY <1>4, <1>5, <1>6, <2>1 DEF Untangled
    <2>3. view.test = None BY <1>1, <2>1, <2>2 DEF RunnerInv, RefSound
    <2> QED BY <1>1, <1>6, <2>1, <2>2, <2>3 DEF RunnerInv, Order, Untangled
  <1>13. Taken'
    <2>1. AttemptsGrow /\ TakenFrom BY <1>1, <1>4 DEF AttemptsGrow, TakenFrom
    <2>2. \A r \in Share : r # view.ref => Settles(r)
      BY <1>6 DEF Settles, Capturing, Untangled, Filed
    <2> QED BY <1>4, <2>1, <2>2, TakenStays DEF RunnerInv
  <1> QED BY <1>7, <1>8, <1>9, <1>10, <1>11, <1>12, <1>13 DEF RunnerInv

\* The recorder is thrown away, and is no longer on.
LEMMA CancelledShape ==
  ASSUME SharesTyped, NEW s \in Share \cup {None}, share' = Cancelled(s)
  PROVE  /\ SharesTyped' /\ \A r \in Share : Settles(r)
         /\ s # None => share'[s].pc # "on"
  <1>1. CASE s # None /\ Capturing(s)
    <2>1. share' = [share EXCEPT ![s] = Thrown] /\ s \in Share BY <1>1 DEF Cancelled
    <2> QED BY <1>1, <2>1, OneSettles, ThrownShape DEF SharesTyped
  <1>2. CASE ~(s # None /\ Capturing(s))
    <2>1. share' = share BY <1>2 DEF Cancelled
    <2> QED BY <1>2, <2>1, NoneMoves DEF Capturing
  <1> QED BY <1>1, <1>2

\* The page lets go of its recorder.
LEMMA LetGo ==
  ASSUME RunnerInv, RunnerShape', Fired', SentIsGiven',
         attempt' = attempt, share' = Cancelled(view.ref), AttemptsGrow, TakenFrom,
         view.mounted, ~view'.mounted \/ view.draw = "pending" \/ view.result # None,
         \/ ~view'.mounted /\ view'.ref = view.ref /\ view'.of = view.of
            /\ view'.submit = view.submit /\ view'.result = None
         \/ /\ view'.ref = None
            /\ \/ view'.test = None /\ view'.result = None /\ view'.submit = "idle"
               \/ /\ view'.test = view.test /\ view'.result = view.result
                  /\ view'.submit = view.submit /\ view'.of = view.of
                  /\ view'.mounted = view.mounted
  PROVE  RunnerInv'
  <1> USE NoneIsNothing
  <1>1. view.ref \in Share \cup {None} /\ SharesTyped
    BY DEF RunnerInv, RunnerShape, ViewType
  <1>2. /\ SharesTyped' /\ \A r \in Share : Settles(r)
        /\ view.ref # None => share'[view.ref].pc # "on"
    BY <1>1, CancelledShape
  <1>3. OnScreen'
    <2>1. ASSUME NEW r \in Share, share'[r].pc = "on", ~share'[r].stray PROVE FALSE
      <3>1. share[r].pc = "on" /\ ~share[r].stray BY <1>2, <2>1 DEF Settles
      <3>2. view.ref = r BY <3>1 DEF RunnerInv, OnScreen
      <3> QED BY <1>2, <2>1, <3>2
    <2> QED BY <2>1 DEF OnScreen
  <1>4. Prompts' BY <1>2 DEF RunnerInv, Prompts, Settles, Asking, Capturing
  <1>5. Order'
    <2>1. view'.mounted => \A r \in Share : Asking(r)' => share'[r].stray
      BY <1>2 DEF RunnerInv, Order, Settles, Asking
    <2>2. view'.ref # None => share'[view'.ref].pc \notin {"none", "asked"}
      BY <1>1, <1>2 DEF RunnerInv, Order, Settles
    <2>3. view'.result # None => attempt'[view'.result].test # None BY DEF RunnerInv, Order
    <2>4. view'.submit = "pending" => view'.of # None BY DEF RunnerInv, Order
    <2> QED BY <2>1, <2>2, <2>3, <2>4 DEF RunnerInv, Order
  <1>6. RefSound' BY DEF RefSound
  <1>7. Taken' BY <1>2, TakenStays DEF RunnerInv
  <1> QED BY <1>3, <1>4, <1>5, <1>6, <1>7 DEF RunnerInv

LEMMA DrawFailsKeeps ==
  ASSUME RunnerInv, DrawFails
  PROVE  RunnerInv'
  <1>1. /\ UNCHANGED <<closing, uploads, attempt, records>> /\ view \in ViewType
        /\ view.index <= view.reached /\ SharesTyped /\ view.mounted /\ view.draw = "pending"
        /\ share' = Cancelled(view.ref)
    BY DEF DrawFails, RunnerInv, RunnerShape
  <1> DEFINE v == [[view EXCEPT !.draw = "idle"] EXCEPT !.ref = None]
  <1>2. view' = v BY DEF DrawFails
  <1>3. v \in ViewType BY <1>1, ViewUpdates
  <1>4. /\ v.ref = None /\ v.index = view.index /\ v.reached = view.reached
        /\ v.mounted = view.mounted /\ v.test = view.test /\ v.deaf = view.deaf /\ v.cut = view.cut
        /\ v.result = view.result /\ v.recording = view.recording
        /\ v.tape = view.tape /\ v.submit = view.submit /\ v.of = view.of
        /\ v.interrupted = view.interrupted /\ v.autoSent = view.autoSent
        /\ v.sent = view.sent /\ v.answers = view.answers
    BY <1>1 DEF ViewType
  <1> HIDE DEF v
  <1>5. SharesTyped'
    <2>1. view.ref \in Share \cup {None} BY <1>1 DEF ViewType
    <2> QED BY <1>1, <2>1, CancelledShape
  <1>6. RunnerShape' BY <1>1, <1>2, <1>3, <1>4, <1>5 DEF RunnerInv, RunnerShape
  <1>7. Fired' /\ SentIsGiven'
    BY <1>2, <1>4 DEF RunnerInv, Fired, OnTest, SentIsGiven
  <1>8. AttemptsGrow /\ TakenFrom BY <1>1, <1>2, <1>4 DEF AttemptsGrow, TakenFrom
  <1> QED BY <1>1, <1>2, <1>4, <1>6, <1>7, <1>8, LetGo

\* Nothing is followed any more.
LEMMA UnwatchedShape ==
  ASSUME uploads \subseteq UploadType
  PROVE  \A u \in Unwatched : /\ u \in UploadType /\ ~u.watched
                              /\ \E v \in uploads : v.share = u.share /\ v.attempt = u.attempt /\ v.again = u.again
  <1>1. \A v \in UploadType : LET u == [v EXCEPT !.watched = FALSE] IN
          u \in UploadType /\ ~u.watched /\ v.share = u.share /\ v.attempt = u.attempt
          /\ v.again = u.again
    BY DEF UploadType
  <1>2. ASSUME NEW u \in Unwatched
        PROVE  /\ u \in UploadType /\ ~u.watched
               /\ \E v \in uploads : v.share = u.share /\ v.attempt = u.attempt /\ v.again = u.again
    <2>1. PICK v \in uploads : u = [v EXCEPT !.watched = FALSE] BY DEF Unwatched
    <2> QED BY <1>1, <2>1
  <1> QED BY <1>2

LEMMA RestartKeeps ==
  ASSUME RunnerAssumption, RunnerInv, Restart
  PROVE  RunnerInv'
  <1>1. /\ UNCHANGED <<closing, attempt, records>> /\ view \in ViewType
        /\ SharesTyped /\ view.mounted /\ view.result # None
        /\ share' = Cancelled(view.ref) /\ uploads' = Unwatched /\ view' = Emptied
        /\ uploads \subseteq UploadType
    BY DEF Restart, RunnerInv, RunnerShape
  <1>2. SharesTyped'
    <2>1. view.ref \in Share \cup {None} BY <1>1 DEF ViewType
    <2> QED BY <1>1, <2>1, CancelledShape
  <1>3. \A u \in uploads' : /\ u \in UploadType /\ ~u.watched
                            /\ \E v \in uploads : v.share = u.share /\ v.attempt = u.attempt /\ v.again = u.again
    BY <1>1, UnwatchedShape
  <1>4. /\ view' \in ViewType /\ view'.mounted = view.mounted /\ view'.ref = None
        /\ view'.test = None /\ view'.result = None /\ view'.recording = "undefined"
        /\ ~view'.interrupted /\ ~view'.autoSent /\ ~view'.cut /\ view'.submit = "idle"
        /\ view'.index = 0 /\ view'.reached = 0
    BY <1>1, EmptiedShape
  <1>5. RunnerShape' BY <1>1, <1>2, <1>3, <1>4 DEF RunnerInv, RunnerShape
  <1>6. Fired' /\ SentIsGiven' BY <1>4 DEF Fired, OnTest, SentIsGiven
  <1>7. AttemptsGrow /\ TakenFrom BY <1>1, <1>3, <1>4 DEF AttemptsGrow, TakenFrom
  <1> QED BY <1>1, <1>4, <1>5, <1>6, <1>7, LetGo

LEMMA LeaveKeeps ==
  ASSUME RunnerAssumption, RunnerInv, Leave
  PROVE  RunnerInv'
  <1>1. /\ UNCHANGED <<closing, uploads, attempt, records>> /\ view \in ViewType
        /\ SharesTyped /\ view.mounted /\ share' = Cancelled(view.ref)
        /\ view.ref \in Share \cup {None}
    BY DEF Leave, RunnerInv, RunnerShape, ViewType
  <1> DEFINE a == [[[Emptied EXCEPT !.mounted = FALSE] EXCEPT !.timed = TRUE] EXCEPT !.tests = 0]
             v == [[[[a EXCEPT !.ref = view.ref] EXCEPT !.submit = view.submit]
                    EXCEPT !.of = view.of] EXCEPT !.sent = view.sent]
  <1>2. view' = v BY DEF Leave
  <1>3. 0 \in 0..MaxTests BY DEF RunnerAssumption
  <1>4. a \in ViewType BY <1>1, <1>3, EmptiedShape, ViewUpdates
  <1>5. /\ ~a.mounted /\ a.result = None /\ ~a.interrupted /\ ~a.autoSent /\ ~a.cut
        /\ a.index = 0 /\ a.reached = 0
    <2>1. Emptied \in ViewType /\ Emptied.result = None /\ ~Emptied.interrupted
          /\ ~Emptied.autoSent /\ ~Emptied.cut /\ Emptied.index = 0 /\ Emptied.reached = 0
      BY <1>1, EmptiedShape
    <2> QED BY <2>1 DEF ViewType
  <1> HIDE DEF a
  <1>6. /\ view.submit \in Statuses /\ view.of \in Test \cup {None}
        /\ view.sent \in SUBSET Question
    BY <1>1 DEF ViewType, Statuses
  <1>7. v \in ViewType BY <1>1, <1>4, <1>6, ViewUpdates
  <1>8. /\ ~v.mounted /\ v.result = None /\ ~v.interrupted /\ ~v.autoSent /\ ~v.cut
        /\ v.index = 0 /\ v.reached = 0 /\ v.ref = view.ref /\ v.submit = view.submit
        /\ v.of = view.of
    BY <1>4, <1>5 DEF ViewType
  <1> HIDE DEF v
  <1>9. SharesTyped' /\ \A r \in Share : Settles(r) BY <1>1, CancelledShape
  <1>10. RunnerShape' BY <1>1, <1>2, <1>7, <1>8, <1>9 DEF RunnerInv, RunnerShape
  <1>11. Fired' /\ SentIsGiven' BY <1>2, <1>8 DEF Fired, OnTest, SentIsGiven
  <1>12. AttemptsGrow /\ TakenFrom BY <1>1, <1>2, <1>8 DEF AttemptsGrow, TakenFrom
  <1> QED BY <1>1, <1>2, <1>8, <1>10, <1>11, <1>12, LetGo

LEMMA StoresShape ==
  ASSUME RunnerShape, view.of # None, NEW a \in Attempt, Stores(a)
  PROVE  attempt' \in [Attempt -> AttemptType] /\ AttemptsGrow /\ attempt'[a].test = view.of
  <1> DEFINE x == [test |-> view.of, video |-> None, again |-> FALSE]
  <1>1. x \in AttemptType /\ x.test = view.of /\ x.video = None
    BY DEF RunnerShape, ViewType, AttemptType
  <1>2. attempt' = [attempt EXCEPT ![a] = x] /\ attempt[a].test = None
    BY DEF Stores
  <1> HIDE DEF x
  <1>3. attempt' \in [Attempt -> AttemptType] BY <1>1, <1>2 DEF RunnerShape
  <1>4. attempt'[a] = x /\ \A b \in Attempt \ {a} : attempt'[b] = attempt[b]
    BY <1>2 DEF RunnerShape
  <1> QED BY <1>1, <1>2, <1>3, <1>4 DEF AttemptsGrow

LEMMA RetryOrFailKeeps ==
  ASSUME RunnerInv, RetrySubmit \/ SubmitFails \/ \E a \in Attempt : SubmitLost(a)
  PROVE  RunnerInv'
  <1>1. /\ UNCHANGED <<share, closing, uploads, records>> /\ view \in ViewType
        /\ view.index <= view.reached /\ SharesTyped
    BY DEF RetrySubmit, SubmitFails, SubmitLost, RunnerInv, RunnerShape
  <1>2. SharesTyped' /\ \A s \in Share : Settles(s) BY <1>1, NoneMoves
  <1>3. Fired BY DEF RunnerInv
  <1>4. CASE RetrySubmit
    <2>1. /\ view' = Send(view, view.answers) /\ attempt' = attempt
          /\ view.mounted /\ view.test # None /\ view.result = None
      BY <1>4 DEF RetrySubmit, OnTest
    <2>2. view.answers \in SUBSET (Test \X Question) BY <1>1 DEF ViewType
    <2>3. Fired' /\ SentIsGiven'
      BY <1>1, <1>3, <2>1, <2>2, SendShape DEF Fired, OnTest, SentIsGiven
    <2> QED BY <1>1, <1>2, <2>1, <2>2, <2>3, SendShape, PageStep
  <1>5. ASSUME view' = Asked("error"), view.submit = "pending",
               attempt' \in [Attempt -> AttemptType], AttemptsGrow
        PROVE  RunnerInv'
    <2>1. "error" \in Statuses BY DEF Statuses
    <2>2. /\ view' \in ViewType /\ view'.submit = "error"
          /\ view'.mounted = view.mounted /\ view'.ref = view.ref /\ view'.test = view.test
          /\ view'.result = view.result /\ view'.recording = view.recording
          /\ view'.tape = view.tape /\ view'.interrupted = view.interrupted
          /\ view'.autoSent = view.autoSent /\ view'.deaf = view.deaf /\ view'.cut = view.cut
          /\ view'.draw = view.draw /\ view'.index = view.index /\ view'.reached = view.reached
      BY <1>1, <1>5, <2>1, AskedShape
    <2>3. Fired' /\ SentIsGiven' BY <1>3, <2>2 DEF Fired, OnTest, SentIsGiven
    <2>4. RunnerShape' BY <1>1, <1>2, <1>5, <2>2 DEF RunnerInv, RunnerShape
    <2>5. TakenFrom BY <1>1, <2>2 DEF TakenFrom
    <2> QED BY <1>2, <1>5, <2>2, <2>3, <2>4, <2>5, CalmStep
  <1>6. CASE SubmitFails
    <2>1. attempt' = attempt /\ view' = Asked("error") /\ view.submit = "pending"
      BY <1>6 DEF SubmitFails
    <2>2. attempt' \in [Attempt -> AttemptType] /\ AttemptsGrow
      BY <2>1 DEF RunnerInv, RunnerShape, AttemptsGrow
    <2> QED BY <1>5, <2>1, <2>2
  <1>7. ASSUME NEW a \in Attempt, SubmitLost(a) PROVE RunnerInv'
    <2>1. Stores(a) /\ view' = Asked("error") /\ view.submit = "pending"
      BY <1>7 DEF SubmitLost
    <2>2. view.of # None /\ RunnerShape BY <2>1 DEF RunnerInv, Order
    <2> QED BY <1>5, <2>1, <2>2, StoresShape
  <1> QED BY <1>4, <1>6, <1>7

LEMMA SubmittedKeeps ==
  ASSUME RunnerAssumption, RunnerInv, NEW a \in Attempt, Submitted(a)
  PROVE  RunnerInv'
  <1> USE NoneIsNothing
  <1>1. /\ UNCHANGED <<uploads, records>> /\ view \in ViewType /\ SharesTyped
        /\ view.mounted /\ view.submit = "pending" /\ Stores(a)
        /\ view.ref \in Share \cup {None} /\ records \in BOOLEAN
        /\ closing \subseteq ClosingType /\ RunnerShape
    BY DEF Submitted, RunnerInv, RunnerShape, ViewType
  <1>2. view.of # None /\ view.result = None /\ view.test # None
    BY <1>1 DEF RunnerInv, Order
  <1>3. attempt' \in [Attempt -> AttemptType] /\ AttemptsGrow /\ attempt'[a].test = view.of
    BY <1>1, <1>2, StoresShape
  <1> DEFINE held == view.ref # None
             b == [[[Asked("success") EXCEPT !.result = a] EXCEPT !.expected = records]
                   EXCEPT !.ref = None]
             v == [[[[b EXCEPT !.taped = held] EXCEPT !.answers = {}]
                    EXCEPT !.index = 0] EXCEPT !.reached = 0]
  <1>4. view' = v BY DEF Submitted
  <1>5. held \in BOOLEAN OBVIOUS
  <1> HIDE DEF held
  <1>6. b \in ViewType
    <2>1. "success" \in Statuses BY DEF Statuses
    <2>2. Asked("success") \in ViewType BY <1>1, <2>1, AskedShape
    <2> QED BY <1>1, <2>2, ViewUpdates
  <1>7. /\ b.submit = "success" /\ b.mounted = view.mounted /\ b.ref = None
        /\ b.test = view.test /\ b.result = a /\ b.recording = view.recording
        /\ b.tape = view.tape /\ b.interrupted = view.interrupted
        /\ b.autoSent = view.autoSent /\ b.cut = view.cut
    BY <1>1 DEF Asked, ViewType
  <1> HIDE DEF b
  <1>8. v \in ViewType
    <2>1. 0 \in Question /\ {} \in SUBSET (Test \X Question) BY DEF Question, RunnerAssumption
    <2> QED BY <1>5, <1>6, <2>1, ViewUpdates
  <1>9. /\ v.submit = "success" /\ v.mounted = view.mounted /\ v.ref = None
        /\ v.test = view.test /\ v.result = a /\ v.recording = view.recording
        /\ v.tape = view.tape /\ v.interrupted = view.interrupted
        /\ v.autoSent = view.autoSent /\ v.cut = view.cut /\ v.index = 0 /\ v.reached = 0
    BY <1>6, <1>7 DEF ViewType
  <1> HIDE DEF v
  <1>10. /\ SharesTyped' /\ \A r \in Share : Settles(r)
         /\ view.ref # None => share'[view.ref].pc # "on"
    <2>1. CASE share' = share /\ (view.ref # None => share[view.ref].pc # "on")
      BY <1>1, <2>1, NoneMoves
    <2>2. CASE view.ref # None /\ share[view.ref].pc = "on"
      <3> DEFINE x == [share[view.ref] EXCEPT !.pc = "stopping"]
      <3>1. view.ref \in Share /\ share' = [share EXCEPT ![view.ref] = x]
        BY <1>1, <2>2 DEF Submitted, Stopped, SharesTyped
      <3>2. x.pc = "stopping" BY <1>1, <3>1 DEF SharesTyped, ShareType
      <3> HIDE DEF x
      <3>3. share'[view.ref].pc # "on" BY <1>1, <3>1, <3>2 DEF SharesTyped
      <3> QED BY <1>1, <2>2, <3>1, <3>3, OneSettles DEF x
    <2> QED BY <2>1, <2>2 DEF Submitted, Stopped
  <1> DEFINE new == [attempt |-> a, share |-> view.ref, expected |-> records]
  <1>11. \/ closing' = closing
         \/ view.ref # None /\ closing' = closing \cup {new}
    BY DEF Submitted
  <1>12. view.ref # None => new \in ClosingType /\ new.attempt = a /\ new.share = view.ref
    BY <1>1 DEF ClosingType
  <1> HIDE DEF new
  <1>13. RunnerShape'
    BY <1>1, <1>3, <1>4, <1>8, <1>9, <1>10, <1>11, <1>12 DEF RunnerInv, RunnerShape
  <1>14. OnScreen'
    <2>1. ASSUME NEW r \in Share, share'[r].pc = "on", ~share'[r].stray PROVE FALSE
      <3>1. share[r].pc = "on" /\ ~share[r].stray BY <1>10, <2>1 DEF Settles
      <3>2. view.ref = r BY <3>1 DEF RunnerInv, OnScreen
      <3> QED BY <1>10, <2>1, <3>2
    <2> QED BY <2>1 DEF OnScreen
  <1>15. Prompts' BY <1>10 DEF RunnerInv, Prompts, Settles, Asking, Capturing
  <1>16. Fired' /\ SentIsGiven'
    BY <1>4, <1>9 DEF RunnerInv, Fired, OnTest, SentIsGiven
  <1>17. Order'
    <2>1. \A r \in Share : Asking(r)' => share'[r].stray
      BY <1>1, <1>2, <1>10 DEF RunnerInv, Order, Settles, Asking
    <2> QED BY <1>2, <1>3, <1>4, <1>9, <2>1 DEF Order
  <1>18. RefSound' BY <1>4, <1>9 DEF RefSound
  <1>19. TakenFrom
    <2>1. ASSUME view.ref # None PROVE \A c : c = new => ClosingOK(c)'
      <3>1. share[view.ref].pc \notin {"none", "asked"} BY <2>1 DEF RunnerInv, Order
      <3>2. share'[view.ref].pc \notin {"none", "asked", "on"}
        BY <1>1, <1>10, <2>1, <3>1 DEF Settles
      <3>3. ASSUME NEW s \in Share, s = view.ref, Untangled(s)' PROVE share'[s].test = view.of
        <4>1. Untangled(s) /\ share'[s].test = share[s].test BY <1>10, <3>3 DEF Settles
        <4> QED BY <1>1, <1>2, <2>1, <3>3, <4>1 DEF RunnerInv, RefSound
      <3>4. ASSUME NEW s \in Share, s = view.ref PROVE OfTest(s, a)'
        BY <1>2, <1>3, <3>3, <3>4 DEF OfTest
      <3>5. ASSUME NEW c, c = new PROVE ClosingOK(c)'
        BY <1>1, <1>4, <1>9, <1>12, <2>1, <3>2, <3>4, <3>5 DEF ClosingOK, OfTest, Untangled
      <3> QED BY <3>5
    <2> QED BY <1>1, <1>2, <1>4, <1>9, <1>11, <2>1 DEF TakenFrom
  <1>20. Taken' BY <1>3, <1>4, <1>9, <1>10, <1>19, TakenStays DEF RunnerInv
  <1> QED BY <1>13, <1>14, <1>15, <1>16, <1>17, <1>18, <1>20 DEF RunnerInv

\* The video that begins to go up is the only one that is followed.
LEMMA UploadShape ==
  ASSUME RunnerShape, NEW a \in Attempt, NEW s \in Share, NEW e \in BOOLEAN, NEW g \in BOOLEAN,
         Upload(a, s, e, g)
  PROVE  /\ uploads' \subseteq UploadType
         /\ \A u, v \in uploads' : u.watched /\ v.watched => u = v
         /\ \A u \in uploads' :
              \/ u.share = s /\ u.attempt = a /\ u.again = g
              \/ \E v \in uploads : v.share = u.share /\ v.attempt = u.attempt /\ v.again = u.again
  <1> DEFINE new == [attempt |-> a, share |-> s, expected |-> e, watched |-> TRUE, again |-> g]
  <1>1. uploads' = Unwatched \cup {new} BY DEF Upload
  <1>2. new \in UploadType /\ new.share = s /\ new.attempt = a /\ new.again = g
    BY DEF UploadType
  <1> HIDE DEF new
  <1>3. \A u \in Unwatched : /\ u \in UploadType /\ ~u.watched
                             /\ \E v \in uploads : v.share = u.share /\ v.attempt = u.attempt /\ v.again = u.again
    BY UnwatchedShape DEF RunnerShape
  <1> QED BY <1>1, <1>2, <1>3

\* Two pages that differ only in what they say of the video.
SamePage(v, w) ==
  /\ w.mounted = v.mounted /\ w.ref = v.ref /\ w.test = v.test
  /\ w.result = v.result /\ w.draw = v.draw /\ w.submit = v.submit
  /\ w.of = v.of /\ w.sent = v.sent /\ w.answers = v.answers
  /\ w.interrupted = v.interrupted /\ w.autoSent = v.autoSent
  /\ w.deaf = v.deaf /\ w.cut = v.cut /\ w.index = v.index /\ w.reached = v.reached

\* A step of the videos: only the page's own notes of them move on.
LEMMA NotesStep ==
  ASSUME RunnerInv, SharesTyped', \A s \in Share : Settles(s),
         view' \in ViewType, UNCHANGED records,
         closing' \subseteq closing, uploads' \subseteq UploadType,
         \A u, v \in uploads' : u.watched /\ v.watched => u = v,
         attempt' \in [Attempt -> AttemptType], AttemptsGrow, TakenFrom,
         SamePage(view, view')
  PROVE  RunnerInv'
  <1>1. RunnerShape' BY DEF RunnerInv, RunnerShape, SamePage
  <1>2. Fired' /\ SentIsGiven'
    BY DEF RunnerInv, Fired, OnTest, SentIsGiven, SamePage
  <1> QED BY <1>1, <1>2, CalmStep DEF SamePage

LEMMA NotesShape ==
  ASSUME NEW v \in ViewType, NEW s \in Share \cup {None}, NEW m \in Statuses,
         NEW r \in {"undefined", "nothing", "video"}
  PROVE  /\ LET n == [v EXCEPT !.upload = m] IN n \in ViewType /\ SamePage(v, n)
         /\ LET n == [v EXCEPT !.recording = r, !.tape = s] IN n \in ViewType /\ SamePage(v, n)
         /\ LET n == [v EXCEPT !.recording = r, !.tape = s, !.upload = m] IN
            n \in ViewType /\ SamePage(v, n)
  <1> DEFINE a == [v EXCEPT !.upload = m]
             b == [[v EXCEPT !.recording = r] EXCEPT !.tape = s]
             c == [b EXCEPT !.upload = m]
  <1>1. a \in ViewType BY ViewUpdates
  <1>2. b \in ViewType BY ViewUpdates
  <1>3. SamePage(v, a) BY <1>1 DEF ViewType, SamePage
  <1>4. SamePage(v, b) BY <1>2 DEF ViewType, SamePage
  <1>5. /\ [v EXCEPT !.recording = r, !.tape = s] = b
        /\ [v EXCEPT !.recording = r, !.tape = s, !.upload = m] = c
    OBVIOUS
  <1> HIDE DEF a, b
  <1>6. c \in ViewType BY <1>2, ViewUpdates
  <1>7. SamePage(v, c) BY <1>2, <1>4, <1>6 DEF ViewType, SamePage
  <1> HIDE DEF c
  <1> QED BY <1>1, <1>2, <1>3, <1>4, <1>5, <1>6, <1>7 DEF a

LEMMA ClosedKeeps ==
  ASSUME RunnerInv, NEW c \in closing, Closed(c)
  PROVE  RunnerInv'
  <1> USE NoneIsNothing
  <1>1. /\ UNCHANGED <<attempt, records>> /\ view \in ViewType /\ SharesTyped /\ RunnerShape
        /\ closing' \subseteq closing /\ share[c.share].pc = "done"
        /\ c.share \in Share /\ c.attempt \in Attempt /\ c.expected \in BOOLEAN
        /\ attempt' \in [Attempt -> AttemptType] /\ AttemptsGrow
    BY DEF Closed, RunnerInv, RunnerShape, ClosingType, AttemptsGrow
  <1>2. /\ SharesTyped' /\ \A s \in Share : Settles(s)
        /\ view.mounted /\ view.result # c.attempt => share'[c.share].left
    <2>1. CASE share' = share /\ ~(view.mounted /\ view.result # c.attempt)
      BY <1>1, <2>1, NoneMoves
    <2>2. CASE share' = [share EXCEPT ![c.share].left = TRUE]
      <3>1. SharesTyped' /\ \A s \in Share : Settles(s)
        BY <1>1, <2>2, OneSettles
      <3>2. share'[c.share].left BY <1>1, <2>2 DEF SharesTyped, ShareType
      <3> QED BY <3>1, <3>2
    <2> QED BY <2>1, <2>2 DEF Closed
  <1>3. ClosingOK(c) BY DEF RunnerInv, Taken, ClosingSound, ClosingOK
  <1> DEFINE s == c.share
             g == FALSE
  <1>4. s \in Share /\ view.ref # s /\ Settles(s) /\ OfTest(s, c.attempt)
    BY <1>1, <1>2, <1>3 DEF ClosingOK
  <1>5. attempt[c.attempt].test # None /\ (Untangled(s)' => share'[s].test = attempt[c.attempt].test)
    BY <1>4 DEF OfTest, Settles
  <1>6. ~share'[s].left /\ view.mounted => view.result = c.attempt BY <1>2
  <1>7. CASE share[s].video = "file"
    <2>1. Filed(s)' BY <1>1, <1>4, <1>7 DEF Filed, Settles
    <2>2. Upload(c.attempt, s, c.expected, g) /\ g \in BOOLEAN BY <1>7 DEF Closed
    <2> HIDE DEF g
    <2>3. /\ uploads' \subseteq UploadType
          /\ \A u, v \in uploads' : u.watched /\ v.watched => u = v
          /\ \A u \in uploads' :
               \/ u.share = s /\ u.attempt = c.attempt /\ u.again = g
               \/ \E v \in uploads : v.share = u.share /\ v.attempt = u.attempt /\ v.again = u.again
      BY <1>1, <1>4, <2>2, UploadShape
    <2>4. view' = IF ~view.mounted THEN view
                  ELSE [view EXCEPT !.recording = "video", !.tape = s, !.upload = "pending"]
      BY <1>7 DEF Closed
    <2>5. view' \in ViewType /\ SamePage(view, view')
      <3>1. "pending" \in Statuses BY DEF Statuses
      <3>2. CASE ~view.mounted BY <1>1, <2>4, <3>2 DEF SamePage
      <3>3. CASE view.mounted
        <4>1. view' = [view EXCEPT !.recording = "video", !.tape = s, !.upload = "pending"]
          BY <2>4, <3>3
        <4> HIDE DEF s
        <4> QED BY <1>1, <1>4, <3>1, <4>1, NotesShape
      <3> QED BY <3>2, <3>3
    <2>6. view.mounted => view'.tape = s BY <1>1, <2>4 DEF ViewType
    <2>7. TakenFrom
      <3>1. ASSUME NEW u \in uploads', u.share = s, u.attempt = c.attempt, u.again = g
            PROVE  UploadOK(u)'
        <4>1. u.again = FALSE BY <3>1 DEF g
        <4> QED BY <1>1, <1>4, <1>5, <2>1, <2>5, <3>1, <4>1 DEF UploadOK, OrLeft, Filed, Untangled, SamePage
      <3>2. view.mounted => TapeOK'
        BY <1>1, <1>4, <1>5, <1>6, <2>1, <2>5, <2>6 DEF TapeOK, OfTest, Filed, Untangled, SamePage
      <3> QED BY <1>1, <2>3, <2>5, <3>1, <3>2 DEF TakenFrom, SamePage
    <2> QED BY <1>1, <1>2, <2>3, <2>5, <2>7, NotesStep
  <1>8. CASE share[s].video # "file"
    <2>1. /\ uploads' = uploads
          /\ view' = IF ~view.mounted THEN view
                     ELSE [view EXCEPT !.recording = "nothing", !.tape = None]
      BY <1>8 DEF Closed
    <2>2. view' \in ViewType /\ SamePage(view, view')
      <3>1. "pending" \in Statuses BY DEF Statuses
      <3>2. CASE ~view.mounted BY <1>1, <2>1, <3>2 DEF SamePage
      <3>3. CASE view.mounted
        <4>1. view' = [view EXCEPT !.recording = "nothing", !.tape = None] BY <2>1, <3>3
        <4> QED BY <1>1, <3>1, <4>1, NotesShape
      <3> QED BY <3>2, <3>3
    <2>3. view.mounted => view'.recording = "nothing" BY <1>1, <2>1 DEF ViewType
    <2>4. TakenFrom BY <1>1, <2>1, <2>2, <2>3 DEF TakenFrom, SamePage
    <2>5. /\ uploads' \subseteq UploadType
          /\ \A u, v \in uploads' : u.watched /\ v.watched => u = v
      BY <1>1, <2>1 DEF RunnerShape
    <2> QED BY <1>1, <1>2, <2>2, <2>4, <2>5, NotesStep
  <1> QED BY <1>7, <1>8

LEMMA RetryUploadKeeps ==
  ASSUME RunnerInv, RetryUpload
  PROVE  RunnerInv'
  <1> USE NoneIsNothing
  <1> DEFINE g == TRUE
  <1>1. /\ UNCHANGED <<share, closing, attempt, records>> /\ view \in ViewType
        /\ SharesTyped /\ RunnerShape /\ view.mounted /\ view.result # None
        /\ view.recording = "video" /\ Upload(view.result, view.tape, view.expected, g)
        /\ g \in BOOLEAN
        /\ view' = [view EXCEPT !.upload = "pending"]
        /\ attempt' \in [Attempt -> AttemptType] /\ AttemptsGrow
    BY DEF RetryUpload, RunnerInv, RunnerShape, AttemptsGrow
  <1> HIDE DEF g
  <1>2. SharesTyped' /\ \A s \in Share : Settles(s) BY <1>1, NoneMoves
  <1>3. TapeOK BY <1>1 DEF RunnerInv, Taken, TapeSound, TapeOK
  <1>4. /\ view.tape \in Share /\ view.result \in Attempt /\ view.expected \in BOOLEAN
        /\ None \in Share \cup {None}
    BY <1>1, <1>3 DEF ViewType, TapeOK
  <1>5. /\ uploads' \subseteq UploadType
        /\ \A u, v \in uploads' : u.watched /\ v.watched => u = v
        /\ \A u \in uploads' :
             \/ u.share = view.tape /\ u.attempt = view.result /\ u.again = g
             \/ \E v \in uploads : v.share = u.share /\ v.attempt = u.attempt /\ v.again = u.again
    BY <1>1, <1>4, UploadShape
  <1>6. view' \in ViewType /\ SamePage(view, view')
    <2>1. "pending" \in Statuses BY DEF Statuses
    <2> QED BY <1>1, <1>4, <2>1, NotesShape
  <1>7. view'.recording = view.recording /\ view'.tape = view.tape BY <1>1 DEF ViewType
  <1>8. TakenFrom
    <2>1. attempt[view.result].test # None BY <1>1 DEF RunnerInv, Order
    <2>2. OrLeft(view.tape, view.result, TRUE) BY <1>3, <2>1 DEF TapeOK, OfTest, OrLeft
    <2>3. ASSUME NEW u \in uploads', u.share = view.tape, u.attempt = view.result, u.again = g
          PROVE  UploadOK(u)'
      <3>1. u.again = TRUE BY <2>3 DEF g
      <3> QED BY <1>1, <1>3, <1>6, <2>2, <2>3, <3>1 DEF TapeOK, UploadOK, OrLeft, Filed, Untangled, SamePage
    <2> QED BY <1>1, <1>5, <1>6, <1>7, <2>3 DEF TakenFrom, SamePage
  <1> QED BY <1>1, <1>2, <1>5, <1>6, <1>8, NotesStep

LEMMA UploadEndsKeeps ==
  ASSUME RunnerInv, NEW u \in uploads, UploadStored(u) \/ UploadFails(u)
  PROVE  RunnerInv'
  <1> USE NoneIsNothing
  <1>1. /\ UNCHANGED <<share, closing, records>> /\ view \in ViewType
        /\ SharesTyped /\ RunnerShape /\ uploads' \subseteq uploads
        /\ u.attempt \in Attempt /\ u.share \in Share /\ u.again \in BOOLEAN
    BY DEF UploadStored, UploadFails, RunnerInv, RunnerShape, UploadType
  <1>2. SharesTyped' /\ \A s \in Share : Settles(s) BY <1>1, NoneMoves
  <1>3. \E m \in Statuses : view' = view \/ view' = [view EXCEPT !.upload = m]
    BY DEF UploadStored, UploadFails, Followed, Statuses
  <1>4. None \in Share \cup {None} OBVIOUS
  <1>5. view' \in ViewType /\ SamePage(view, view')
    <2>1. CASE view' = view BY <1>1, <2>1 DEF SamePage
    <2>2. ASSUME NEW m \in Statuses, view' = [view EXCEPT !.upload = m]
          PROVE  view' \in ViewType /\ SamePage(view, view')
      BY <1>1, <1>4, <2>2, NotesShape
    <2> QED BY <1>3, <2>1, <2>2
  <1>6. view'.recording = view.recording /\ view'.tape = view.tape BY <1>1, <1>3 DEF ViewType
  <1>7. attempt' \in [Attempt -> AttemptType] /\ AttemptsGrow
    <2>1. CASE UploadStored(u)
      <3> DEFINE x == [attempt[u.attempt] EXCEPT !.video = u.share, !.again = u.again]
      <3>1. attempt[u.attempt] \in AttemptType BY <1>1 DEF RunnerShape
      <3>2. attempt' = [attempt EXCEPT ![u.attempt] = x]
        BY <1>1, <2>1 DEF UploadStored, RunnerShape
      <3>3. x \in AttemptType /\ x.test = attempt[u.attempt].test /\ x.video = u.share
            /\ x.again = u.again
        BY <1>1, <3>1 DEF AttemptType
      <3> HIDE DEF x
      <3>4. attempt' \in [Attempt -> AttemptType] BY <1>1, <3>2, <3>3 DEF RunnerShape
      <3>5. attempt'[u.attempt] = x /\ \A b \in Attempt \ {u.attempt} : attempt'[b] = attempt[b]
        BY <1>1, <3>2 DEF RunnerShape
      <3> QED BY <1>1, <3>3, <3>4, <3>5 DEF AttemptsGrow
    <2>2. CASE UploadFails(u)
      BY <1>1, <2>2 DEF UploadFails, RunnerShape, AttemptsGrow
    <2> QED BY <2>1, <2>2
  <1>8. TakenFrom BY <1>1, <1>5, <1>6 DEF TakenFrom, SamePage
  <1>9. /\ uploads' \subseteq UploadType
        /\ \A v, w \in uploads' : v.watched /\ w.watched => v = w
    BY <1>1 DEF RunnerShape
  <1> QED BY <1>1, <1>2, <1>5, <1>7, <1>8, <1>9, NotesStep

---------------------------------------------------------------------------
(* What follows.                                                           *)

LEMMA NothingMoves ==
  ASSUME RunnerInv, UNCHANGED <<view, share, closing, uploads, attempt>>, records' \in BOOLEAN
  PROVE  RunnerInv'
  <1>1. RunnerShape' BY DEF RunnerInv, RunnerShape, SharesTyped
  <1>2. Fired' /\ SentIsGiven' BY DEF RunnerInv, Fired, OnTest, SentIsGiven
  <1>3. \A s \in Share : Settles(s) BY NoneMoves DEF RunnerInv, RunnerShape
  <1>4. AttemptsGrow /\ TakenFrom BY DEF AttemptsGrow, TakenFrom
  <1> QED BY <1>1, <1>2, <1>3, <1>4, CalmStep DEF RunnerInv, Order

LEMMA RunnerStarts ==
  ASSUME RunnerAssumption, RunnerInit
  PROVE  RunnerInv
  <1> USE NoneIsNothing
  <1>1. /\ closing = {} /\ uploads = {} /\ records \in BOOLEAN
        /\ attempt \in [Attempt -> AttemptType]
        /\ \A a \in Attempt : attempt[a].video = None
    BY DEF RunnerInit, AttemptType
  <1>2. /\ SharesTyped
        /\ \A s \in Share : share[s].pc = "none"
    BY DEF RunnerInit, SharesTyped, ShareType
  <1>3. /\ view \in ViewType /\ view.index = 0 /\ view.reached = 0 /\ view.ref = None
        /\ view.submit = "idle" /\ view.result = None /\ view.test = None
        /\ ~view.interrupted /\ ~view.autoSent /\ ~view.cut
        /\ view.recording = "undefined"
    BY DEF RunnerInit, ViewType, RunnerAssumption, Question
  <1>4. RunnerShape BY <1>1, <1>2, <1>3 DEF RunnerShape
  <1>5. OnScreen /\ Prompts BY <1>2 DEF OnScreen, Prompts, Asking, Capturing
  <1>6. Fired /\ SentIsGiven BY <1>3 DEF Fired, OnTest, SentIsGiven
  <1>7. Order /\ RefSound BY <1>2, <1>3 DEF Order, RefSound, Asking
  <1>8. Taken
    BY <1>1, <1>3 DEF Taken, ClosingSound, UploadsSound, VideosSound, TapeSound
  <1> QED BY <1>4, <1>5, <1>6, <1>7, <1>8 DEF RunnerInv

LEMMA RunnerStaysSound ==
  ASSUME RunnerAssumption
  PROVE  RunnerSpec => []RunnerInv
  <1>1. RunnerInit => RunnerInv BY RunnerStarts
  <1>2. RunnerInv /\ [RunnerNext]_runnerVars => RunnerInv'
    <2> SUFFICES ASSUME RunnerInv, [RunnerNext]_runnerVars PROVE RunnerInv' OBVIOUS
    <2>1. CASE Begin BY <2>1, BeginKeeps
    <2>2. CASE Drawn BY <2>2, DrawnKeeps
    <2>3. CASE DrawFails BY <2>3, DrawFailsKeeps
    <2>4. CASE AnswerStep BY <2>4, AnswerStepKeeps
    <2>5. CASE SubmitStep BY <2>5, RetryOrFailKeeps, SubmittedKeeps DEF SubmitStep
    <2>6. CASE VideoStep
      BY <2>6, ClosedKeeps, RetryUploadKeeps, UploadEndsKeeps DEF VideoStep
    <2>7. CASE Restart BY <2>7, RestartKeeps
    <2>8. CASE Leave BY <2>8, LeaveKeeps
    <2>9. CASE ChangesRecords
      BY <2>9, NothingMoves DEF ChangesRecords, RunnerInv, RunnerShape
    <2>10. ASSUME NEW s \in Share, ShareStep(s) PROVE RunnerInv'
      BY <2>10, BeginRecordedKeeps, ShareGrantedKeeps, ShareEndsKeeps, RecorderStep
         DEF ShareStep
    <2>11. CASE UNCHANGED runnerVars
      BY <2>11, NothingMoves DEF runnerVars, RunnerInv, RunnerShape
    <2> QED BY <2>1, <2>2, <2>3, <2>4, <2>5, <2>6, <2>7, <2>8, <2>9, <2>10, <2>11
            DEF RunnerNext
  <1> QED BY <1>1, <1>2, PTL DEF RunnerSpec

\* At most one upload is followed.
LEMMA OneWatched ==
  ASSUME RunnerShape
  PROVE  Cardinality({u \in uploads : u.watched}) <= 1
  <1> DEFINE W == {u \in uploads : u.watched}
  <1>1. CASE W = {} BY <1>1, FS_EmptySet
  <1>2. ASSUME NEW u \in W PROVE Cardinality(W) <= 1
    <2>1. W = {u} BY <1>2 DEF RunnerShape
    <2>2. Cardinality({u}) = 1 BY FS_Singleton, Zenon
    <2> HIDE DEF W
    <2> QED BY <2>1, <2>2
  <1> QED BY <1>1, <1>2

\* However the prompts, the stops, the restarts and the departures interleave, a
\* screen that is captured is the one the page holds, or is one of the two known
\* strays (getScreenStream and cancel in SimulationRunner.tsx).
THEOREM ScreensInReach ==
  ASSUME RunnerAssumption
  PROVE  RunnerSpec => []ScreenInReach
  <1>1. RunnerInv => ScreenInReach
    <2> SUFFICES ASSUME RunnerInv PROVE ScreenInReach OBVIOUS
    <2>1. RunnerShape /\ OnScreen BY DEF RunnerInv
    <2>2. Cardinality({u \in uploads : u.watched}) <= 1 BY <2>1, OneWatched
    <2>3. RunnerTypeOK
      BY <2>1, <2>2
         DEF RunnerShape, SharesTyped, RunnerTypeOK, ClosingType, UploadType, AttemptType
    <2> QED BY <2>1, <2>3 DEF ScreenInReach, OnScreen
  <1> QED BY <1>1, RunnerStaysSound, PTL

\* Whoever stops the share at hand while its questions are on screen has submitted
\* them in the same step, unless the page was left deaf by a share stopped before
\* any questions came.
THEOREM StopIsSent ==
  ASSUME RunnerAssumption
  PROVE  RunnerSpec => []InterruptedIsSent
  <1>1. RunnerInv => InterruptedIsSent BY DEF RunnerInv, Fired, InterruptedIsSent
  <1> QED BY <1>1, RunnerStaysSound, PTL

\* What a page sends by itself is the video of its own test, whatever is restarted
\* while the file is being closed; what is sent again by hand may be another's only
\* if it is a video that such a restart left on the page.
THEOREM VideosOfTheirTests ==
  ASSUME RunnerAssumption
  PROVE  RunnerSpec => []VideoOfItsTest
  <1>1. RunnerInv => VideoOfItsTest
    BY DEF RunnerInv, Taken, ClosingSound, VideosSound, OfTest, OrLeft, Filed, Untangled, VideoOfItsTest
  <1> QED BY <1>1, RunnerStaysSound, PTL

\* Every attempt the server stores carries the answers the page shows as given.
THEOREM AnswersReachTheServer ==
  ASSUME RunnerAssumption
  PROVE  RunnerSpec => GivenIsStored
  <1>1. RunnerInv /\ [RunnerNext]_runnerVars =>
          [\A a \in Attempt :
             (attempt[a].test = None /\ attempt'[a].test # None /\ view.mounted)
               => view.sent = {q \in Question : <<view.of, q>> \in view.answers}]_runnerVars
    <2> SUFFICES ASSUME RunnerInv, RunnerNext, NEW a \in Attempt,
                        attempt[a].test = None, attempt'[a].test # None, view.mounted
                 PROVE  view.sent = {q \in Question : <<view.of, q>> \in view.answers}
      OBVIOUS
    <2>1. CASE \E b \in Attempt : Submitted(b) \/ SubmitLost(b)
      BY <2>1 DEF RunnerInv, SentIsGiven, Submitted, SubmitLost
    <2>2. CASE \E u \in uploads : UploadStored(u)
      <3>1. PICK u \in uploads : UploadStored(u) BY <2>2
      <3>2. attempt'[a].test = attempt[a].test
        BY <3>1 DEF UploadStored, RunnerInv, RunnerShape, AttemptType
      <3> QED BY <3>2
    <2>3. CASE attempt' = attempt BY <2>3
    <2>4. attempt' = attempt \/ (\E b \in Attempt : Submitted(b) \/ SubmitLost(b))
          \/ (\E u \in uploads : UploadStored(u))
      BY DEF RunnerNext, Begin, Drawn, DrawFails, AnswerStep, Choose, Give, NextQuestion, GoTo,
             SubmitStep, RetrySubmit, SubmitFails, VideoStep, Closed, RetryUpload, UploadFails,
             Restart, Leave, ChangesRecords, ShareStep, BeginRecorded, ShareRefused,
             ShareGranted, ShareEnds, RecorderStops, RecorderFails
    <2> QED BY <2>1, <2>2, <2>3, <2>4
  <1> QED BY <1>1, RunnerStaysSound, PTL DEF RunnerSpec, GivenIsStored
=============================================================================
