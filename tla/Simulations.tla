---------------------------- MODULE Simulations ----------------------------
(***************************************************************************)
(* One technical simulation: the question pool the administrators write,   *)
(* generate, have reviewed and publish (routers/admin_simulations.py), and *)
(* the tests an operator's page draws from it and hands in                 *)
(* (routers/simulations.py).  The server keeps no memory of a draw: what   *)
(* the test was is what the page sends back.                               *)
(*                                                                         *)
(* A pool is written in one go, so it is made of blocks: all the rows of   *)
(* one write.  Two writes that overlap leave both their blocks, because    *)
(* the DELETE of each sees only the rows committed when it started.        *)
(***************************************************************************)
EXTENDS Naturals, FiniteSets, FiniteSetsExt

CONSTANTS Contents,  \* what a write may put in the pool: text, number of questions, all finished
          DrawCount, \* SIMULATION_QUESTION_COUNT
          MaxWrites, \* writes of the pool, generated or by hand
          MaxReviews, \* reviews of the pool asked for
          MaxDraws,  \* tests begun
          MaxSubs    \* tests handed in

ASSUME SimulationsAssumption ==
  /\ {DrawCount, MaxWrites, MaxReviews, MaxDraws, MaxSubs} \subseteq Nat
  /\ \A c \in Contents : c.size \in Nat \ {0} /\ c.finished \in BOOLEAN

Write == 1..MaxWrites
Sub == 1..MaxSubs
Admitted == {"draft", "published"}

VARIABLES
  status,     \* draft, published or deleted
  pool,       \* simulation_questions, as a set of blocks
  writing,    \* transactions that replace the pool: block, blocks deleted, status loaded
  publishing, \* update_status under way: pool counted, status loaded
  checked,    \* history: the pool the last publication counted
  reviewing,  \* reviews of the pool: what each has read
  report,     \* the stored review: what it read, and its fingerprint
  page,       \* the operator's page: number of the draw, questions, request awaited
  sub,        \* requests POST .../attempts; a stored one is the attempt
  count       \* writes and reviews so far

vars == <<status, pool, writing, publishing, checked, reviewing, report, page, sub, count>>

admin == <<status, pool, writing, publishing, checked, reviewing, report, count>>
operator == <<page, sub>>

NoSub == 0
NoReport == [there |-> FALSE, read |-> {}, print |-> {}]
NewSub == [phase |-> "free", draw |-> 0, asked |-> {}, graded |-> {}, lost |-> FALSE]
Refused(s) == [sub[s] EXCEPT !.phase = "failed", !.asked = {}, !.graded = {}]
Block(w, content, by, alone) == [write |-> w, content |-> content, by |-> by, alone |-> alone]

Init ==
  /\ status = "draft" /\ pool = {} /\ checked = {}
  /\ writing = {} /\ publishing = {} /\ reviewing = {}
  /\ report = NoReport
  /\ page = [draw |-> 0, questions |-> {}, awaits |-> NoSub]
  /\ sub = [s \in Sub |-> NewSub]
  /\ count = [writes |-> 0, reviews |-> 0]

PoolSize(p) == MapThenSumSet(LAMBDA b : b.content.size, p)

\* What update_status asks of a pool: enough questions, and none half written.
Whole(p) == PoolSize(p) >= DrawCount /\ \A b \in p : b.content.finished

drawn_count(p) == Min({DrawCount, PoolSize(p)})

\* The rows of a pool, each with what it asks.
Questions(p) ==
  UNION {{[write |-> b.write, n |-> n, content |-> b.content] : n \in 1..b.content.size} : b \in p}

\* simulation_review.fingerprint: what the questions say, not which rows they are.
Fingerprint(p) == {<<c, Cardinality({b \in p : b.content = c})>> : c \in {b.content : b \in p}}

---------------------------------------------------------------------------
(* The administrators.                                                     *)

\* Transactions that were under way together did not see each other.
Overlapped == writing' = {[w EXCEPT !.block.alone = FALSE] : w \in writing}

NewWrite(content, by) ==
  /\ count.writes < MaxWrites
  /\ count' = [count EXCEPT !.writes = @ + 1]
  /\ LET alone == writing = {} /\ publishing = {}
         block == Block(count'.writes, content, by, alone)
     IN writing' = {[w EXCEPT !.block.alone = FALSE] : w \in writing} \cup
                     {[block |-> block, seen |-> pool, loaded |-> status]}

\* save_questions and _store_questions up to their DELETE.
SaveBegins ==
  /\ status \in Admitted
  /\ \E content \in Contents, by \in {"human", "model"} : NewWrite(content, by)
  /\ UNCHANGED <<status, pool, publishing, checked, reviewing, report, operator>>

\* Broken on purpose: the rows are updated where they are, and keep their ids.
UpdatesInPlace(w) ==
  IF w.seen = {} THEN pool \cup {w.block}
  ELSE {[b EXCEPT !.content = w.block.content] : b \in pool \cap w.seen} \cup (pool \ w.seen)

\* The rows the DELETE saw give way to the new ones.
Replaced(w) == (pool \ w.seen) \cup {w.block}

\* Broken on purpose: the questions of the model are public where the old were.
CommitsQuestions(w) ==
  /\ writing' = writing \ {w}
  /\ pool' = Replaced(w)
  /\ UNCHANGED <<status, publishing, checked, reviewing, report, count, operator>>

\* Their commit.  A generation takes the simulation back to draft, which is an
\* UPDATE only if it had loaded it as published.
WriteCommits(w) ==
  /\ writing' = writing \ {w}
  /\ pool' = Replaced(w)
  /\ LET drafted == w.block.by = "model" /\ w.loaded = "published" IN
       /\ status' = IF drafted THEN "draft" ELSE status
       /\ checked' = IF drafted THEN {} ELSE checked
  /\ UNCHANGED <<publishing, reviewing, report, count, operator>>

\* update_status to published, up to its commit: the pool is counted.
PublishBegins ==
  /\ status \in Admitted
  /\ Whole(pool)
  /\ publishing = {} /\ publishing' = {[pool |-> pool, loaded |-> status]}
  /\ Overlapped
  /\ UNCHANGED <<status, pool, checked, reviewing, report, count, operator>>

PublishCommits(p) ==
  /\ publishing' = {}
  /\ status' = IF p.loaded = "draft" THEN "published" ELSE status
  /\ checked' = IF p.loaded = "draft" THEN p.pool ELSE checked
  /\ Overlapped
  /\ UNCHANGED <<pool, reviewing, report, count, operator>>

\* update_status to draft asks nothing.
Withdraw ==
  /\ status = "published" /\ status' = "draft" /\ checked' = {}
  /\ UNCHANGED <<pool, writing, publishing, reviewing, report, count, operator>>

\* _review_input: the pool and its fingerprint; then the connection is returned.
ReviewBegins ==
  /\ status \in Admitted /\ pool # {}
  /\ reviewing = {} /\ reviewing' = {pool}
  /\ count.reviews < MaxReviews /\ count' = [count EXCEPT !.reviews = @ + 1]
  /\ UNCHANGED <<status, pool, writing, publishing, checked, report, operator>>

ReviewFails(r) ==
  /\ reviewing' = reviewing \ {r}
  /\ UNCHANGED <<status, pool, writing, publishing, checked, report, count, operator>>

\* Broken on purpose: the fingerprint is that of the pool as it is now.
StoresPrintOfNow(r) ==
  /\ reviewing' = reviewing \ {r}
  /\ report' = [there |-> TRUE, read |-> Fingerprint(r), print |-> Fingerprint(pool)]
  /\ UNCHANGED <<status, pool, writing, publishing, checked, count, operator>>

\* _store_review: over whatever review was there, with the fingerprint taken
\* when the pool was read.
StoreReview(r) ==
  /\ reviewing' = reviewing \ {r}
  /\ report' = [there |-> TRUE, read |-> Fingerprint(r), print |-> Fingerprint(r)]
  /\ UNCHANGED <<status, pool, writing, publishing, checked, count, operator>>

\* delete_simulation: everything goes with the row, and whoever was about to
\* write finds nothing.
Delete ==
  /\ status \in Admitted /\ status' = "deleted"
  /\ pool' = {} /\ writing' = {} /\ publishing' = {} /\ reviewing' = {} /\ checked' = {}
  /\ report' = NoReport
  /\ sub' = [s \in Sub |-> IF sub[s].phase \in {"stored", "graded"}
                           THEN Refused(s) ELSE sub[s]]
  /\ UNCHANGED <<page, count>>

---------------------------------------------------------------------------
(* The operator.                                                           *)

NextSub(s) == sub[s].phase = "free" /\ \A u \in 1..(s - 1) : sub[u].phase # "free"

\* start_attempt, also of one who reloads the page mid-test.
Start ==
  /\ page.draw < MaxDraws /\ page.awaits = NoSub
  /\ status = "published" /\ pool # {}
  /\ \E drawn \in kSubset(drawn_count(pool), Questions(pool)) :
       page' = [page EXCEPT !.draw = @ + 1, !.questions = drawn]
  /\ UNCHANGED <<admin, sub>>

\* send: the questions of the page with the answers given, from the last
\* question or from "ripeti la consegna".
Submit(s) ==
  /\ page.questions # {} /\ page.awaits = NoSub
  /\ NextSub(s)
  /\ sub' = [sub EXCEPT ![s] = [NewSub EXCEPT !.phase = "asked", !.draw = page.draw,
                                              !.asked = page.questions]]
  /\ page' = [page EXCEPT !.awaits = s]
  /\ UNCHANGED admin

\* _submitted_questions: the rows with the ids handed in.
Found(s) ==
  {q \in Questions(pool) : \E a \in sub[s].asked : a.write = q.write /\ a.n = q.n}

\* _submitted: visible and published, every question still in the pool, and as
\* many as a test has now; the limit on corrections may refuse it too.
Read(s) ==
  /\ sub[s].phase = "asked"
  /\ \/ /\ status = "published" /\ pool # {}
        /\ Cardinality(Found(s)) = Cardinality(sub[s].asked)
        /\ Cardinality(sub[s].asked) = drawn_count(pool)
        /\ sub' = [sub EXCEPT ![s].phase = "graded", ![s].graded = Found(s)]
     \/ sub' = [sub EXCEPT ![s] = Refused(s)]
  /\ UNCHANGED <<admin, page>>

\* A judgement is missing, or none came: 502, and nothing is written.
GradingFails(s) ==
  /\ sub[s].phase = "graded"
  /\ sub' = [sub EXCEPT ![s] = Refused(s)]
  /\ UNCHANGED <<admin, page>>

\* Broken on purpose: stored, and then answered with an error.
StoresAndFails(s) ==
  /\ sub[s].phase = "graded"
  /\ sub' = [sub EXCEPT ![s].phase = "stored"]
  /\ page' = IF page.awaits = s THEN [page EXCEPT !.awaits = NoSub] ELSE page
  /\ UNCHANGED admin

\* _store_attempt looks the simulation up again, and nothing else.
StoreAttempt(s) ==
  /\ sub[s].phase = "graded"
  /\ sub' = [sub EXCEPT ![s] = IF status = "published" THEN [@ EXCEPT !.phase = "stored"] ELSE Refused(s)]
  /\ UNCHANGED <<admin, page>>

\* onSuccess shows the result: there is nothing left to hand in.  An error
\* leaves the questions and the answers where they are.
Hear(s) ==
  /\ page.awaits = s /\ sub[s].phase \in {"stored", "failed"}
  /\ page' = [page EXCEPT !.awaits = NoSub,
                          !.questions = IF sub[s].phase = "stored" THEN {} ELSE @]
  /\ UNCHANGED <<admin, sub>>

\* The answer is lost: to the page, one more error.
Lose(s) ==
  /\ page.awaits = s
  /\ page' = [page EXCEPT !.awaits = NoSub]
  /\ sub' = [sub EXCEPT ![s].lost = TRUE]
  /\ UNCHANGED admin

---------------------------------------------------------------------------

AdminStep ==
  \/ SaveBegins \/ PublishBegins \/ Withdraw \/ ReviewBegins \/ Delete
  \/ \E w \in writing : WriteCommits(w)
  \/ \E p \in publishing : PublishCommits(p)
  \/ \E r \in reviewing : ReviewFails(r) \/ StoreReview(r)

OperatorStep ==
  \/ Start
  \/ \E s \in Sub : \/ Submit(s) \/ Read(s) \/ GradingFails(s) \/ StoreAttempt(s)
                    \/ Hear(s) \/ Lose(s)

Next == AdminStep \/ OperatorStep

Spec == Init /\ [][Next]_vars

---------------------------------------------------------------------------

BlockType == [write : Write, content : Contents, by : {"human", "model"}, alone : BOOLEAN]
QuestionType == {q \in [write : Write, n : Nat, content : Contents] : q.n \in 1..q.content.size}
WriteType == [block : BlockType, seen : SUBSET BlockType, loaded : Admitted]
PublicationType == [pool : SUBSET BlockType, loaded : Admitted]
PageType == [draw : 0..MaxDraws, questions : SUBSET QuestionType, awaits : Sub \cup {NoSub}]
SubType == [phase : {"free", "asked", "graded", "stored", "failed"}, draw : 0..MaxDraws,
            asked : SUBSET QuestionType, graded : SUBSET QuestionType, lost : BOOLEAN]

\* The shape of the state; nothing is left of a deleted simulation.
TypeOK ==
  /\ status \in Admitted \cup {"deleted"}
  /\ pool \subseteq BlockType /\ checked \subseteq BlockType
  /\ writing \subseteq WriteType /\ publishing \subseteq PublicationType
  /\ reviewing \subseteq SUBSET BlockType
  /\ report.there \in BOOLEAN
  /\ page \in PageType /\ sub \in [Sub -> SubType]
  /\ count \in [writes : 0..MaxWrites, reviews : 0..MaxReviews]
  /\ status = "deleted" => pool = {} /\ ~report.there /\ \A s \in Sub : sub[s].phase # "stored"

\* What an attempt was graded on is what its page showed, however the pool was
\* rewritten between the draw, the reading and the writing.
GradedAsAsked ==
  /\ TypeOK
  /\ \A s \in Sub : sub[s].phase = "stored" => sub[s].graded = sub[s].asked

\* A review that does not call itself stale is about the questions that are
\* there (simulation_review.is_stale), whatever was saved while it was made.
ReviewIsOfThisPool ==
  report.there /\ report.print = Fingerprint(pool) => report.read = Fingerprint(pool)

\* A simulation becomes public on a pool that was whole when it was counted.
PublishedWasWhole == status = "published" => Whole(checked)

\* Questions the model wrote are public only if a publication counted them, or
\* was under way while they were being stored.
GeneratedIsReadFirst ==
  status = "published" => \A b \in pool : b.by = "model" /\ b.alone => b.write \in {c.write : c \in checked}

\* What operators are given to do was counted, and read by whoever published it.
PublishedWasRead == PublishedWasWhole /\ GeneratedIsReadFirst

\* One draw makes two attempts only if the answer of the first was lost.
TwiceOnlyIfLost ==
  \A s, u \in Sub :
    s # u /\ sub[s].phase = "stored" /\ sub[u].phase = "stored" /\ sub[s].draw = sub[u].draw
      => sub[s].lost \/ sub[u].lost
=============================================================================
