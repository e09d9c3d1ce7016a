-------------------------- MODULE SimulationRunner --------------------------
(***************************************************************************)
(* The page on which a test is taken (SimulationRunner.tsx): the share of  *)
(* the screen it may ask for first (screenRecording.ts), the questions the *)
(* server draws, the answers, the submission, and the video that goes up   *)
(* after it.  The browser's prompt, the draw, the submission, the close of *)
(* the file and every upload are awaited, and meanwhile the operator may   *)
(* stop the share, click again, start over or leave, and whoever prepared  *)
(* the test may change whether it is recorded.                             *)
(***************************************************************************)
EXTENDS Naturals, FiniteSets

CONSTANTS MaxShares,    \* screens that are asked for
          MaxTests,     \* draws of questions
          MaxAttempts,  \* attempts the server stores
          Length        \* questions of a draw

ASSUME RunnerAssumption ==
  {MaxShares, MaxTests, MaxAttempts, Length} \subseteq Nat \ {0}

Share == 1..MaxShares
Test == 1..MaxTests
Attempt == 1..MaxAttempts
Question == 0..(Length - 1)
None == 0

VARIABLES
  view,     \* the state and the refs of the page
  share,    \* each screen that was asked for
  closing,  \* the submissions that await the end of a recording
  uploads,  \* the videos under way
  attempt,  \* what the server stored
  records   \* records_screen of the test

runnerVars == <<view, share, closing, uploads, attempt, records>>

RunnerInit ==
  /\ \E timed \in BOOLEAN :
       view = [mounted |-> TRUE, timed |-> timed, tests |-> 0, deaf |-> FALSE,
               cut |-> FALSE, taped |-> FALSE,
               ref |-> None, test |-> None, index |-> 0, reached |-> 0, answers |-> {},
               of |-> None, sent |-> {}, result |-> None, expected |-> FALSE,
               recording |-> "undefined", tape |-> None,
               interrupted |-> FALSE, autoSent |-> FALSE,
               draw |-> "idle", submit |-> "idle", upload |-> "idle"]
  /\ share = [s \in Share |-> [pc |-> "none", video |-> "none", test |-> None,
                               stray |-> FALSE, left |-> FALSE]]
  /\ closing = {} /\ uploads = {}
  /\ attempt = [a \in Attempt |-> [test |-> None, video |-> None, again |-> FALSE]]
  /\ records \in BOOLEAN

---------------------------------------------------------------------------
(* The recorder of a shared screen.                                        *)

Capturing(s) == share[s].pc \in {"on", "stopping", "ended"}

Thrown == [pc |-> "done", video |-> "nothing", test |-> None, stray |-> FALSE, left |-> FALSE]

\* cancel: everything is thrown away.
Cancelled(s) ==
  IF s # None /\ Capturing(s) THEN [share EXCEPT ![s] = Thrown] ELSE share

Stopped(s) == IF share[s].pc = "on" THEN [share EXCEPT ![s].pc = "stopping"] ELSE share

\* onstop writes the file, if anything was captured; onerror leaves none.
RecorderStops(s) ==
  /\ share[s].pc \in {"stopping", "ended"}
  /\ \/ share' = [share EXCEPT ![s].pc = "done", ![s].video = "file"]
     \/ share' = [share EXCEPT ![s] = Thrown]
  /\ UNCHANGED <<view, closing, uploads, attempt, records>>

RecorderFails(s) ==
  /\ Capturing(s)
  /\ share' = [share EXCEPT ![s] = Thrown]
  /\ UNCHANGED <<view, closing, uploads, attempt, records>>

---------------------------------------------------------------------------
(* Asking for the screen, then for the questions.                          *)

OnIntro == view.mounted /\ view.test = None /\ view.result = None /\ view.draw # "pending"

\* A share that was not the only one asked for or captured, or that was asked for
\* while "begin" was clicked again, is "stray": what becomes of it is nobody's.
Stray(s) == [share[s] EXCEPT !.stray = TRUE, !.test = None]

Begin ==
  /\ OnIntro /\ ~records
  /\ view' = [view EXCEPT !.draw = "pending"]
  /\ share' = [s \in Share |-> IF share[s].pc = "asked" THEN Stray(s) ELSE share[s]]
  /\ UNCHANGED <<closing, uploads, attempt, records>>

BeginRecorded(s) ==
  /\ OnIntro /\ records
  /\ share[s].pc = "none" /\ (s > 1 => share[s - 1].pc # "none")
  /\ LET others == {r \in Share : share[r].pc = "asked" \/ Capturing(r)} IN
     share' = [r \in Share |->
       IF r = s THEN [share[r] EXCEPT !.pc = "asked", !.stray = (others # {})]
       ELSE IF r \in others THEN Stray(r) ELSE share[r]]
  /\ UNCHANGED <<view, closing, uploads, attempt, records>>

\* Refused, a window instead of the screen, or a browser that cannot.
ShareRefused(s) ==
  /\ share[s].pc = "asked"
  /\ share' = [share EXCEPT ![s] = Thrown]
  /\ UNCHANGED <<view, closing, uploads, attempt, records>>

\* A screen given to a page that is gone is stray too.
ShareGranted(s) ==
  /\ share[s].pc = "asked"
  /\ share' = [share EXCEPT ![s].pc = "on", ![s].stray = @ \/ ~view.mounted]
  /\ view' = [view EXCEPT !.ref = s, !.draw = "pending"]
  /\ UNCHANGED <<closing, uploads, attempt, records>>

\* A draw that fails does not reset the flag of a share that was stopped: once it
\* is set the page is "deaf", and no later share's end makes it change again.
Drawn ==
  /\ view.mounted /\ view.draw = "pending" /\ view.tests < MaxTests
  /\ view' = [view EXCEPT !.draw = "idle", !.tests = @ + 1, !.test = view.tests + 1,
                          !.deaf = view.interrupted, !.cut = FALSE]
  /\ share' = IF view.ref = None THEN share
              ELSE [share EXCEPT ![view.ref].test = IF share[view.ref].stray THEN None
                                                    ELSE view.tests + 1]
  /\ UNCHANGED <<closing, uploads, attempt, records>>

\* Broken on purpose: the page lets go of the recorder without stopping it.
DrawFailsQuietly ==
  /\ view.mounted /\ view.draw = "pending"
  /\ view' = [view EXCEPT !.draw = "idle", !.ref = None]
  /\ UNCHANGED <<share, closing, uploads, attempt, records>>

DrawFails ==
  /\ view.mounted /\ view.draw = "pending"
  /\ view' = [view EXCEPT !.draw = "idle", !.ref = None]
  /\ share' = Cancelled(view.ref)
  /\ UNCHANGED <<closing, uploads, attempt, records>>

---------------------------------------------------------------------------
(* The questions.                                                          *)

OnTest == view.mounted /\ view.test # None /\ view.result = None

Answering == OnTest /\ view.submit = "idle"

\* send, with the answers it is given; the others are blank.
Send(p, answers) ==
  [p EXCEPT !.submit = "pending", !.of = p.test,
            !.sent = {q \in Question : <<p.test, q>> \in answers}]

Shown(p, target) ==
  [p EXCEPT !.index = target, !.reached = IF target > @ THEN target ELSE @]

\* Broken on purpose: the submission reads the answers of the last render.
ChooseStale ==
  /\ Answering /\ view.timed
  /\ LET given == view.answers \cup {<<view.test, view.index>>}
         p == [view EXCEPT !.answers = given] IN
     view' = IF view.index + 1 < Length THEN Shown(p, view.index + 1)
             ELSE Send(p, view.answers)
  /\ UNCHANGED <<share, closing, uploads, attempt, records>>

\* handleChoice, by a click or by the clock: the answer and the way on.
Choose ==
  /\ Answering /\ view.timed
  /\ LET given == view.answers \cup {<<view.test, view.index>>}
         p == [view EXCEPT !.answers = given] IN
     view' = IF view.index + 1 < Length THEN Shown(p, view.index + 1) ELSE Send(p, given)
  /\ UNCHANGED <<share, closing, uploads, attempt, records>>

\* handleGiven, at every change of a question without a clock.
Give ==
  /\ Answering /\ ~view.timed
  /\ view' = [view EXCEPT !.answers = @ \cup {<<view.test, view.index>>}]
  /\ UNCHANGED <<share, closing, uploads, attempt, records>>

NextQuestion ==
  /\ Answering /\ ~view.timed
  /\ view' = IF view.index + 1 < Length THEN Shown(view, view.index + 1)
             ELSE Send(view, view.answers)
  /\ UNCHANGED <<share, closing, uploads, attempt, records>>

\* Back, or a mark of the bar: only to a question that was reached.
GoTo(target) ==
  /\ Answering /\ ~view.timed /\ target <= view.reached /\ target # view.index
  /\ view' = Shown(view, target)
  /\ UNCHANGED <<share, closing, uploads, attempt, records>>

\* The operator stops sharing.  The first time, what was answered is submitted at
\* once by the effect that follows.  "cut" is history: the share at hand was
\* stopped while its questions were on screen.
ShareEnds(s) ==
  /\ share[s].pc \in {"on", "stopping"}
  /\ share' = [share EXCEPT ![s].pc = "ended"]
  /\ LET seen == [view EXCEPT !.cut = @ \/ (s = view.ref /\ OnTest)]
         p == [seen EXCEPT !.interrupted = TRUE, !.autoSent = TRUE] IN
     view' = IF ~view.mounted \/ view.interrupted THEN seen
             ELSE IF ~view.autoSent /\ OnTest /\ view.submit # "pending" THEN Send(p, view.answers) ELSE p
  /\ UNCHANGED <<closing, uploads, attempt, records>>

---------------------------------------------------------------------------
(* The submission.                                                         *)

RetrySubmit ==
  /\ OnTest /\ view.submit = "error"
  /\ view' = Send(view, view.answers)
  /\ UNCHANGED <<share, closing, uploads, attempt, records>>

Stores(a) ==
  /\ attempt[a].test = None /\ (a > 1 => attempt[a - 1].test # None)
  /\ attempt' = [attempt EXCEPT ![a] = [test |-> view.of, video |-> None, again |-> FALSE]]

\* What was sent is no longer needed, nor the answers once a result shows.
Asked(outcome) == [view EXCEPT !.submit = outcome, !.of = None, !.sent = {}]

\* The result shows, and uploadRecording takes the recorder and stops it.
Submitted(a) ==
  /\ view.mounted /\ view.submit = "pending" /\ Stores(a)
  /\ view' = [Asked("success") EXCEPT !.result = a, !.expected = records, !.ref = None,
                                      !.taped = view.ref # None, !.answers = {},
                                      !.index = 0, !.reached = 0]
  /\ IF view.ref = None THEN UNCHANGED <<share, closing>>
     ELSE /\ share' = Stopped(view.ref)
          /\ closing' = closing \cup
                          {[attempt |-> a, share |-> view.ref, expected |-> records]}
  /\ UNCHANGED <<uploads, records>>

\* The answer is lost, or nobody is there to read it.
SubmitLost(a) ==
  /\ view.submit = "pending" /\ Stores(a)
  /\ view' = Asked("error")
  /\ UNCHANGED <<share, closing, uploads, records>>

SubmitFails ==
  /\ view.submit = "pending"
  /\ view' = Asked("error")
  /\ UNCHANGED <<share, closing, uploads, attempt, records>>

---------------------------------------------------------------------------
(* The video.                                                              *)

Unwatched == {[u EXCEPT !.watched = FALSE] : u \in uploads}

\* upload.mutate: the page follows the last one it began.  "again" is history:
\* an upload repeated by hand.
Upload(a, s, expected, again) ==
  uploads' = Unwatched \cup
    {[attempt |-> a, share |-> s, expected |-> expected, watched |-> TRUE, again |-> again]}

\* Broken on purpose: what came to nothing is not told.
ClosedWithFile(c) ==
  /\ share[c.share].pc = "done" /\ closing' = closing \ {c}
  /\ IF share[c.share].video = "file"
     THEN /\ Upload(c.attempt, c.share, c.expected, FALSE)
          /\ view' = IF ~view.mounted THEN view
                     ELSE [view EXCEPT !.recording = "video", !.tape = c.share,
                                       !.upload = "pending"]
     ELSE UNCHANGED <<view, uploads>>
  /\ UNCHANGED <<share, attempt, records>>

\* uploadRecording goes on when the recorder has closed the file.  It gives the
\* video to the attempt it was called for, and to the page as that is now: if the
\* page was emptied meanwhile, the video of the test before is "left" there.
Closed(c) ==
  /\ share[c.share].pc = "done" /\ closing' = closing \ {c}
  /\ share' = IF view.mounted /\ view.result # c.attempt
              THEN [share EXCEPT ![c.share].left = TRUE] ELSE share
  /\ IF share[c.share].video = "file"
     THEN /\ Upload(c.attempt, c.share, c.expected, FALSE)
          /\ view' = IF ~view.mounted THEN view
                     ELSE [view EXCEPT !.recording = "video", !.tape = c.share,
                                       !.upload = "pending"]
     ELSE /\ UNCHANGED uploads
          /\ view' = IF ~view.mounted THEN view
                     ELSE [view EXCEPT !.recording = "nothing", !.tape = None]
  /\ UNCHANGED <<attempt, records>>

RetryUpload ==
  /\ view.mounted /\ view.result # None /\ view.expected
  /\ view.recording = "video" /\ view.upload \in {"idle", "error"}
  /\ Upload(view.result, view.tape, view.expected, TRUE)
  /\ view' = [view EXCEPT !.upload = "pending"]
  /\ UNCHANGED <<share, closing, attempt, records>>

Followed(u, outcome) ==
  view' = IF view.mounted /\ u.watched THEN [view EXCEPT !.upload = outcome] ELSE view

\* The server takes the video of an attempt that expects one, in place of the one
\* it had.
UploadStored(u) ==
  /\ u.expected
  /\ attempt' = [attempt EXCEPT ![u.attempt].video = u.share, ![u.attempt].again = u.again]
  /\ uploads' = uploads \ {u}
  /\ \E outcome \in {"success", "error"} : Followed(u, outcome)
  /\ UNCHANGED <<share, closing, records>>

UploadFails(u) ==
  /\ uploads' = uploads \ {u} /\ Followed(u, "error")
  /\ UNCHANGED <<share, closing, attempt, records>>

---------------------------------------------------------------------------

\* Broken on purpose: the video of the test before stays at hand.
EmptiedButVideo ==
  [view EXCEPT !.ref = None, !.test = None, !.index = 0, !.reached = 0, !.answers = {},
     !.of = None, !.sent = {}, !.result = None, !.expected = FALSE, !.interrupted = FALSE,
     !.autoSent = FALSE, !.draw = "idle", !.submit = "idle", !.upload = "idle",
     !.deaf = FALSE, !.cut = FALSE, !.taped = FALSE]

\* The page as it was when it opened.
Emptied ==
  [view EXCEPT !.ref = None, !.test = None, !.index = 0, !.reached = 0, !.answers = {},
     !.of = None, !.sent = {}, !.result = None, !.expected = FALSE,
     !.recording = "undefined", !.tape = None,
     !.interrupted = FALSE, !.autoSent = FALSE, !.draw = "idle", !.submit = "idle",
     !.upload = "idle", !.deaf = FALSE, !.cut = FALSE, !.taped = FALSE]

\* Broken on purpose: an effect that has fired stays fired.
RestartStillSent ==
  /\ view.mounted /\ view.result # None
  /\ share' = Cancelled(view.ref) /\ uploads' = Unwatched
  /\ view' = [Emptied EXCEPT !.autoSent = view.autoSent]
  /\ UNCHANGED <<closing, attempt, records>>

Restart ==
  /\ view.mounted /\ view.result # None
  /\ share' = Cancelled(view.ref) /\ uploads' = Unwatched
  /\ view' = Emptied
  /\ UNCHANGED <<closing, attempt, records>>

\* What was pending goes on, and finds nobody.
Leave ==
  /\ view.mounted
  /\ view' = [Emptied EXCEPT !.mounted = FALSE, !.timed = TRUE, !.tests = 0,
                             !.ref = view.ref, !.submit = view.submit, !.of = view.of,
                             !.sent = view.sent]
  /\ share' = Cancelled(view.ref)
  /\ UNCHANGED <<closing, uploads, attempt, records>>

\* The super admin changes the test.
ChangesRecords ==
  /\ records' = ~records
  /\ UNCHANGED <<view, share, closing, uploads, attempt>>

ShareStep(s) ==
  \/ BeginRecorded(s) \/ ShareRefused(s) \/ ShareGranted(s) \/ ShareEnds(s)
  \/ RecorderStops(s) \/ RecorderFails(s)

AnswerStep == Choose \/ Give \/ NextQuestion \/ \E q \in Question : GoTo(q)

SubmitStep ==
  \/ RetrySubmit \/ SubmitFails
  \/ \E a \in Attempt : Submitted(a) \/ SubmitLost(a)

VideoStep ==
  \/ \E c \in closing : Closed(c)
  \/ RetryUpload
  \/ \E u \in uploads : UploadStored(u) \/ UploadFails(u)

RunnerNext ==
  \/ Begin \/ Drawn \/ DrawFails \/ AnswerStep \/ SubmitStep \/ VideoStep
  \/ Restart \/ Leave \/ ChangesRecords
  \/ \E s \in Share : ShareStep(s)

\* Whatever the operator does, the browser goes on with the files, the awaits and
\* the uploads that are under way.
Background ==
  \/ \E s \in Share : RecorderStops(s)
  \/ \E c \in closing : Closed(c)
  \/ \E u \in uploads : UploadStored(u) \/ UploadFails(u)

RunnerFairness == WF_runnerVars(Background)

RunnerSpec == RunnerInit /\ [][RunnerNext]_runnerVars
RunnerFairSpec == RunnerSpec /\ RunnerFairness

---------------------------------------------------------------------------

ViewType ==
  [mounted : BOOLEAN, timed : BOOLEAN, tests : 0..MaxTests, deaf : BOOLEAN,
   cut : BOOLEAN, taped : BOOLEAN, ref : Share \cup {None}, test : Test \cup {None},
   index : Question, reached : Question, answers : SUBSET (Test \X Question),
   of : Test \cup {None}, sent : SUBSET Question, result : Attempt \cup {None},
   expected : BOOLEAN,
   recording : {"undefined", "nothing", "video"}, tape : Share \cup {None},
   interrupted : BOOLEAN, autoSent : BOOLEAN, draw : {"idle", "pending"},
   submit : {"idle", "pending", "error", "success"},
   upload : {"idle", "pending", "error", "success"}]

ShareType ==
  [pc : {"none", "asked", "on", "stopping", "ended", "done"},
   video : {"none", "file", "nothing"}, test : Test \cup {None}, stray : BOOLEAN,
   left : BOOLEAN]

RunnerTypeOK ==
  /\ view \in ViewType
  /\ share \in [Share -> ShareType]
  /\ closing \subseteq [attempt : Attempt, share : Share, expected : BOOLEAN]
  /\ uploads \subseteq
       [attempt : Attempt, share : Share, expected : BOOLEAN, watched : BOOLEAN, again : BOOLEAN]
  /\ attempt \in [Attempt -> [test : Test \cup {None}, video : Share \cup {None}, again : BOOLEAN]]
  /\ records \in BOOLEAN
  /\ Cardinality({u \in uploads : u.watched}) <= 1
  /\ view.index <= view.reached

\* A screen is captured only under a page that can stop it.  Two ways out are
\* known: a screen given to a page that was left during the prompt, and two
\* prompts at once.
ScreenInReach ==
  /\ RunnerTypeOK
  /\ \A s \in Share :
       (share[s].pc = "on" /\ ~share[s].stray) => view.mounted /\ view.ref = s

\* "If the operator stops the share, the test is submitted at that instant with the
\* answers there are" (SimulationRunner.tsx:90-92): so it is when the share at hand
\* is stopped while its questions are on screen.  One way out is known: a share
\* stopped earlier, before any questions came, has left the page deaf, as when its
\* draw failed and "begin" was clicked again (174-179, 244-247).
InterruptedIsSent == (OnTest /\ view.cut /\ ~view.deaf) => view.submit # "idle"

\* What is stored is everything the operator has answered in that test when the
\* server stores it, whichever of the last question, the stop of the share and a
\* retry sent it.
GivenIsStored ==
  [][\A a \in Attempt :
       (attempt[a].test = None /\ attempt'[a].test # None /\ view.mounted)
         => view.sent = {q \in Question : <<view.of, q>> \in view.answers}]_runnerVars

\* The video of an attempt is the one of its own test: what the page sends by
\* itself always is, even when the page was emptied while the file was being closed.
\* What is sent again by hand is too, with one exception: the video left by that
\* very restart on a page that now shows another attempt (283-285, 437).  Of a
\* stray share there is nothing to say.
VideoOfItsTest ==
  /\ \A c \in closing :
       \/ share[c.share].test = attempt[c.attempt].test
       \/ share[c.share].stray \/ share[c.share].video = "nothing"
  /\ \A a \in Attempt :
       LET s == attempt[a].video IN
       s # None => \/ share[s].test = attempt[a].test
                   \/ share[s].stray
                   \/ share[s].left /\ attempt[a].again

\* What became of the video is told: after a test that had a recorder and that the
\* server wants the video of, the page comes to say that it is stored, that it
\* failed or that there is none (430-438).
VideoIsTold ==
  (view.mounted /\ view.result # None /\ view.expected /\ view.taped)
    ~> \/ view.recording = "nothing"
       \/ view.recording = "video" /\ view.upload \in {"success", "error"}
       \/ view.result = None \/ ~view.mounted
=============================================================================
