--------------------------- MODULE VoicePipeline ---------------------------
(***************************************************************************)
(* One phone call of backend/voice_pipeline.py: the loops that read the    *)
(* speech recogniser (STT) and the synthesiser (TTS), the grace window     *)
(* that glues split commits together, the assistant turns, and the         *)
(* teardown of run().                                                      *)
(*                                                                         *)
(* Everything runs on one asyncio event loop, so an action is the code     *)
(* between two awaits, and every await is a place where the other tasks    *)
(* may run.  Sends to the browser go through _send_lock, an asyncio.Lock   *)
(* that serves its waiters in order; the TTS socket does the same.         *)
(* A spoken commit is a number, its words are abstracted away; an          *)
(* assistant reply is the number of deltas received so far.                *)
(***************************************************************************)
EXTENDS Naturals, Sequences

CONSTANTS MaxCommits,  \* bound: commits the STT delivers in the call
          MaxDeltas    \* bound: pieces of text in one assistant reply

ASSUME BoundsAssumption == MaxCommits \in Nat \ {0} /\ MaxDeltas \in Nat \ {0}

Commit == 1..MaxCommits
Turn   == 1..MaxCommits      \* turns are numbered by the first commit's timer
NoTurn == 0

\* Who may be inside _cancel_turn or _fire_pending: the STT loop, a settle
\* task whose window has closed (named by the turn it carries), and run().
Stt    == 0
Run    == MaxCommits + 1
Caller == 0..(MaxCommits + 1)

Lock   == {"browser", "tts"}
Waiter == ({"caller"} \X Caller) \cup ({"turn"} \X Turn) \cup {<<"ttsLoop", 0>>}
C(p)   == <<"caller", p>>
T(t)   == <<"turn", t>>
L      == <<"ttsLoop", 0>>

CallerPc == {"idle", "echo", "dropTurn", "dropAudio", "flushText", "flush",
             "held", "announce", "marking", "dead"}
TurnPc   == {"none", "created", "streaming", "closing", "done"}
TtsPc    == {"idle", "start", "audio", "end", "dead"}

VARIABLES
  run,          \* run(): "up", "stopping" (gather), "closing" (finally), "ended"
  call,         \* what each caller is awaiting, and the speech it carries
  heard,        \* commits the STT has delivered
  turnCount,    \* _turn_count
  pendingTurn,  \* _pending_timer: the turn being assembled, NoTurn for None
  pendingText,  \* _pending_text: the commits glued so far
  settle,       \* _settle_task is counting down
  turnTask,     \* _turn_task
  turn,         \* every turn's task: pc, text produced, cancellation requested
  turnText,     \* _turn_text
  active,       \* _active_context, named by the turn that opened it
  speaking,     \* _speaking
  tts,          \* _tts_loop: what it is awaiting, for which context
  line, ahead,  \* the two locks' waiters and, for each, who is in front
  history,      \* self.history, as said during the call
  writing,      \* _bg_tasks: entries whose thread has not committed yet
  rows,         \* chat_messages, in the order the threads commit
  ended         \* conversation.ended_at is set

speech == <<turnCount, pendingTurn, pendingText, settle>>
queues == <<line, ahead>>
record == <<history, writing, rows>>
vars   == <<run, call, heard, turnCount, pendingTurn, pendingText, settle,
            turnTask, turn, turnText, active, speaking, tts, line, ahead,
            history, writing, rows, ended>>

Quiet == [pc |-> "idle", turn |-> NoTurn, text |-> {}, on |-> NoTurn, cut |-> FALSE]

Init ==
  /\ run = "up" /\ heard = 0 /\ ended = FALSE
  /\ call = [p \in Caller |-> Quiet]
  /\ turnCount = 0 /\ pendingTurn = NoTurn /\ pendingText = {} /\ settle = FALSE
  /\ turnTask = NoTurn /\ turnText = 0
  /\ turn = [t \in Turn |-> [pc |-> "none", said |-> 0, killed |-> FALSE]]
  /\ active = NoTurn /\ speaking = FALSE
  /\ tts = [pc |-> "idle", ctx |-> NoTurn, last |-> FALSE]
  /\ line = [l \in Lock |-> {}] /\ ahead = [w \in Waiter |-> {}]
  /\ history = <<>> /\ writing = {} /\ rows = <<>>

---------------------------------------------------------------------------
(* The locks: a waiter is served when nobody who came earlier is left.     *)

Served(l, w) == w \in line[l] /\ ahead[w] = {}

\* w stops waiting for whatever it waited for and asks for lock l.
Ask(w, l) ==
  /\ line' = [k \in Lock |-> IF k = l THEN line[k] \cup {w} ELSE line[k] \ {w}]
  /\ ahead' = [v \in Waiter |-> IF v = w THEN line[l] \ {w} ELSE ahead[v] \ {w}]

\* The waiters in ws stop waiting, because they were served or cancelled.
Quit(ws) ==
  /\ line' = [k \in Lock |-> line[k] \ ws]
  /\ ahead' = [v \in Waiter |-> IF v \in ws THEN {} ELSE ahead[v] \ ws]

---------------------------------------------------------------------------
(* history.append(...) followed by _persist(...): the memory is updated at *)
(* once, the row is written by a thread nobody waits for.                  *)

Entry(role, t, text, said) == [role |-> role, turn |-> t, text |-> text, said |-> said]

Remember(entry) ==
  /\ history' = Append(history, entry)
  /\ writing' = writing \cup {Len(history) + 1}
  /\ UNCHANGED rows

RememberReply(t) ==
  IF turn[t].said > 0
  THEN Remember(Entry("assistant", t, {}, turn[t].said))
  ELSE UNCHANGED record

\* _persist_message in its thread: the commit, or the exception it swallows.
PersistCommits(i) ==
  /\ i \in writing
  /\ writing' = writing \ {i} /\ rows' = Append(rows, i)
  /\ UNCHANGED <<run, call, heard, speech, turnTask, turn, turnText, active,
                 speaking, tts, queues, history, ended>>

PersistFails(i) ==
  /\ i \in writing
  /\ writing' = writing \ {i}
  /\ UNCHANGED <<run, call, heard, speech, turnTask, turn, turnText, active,
                 speaking, tts, queues, history, rows, ended>>

---------------------------------------------------------------------------
(* _cancel_turn, from await to await.  r is the caller's own record.       *)

\* It returns: run() goes on to close the conversation, the STT loop to hold
\* the commit that interrupted, whoever is firing to send user_final.
Proceed(p, r) ==
  /\ turnText' = 0
  /\ \/ /\ p = Run
        /\ call' = [call EXCEPT ![p] = [Quiet EXCEPT !.pc = "marking"]]
        /\ Quit({C(p)})
     \/ /\ p = Stt /\ r.turn = NoTurn
        /\ call' = [call EXCEPT ![p] = [Quiet EXCEPT !.pc = "held"]]
        /\ Ask(C(p), "browser")
     \/ /\ p # Run /\ r.turn # NoTurn
        /\ call' = [call EXCEPT ![p] = [r EXCEPT !.pc = "announce", !.cut = FALSE]]
        /\ Ask(C(p), "browser")

\* No context may speak any more: tell the browser, if something was cut.
Silence(p, r, interrupted) ==
  /\ active' = NoTurn
  /\ \/ ~interrupted /\ UNCHANGED speaking /\ Proceed(p, r)
     \/ interrupted /\ p = Run /\ speaking' = FALSE /\ Proceed(p, r)
     \/ /\ interrupted /\ p # Run
        /\ speaking' = FALSE
        /\ call' = [call EXCEPT ![p] =
                      [r EXCEPT !.pc = IF r.cut /\ turnText > 0 THEN "flushText" ELSE "flush"]]
        /\ Ask(C(p), "browser")
        /\ UNCHANGED turnText

DropAudio(p, r) ==
  \/ /\ active # NoTurn
     /\ call' = [call EXCEPT ![p] = [r EXCEPT !.pc = "dropAudio"]]
     /\ Ask(C(p), "tts")
     /\ UNCHANGED <<active, speaking, turnText>>
  \/ /\ active = NoTurn
     /\ Silence(p, r, r.cut)

TurnAlive == turnTask # NoTurn /\ turn[turnTask].pc # "done"

CancelTurn(p, r) ==
  \/ /\ TurnAlive
     /\ turn' = [turn EXCEPT ![turnTask].killed = TRUE]
     /\ call' = [call EXCEPT ![p] = [r EXCEPT !.pc = "dropTurn", !.on = turnTask, !.cut = TRUE]]
     /\ Quit({C(p)})
     /\ UNCHANGED <<active, speaking, turnText>>
  \/ /\ ~TurnAlive
     /\ UNCHANGED turn
     /\ DropAudio(p, r)

\* Broken on purpose: the continuation replaces the text instead of joining it.
HoldReplaces(text) ==
  /\ pendingText' = text
  /\ IF pendingTurn = NoTurn
     THEN turnCount' = turnCount + 1 /\ pendingTurn' = turnCount + 1
     ELSE UNCHANGED <<turnCount, pendingTurn>>
  /\ UNCHANGED settle

\* The commit joins the pending turn, whose timer the first one creates.
Hold(text) ==
  /\ pendingText' = pendingText \cup text
  /\ IF pendingTurn = NoTurn
     THEN turnCount' = turnCount + 1 /\ pendingTurn' = turnCount + 1
     ELSE UNCHANGED <<turnCount, pendingTurn>>
  /\ UNCHANGED settle

HoldIfReached(p) ==
  IF call'[p].pc = "held" THEN Hold(call[p].text) ELSE UNCHANGED speech

Resuming(p) == UNCHANGED <<run, heard, turnTask, turn, tts, record, ended>> /\ HoldIfReached(p)

\* await self._turn_task
DropTurnEnds(p) ==
  /\ call[p].pc = "dropTurn" /\ turn[call[p].on].pc = "done"
  /\ DropAudio(p, call[p])
  /\ Resuming(p)

\* await self.tts.send(cancel_message(...)); the context dropped is the one
\* that is active now, whichever was active when the message left.
DropAudioEnds(p) ==
  /\ call[p].pc = "dropAudio" /\ Served("tts", C(p))
  /\ Silence(p, call[p], TRUE)
  /\ Resuming(p)

\* await self._send_json(assistant_end), the truncated bubble
FlushTextEnds(p) ==
  /\ call[p].pc = "flushText" /\ Served("browser", C(p))
  /\ call' = [call EXCEPT ![p].pc = "flush"]
  /\ Ask(C(p), "browser")
  /\ UNCHANGED <<run, heard, speech, turnTask, turn, turnText, active, speaking,
                 tts, record, ended>>

\* await self._send_json(interrupt)
FlushEnds(p) ==
  /\ call[p].pc = "flush" /\ Served("browser", C(p))
  /\ Proceed(p, call[p])
  /\ UNCHANGED <<active, speaking>>
  /\ Resuming(p)

---------------------------------------------------------------------------
(* _fire_pending                                                           *)

\* Broken on purpose: the buffer is not emptied before the first await...
FiresKeepingText(p) ==
  /\ settle' = FALSE /\ UNCHANGED <<pendingText, pendingTurn, turnCount>>
  /\ CancelTurn(p, [Quiet EXCEPT !.turn = pendingTurn, !.text = pendingText])

FirePending(p) ==
  /\ settle' = FALSE /\ pendingTurn' = NoTurn /\ pendingText' = {}
  /\ UNCHANGED turnCount
  /\ \/ /\ pendingTurn = NoTurn
        /\ call' = [call EXCEPT ![p] = Quiet]
        /\ Quit({C(p)})
        /\ UNCHANGED <<turn, active, speaking, turnText>>
     \/ /\ pendingTurn # NoTurn
        /\ CancelTurn(p, [Quiet EXCEPT !.turn = pendingTurn, !.text = pendingText])

\* await self._send_json(user_final), then the turn starts
AnnounceEnds(p) ==
  /\ call[p].pc = "announce" /\ Served("browser", C(p))
  /\ Remember(Entry("user", call[p].turn, call[p].text, 0))
  /\ turnTask' = call[p].turn
  /\ turn' = [turn EXCEPT ![call[p].turn].pc = "created"]
  /\ call' = [call EXCEPT ![p] = Quiet]
  /\ Quit({C(p)})
  /\ UNCHANGED <<run, heard, speech, turnText, active, speaking, tts, ended>>

\* The window passes untouched: _settle_then_fire detaches itself and fires.
SettleExpires ==
  /\ settle /\ pendingTurn # NoTurn
  /\ FirePending(pendingTurn)
  /\ UNCHANGED <<run, heard, turnTask, tts, record, ended>>

SettleExpiresEmpty ==
  /\ settle /\ pendingTurn = NoTurn
  /\ settle' = FALSE
  /\ UNCHANGED <<run, call, heard, turnCount, pendingTurn, pendingText, turnTask,
                 turn, turnText, active, speaking, tts, queues, record, ended>>

---------------------------------------------------------------------------
(* _stt_loop                                                               *)

\* Broken on purpose: more speech stops the window and does not restart it.
PartialStopsWindow ==
  /\ call[Stt].pc = "idle"
  /\ settle' = FALSE
  /\ call' = [call EXCEPT ![Stt].pc = "echo"]
  /\ Ask(C(Stt), "browser")
  /\ UNCHANGED <<run, heard, turnCount, pendingTurn, pendingText, turnTask, turn,
                 turnText, active, speaking, tts, record, ended>>

\* More speech while a commit is held pushes the window back.
SttPartial ==
  /\ call[Stt].pc = "idle"
  /\ settle' = (settle \/ pendingTurn # NoTurn)
  /\ call' = [call EXCEPT ![Stt].pc = "echo"]
  /\ Ask(C(Stt), "browser")
  /\ UNCHANGED <<run, heard, turnCount, pendingTurn, pendingText, turnTask, turn,
                 turnText, active, speaking, tts, record, ended>>

SttEchoed ==
  /\ call[Stt].pc = "echo" /\ Served("browser", C(Stt))
  /\ call' = [call EXCEPT ![Stt] = Quiet]
  /\ Quit({C(Stt)})
  /\ UNCHANGED <<run, heard, speech, turnTask, turn, turnText, active, speaking,
                 tts, record, ended>>

SttCommit ==
  /\ call[Stt].pc = "idle" /\ heard < MaxCommits
  /\ heard' = heard + 1
  /\ \/ /\ TurnAlive
        /\ CancelTurn(Stt, [Quiet EXCEPT !.text = {heard + 1}])
        /\ UNCHANGED speech
     \/ /\ ~TurnAlive
        /\ Hold({heard + 1})
        /\ call' = [call EXCEPT ![Stt] = [Quiet EXCEPT !.pc = "held"]]
        /\ Ask(C(Stt), "browser")
        /\ UNCHANGED <<turn, active, speaking, turnText>>
  /\ UNCHANGED <<run, turnTask, tts, record, ended>>

\* After the provisional bubble: _looks_complete fires at once...
SttFires ==
  /\ call[Stt].pc = "held" /\ Served("browser", C(Stt))
  /\ FirePending(Stt)
  /\ UNCHANGED <<run, heard, turnTask, tts, record, ended>>

\* Broken on purpose: an unfinished sentence opens no window.
WaitsForEver ==
  /\ call[Stt].pc = "held" /\ Served("browser", C(Stt))
  /\ call' = [call EXCEPT ![Stt] = Quiet]
  /\ Quit({C(Stt)})
  /\ UNCHANGED <<run, heard, speech, turnTask, turn, turnText, active, speaking,
                 tts, record, ended>>

\* ...anything else waits for a continuation.
SttWaits ==
  /\ call[Stt].pc = "held" /\ Served("browser", C(Stt))
  /\ settle' = TRUE
  /\ call' = [call EXCEPT ![Stt] = Quiet]
  /\ Quit({C(Stt)})
  /\ UNCHANGED <<run, heard, turnCount, pendingTurn, pendingText, turnTask, turn,
                 turnText, active, speaking, tts, record, ended>>

---------------------------------------------------------------------------
(* _run_turn                                                               *)

TurnOnly == UNCHANGED <<run, call, heard, speech, turnTask, speaking, tts, ended>>

TurnStarts(t) ==
  /\ turn[t].pc = "created" /\ ~turn[t].killed
  /\ turn' = [turn EXCEPT ![t].pc = "streaming"]
  /\ active' = t /\ turnText' = 0
  /\ UNCHANGED <<queues, record>> /\ TurnOnly

\* A piece of text, from the model or the fallback line, sent and spoken.
TurnSpeaks(t) ==
  /\ turn[t].pc = "streaming" /\ ~turn[t].killed /\ turn[t].said < MaxDeltas
  /\ turn' = [turn EXCEPT ![t].said = @ + 1]
  /\ turnText' = turn[t].said + 1
  /\ UNCHANGED <<active, queues, record>> /\ TurnOnly

\* The context is closed, the reply remembered; assistant_end is awaited.
TurnCompletes(t) ==
  /\ turn[t].pc = "streaming" /\ ~turn[t].killed
  /\ run \in {"up", "stopping"}          \* the TTS socket is still there
  /\ RememberReply(t)
  /\ turn' = [turn EXCEPT ![t].pc = "closing"]
  /\ turnText' = 0
  /\ Ask(T(t), "browser")
  /\ UNCHANGED active /\ TurnOnly

TurnEnds(t) ==
  /\ turn[t].pc = "closing" /\ Served("browser", T(t))
  /\ turn' = [turn EXCEPT ![t].pc = "done"]
  /\ Quit({T(t)})
  /\ UNCHANGED <<active, turnText, record>> /\ TurnOnly

\* CancelledError at the await the task is in; a task that never started
\* does not run its handler.
TurnKilled(t) ==
  /\ turn[t].pc \in {"created", "streaming", "closing"} /\ turn[t].killed
  /\ IF turn[t].pc = "created" THEN UNCHANGED record ELSE RememberReply(t)
  /\ turn' = [turn EXCEPT ![t].pc = "done"]
  /\ Quit({T(t)})
  /\ UNCHANGED <<active, turnText>> /\ TurnOnly

\* A send that raises (the socket fell): nothing is remembered.
TurnFails(t) ==
  /\ turn[t].pc = "streaming" /\ ~turn[t].killed
  /\ turn' = [turn EXCEPT ![t].pc = "done"]
  /\ UNCHANGED <<active, turnText, queues, record>> /\ TurnOnly

---------------------------------------------------------------------------
(* _tts_loop.  Only the active context gets through the filter; audio can  *)
(* come once the turn has spoken, the final event once it closed its       *)
(* context, and one event may carry both.                                  *)

TtsOnly == UNCHANGED <<run, call, heard, speech, turnTask, turn, turnText, record, ended>>

ContextClosed == turn[active].pc \in {"closing", "done"}

TtsAudio(last) ==
  /\ tts.pc = "idle" /\ active # NoTurn /\ turn[active].said > 0
  /\ last => ContextClosed
  /\ tts' = [pc |-> IF speaking THEN "audio" ELSE "start", ctx |-> active, last |-> last]
  /\ speaking' = TRUE
  /\ Ask(L, "browser")
  /\ UNCHANGED active /\ TtsOnly

\* await self._send_json(speaking_start)
TtsStarted ==
  /\ tts.pc = "start" /\ Served("browser", L)
  /\ tts' = [tts EXCEPT !.pc = "audio"]
  /\ Ask(L, "browser")
  /\ UNCHANGED <<active, speaking>> /\ TtsOnly

\* The context is finished: whatever context is active now is cleared.
ContextOver ==
  /\ active' = NoTurn /\ speaking' = FALSE
  /\ tts' = [pc |-> "end", ctx |-> NoTurn, last |-> FALSE]
  /\ Ask(L, "browser")

TtsAtRest == [pc |-> "idle", ctx |-> NoTurn, last |-> FALSE]

\* await self._send_audio(audio)
TtsAudioSent ==
  /\ tts.pc = "audio" /\ Served("browser", L)
  /\ \/ tts.last /\ ContextOver
     \/ ~tts.last /\ tts' = TtsAtRest /\ Quit({L}) /\ UNCHANGED <<active, speaking>>
  /\ TtsOnly

TtsFinal ==
  /\ tts.pc = "idle" /\ active # NoTurn /\ ContextClosed
  /\ ContextOver /\ TtsOnly

TtsError ==
  /\ tts.pc = "idle" /\ active # NoTurn
  /\ ContextOver /\ TtsOnly

\* await self._send_json(speaking_end)
TtsEndSent ==
  /\ tts.pc = "end" /\ Served("browser", L)
  /\ tts' = TtsAtRest /\ Quit({L})
  /\ UNCHANGED <<active, speaking>> /\ TtsOnly

---------------------------------------------------------------------------
(* run(): the first loop to finish ends the call.                          *)

\* asyncio.wait returns and every loop is cancelled.  A loop that is
\* awaiting the dying turn in _cancel_turn has its own CancelledError
\* swallowed by contextlib.suppress, and goes on.
CancelLoops(stt) ==
  /\ run' = "stopping"
  /\ tts' = [TtsAtRest EXCEPT !.pc = "dead"]
  /\ IF stt = "survives"
     THEN UNCHANGED call /\ Quit({L})
     ELSE call' = [call EXCEPT ![Stt] = [Quiet EXCEPT !.pc = "dead"]] /\ Quit({L, C(Stt)})

RunOnly == UNCHANGED <<heard, turnCount, pendingTurn, pendingText, turnTask, record>>

HangUp ==
  /\ run = "up"
  /\ CancelLoops(IF call[Stt].pc = "dropTurn" THEN "survives" ELSE "dies")
  /\ UNCHANGED <<settle, turn, turnText, active, speaking, ended>> /\ RunOnly

\* The STT socket closes, breaks or reports a fatal error.
SttEnds ==
  /\ call[Stt].pc = "idle"
  /\ \/ run = "up" /\ CancelLoops("dies")
     \/ /\ run = "stopping"
        /\ call' = [call EXCEPT ![Stt].pc = "dead"]
        /\ UNCHANGED <<run, tts, queues>>
  /\ UNCHANGED <<settle, turn, turnText, active, speaking, ended>> /\ RunOnly

\* gather() returns and the two provider sockets are closed.
RunStopped ==
  /\ run = "stopping" /\ call[Stt].pc = "dead"
  /\ run' = "closing"
  /\ UNCHANGED <<call, settle, turn, turnText, active, speaking, tts, queues, ended>>
  /\ RunOnly

\* finally: no held commit may fire any more, and the turn is cancelled.
RunFinally ==
  /\ run = "closing" /\ call[Run].pc = "idle"
  /\ settle' = FALSE
  /\ CancelTurn(Run, Quiet)
  /\ UNCHANGED <<run, tts, ended>> /\ RunOnly

\* await asyncio.to_thread(_mark_conversation_ended): it writes, or logs.
RunMarks ==
  /\ call[Run].pc = "marking"
  /\ run' = "ended" /\ call' = [call EXCEPT ![Run] = Quiet]
  /\ ended' \in {TRUE, ended}
  /\ UNCHANGED <<settle, turn, turnText, active, speaking, tts, queues>> /\ RunOnly

---------------------------------------------------------------------------
CallerStep(p) == DropTurnEnds(p) \/ DropAudioEnds(p) \/ FlushTextEnds(p)
                 \/ FlushEnds(p) \/ AnnounceEnds(p)
SttStep  == SttPartial \/ SttEchoed \/ SttCommit \/ SttFires \/ SttWaits
TurnStep(t) == TurnStarts(t) \/ TurnSpeaks(t) \/ TurnCompletes(t)
               \/ TurnEnds(t) \/ TurnKilled(t) \/ TurnFails(t)
TtsStep  == (\E last \in BOOLEAN : TtsAudio(last)) \/ TtsStarted \/ TtsAudioSent
            \/ TtsFinal \/ TtsError \/ TtsEndSent
RunStep  == RunStopped \/ RunFinally \/ RunMarks
Persists == \E i \in writing : PersistCommits(i) \/ PersistFails(i)

Next ==
  \/ \E p \in Caller : CallerStep(p)
  \/ SttStep
  \/ SettleExpires \/ SettleExpiresEmpty
  \/ \E t \in Turn : TurnStep(t)
  \/ TtsStep
  \/ HangUp \/ SttEnds \/ RunStep
  \/ Persists

Spec == Init /\ [][Next]_vars

\* What the event loop grants: a timer fires (the operator does pause), a task
\* whose await is over resumes, a socket accepts what it is sent, a thread
\* ends, a model stops talking.  The operator may be silent for ever and
\* nobody has to hang up.
Fairness ==
  /\ WF_vars(SettleExpires \/ SettleExpiresEmpty)
  /\ \A p \in Caller : WF_vars(CallerStep(p))
  /\ WF_vars(SttEchoed \/ SttFires \/ SttWaits)
  /\ \A t \in Turn : WF_vars(TurnStep(t))
  /\ WF_vars(TtsStarted \/ TtsAudioSent \/ TtsEndSent)
  /\ WF_vars(RunStep)
  /\ WF_vars(Persists)

FairSpec == Spec /\ Fairness

\* The recogniser hangs up on a caller that sends it no more audio.
SttGivesUp == SF_vars(run = "stopping" /\ SttEnds)

---------------------------------------------------------------------------
(* What is checked.                                                        *)

CallType  == [pc : CallerPc, turn : Turn \cup {NoTurn}, text : SUBSET Commit,
              on : Turn \cup {NoTurn}, cut : BOOLEAN]
TurnType  == [pc : TurnPc, said : 0..MaxDeltas, killed : BOOLEAN]
EntryType == [role : {"user", "assistant"}, turn : Turn, text : SUBSET Commit, said : 0..MaxDeltas]

\* Every variable of the call holds a value of its shape.
TypeOK ==
  /\ run \in {"up", "stopping", "closing", "ended"} /\ ended \in BOOLEAN
  /\ call \in [Caller -> CallType]
  /\ heard \in 0..MaxCommits /\ turnCount \in 0..MaxCommits
  /\ pendingTurn \in Turn \cup {NoTurn} /\ pendingText \in SUBSET Commit /\ settle \in BOOLEAN
  /\ turnTask \in Turn \cup {NoTurn} /\ turnText \in 0..MaxDeltas
  /\ turn \in [Turn -> TurnType]
  /\ active \in Turn \cup {NoTurn} /\ speaking \in BOOLEAN
  /\ tts \in [pc : TtsPc, ctx : Turn \cup {NoTurn}, last : BOOLEAN]
  /\ line \in [Lock -> SUBSET Waiter] /\ ahead \in [Waiter -> SUBSET Waiter]
  /\ history \in Seq(EntryType)
  /\ writing \in SUBSET Nat /\ rows \in Seq(Nat)

Said(i) == history[i].text

\* No words of the operator are in two places: glued to the pending turn,
\* carried by one caller of _cancel_turn or _fire_pending across its awaits,
\* or in one entry of the history (voice_pipeline.py:703-721).
NoSpeechTwice ==
  /\ \A p \in Caller : call[p].text \cap pendingText = {}
  /\ \A p, q \in Caller : p # q => call[p].text \cap call[q].text = {}
  /\ \A i \in DOMAIN history :
        /\ Said(i) \cap pendingText = {}
        /\ \A p \in Caller : Said(i) \cap call[p].text = {}
        /\ \A j \in DOMAIN history : i # j => Said(i) \cap Said(j) = {}

\* The pending text and the timer that anchors it come and go together:
\* _fire_pending gives up on a turn that has only one (voice_pipeline.py:712).
PendingAgrees == pendingTurn = NoTurn <=> pendingText = {}

\* What NoSpeechTwice and PendingAgrees rest on, and the types with them: a caller carries words
\* exactly while it is inside _cancel_turn or sends user_final, a turn number
\* is used by one caller, and no more turns are numbered than commits heard.
InCancel == {"dropTurn", "dropAudio", "flushText", "flush", "announce"}

Bookkeeping ==
  /\ PendingAgrees /\ pendingTurn \in {NoTurn, turnCount} /\ turnCount <= heard
  /\ \A p \in Caller :
       /\ call[p].pc \notin InCancel => call[p].text = {} /\ call[p].turn = NoTurn
       /\ call[p].pc \in InCancel /\ p # Run => call[p].text # {}
       /\ call[p].pc \in InCancel /\ p \in Turn => call[p].turn # NoTurn
       /\ call[p].pc = "announce" => call[p].turn # NoTurn
  /\ call[Run].text = {} /\ call[Run].turn = NoTurn
  /\ call[Stt].pc \in InCancel /\ call[Stt].turn = NoTurn => turnCount < heard
  /\ \A t \in Turn : t > turnCount \/ t = pendingTurn => call[t].pc = "idle"

\* Only words that were heard are held, carried or told.
OnlyHeard ==
  /\ pendingText \subseteq 1..heard
  /\ \A p \in Caller : call[p].text \subseteq 1..heard
  /\ \A i \in DOMAIN history : Said(i) \subseteq 1..heard

Waiting == pendingText \cup UNION {call[p].text : p \in Caller}
Told    == UNION {Said(i) : i \in DOMAIN history}

\* While the call is up every commit the STT delivered is waiting for its turn
\* or is in the history, whichever tasks ran between (voice_pipeline.py:566-605).
NoSpeechLost == run = "up" => 1..heard \subseteq Waiting \cup Told

\* Words held back have a window that is counting down, or the STT loop is
\* about to decide about them: nothing is held for good (voice_pipeline.py:600-605).
NothingStranded == run = "up" /\ pendingText # {} => settle \/ call[Stt].pc = "held"

\* The avatar is speaking only while some context may reach the browser: the
\* TTS loop and the interruptions never leave the flag behind
\* (voice_pipeline.py:641-682, 735-744).
SpeakingHasContext == speaking => active # NoTurn

\* Once the call has ended no window is counting down (voice_pipeline.py:437-440).
NoWindowLeft == run = "ended" => ~settle

\* What the tasks leave to each other is in order, in a state of the right shape:
\* the numbers of the turns, the window, the flag and the context of the voice.
Orderly ==
  TypeOK /\ Bookkeeping /\ NothingStranded /\ SpeakingHasContext /\ NoWindowLeft

\* The call, seen as the words waiting and the words told.
Transcript == INSTANCE CallTranscript WITH
  open <- run = "up", waiting <- Waiting, told <- Told

\* The call keeps the promise of CallTranscript: words told once, none dropped
\* before the hang-up (voice_pipeline.py:19-27).
KeepsTranscript == Transcript!Spec

\* What the operator said is told to the model unless the call goes down.
HeardIsTold == \A c \in Commit : (heard >= c) ~> (c \in Told \/ run # "up")

\* A call that begins to stop does end (voice_pipeline.py:419-450).
HangUpEnds == run = "stopping" ~> run = "ended"

\* The call never gets stuck: what was heard is told, and a hang-up is carried out.
CallGoesOn == HeardIsTold /\ HangUpEnds

---------------------------------------------------------------------------
(* What the source says of the call and the code does not do.              *)

\* voice_pipeline.py:817-818: a barge-in keeps "what was actually generated in
\* the history", that is each reply once.
RepliesOnce == \A i, j \in DOMAIN history :
  history[i].role = "assistant" /\ history[j].role = "assistant" /\ i # j
     => history[i].turn # history[j].turn
=============================================================================
