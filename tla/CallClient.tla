----------------------------- MODULE CallClient -----------------------------
(***************************************************************************)
(* The browser's half of a phone call: the button (VoiceButton.tsx) and    *)
(* the client it drives (voiceCall.ts).  A start of a call is a function   *)
(* that awaits the session, the microphone, the audio graph, the socket    *)
(* and the end of the ring; between any two of these the operator may      *)
(* click again or leave the page, the server may close, and the starts     *)
(* share the refs of the button.  What the server says in a call is what   *)
(* voice_pipeline.py sends.                                                *)
(***************************************************************************)
EXTENDS Naturals, FiniteSets

CONSTANTS MaxStarts,  \* clicks that begin a call
          MaxQueue    \* chunks of audio scheduled at once

ASSUME CallClientAssumption == MaxStarts \in Nat \ {0} /\ MaxQueue \in Nat \ {0}

Start == 1..MaxStarts

VARIABLES
  button,  \* the state and the refs of the component
  pc,      \* where each startCall awaits
  call     \* the VoiceCall of each start

clientVars == <<button, pc, call>>

NoCall == 0

NewCall ==
  [mic |-> FALSE, ctx |-> FALSE, ws |-> "none", settled |-> FALSE, startupFailed |-> FALSE,
   muted |-> TRUE, closed |-> FALSE, recorder |-> "none", recording |-> "pending",
   ended |-> 0, saved |-> 0, early |-> FALSE, alone |-> TRUE,
   server |-> "quiet", processing |-> FALSE, audible |-> FALSE, done |-> TRUE, queue |-> 0]

ClientInit ==
  /\ button = [mounted |-> TRUE, ringing |-> FALSE, connected |-> FALSE,
               holds |-> NoCall, cancelled |-> FALSE]
  /\ pc = [i \in Start |-> "none"]
  /\ call = [i \in Start |-> NewCall]

---------------------------------------------------------------------------
(* The client.                                                             *)

Flush(c) == [c EXCEPT !.queue = 0, !.done = TRUE, !.audible = FALSE]

\* The promise of the recording keeps its first value.
Settle(c, value) == [c EXCEPT !.recording = IF @ = "pending" THEN value ELSE @]

\* Broken on purpose: what feeds the recorder goes, and the recorder with it.
TeardownDropsRecorder(c) ==
  IF c.closed THEN c
  ELSE [Flush(c) EXCEPT !.closed = TRUE, !.mic = FALSE, !.ctx = FALSE, !.recorder = "none"]

\* teardown, once; "early" when it comes before the microphone was given.
Teardown(c) ==
  LET freed == [Flush(c) EXCEPT !.closed = TRUE, !.early = ~c.mic, !.mic = FALSE, !.ctx = FALSE]
  IN IF c.closed THEN c
     ELSE IF c.recorder = "recording" THEN [freed EXCEPT !.recorder = "stopping"]
     ELSE Settle([freed EXCEPT !.recorder = "none"], "nothing")

Shut(ws) == IF ws \in {"connecting", "open"} THEN "closing" ELSE ws

Disconnect(c) == Teardown([c EXCEPT !.ws = Shut(@)])

\* callRef.current?.disconnect().
HangUpHeld(C) == IF button.holds = NoCall THEN C ELSE [C EXCEPT ![button.holds] = Disconnect(@)]

---------------------------------------------------------------------------
(* The button.                                                             *)

\* A page that is gone has no state to change, but its refs are still there.
Ui(b, ringing, connected) ==
  [b EXCEPT !.ringing = b.mounted /\ ringing, !.connected = b.mounted /\ connected]

\* The end of a start, and its finally.
Over(i, b) == pc' = [pc EXCEPT ![i] = "over"] /\ button' = Ui(b, FALSE, b.connected)

\* Broken on purpose: the button lets go of the call, which goes on.
CaughtQuietly(i, C) == call' = C /\ Over(i, [button EXCEPT !.holds = NoCall])

\* The catch of a start: it hangs up whatever call the button holds.
Caught(i, C) == call' = HangUpHeld(C) /\ Over(i, [button EXCEPT !.holds = NoCall])

\* A start that has not come to its end, or a call whose socket has not.
Pending(i) == pc[i] \notin {"none", "over"} \/ call[i].ws \notin {"none", "closed"}

\* "alone" remembers that no other start was pending at the same time.
ClickStart(i) ==
  /\ button.mounted /\ ~button.ringing /\ ~button.connected
  /\ pc[i] = "none" /\ (i > 1 => pc[i - 1] # "none")
  /\ button' = [button EXCEPT !.cancelled = FALSE, !.ringing = TRUE]
  /\ pc' = [pc EXCEPT ![i] = "session"]
  /\ LET others == {j \in Start : Pending(j)} IN
     call' = [j \in Start |-> IF others # {} /\ j \in others \cup {i}
                              THEN [call[j] EXCEPT !.alone = FALSE] ELSE call[j]]

ClickCancel ==
  /\ button.mounted /\ button.ringing
  /\ button' = [button EXCEPT !.cancelled = TRUE, !.ringing = FALSE, !.holds = NoCall]
  /\ call' = HangUpHeld(call)
  /\ UNCHANGED pc

ClickHangUp ==
  /\ button.mounted /\ ~button.ringing /\ button.connected
  /\ call' = HangUpHeld(call)
  /\ UNCHANGED <<button, pc>>

Unmount ==
  /\ button.mounted
  /\ button' = [button EXCEPT !.mounted = FALSE, !.ringing = FALSE, !.connected = FALSE,
                              !.holds = NoCall]
  /\ call' = HangUpHeld(call)
  /\ UNCHANGED pc

---------------------------------------------------------------------------
(* startCall and connect, from one await to the next.                      *)

SessionOpens(i) ==
  /\ pc[i] = "session" /\ UNCHANGED call
  /\ IF button.cancelled THEN Over(i, button)
     ELSE button' = [button EXCEPT !.holds = i] /\ pc' = [pc EXCEPT ![i] = "prompt"]

Fails(i) ==
  /\ pc[i] \in {"session", "prompt", "graph"}
  /\ Caught(i, call)

MicGranted(i) ==
  /\ pc[i] = "prompt"
  /\ call' = [call EXCEPT ![i].mic = TRUE, ![i].ctx = TRUE]
  /\ pc' = [pc EXCEPT ![i] = "graph"]
  /\ UNCHANGED button

\* A context that a teardown took away is an error; a browser may have no
\* recorder.
GraphReady(i) ==
  /\ pc[i] = "graph"
  /\ IF ~call[i].ctx THEN Caught(i, call)
     ELSE /\ \/ call' = [call EXCEPT ![i].ws = "connecting", ![i].recorder = "inactive"]
             \/ call' = [call EXCEPT ![i] = Settle([@ EXCEPT !.ws = "connecting"], "nothing")]
          /\ pc' = [pc EXCEPT ![i] = "socket"]
          /\ UNCHANGED button

\* "ready": the call goes on ringing, or is hung up if it was cancelled.
Ready(i) ==
  /\ pc[i] = "socket" /\ call[i].ws = "connecting" /\ ~call[i].settled
  /\ LET c == [call[i] EXCEPT !.ws = "open", !.settled = TRUE] IN
     IF button.cancelled
     THEN call' = [call EXCEPT ![i] = Disconnect(c)] /\ Over(i, button)
     ELSE /\ call' = [call EXCEPT ![i] = c] /\ pc' = [pc EXCEPT ![i] = "ring"]
          /\ UNCHANGED button

\* An error message before "ready", or fifteen seconds.
Refused(i) ==
  /\ pc[i] = "socket" /\ call[i].ws \in {"connecting", "closing"} /\ ~call[i].settled
  /\ Caught(i, [call EXCEPT ![i].settled = TRUE, ![i].startupFailed = TRUE,
                            ![i].ws = Shut(@)])

SocketError(i) ==
  /\ pc[i] = "socket" /\ call[i].ws \in {"connecting", "closing"} /\ ~call[i].settled
  /\ Caught(i, [call EXCEPT ![i].settled = TRUE, ![i].ws = Shut(@)])

\* onClose: the end of a call.
Ended(i) ==
  /\ LET c == Teardown([call[i] EXCEPT !.ws = "closed"])
     IN call' = [call EXCEPT ![i] = [c EXCEPT !.ended = @ + 1]]
  /\ button' = Ui([button EXCEPT !.holds = NoCall], button.ringing, FALSE)
  /\ UNCHANGED pc

\* Broken on purpose: whatever happened before.
ClosesAlways(i) ==
  /\ call[i].ws \in {"connecting", "open", "closing"}
  /\ IF ~call[i].settled
     THEN Caught(i, [call EXCEPT ![i].settled = TRUE, ![i].ws = "closed"])
     ELSE Ended(i)

SocketCloses(i) ==
  /\ call[i].ws \in {"connecting", "open", "closing"}
  /\ IF ~call[i].settled
     THEN Caught(i, [call EXCEPT ![i].settled = TRUE, ![i].ws = "closed"])
     ELSE IF call[i].startupFailed
     THEN call' = [call EXCEPT ![i].ws = "closed"] /\ UNCHANGED <<button, pc>>
     ELSE Ended(i)

\* The customer picks up: the microphone opens and the recording begins.
RingDone(i) ==
  /\ pc[i] = "ring"
  /\ IF button.cancelled
     THEN call' = [call EXCEPT ![i] = Disconnect(@)] /\ Over(i, button)
     ELSE /\ call' = [call EXCEPT ![i].muted = FALSE,
                                  ![i].recorder = IF @ = "inactive" THEN "recording" ELSE @]
          /\ Over(i, Ui(button, button.ringing, TRUE))

---------------------------------------------------------------------------
(* The recording.                                                          *)

\* onstop, or onerror.
RecorderStops(i) ==
  /\ call[i].recorder = "stopping"
  /\ \E value \in {"blob", "nothing"} :
       call' = [call EXCEPT ![i] = Settle([@ EXCEPT !.recorder = "none"], value)]
  /\ UNCHANGED <<button, pc>>

\* saveRecording, which onClose began.
Upload(i) ==
  /\ call[i].ended > call[i].saved /\ call[i].recording = "blob"
  /\ call' = [call EXCEPT ![i].saved = @ + 1]
  /\ UNCHANGED <<button, pc>>

---------------------------------------------------------------------------
(* The conversation, on an open socket after the ring.                     *)

Hears(i, from, c) ==
  /\ call[i].ws = "open" /\ ~call[i].muted /\ call[i].server \in from
  /\ call' = [call EXCEPT ![i] = c]
  /\ UNCHANGED <<button, pc>>

UserFinal(i) ==
  Hears(i, {"quiet"}, [call[i] EXCEPT !.server = "thinking", !.processing = TRUE])

SpeakingStart(i) ==
  Hears(i, {"thinking"}, [call[i] EXCEPT !.server = "speaking", !.done = FALSE, !.processing = FALSE])

\* playChunk.
Chunk(i) ==
  /\ call[i].queue < MaxQueue /\ call[i].ctx
  /\ Hears(i, {"speaking"}, [call[i] EXCEPT !.queue = @ + 1, !.audible = TRUE])

\* Broken on purpose: the last chunk to end closes the turn, not the server.
LeavesItToTheQueue(i) ==
  Hears(i, {"thinking", "speaking"},
        [call[i] EXCEPT !.server = "quiet", !.done = TRUE, !.processing = FALSE])

SpeakingEnd(i) ==
  Hears(i, {"thinking", "speaking"},
        [call[i] EXCEPT !.server = "quiet", !.done = TRUE, !.processing = FALSE,
                        !.audible = @ /\ call[i].queue > 0])

Interrupt(i) ==
  Hears(i, {"thinking", "speaking"},
        [Flush(call[i]) EXCEPT !.server = "quiet", !.processing = FALSE])

\* onended of a chunk.
ChunkEnds(i) ==
  /\ call[i].queue > 0
  /\ call' = [call EXCEPT ![i].queue = @ - 1,
                          ![i].audible = ~(call[i].queue = 1 /\ call[i].done)]
  /\ UNCHANGED <<button, pc>>

---------------------------------------------------------------------------

Operator == (\E i \in Start : ClickStart(i)) \/ ClickCancel \/ ClickHangUp \/ Unmount

StartStep(i) ==
  \/ SessionOpens(i) \/ Fails(i) \/ MicGranted(i) \/ GraphReady(i) \/ Ready(i)
  \/ Refused(i) \/ SocketError(i) \/ SocketCloses(i) \/ RingDone(i)

TurnStep(i) ==
  \/ UserFinal(i) \/ SpeakingStart(i) \/ Chunk(i) \/ SpeakingEnd(i) \/ Interrupt(i)
  \/ ChunkEnds(i)

ClientNext ==
  \/ Operator
  \/ \E i \in Start : StartStep(i) \/ RecorderStops(i) \/ Upload(i) \/ TurnStep(i)

\* The browser delivers the events it owes: a socket that was closed says so, a
\* recorder that was stopped flushes, a chunk that was scheduled ends.
ClientFairness ==
  \A i \in Start :
    /\ WF_clientVars(call[i].ws = "closing" /\ SocketCloses(i))
    /\ WF_clientVars(RecorderStops(i)) /\ WF_clientVars(ChunkEnds(i))

ClientSpec == ClientInit /\ [][ClientNext]_clientVars
ClientFairSpec == ClientSpec /\ ClientFairness

---------------------------------------------------------------------------

CallType ==
  [mic : BOOLEAN, ctx : BOOLEAN, ws : {"none", "connecting", "open", "closing", "closed"},
   settled : BOOLEAN, startupFailed : BOOLEAN, muted : BOOLEAN, closed : BOOLEAN,
   recorder : {"none", "inactive", "recording", "stopping"},
   recording : {"pending", "nothing", "blob"}, ended : 0..1, saved : 0..1, early : BOOLEAN,
   alone : BOOLEAN,
   server : {"quiet", "thinking", "speaking"}, processing : BOOLEAN, audible : BOOLEAN,
   done : BOOLEAN, queue : 0..MaxQueue]

ClientTypeOK ==
  /\ button \in [mounted : BOOLEAN, ringing : BOOLEAN, connected : BOOLEAN,
                 holds : Start \cup {NoCall}, cancelled : BOOLEAN]
  /\ pc \in [Start -> {"none", "session", "prompt", "graph", "socket", "ring", "over"}]
  /\ call \in [Start -> CallType]
  /\ \A i \in Start : call[i].ws # "none" => pc[i] \in {"socket", "ring", "over"}

\* Half-duplex: the microphone goes to the server exactly when the avatar is
\* silent.  While the server thinks or any of its audio is still to be heard the
\* gate is closed, and once it is done and the audio is over the gate is open
\* again, whichever of the two comes last: a gate that stays closed is a call in
\* which nobody hears the operator any more.
GateFollowsTheTurn ==
  \A i \in Start :
    LET c == call[i]  gated == c.processing \/ c.audible IN
    (c.ws = "open" /\ ~c.muted) =>
      /\ c.server = "thinking" \/ c.queue > 0 => gated
      /\ c.server = "quiet" /\ c.queue = 0 => ~gated

\* A microphone is never out of the operator's reach: once the start of a call is
\* over, however it went, the call whose microphone is open is the one the button
\* would hang up, and a call that was hung up has none.  Two ways out are known:
\* a start cancelled while the browser was asking for the microphone, and two
\* starts pending at once, which share the refs of the button.
MicInReach ==
  \A i \in Start :
    (call[i].mic /\ pc[i] = "over" /\ ~call[i].early /\ call[i].alone)
      => button.holds = i /\ ~call[i].closed

\* A call ends once for the page, it is not one that the server refused or that
\* timed out, and what is uploaded is the recording of a call that was answered,
\* once, after its socket closed.
EndsOnce ==
  /\ ClientTypeOK
  /\ \A i \in Start :
       LET c == call[i] IN
       /\ c.ended = 1 => c.ws = "closed" /\ c.closed /\ ~c.startupFailed
       /\ c.saved = 1 => c.ended = 1 /\ ~c.muted /\ c.recording = "blob"

\* "Safe to await after disconnect(): the promise settles either way."
RecordingSettles ==
  \A i \in Start : call[i].closed ~> call[i].recording # "pending"
=============================================================================
