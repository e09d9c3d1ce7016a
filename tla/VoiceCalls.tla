----------------------------- MODULE VoiceCalls -----------------------------
(***************************************************************************)
(* The voice calls of the whole deployment: POST /api/voice/session hands  *)
(* out a session row (backend/voice_sessions.py), the voice WebSocket of   *)
(* any replica loads it, takes one of that process's slots                 *)
(* (backend/voice_capacity.py) and runs the pipeline until somebody hangs  *)
(* up.  Postgres is shared, the slot counter is a variable of one process  *)
(* and dies with it.  The calls here are of one operator; what happens     *)
(* inside a call is VoicePipeline's.                                       *)
(***************************************************************************)
EXTENDS Integers, FiniteSets

CONSTANTS Replica,   \* backend processes
          Conv,      \* conversations the operator may have
          Session,   \* session ids that may be handed out, one per POST
          Socket,    \* attempts to open the voice WebSocket
          MaxCalls   \* MAX_CONCURRENT_CALLS

ASSUME CeilingAssumption == MaxCalls \in Nat \ {0}
ASSUME SocketsAssumption == IsFiniteSet(Socket)

VARIABLES
  allowed,   \* access_denied_reason(user) is None
  conv,      \* chat_conversations: "none", "open", "ended" or "deleted"
  session,   \* each POST and its row: stage, conversation, expires_at passed
  calls,     \* _active of each process
  socket,    \* each WebSocket: where the endpoint is, on which process, for which session
  started    \* the sessions whose call ever began (history, for the properties)

vars == <<allowed, conv, session, calls, socket, started>>

NoConv == "no conversation"
NoSession == "no session"
NoReplica == "no replica"

Init ==
  /\ allowed = TRUE
  /\ conv = [c \in Conv |-> "none"]
  /\ session = [s \in Session |-> [stage |-> "unasked", conv |-> NoConv, expired |-> FALSE]]
  /\ calls = [r \in Replica |-> 0]
  /\ socket = [w \in Socket |-> [pc |-> "unopened", on |-> NoReplica, session |-> NoSession]]
  /\ started = {}

Move(w, pc) == socket' = [socket EXCEPT ![w].pc = pc]

---------------------------------------------------------------------------
(* POST /api/voice/session.  A new conversation is committed before the    *)
(* row; an old one is looked at before the row, by another statement.      *)

AskCall(s, c) ==
  /\ allowed /\ session[s].stage = "unasked"
  /\ conv[c] \in {"none", "open"}
  /\ conv' = [conv EXCEPT ![c] = "open"]
  /\ session' = [session EXCEPT ![s].stage = "asked", ![s].conv = c]
  /\ UNCHANGED <<allowed, calls, socket, started>>

\* create_voice_session: the foreign key wants the conversation to be there.
CreateRow(s) ==
  /\ session[s].stage = "asked"
  /\ session' = [session EXCEPT ![s].stage =
                   IF conv[session[s].conv] = "deleted" THEN "gone" ELSE "row"]
  /\ UNCHANGED <<allowed, conv, calls, socket, started>>

---------------------------------------------------------------------------
(* The WebSocket, from await to await.                                     *)

\* The browser opens it on the replica the balancer picks; the id is read by
\* a thread.  Nothing keeps a second socket from carrying the same id.
Open(w, r, s) ==
  /\ socket[w].pc = "unopened" /\ session[s].stage \in {"row", "gone"}
  /\ socket' = [socket EXCEPT ![w] = [pc |-> "loading", on |-> r, session |-> s]]
  /\ UNCHANGED <<allowed, conv, session, calls, started>>

Usable(s) == session[s].stage = "row" /\ ~session[s].expired /\ allowed

\* load_voice_session, in its thread: it may also fail.
LoadSession(w) ==
  /\ socket[w].pc = "loading"
  /\ \/ Usable(socket[w].session) /\ Move(w, "loaded")
     \/ Move(w, "done")
  /\ UNCHANGED <<allowed, conv, session, calls, started>>

\* Broken on purpose: the ceiling is off by one.
TakesOneTooMany(w) ==
  LET r == socket[w].on IN
  /\ socket[w].pc = "loaded"
  /\ \/ calls[r] <= MaxCalls /\ Move(w, "accepting") /\ calls' = [calls EXCEPT ![r] = @ + 1]
     \/ calls[r] > MaxCalls /\ Move(w, "refused") /\ UNCHANGED calls
  /\ UNCHANGED <<allowed, conv, session, started>>

\* take_slot: no await between the comparison and the increment.
TakeSlot(w) ==
  LET r == socket[w].on IN
  /\ socket[w].pc = "loaded"
  /\ \/ calls[r] < MaxCalls /\ Move(w, "accepting") /\ calls' = [calls EXCEPT ![r] = @ + 1]
     \/ calls[r] >= MaxCalls /\ Move(w, "refused") /\ UNCHANGED calls
  /\ UNCHANGED <<allowed, conv, session, started>>

\* "Tutte le linee sono occupate": the row is left alone.
Refuse(w) ==
  /\ socket[w].pc = "refused" /\ Move(w, "done")
  /\ UNCHANGED <<allowed, conv, session, calls, started>>

\* accept(): then the pipeline is built, or the configuration is missing.  If
\* accept() itself raises or is cancelled the endpoint is left with the slot
\* taken: the try whose finally gives it back begins after it.
Accept(w) ==
  /\ socket[w].pc = "accepting"
  /\ \/ Move(w, "talking") /\ started' = started \cup {socket[w].session}
     \/ Move(w, "stopped") /\ UNCHANGED started
     \/ Move(w, "broken") /\ UNCHANGED started
  /\ UNCHANGED <<allowed, conv, session, calls>>

\* Either side hangs up, or a provider fails: run() reaches its finally.
HangUp(w) ==
  /\ socket[w].pc = "talking" /\ Move(w, "marking")
  /\ UNCHANGED <<allowed, conv, session, calls, started>>

\* _mark_conversation_ended, in its thread: an error is logged and forgotten.
MarkEnded(w) ==
  LET c == session[socket[w].session].conv IN
  /\ socket[w].pc = "marking" /\ Move(w, "stopped")
  /\ \/ conv[c] = "open" /\ conv' = [conv EXCEPT ![c] = "ended"]
     \/ UNCHANGED conv
  /\ UNCHANGED <<allowed, session, calls, started>>

Max0(n) == IF n < 0 THEN 0 ELSE n

\* Broken on purpose: only a call that was talking gives its slot back.
ReleasesIfStarted(w) ==
  /\ socket[w].pc = "stopped" /\ socket[w].session \in started /\ Move(w, "closing")
  /\ calls' = [calls EXCEPT ![socket[w].on] = Max0(@ - 1)]
  /\ UNCHANGED <<allowed, conv, session, started>>

\* release_slot, first thing in the finally.
ReleaseSlot(w) ==
  /\ socket[w].pc = "stopped" /\ Move(w, "closing")
  /\ calls' = [calls EXCEPT ![socket[w].on] = Max0(@ - 1)]
  /\ UNCHANGED <<allowed, conv, session, started>>

\* Broken on purpose: the row is left to the sweep.
ClosesNothing(w) ==
  /\ socket[w].pc = "closing" /\ Move(w, "done")
  /\ UNCHANGED <<allowed, conv, session, calls, started>>

\* close_voice_session, in its thread: without the database the row stays.
CloseSession(w) ==
  /\ socket[w].pc = "closing"
  /\ \/ Move(w, "done") /\ session' = [session EXCEPT ![socket[w].session].stage = "gone"]
     \/ Move(w, "undeleted") /\ UNCHANGED session
  /\ UNCHANGED <<allowed, conv, calls, started>>

---------------------------------------------------------------------------
(* The rest of the deployment.                                             *)

Expire(s) ==
  /\ session[s].stage = "row" /\ ~session[s].expired
  /\ session' = [session EXCEPT ![s].expired = TRUE]
  /\ UNCHANGED <<allowed, conv, calls, socket, started>>

\* Broken on purpose: the sweep takes what nobody ever opened, as its comment says.
PurgesOnlyNeverOpened ==
  /\ \E s \in Session : session[s].stage = "row" /\ session[s].expired
  /\ session' = [s \in Session |->
       IF session[s].stage = "row" /\ session[s].expired /\ s \notin started
       THEN [session[s] EXCEPT !.stage = "gone"] ELSE session[s]]
  /\ UNCHANGED <<allowed, conv, calls, socket, started>>

\* purge_expired, whoever wins the sweep.
Purge ==
  /\ \E s \in Session : session[s].stage = "row" /\ session[s].expired
  /\ session' = [s \in Session |->
       IF session[s].stage = "row" /\ session[s].expired
       THEN [session[s] EXCEPT !.stage = "gone"] ELSE session[s]]
  /\ UNCHANGED <<allowed, conv, calls, socket, started>>

\* An administrator deletes the conversation: the database cascades.
DeleteConversation(c) ==
  /\ conv[c] \in {"open", "ended"}
  /\ conv' = [conv EXCEPT ![c] = "deleted"]
  /\ session' = [s \in Session |->
       IF session[s].stage = "row" /\ session[s].conv = c
       THEN [session[s] EXCEPT !.stage = "gone"] ELSE session[s]]
  /\ UNCHANGED <<allowed, calls, socket, started>>

\* The account or its organization is suspended, or given back.
SetStatus ==
  /\ allowed' = ~allowed
  /\ UNCHANGED <<conv, session, calls, socket, started>>

OnReplica(r) == {w \in Socket : socket[w].on = r /\ socket[w].pc \notin {"unopened", "undeleted", "done", "lost"}}

\* A process dies: its counter and its sockets with it, nothing else.
Crash(r) ==
  /\ OnReplica(r) # {}
  /\ calls' = [calls EXCEPT ![r] = 0]
  /\ socket' = [w \in Socket |->
       IF w \in OnReplica(r) THEN [socket[w] EXCEPT !.pc = "lost"] ELSE socket[w]]
  /\ UNCHANGED <<allowed, conv, session, started>>

---------------------------------------------------------------------------
Endpoint(w) == LoadSession(w) \/ TakeSlot(w) \/ Refuse(w) \/ Accept(w)
               \/ MarkEnded(w) \/ ReleaseSlot(w) \/ CloseSession(w)

Next ==
  \/ \E s \in Session, c \in Conv : AskCall(s, c)
  \/ \E s \in Session : CreateRow(s) \/ Expire(s)
  \/ \E w \in Socket : Endpoint(w) \/ HangUp(w)
  \/ \E w \in Socket, r \in Replica, s \in Session : Open(w, r, s)
  \/ \E c \in Conv : DeleteConversation(c)
  \/ \E r \in Replica : Crash(r)
  \/ Purge \/ SetStatus

Spec == Init /\ [][Next]_vars

\* Time passes, the sweep runs every few hours, and the event loop and its
\* threads go on.  Nobody has to hang up and nothing has to crash.
Fairness ==
  /\ \A w \in Socket : WF_vars(Endpoint(w))
  /\ \A s \in Session : WF_vars(Expire(s))
  /\ WF_vars(Purge)

FairSpec == Spec /\ Fairness

---------------------------------------------------------------------------
(* What is checked.                                                        *)

SocketPc == {"unopened", "loading", "loaded", "refused", "accepting", "talking",
             "marking", "stopped", "closing", "broken", "undeleted", "done", "lost"}

SessionType == [stage : {"unasked", "asked", "row", "gone"},
                conv : Conv \cup {NoConv}, expired : BOOLEAN]
SocketType == [pc : SocketPc, on : Replica \cup {NoReplica}, session : Session \cup {NoSession}]

\* Every variable holds a value of its shape, and no process is over its
\* ceiling or below zero.
TypeOK ==
  /\ allowed \in BOOLEAN
  /\ conv \in [Conv -> {"none", "open", "ended", "deleted"}]
  /\ session \in [Session -> SessionType]
  /\ calls \in [Replica -> Nat]
  /\ socket \in [Socket -> SocketType]
  /\ started \in SUBSET Session

HasSlot == {"accepting", "talking", "marking", "stopped"}
Counted == HasSlot \cup {"broken"}
Holders(r) == {w \in Socket : socket[w].on = r /\ socket[w].pc \in Counted}

\* A process counts the calls that hold one of its slots and the handshakes
\* that broke with a slot taken, no more and no less, and never more than the
\* ceiling: accept() is the only place where a slot is lost, for as long as the
\* process lives, and none is given back twice (voice_capacity.py:62-94,
\* routers/voice.py:413-444).
SlotsExact == \A r \in Replica : calls[r] = Cardinality(Holders(r)) /\ calls[r] <= MaxCalls

\* Where a call may still be, or has left its row behind.
Holding == {"talking", "marking", "stopped", "closing", "undeleted", "lost"}

\* Once one call on a session is over on both sides its row is gone, with the
\* copy of the history it holds, unless a process died with a call on it or
\* the database did not take the delete: no refused, broken or second socket
\* leaves one (routers/voice.py:445-449, voice_sessions.py:149-160).
ClosedCallLeavesNoRow == \A w \in Socket :
  socket[w].pc = "done" /\ socket[w].session \in started =>
    \/ session[socket[w].session].stage = "gone"
    \/ \E v \in Socket \ {w} : socket[v].session = socket[w].session /\ socket[v].pc \in Holding

\* A row always points at a conversation that exists (models.py:1561-1563).
RowHasConversation == \A s \in Session :
  session[s].stage = "row" => conv[session[s].conv] \in {"open", "ended"}

\* The rows, in a state of the right shape: none points at nothing, and none is
\* left by a call that is over but by a death or a failed delete.
RowsInOrder == TypeOK /\ RowHasConversation /\ ClosedCallLeavesNoRow

\* A conversation never goes back: what was hung up is not reopened, what was
\* deleted does not return (voice_pipeline.py:271-288, routers/voice.py:118-123).
Rank == [none |-> 0, open |-> 1, ended |-> 2, deleted |-> 3]
NoWayBack == [][\A c \in Conv : Rank[conv[c]] <= Rank[conv'[c]]]_vars

\* No row stays for ever, whether its call ended, was never opened, died
\* with its process or could not be deleted (voice_sessions.py:149-172).
RowsGo == \A s \in Session : (session[s].stage = "row") ~> (session[s].stage = "gone")

\* A call that was hung up, or that could not be set up, gives its slot back (routers/voice.py:443-444).
SlotsComeBack == \A w \in Socket : (socket[w].pc \in {"marking", "stopped"}) ~> (socket[w].pc \notin HasSlot)
=============================================================================
