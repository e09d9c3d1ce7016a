-------------------------- MODULE VoiceCallsProofs --------------------------
(***************************************************************************)
(* Both ends of a call.  VoiceCalls, for every number of processes,        *)
(* sessions and sockets: its type invariant, the slot counters, the rows   *)
(* and the conversations.  CallClient, for every number of starts and      *)
(* chunks: the microphone, the gate and the end of a call on the page.     *)
(***************************************************************************)
EXTENDS VoiceCalls, CallClient, FiniteSetTheorems, TLAPS

\* What the invariants rest on besides the types: an endpoint that was reached
\* knows its process and its session, and a session that was asked for has a
\* conversation, which exists or existed.
Anchored ==
  /\ \A w \in Socket : socket[w].pc # "unopened" =>
       /\ socket[w].on \in Replica
       /\ socket[w].session \in Session
       /\ session[socket[w].session].stage \in {"row", "gone"}
  /\ \A s \in Session : session[s].stage # "unasked" =>
       session[s].conv \in Conv /\ conv[session[s].conv] # "none"

\* The state is well formed after one more step.
LEMMA AskedTyped ==
  ASSUME NEW x \in SessionType, NEW c \in Conv
  PROVE  /\ [x EXCEPT !.stage = "asked", !.conv = c] \in SessionType
         /\ [x EXCEPT !.stage = "asked", !.conv = c].conv = c
  BY DEF SessionType

LEMMA ExpiredTyped ==
  ASSUME NEW x \in SessionType
  PROVE  /\ [x EXCEPT !.expired = TRUE] \in SessionType
         /\ [x EXCEPT !.expired = TRUE].stage = x.stage /\ [x EXCEPT !.expired = TRUE].conv = x.conv
  BY DEF SessionType

LEMMA MoveTyped ==
  ASSUME TypeOK, NEW w \in Socket, NEW at \in SocketPc, socket' = [socket EXCEPT ![w].pc = at]
  PROVE  /\ socket' \in [Socket -> SocketType]
         /\ socket'[w].pc = at /\ \A v \in Socket \ {w} : socket'[v] = socket[v]
         /\ \A v \in Socket : socket'[v].on = socket[v].on /\ socket'[v].session = socket[v].session
  <1>1. socket[w] \in SocketType BY DEF TypeOK
  <1>2. [socket[w] EXCEPT !.pc = at] \in SocketType BY <1>1 DEF SocketType
  <1> QED BY <1>1, <1>2 DEF TypeOK, SocketType

LEMMA Typing == TypeOK /\ Anchored /\ [Next]_vars => TypeOK' /\ Anchored'
  <1> SUFFICES ASSUME TypeOK, Anchored, [Next]_vars PROVE TypeOK' /\ Anchored' OBVIOUS
  <1> USE DEF TypeOK, Anchored, SocketPc, SessionType, SocketType
  <1>1. ASSUME NEW s \in Session, NEW c \in Conv, AskCall(s, c) PROVE TypeOK' /\ Anchored'
    <2>1. /\ conv' = [conv EXCEPT ![c] = "open"]
          /\ session' = [session EXCEPT ![s].stage = "asked", ![s].conv = c]
          /\ UNCHANGED <<allowed, calls, socket, started>>
          /\ session[s].stage = "unasked"
      BY <1>1 DEF AskCall
    <2>2. \A d \in Conv : conv'[d] = IF d = c THEN "open" ELSE conv[d] BY <2>1
    <2>3. \A t \in Session :
            session'[t] = IF t = s THEN [session[s] EXCEPT !.stage = "asked", !.conv = c] ELSE session[t]
      BY <2>1
    <2>4. /\ [session[s] EXCEPT !.stage = "asked", !.conv = c] \in SessionType
          /\ [session[s] EXCEPT !.stage = "asked", !.conv = c].conv = c
      <3>1. session[s] \in SessionType OBVIOUS
      <3> HIDE DEF SessionType
      <3> QED BY <3>1, AskedTyped
    <2>5. session' \in [Session -> SessionType] BY <2>1, <2>3, <2>4
    <2>6. conv' \in [Conv -> {"none", "open", "ended", "deleted"}] BY <2>1, <2>2
    <2>7. TypeOK' BY <2>1, <2>5, <2>6
    <2>8. \A w \in Socket : socket[w].session = s => socket[w].pc = "unopened" BY <2>1
    <2>9. ASSUME NEW w \in Socket, socket[w].pc # "unopened"
          PROVE  /\ socket[w].on \in Replica /\ socket[w].session \in Session
                 /\ session'[socket[w].session].stage \in {"row", "gone"}
      <3>1. socket[w].session \in Session \ {s} /\ socket[w].on \in Replica
            /\ session[socket[w].session].stage \in {"row", "gone"}
        BY <2>8, <2>9
      <3> QED BY <2>3, <3>1
    <2>10. ASSUME NEW t \in Session, session'[t].stage # "unasked"
           PROVE  session'[t].conv \in Conv /\ conv'[session'[t].conv] # "none"
      <3>1. CASE t = s BY <2>2, <2>3, <2>4, <3>1
      <3>2. CASE t # s BY <2>2, <2>3, <2>10, <3>2
      <3> QED BY <3>1, <3>2
    <2> QED BY <2>1, <2>7, <2>9, <2>10
  <1>2. ASSUME NEW s \in Session, CreateRow(s) PROVE TypeOK' /\ Anchored'
    BY <1>2 DEF CreateRow
  <1>3. ASSUME NEW s \in Session, Expire(s) PROVE TypeOK' /\ Anchored'
    <2>1. session' = [session EXCEPT ![s].expired = TRUE] /\ UNCHANGED <<allowed, conv, calls, socket, started>>
      BY <1>3 DEF Expire
    <2>2. /\ session' \in [Session -> SessionType]
          /\ \A t \in Session : session'[t].stage = session[t].stage /\ session'[t].conv = session[t].conv
      <3>1. session \in [Session -> SessionType] OBVIOUS
      <3> HIDE DEF SessionType
      <3> QED BY <2>1, <3>1, ExpiredTyped
    <2>3. TypeOK' BY <2>1, <2>2
    <2> QED BY <2>1, <2>2, <2>3
  <1>4. ASSUME NEW w \in Socket, LoadSession(w) PROVE TypeOK' /\ Anchored'
    <2>1. PICK at \in {"loaded", "done"} : socket' = [socket EXCEPT ![w].pc = at]
      BY <1>4 DEF LoadSession, Move
    <2>2. UNCHANGED <<allowed, conv, session, calls, started>> /\ socket[w].pc = "loading"
      BY <1>4 DEF LoadSession
    <2>3. /\ socket' \in [Socket -> SocketType] /\ \A v \in Socket \ {w} : socket'[v] = socket[v]
          /\ \A v \in Socket : socket'[v].on = socket[v].on /\ socket'[v].session = socket[v].session
      BY <2>1, MoveTyped
    <2>4. TypeOK' BY <2>2, <2>3
    <2> QED BY <2>2, <2>3, <2>4
  <1>5. ASSUME NEW w \in Socket, TakeSlot(w) PROVE TypeOK' /\ Anchored'
    <2>1. PICK at \in {"accepting", "refused"} : socket' = [socket EXCEPT ![w].pc = at]
      BY <1>5 DEF TakeSlot, Move
    <2>2. /\ UNCHANGED <<allowed, conv, session, started>>
          /\ socket[w].pc = "loaded" /\ socket[w].on \in Replica
      BY <1>5 DEF TakeSlot
    <2>3. calls' \in [Replica -> Nat] BY <1>5, <2>2 DEF TakeSlot
    <2>4. /\ socket' \in [Socket -> SocketType] /\ \A v \in Socket \ {w} : socket'[v] = socket[v]
          /\ \A v \in Socket : socket'[v].on = socket[v].on /\ socket'[v].session = socket[v].session
      BY <2>1, MoveTyped
    <2>5. TypeOK' BY <2>2, <2>3, <2>4
    <2> QED BY <2>2, <2>4, <2>5
  <1>6. ASSUME NEW w \in Socket, Refuse(w) PROVE TypeOK' /\ Anchored'
    BY <1>6 DEF Refuse, Move
  <1>7. ASSUME NEW w \in Socket, Accept(w) PROVE TypeOK' /\ Anchored'
    <2>1. PICK at \in {"talking", "stopped", "broken"} : socket' = [socket EXCEPT ![w].pc = at]
      BY <1>7 DEF Accept, Move
    <2>2. /\ UNCHANGED <<allowed, conv, session, calls>>
          /\ socket[w].pc = "accepting" /\ socket[w].session \in Session
      BY <1>7 DEF Accept
    <2>3. started' \in SUBSET Session BY <1>7, <2>2 DEF Accept
    <2>4. /\ socket' \in [Socket -> SocketType] /\ \A v \in Socket \ {w} : socket'[v] = socket[v]
          /\ \A v \in Socket : socket'[v].on = socket[v].on /\ socket'[v].session = socket[v].session
      BY <2>1, MoveTyped
    <2>5. TypeOK' BY <2>2, <2>3, <2>4
    <2> QED BY <2>2, <2>4, <2>5
  <1>8. ASSUME NEW w \in Socket, MarkEnded(w) PROVE TypeOK' /\ Anchored'
    <2>1. socket' = [socket EXCEPT ![w].pc = "stopped"] /\ UNCHANGED <<allowed, session, calls, started>>
      BY <1>8 DEF MarkEnded, Move
    <2>2. /\ socket' \in [Socket -> SocketType] /\ \A v \in Socket \ {w} : socket'[v] = socket[v]
          /\ \A v \in Socket : socket'[v].on = socket[v].on /\ socket'[v].session = socket[v].session
      BY <2>1, MoveTyped
    <2>3. socket[w].pc = "marking" BY <1>8 DEF MarkEnded
    <2>4. /\ conv' \in [Conv -> {"none", "open", "ended", "deleted"}]
          /\ \A c \in Conv : conv[c] # "none" => conv'[c] # "none"
      BY <1>8 DEF MarkEnded
    <2>5. TypeOK' BY <2>1, <2>2, <2>4
    <2> QED BY <2>1, <2>2, <2>3, <2>4, <2>5
  <1>9. ASSUME NEW w \in Socket, ReleaseSlot(w) PROVE TypeOK' /\ Anchored'
    BY <1>9 DEF ReleaseSlot, Move, Max0
  <1>10. ASSUME NEW w \in Socket, CloseSession(w) PROVE TypeOK' /\ Anchored'
    <2>1. PICK at \in {"done", "undeleted"} : socket' = [socket EXCEPT ![w].pc = at]
      BY <1>10 DEF CloseSession, Move
    <2>2. UNCHANGED <<allowed, conv, calls, started>> /\ socket[w].pc = "closing"
      BY <1>10 DEF CloseSession
    <2>3. /\ socket' \in [Socket -> SocketType] /\ \A v \in Socket \ {w} : socket'[v] = socket[v]
          /\ \A v \in Socket : socket'[v].on = socket[v].on /\ socket'[v].session = socket[v].session
      BY <2>1, MoveTyped
    <2>4. session' \in [Session -> SessionType] BY <1>10 DEF CloseSession
    <2>5. TypeOK' BY <2>2, <2>3, <2>4
    <2>6. socket[w].session \in Session /\ session[socket[w].session].stage \in {"row", "gone"}
      BY <2>2
    <2>7. \/ session' = [session EXCEPT ![socket[w].session].stage = "gone"]
          \/ session' = session
      BY <1>10 DEF CloseSession
    <2>8. ASSUME NEW t \in Session
          PROVE  /\ session'[t].conv = session[t].conv
                 /\ \/ session'[t].stage = session[t].stage
                    \/ session[t].stage \in {"row", "gone"} /\ session'[t].stage = "gone"
      BY <2>6, <2>7
    <2>9. ASSUME NEW v \in Socket, socket'[v].pc # "unopened"
          PROVE  /\ socket'[v].on \in Replica /\ socket'[v].session \in Session
                 /\ session'[socket'[v].session].stage \in {"row", "gone"}
      <3>1. socket[v].pc # "unopened" BY <2>2, <2>3, <2>9
      <3> QED BY <2>3, <2>8, <3>1
    <2>10. ASSUME NEW t \in Session, session'[t].stage # "unasked"
           PROVE  session'[t].conv \in Conv /\ conv'[session'[t].conv] # "none"
      BY <2>2, <2>8, <2>10
    <2> QED BY <2>5, <2>9, <2>10
  <1>11. ASSUME NEW w \in Socket, HangUp(w) PROVE TypeOK' /\ Anchored'
    BY <1>11 DEF HangUp, Move
  <1>12. ASSUME NEW w \in Socket, NEW r \in Replica, NEW s \in Session, Open(w, r, s)
         PROVE TypeOK' /\ Anchored'
    BY <1>12 DEF Open
  <1>13. ASSUME NEW c \in Conv, DeleteConversation(c) PROVE TypeOK' /\ Anchored'
    BY <1>13 DEF DeleteConversation
  <1>14. ASSUME NEW r \in Replica, Crash(r) PROVE TypeOK' /\ Anchored'
    <2>1. calls' = [calls EXCEPT ![r] = 0] /\ UNCHANGED <<allowed, conv, session, started>>
      BY <1>14 DEF Crash
    <2>2. /\ socket' = [w \in Socket |-> socket'[w]]
          /\ \A w \in Socket : IF w \in OnReplica(r) THEN socket'[w] = [socket[w] EXCEPT !.pc = "lost"]
                               ELSE socket'[w] = socket[w]
      BY <1>14 DEF Crash
    <2>3. \A w \in Socket : socket'[w] \in SocketType BY <2>2
    <2>4. TypeOK' BY <2>1, <2>2, <2>3
    <2>5. \A w \in Socket : /\ socket'[w].on = socket[w].on /\ socket'[w].session = socket[w].session
                            /\ socket[w].pc = "unopened" => socket'[w] = socket[w]
      BY <2>2 DEF OnReplica
    <2> QED BY <2>1, <2>4, <2>5
  <1>15. CASE Purge BY <1>15 DEF Purge
  <1>16. CASE SetStatus BY <1>16 DEF SetStatus
  <1>17. CASE UNCHANGED vars BY <1>17 DEF vars
  <1> QED
    BY <1>1, <1>2, <1>3, <1>4, <1>5, <1>6, <1>7, <1>8, <1>9, <1>10, <1>11, <1>12,
       <1>13, <1>14, <1>15, <1>16, <1>17 DEF Next, Endpoint

LEMMA TypingInit == Init => TypeOK /\ Anchored
  BY DEF Init, TypeOK, Anchored, SocketPc, SessionType, SocketType

\* Every variable always holds a value of its shape, and an endpoint always
\* knows its process, its session and its conversation.
THEOREM TypeCorrect == Spec => [](TypeOK /\ Anchored)
  BY TypingInit, Typing, PTL DEF Spec

---------------------------------------------------------------------------
(* The slots.  A step either leaves the calls of every process as they     *)
(* are, or adds one, or takes one away, or empties a process.              *)

LEMMA HoldersFinite == \A r \in Replica :
  IsFiniteSet(Holders(r)) /\ Cardinality(Holders(r)) \in Nat
  <1> SUFFICES ASSUME NEW r \in Replica
               PROVE IsFiniteSet(Holders(r)) /\ Cardinality(Holders(r)) \in Nat OBVIOUS
  <1>1. Holders(r) \in SUBSET Socket BY DEF Holders
  <1>2. IsFiniteSet(Holders(r)) BY <1>1, SocketsAssumption, FS_Subset
  <1> QED BY <1>2, FS_CardinalityType

LEMMA SlotsStep == TypeOK /\ Anchored /\ SlotsExact /\ [Next]_vars => SlotsExact'
  <1> SUFFICES ASSUME TypeOK, Anchored, SlotsExact, [Next]_vars PROVE SlotsExact' OBVIOUS
  <1> USE DEF SlotsExact
  <1>0. /\ socket \in [Socket -> SocketType]
        /\ calls \in [Replica -> Nat]
        /\ \A w \in Socket : socket[w].pc # "unopened" => socket[w].on \in Replica
    BY DEF TypeOK, Anchored
  <1>1. ASSUME UNCHANGED calls, \A r \in Replica : Holders(r)' = Holders(r) PROVE SlotsExact'
    BY <1>1
  <1>2. ASSUME NEW w \in Socket, NEW at, Move(w, at), UNCHANGED calls,
               socket[w].pc \in Counted <=> at \in Counted
        PROVE SlotsExact'
    <2>1. \A v \in Socket : socket'[v].on = socket[v].on
                           /\ (socket'[v].pc \in Counted <=> socket[v].pc \in Counted)
      BY <1>0, <1>2 DEF Move, SocketType
    <2>2. \A r \in Replica : Holders(r)' = Holders(r) BY <2>1 DEF Holders
    <2> QED BY <1>1, <1>2, <2>2
  <1>3. ASSUME UNCHANGED <<calls, socket>> PROVE SlotsExact'
    <2>1. \A r \in Replica : Holders(r)' = Holders(r) BY <1>3 DEF Holders
    <2> QED BY <1>1, <1>3, <2>1
  <1>4. ASSUME NEW s \in Session, NEW c \in Conv, AskCall(s, c) PROVE SlotsExact'
    BY <1>3, <1>4 DEF AskCall
  <1>5. ASSUME NEW s \in Session, CreateRow(s) \/ Expire(s) PROVE SlotsExact'
    BY <1>3, <1>5 DEF CreateRow, Expire
  <1>6. ASSUME NEW w \in Socket, LoadSession(w) PROVE SlotsExact'
    BY <1>2, <1>6 DEF LoadSession, Counted, HasSlot
  <1>7. ASSUME NEW w \in Socket, TakeSlot(w) PROVE SlotsExact'
    <2>0. socket[w].pc = "loaded" /\ socket[w].on \in Replica BY <1>0, <1>7 DEF TakeSlot
    <2>1. PICK r \in Replica : r = socket[w].on /\ socket[w].pc = "loaded" BY <2>0
    <2>2. CASE Move(w, "refused") /\ UNCHANGED calls
      BY <1>2, <2>1, <2>2 DEF Counted, HasSlot
    <2>3. CASE calls[r] < MaxCalls /\ Move(w, "accepting") /\ calls' = [calls EXCEPT ![r] = @ + 1]
      <3>1. \A v \in Socket : /\ socket'[v].on = socket[v].on
                              /\ socket'[v].pc = IF v = w THEN "accepting" ELSE socket[v].pc
        BY <1>0, <2>3 DEF Move, SocketType
      <3>2. Holders(r)' = Holders(r) \cup {w} /\ w \notin Holders(r)
        BY <2>1, <3>1 DEF Holders, Counted, HasSlot
      <3>3. \A q \in Replica \ {r} : Holders(q)' = Holders(q) BY <2>1, <3>1 DEF Holders, Counted, HasSlot
      <3>4. Cardinality(Holders(r) \cup {w}) = Cardinality(Holders(r)) + 1
        BY <2>1, <3>2, HoldersFinite, FS_AddElement
      <3>5. calls'[r] = calls[r] + 1 /\ \A q \in Replica \ {r} : calls'[q] = calls[q]
        BY <1>0, <2>1, <2>3
      <3>6. calls'[r] = Cardinality(Holders(r)') BY <2>1, <3>2, <3>4, <3>5
      <3>7. calls'[r] <= MaxCalls BY <1>0, <2>1, <2>3, <3>5, CeilingAssumption
      <3> QED BY <3>3, <3>5, <3>6, <3>7
    <2> QED BY <1>7, <2>1, <2>2, <2>3 DEF TakeSlot
  <1>8. ASSUME NEW w \in Socket, Refuse(w) PROVE SlotsExact'
    BY <1>2, <1>8 DEF Refuse, Counted, HasSlot
  <1>9. ASSUME NEW w \in Socket, Accept(w) PROVE SlotsExact'
    BY <1>2, <1>9 DEF Accept, Counted, HasSlot
  <1>10. ASSUME NEW w \in Socket, MarkEnded(w) PROVE SlotsExact'
    BY <1>2, <1>10 DEF MarkEnded, Counted, HasSlot
  <1>11. ASSUME NEW w \in Socket, ReleaseSlot(w) PROVE SlotsExact'
    <2>0. socket[w].pc = "stopped" /\ socket[w].on \in Replica BY <1>0, <1>11 DEF ReleaseSlot
    <2>1. PICK r \in Replica : r = socket[w].on /\ socket[w].pc = "stopped" BY <2>0
    <2>2. \A v \in Socket : /\ socket'[v].on = socket[v].on
                            /\ socket'[v].pc = IF v = w THEN "closing" ELSE socket[v].pc
      BY <1>0, <1>11 DEF ReleaseSlot, Move, SocketType
    <2>3. Holders(r)' = Holders(r) \ {w} /\ w \in Holders(r)
      BY <2>1, <2>2 DEF Holders, Counted, HasSlot
    <2>4. \A q \in Replica \ {r} : Holders(q)' = Holders(q) BY <2>1, <2>2 DEF Holders, Counted, HasSlot
    <2>5. Cardinality(Holders(r) \ {w}) = Cardinality(Holders(r)) - 1
      BY <2>1, <2>3, HoldersFinite, FS_RemoveElement
    <2>6. calls[r] \in Nat /\ calls[r] = Cardinality(Holders(r)) /\ calls[r] <= MaxCalls
      BY <1>0, <2>1
    <2>7. IsFiniteSet(Holders(r)') /\ Cardinality(Holders(r)') \in Nat
      BY <2>1, <2>3, HoldersFinite, FS_RemoveElement, FS_CardinalityType
    <2>8. calls'[r] = Max0(calls[r] - 1) /\ \A q \in Replica \ {r} : calls'[q] = calls[q]
      BY <1>0, <1>11, <2>1 DEF ReleaseSlot
    <2>9. calls[r] - 1 \in Nat BY <2>3, <2>5, <2>6, <2>7
    <2>10. calls'[r] = calls[r] - 1 BY <2>8, <2>9 DEF Max0
    <2>11. calls'[r] = Cardinality(Holders(r)') BY <2>3, <2>5, <2>6, <2>10
    <2>12. calls'[r] <= MaxCalls BY <2>6, <2>10, CeilingAssumption
    <2> QED BY <2>4, <2>8, <2>11, <2>12
  <1>12. ASSUME NEW w \in Socket, CloseSession(w) PROVE SlotsExact'
    BY <1>2, <1>12 DEF CloseSession, Counted, HasSlot
  <1>13. ASSUME NEW w \in Socket, HangUp(w) PROVE SlotsExact'
    BY <1>2, <1>13 DEF HangUp, Counted, HasSlot
  <1>14. ASSUME NEW w \in Socket, NEW q \in Replica, NEW s \in Session, Open(w, q, s)
         PROVE SlotsExact'
    <2>1. /\ socket[w].pc \notin Counted /\ socket'[w].pc \notin Counted
          /\ \A v \in Socket \ {w} : socket'[v] = socket[v]
      BY <1>0, <1>14 DEF Open, Counted, HasSlot
    <2>2. \A r \in Replica : Holders(r)' = Holders(r) BY <2>1 DEF Holders
    <2> QED BY <1>1, <1>14, <2>2 DEF Open
  <1>15. ASSUME NEW c \in Conv, DeleteConversation(c) PROVE SlotsExact'
    BY <1>3, <1>15 DEF DeleteConversation
  <1>16. ASSUME NEW r \in Replica, Crash(r) PROVE SlotsExact'
    <2>1. \A w \in Socket : IF w \in OnReplica(r) THEN socket'[w] = [socket[w] EXCEPT !.pc = "lost"]
                                                  ELSE socket'[w] = socket[w]
      BY <1>16 DEF Crash
    <2>2. \A w \in Socket : /\ socket'[w].on = socket[w].on
                            /\ socket[w].on # r => socket'[w].pc = socket[w].pc
                            /\ w \in OnReplica(r) => socket'[w].pc = "lost"
      <3> SUFFICES ASSUME NEW w \in Socket
                   PROVE  /\ socket'[w].on = socket[w].on
                          /\ socket[w].on # r => socket'[w].pc = socket[w].pc
                          /\ w \in OnReplica(r) => socket'[w].pc = "lost"
        OBVIOUS
      <3>1. PICK x \in SocketType : x = socket[w] BY <1>0
      <3>2. [x EXCEPT !.pc = "lost"].on = x.on /\ [x EXCEPT !.pc = "lost"].pc = "lost"
        BY <3>1 DEF SocketType
      <3>3. w \in OnReplica(r) => socket[w].on = r BY DEF OnReplica
      <3> QED BY <2>1, <3>1, <3>2, <3>3
    <2>6. Holders(r)' = {}
      <3>1. \A w \in Socket : w \notin OnReplica(r) => socket'[w] = socket[w] BY <2>1
      <3> QED BY <2>2, <3>1 DEF Holders, Counted, HasSlot, OnReplica
    <2>3. \A q \in Replica \ {r} : Holders(q)' = Holders(q) BY <2>2 DEF Holders
    <2>4. calls'[r] = 0 /\ \A q \in Replica \ {r} : calls'[q] = calls[q]
      BY <1>0, <1>16 DEF Crash
    <2>5. calls'[r] = Cardinality(Holders(r)') /\ calls'[r] <= MaxCalls
      BY <2>6, <2>4, FS_EmptySet, CeilingAssumption
    <2> QED BY <2>3, <2>4, <2>5
  <1>17. CASE Purge \/ SetStatus BY <1>3, <1>17 DEF Purge, SetStatus
  <1>18. CASE UNCHANGED vars BY <1>3, <1>18 DEF vars
  <1> QED
    BY <1>4, <1>5, <1>6, <1>7, <1>8, <1>9, <1>10, <1>11, <1>12, <1>13, <1>14, <1>15,
       <1>16, <1>17, <1>18 DEF Next, Endpoint

\* Every process counts exactly the calls that hold one of its slots, and
\* never more than the ceiling, whatever the sockets do and whoever crashes.
THEOREM SlotsHold == Spec => []SlotsExact
  <1>1. Init => SlotsExact
    <2> SUFFICES ASSUME Init, NEW r \in Replica
                 PROVE calls[r] = Cardinality(Holders(r)) /\ calls[r] <= MaxCalls
      BY DEF SlotsExact
    <2>1. Holders(r) = {} /\ calls[r] = 0 BY DEF Init, Holders, Counted, HasSlot
    <2> QED BY <2>1, FS_EmptySet, CeilingAssumption
  <1> QED BY <1>1, SlotsStep, TypeCorrect, PTL DEF Spec

---------------------------------------------------------------------------
(* The rows and the conversations.                                         *)

LEMMA RowsStep == TypeOK /\ Anchored /\ RowHasConversation /\ [Next]_vars => RowHasConversation'
  <1> SUFFICES ASSUME TypeOK, Anchored, RowHasConversation, [Next]_vars,
                      NEW t \in Session, session'[t].stage = "row"
               PROVE conv'[session'[t].conv] \in {"open", "ended"}
    BY DEF RowHasConversation
  <1>0. /\ session \in [Session -> SessionType]
        /\ conv \in [Conv -> {"none", "open", "ended", "deleted"}]
        /\ session[t].stage # "unasked" => session[t].conv \in Conv /\ conv[session[t].conv] # "none"
        /\ session[t].stage = "row" => conv[session[t].conv] \in {"open", "ended"}
    BY DEF TypeOK, Anchored, RowHasConversation
  <1>1. ASSUME UNCHANGED session, UNCHANGED conv PROVE conv'[session'[t].conv] \in {"open", "ended"}
    BY <1>0, <1>1
  <1>2. ASSUME NEW s \in Session, NEW c \in Conv, AskCall(s, c)
        PROVE conv'[session'[t].conv] \in {"open", "ended"}
    <2>1. t # s /\ session'[t] = session[t] BY <1>0, <1>2 DEF AskCall, SessionType
    <2> QED BY <1>0, <1>2, <2>1 DEF AskCall
  <1>3. ASSUME NEW s \in Session, CreateRow(s) PROVE conv'[session'[t].conv] \in {"open", "ended"}
    <2>1. session'[t].conv = session[t].conv /\ conv' = conv
      BY <1>0, <1>3 DEF CreateRow, SessionType
    <2>2. CASE t = s /\ conv[session[s].conv] # "deleted" BY <1>0, <1>3, <2>1, <2>2 DEF CreateRow
    <2>3. CASE t = s /\ conv[session[s].conv] = "deleted"
      BY <1>0, <1>3, <2>3 DEF CreateRow, SessionType
    <2>4. CASE t # s BY <1>0, <1>3, <2>1, <2>4 DEF CreateRow
    <2> QED BY <2>2, <2>3, <2>4
  <1>4. ASSUME NEW s \in Session, Expire(s) PROVE conv'[session'[t].conv] \in {"open", "ended"}
    BY <1>0, <1>4 DEF Expire, SessionType
  <1>5. ASSUME NEW w \in Socket, MarkEnded(w) PROVE conv'[session'[t].conv] \in {"open", "ended"}
    BY <1>0, <1>5 DEF MarkEnded
  <1>6. ASSUME NEW w \in Socket, CloseSession(w) PROVE conv'[session'[t].conv] \in {"open", "ended"}
    <2>1. session'[t] = session[t] \/ session'[t].stage = "gone"
      BY <1>0, <1>6 DEF CloseSession, SessionType
    <2> QED BY <1>0, <1>6, <2>1 DEF CloseSession
  <1>7. ASSUME NEW w \in Socket,
               LoadSession(w) \/ TakeSlot(w) \/ Refuse(w) \/ Accept(w) \/ ReleaseSlot(w) \/ HangUp(w)
        PROVE conv'[session'[t].conv] \in {"open", "ended"}
    BY <1>1, <1>7 DEF LoadSession, TakeSlot, Refuse, Accept, ReleaseSlot, HangUp
  <1>8. ASSUME NEW w \in Socket, NEW r \in Replica, NEW s \in Session, Open(w, r, s)
        PROVE conv'[session'[t].conv] \in {"open", "ended"}
    BY <1>1, <1>8 DEF Open
  <1>9. ASSUME NEW c \in Conv, DeleteConversation(c)
        PROVE conv'[session'[t].conv] \in {"open", "ended"}
    <2>1. session'[t] = session[t] /\ session[t].conv # c
      BY <1>0, <1>9 DEF DeleteConversation, SessionType
    <2> QED BY <1>0, <1>9, <2>1 DEF DeleteConversation
  <1>10. ASSUME NEW r \in Replica, Crash(r) PROVE conv'[session'[t].conv] \in {"open", "ended"}
    BY <1>1, <1>10 DEF Crash
  <1>11. CASE Purge
    <2>1. session'[t] = session[t] \/ session'[t].stage = "gone"
      BY <1>0, <1>11 DEF Purge, SessionType
    <2> QED BY <1>0, <1>11, <2>1 DEF Purge
  <1>12. CASE SetStatus BY <1>1, <1>12 DEF SetStatus
  <1>13. CASE UNCHANGED vars BY <1>1, <1>13 DEF vars
  <1> QED
    BY <1>2, <1>3, <1>4, <1>5, <1>6, <1>7, <1>8, <1>9, <1>10, <1>11, <1>12, <1>13
    DEF Next, Endpoint

\* A row always points at a conversation that exists, although the POST looks
\* at the conversation and writes the row in two steps.
THEOREM RowsPoint == Spec => []RowHasConversation
  <1>1. Init => RowHasConversation BY DEF Init, RowHasConversation
  <1> QED BY <1>1, RowsStep, TypeCorrect, PTL DEF Spec

\* A session whose call ever began is gone, or a socket that is not done with it
\* still carries it: what ClosedCallLeavesNoRow says of a socket, of the session.
CalledOrGone == \A s \in started :
  \/ session[s].stage = "gone"
  \/ \E v \in Socket : socket[v].session = s /\ socket[v].pc \in Holding

LEMMA StillHeld ==
  ASSUME CalledOrGone, NEW s \in started,
         session[s].stage = "gone" => session'[s].stage = "gone",
         \A v \in Socket : socket[v].session = s /\ socket[v].pc \in Holding
                           => socket'[v].session = s /\ socket'[v].pc \in Holding
  PROVE  \/ session'[s].stage = "gone"
         \/ \E v \in Socket : socket'[v].session = s /\ socket'[v].pc \in Holding
  BY DEF CalledOrGone

LEMMA CalledStep == TypeOK /\ Anchored /\ CalledOrGone /\ [Next]_vars => CalledOrGone'
  <1> SUFFICES ASSUME TypeOK, Anchored, CalledOrGone, [Next]_vars, NEW s \in started'
               PROVE \/ session'[s].stage = "gone"
                     \/ \E v \in Socket : socket'[v].session = s /\ socket'[v].pc \in Holding
    BY DEF CalledOrGone
  <1> DEFINE Kept == \/ session'[s].stage = "gone"
                     \/ \E v \in Socket : socket'[v].session = s /\ socket'[v].pc \in Holding
  <1>0. /\ session \in [Session -> SessionType] /\ socket \in [Socket -> SocketType]
        /\ started \subseteq Session
    BY DEF TypeOK
  <1>1. ASSUME UNCHANGED <<socket, started>>, s \in Session =>
                 (session[s].stage = "gone" => session'[s].stage = "gone")
        PROVE Kept
    BY <1>0, <1>1, StillHeld
  <1>2. ASSUME NEW w \in Socket, NEW at \in SocketPc, socket[w].pc \notin Holding \/ at \in Holding,
               socket' = [socket EXCEPT ![w].pc = at], UNCHANGED <<session, started>>
        PROVE Kept
    <2>1. \A v \in Socket : socket[v].session = s /\ socket[v].pc \in Holding
                            => socket'[v].session = s /\ socket'[v].pc \in Holding
      BY <1>2, MoveTyped
    <2> QED BY <1>2, <2>1, StillHeld
  <1>3. ASSUME NEW t \in Session, NEW c \in Conv, AskCall(t, c) PROVE Kept
    BY <1>0, <1>1, <1>3 DEF AskCall, SessionType
  <1>4. ASSUME NEW t \in Session, CreateRow(t) PROVE Kept
    BY <1>0, <1>1, <1>4 DEF CreateRow, SessionType
  <1>5. ASSUME NEW t \in Session, Expire(t) PROVE Kept
    BY <1>0, <1>1, <1>5 DEF Expire, SessionType
  <1>6. ASSUME NEW c \in Conv, DeleteConversation(c) PROVE Kept
    BY <1>0, <1>1, <1>6 DEF DeleteConversation, SessionType
  <1>7. CASE Purge BY <1>0, <1>1, <1>7 DEF Purge, SessionType
  <1>8. CASE SetStatus \/ UNCHANGED vars BY <1>1, <1>8 DEF SetStatus, vars
  <1>9. ASSUME NEW w \in Socket, NEW r \in Replica, NEW t \in Session, Open(w, r, t) PROVE Kept
    <2>1. /\ socket[w].pc = "unopened" /\ UNCHANGED <<session, started>>
          /\ \A v \in Socket \ {w} : socket'[v] = socket[v]
      BY <1>0, <1>9 DEF Open
    <2>2. "unopened" \notin Holding BY DEF Holding
    <2> QED BY <2>1, <2>2, StillHeld
  <1>10. ASSUME NEW w \in Socket,
                LoadSession(w) \/ TakeSlot(w) \/ Refuse(w) \/ HangUp(w) \/ MarkEnded(w) \/ ReleaseSlot(w)
         PROVE Kept
    <2>1. UNCHANGED <<session, started>>
      BY <1>10 DEF LoadSession, TakeSlot, Refuse, HangUp, MarkEnded, ReleaseSlot
    <2>2. PICK at \in SocketPc : /\ socket' = [socket EXCEPT ![w].pc = at]
                                 /\ socket[w].pc \notin Holding \/ at \in Holding
      BY <1>10 DEF LoadSession, TakeSlot, Refuse, HangUp, MarkEnded, ReleaseSlot, Move,
                  SocketPc, Holding
    <2> QED BY <1>2, <2>1, <2>2
  <1>11. ASSUME NEW w \in Socket, Accept(w) PROVE Kept
    <2>1. PICK at \in {"talking", "stopped", "broken"} :
             /\ socket' = [socket EXCEPT ![w].pc = at] /\ UNCHANGED session
             /\ \/ at \in Holding /\ started' = started \cup {socket[w].session}
                \/ started' = started
      BY <1>11 DEF Accept, Move, Holding
    <2>2. at \in SocketPc /\ socket[w].pc \notin Holding BY <1>11, <2>1 DEF SocketPc, Accept, Holding
    <2>3. /\ socket'[w].pc = at /\ socket'[w].session = socket[w].session
          /\ \A v \in Socket \ {w} : socket'[v] = socket[v]
      BY <2>1, <2>2, MoveTyped
    <2>4. CASE s \in started BY <2>1, <2>2, <2>3, <2>4, StillHeld
    <2>5. CASE s \notin started BY <2>1, <2>3, <2>5
    <2> QED BY <2>4, <2>5
  <1>12. ASSUME NEW w \in Socket, CloseSession(w) PROVE Kept
    <2>0. CASE Move(w, "undeleted") /\ UNCHANGED <<session, started>>
      <3>1. "undeleted" \in SocketPc /\ "undeleted" \in Holding BY DEF SocketPc, Holding
      <3> QED BY <1>2, <2>0, <3>1 DEF Move
    <2>1. CASE /\ socket' = [socket EXCEPT ![w].pc = "done"] /\ started' = started
               /\ session' = [session EXCEPT ![socket[w].session].stage = "gone"]
      <3>2. \A v \in Socket \ {w} : socket'[v] = socket[v] BY <1>0, <2>1
      <3>3. s \in Session BY <1>0, <2>1
      <3>4. CASE s = socket[w].session BY <1>0, <2>1, <3>3, <3>4 DEF SessionType
      <3>5. CASE s # socket[w].session
        <4>1. session'[s] = session[s] BY <1>0, <2>1, <3>3, <3>5
        <4> QED BY <2>1, <3>2, <3>5, <4>1, StillHeld
      <3> QED BY <3>4, <3>5
    <2> QED BY <1>12, <2>0, <2>1 DEF CloseSession, Move
  <1>13. ASSUME NEW r \in Replica, Crash(r) PROVE Kept
    <2>1. /\ UNCHANGED <<session, started>>
          /\ socket' = [w \in Socket |->
               IF w \in OnReplica(r) THEN [socket[w] EXCEPT !.pc = "lost"] ELSE socket[w]]
      BY <1>13 DEF Crash
    <2>2. \A v \in Socket : socket'[v].session = socket[v].session
                            /\ (socket'[v].pc = socket[v].pc \/ socket'[v].pc = "lost")
      BY <1>0, <2>1 DEF SocketType
    <2>3. "lost" \in Holding BY DEF Holding
    <2> QED BY <2>1, <2>2, <2>3, StillHeld
  <1> QED BY <1>3, <1>4, <1>5, <1>6, <1>7, <1>8, <1>9, <1>10, <1>11, <1>12, <1>13 DEF Next, Endpoint

\* A row points at a conversation that exists, although the POST looks at the
\* conversation and writes the row in two steps, and a call that is over on every
\* socket of its session has left none.
THEOREM RowsHold == Spec => []RowsInOrder
  <1>1. Init => CalledOrGone BY DEF Init, CalledOrGone
  <1>2. CalledOrGone => ClosedCallLeavesNoRow
    BY DEF CalledOrGone, ClosedCallLeavesNoRow, Holding
  <1> QED BY <1>1, <1>2, CalledStep, TypeCorrect, RowsPoint, PTL DEF Spec, RowsInOrder

\* No conversation is reopened after a hang-up or returns after a deletion.
THEOREM ConversationsOnlyClose == Spec => NoWayBack
  <1>1. TypeOK /\ [Next]_vars => [\A c \in Conv : Rank[conv[c]] <= Rank[conv'[c]]]_vars
    <2> SUFFICES ASSUME TypeOK, [Next]_vars, NEW d \in Conv
                 PROVE Rank[conv[d]] <= Rank[conv'[d]] OBVIOUS
    <2>0. conv \in [Conv -> {"none", "open", "ended", "deleted"}] BY DEF TypeOK
    <2>1. CASE UNCHANGED conv BY <2>0, <2>1 DEF Rank
    <2>2. ASSUME NEW s \in Session, NEW c \in Conv, AskCall(s, c)
          PROVE Rank[conv[d]] <= Rank[conv'[d]]
      BY <2>0, <2>2 DEF AskCall, Rank
    <2>3. ASSUME NEW w \in Socket, MarkEnded(w) PROVE Rank[conv[d]] <= Rank[conv'[d]]
      <3>1. conv'[d] = conv[d] \/ (conv[d] = "open" /\ conv'[d] = "ended")
        BY <2>0, <2>3 DEF MarkEnded
      <3> QED BY <2>0, <3>1 DEF Rank
    <2>4. ASSUME NEW c \in Conv, DeleteConversation(c) PROVE Rank[conv[d]] <= Rank[conv'[d]]
      BY <2>0, <2>4 DEF DeleteConversation, Rank
    <2> QED
      BY <2>1, <2>2, <2>3, <2>4 DEF Next, vars, Endpoint, CreateRow, Expire, LoadSession,
         TakeSlot, Refuse, Accept, ReleaseSlot, CloseSession, HangUp, Open, Crash, Purge, SetStatus
  <1> QED BY <1>1, TypeCorrect, PTL DEF Spec, NoWayBack

---------------------------------------------------------------------------
(* The page's end: CallClient.                                             *)

\* What one record of a call owes to nobody else: the gate is as the server's
\* turn and the player's queue have it, the recorder runs only in an answered
\* call, and an end, and an upload, come after what they follow.
GateSound(c) ==
  /\ c.processing <=> c.server = "thinking"
  /\ c.queue > 0 => c.audible
  /\ c.server # "speaking" => c.done /\ (c.queue = 0 => ~c.audible)

RecorderSound(c) == c.recorder \in {"recording", "stopping"} \/ c.recording = "blob" => ~c.muted

EndSound(c) ==
  /\ c.ended = 1 => c.ws = "closed" /\ c.closed /\ ~c.startupFailed
  /\ c.saved = 1 => c.ended = 1 /\ ~c.muted /\ c.recording = "blob"

Sound(c) == c \in CallType /\ GateSound(c) /\ RecorderSound(c) /\ EndSound(c)

\* A start whose microphone is open, or about to be, with nobody to blame.
HasMic(i) ==
  /\ pc[i] \notin {"none", "session"} /\ call[i].alone /\ ~call[i].early
  /\ call[i].mic \/ pc[i] = "prompt"

SocketStates == {"none", "connecting", "open", "closing", "closed"}

Live(ws) == ws \in {"connecting", "open", "closing"}

Reached(i) ==
  HasMic(i) => /\ button.holds = i /\ ~call[i].closed /\ ~call[i].startupFailed
               /\ pc[i] \in {"socket", "ring", "over"} => Live(call[i].ws)

Untouched(i) ==
  /\ pc[i] \in {"none", "session"} => /\ button.holds # i /\ ~call[i].closed
                                      /\ ~call[i].startupFailed
  /\ pc[i] \in {"none", "session", "prompt"} => ~call[i].mic
  /\ call[i].ws # "none" => pc[i] \in {"socket", "ring", "over"}

Alone == \A i, j \in Start : i # j /\ Pending(i) /\ Pending(j) => ~call[i].alone

PcType == {"none", "session", "prompt", "graph", "socket", "ring", "over"}
ButtonType == [mounted : BOOLEAN, ringing : BOOLEAN, connected : BOOLEAN,
               holds : Start \cup {NoCall}, cancelled : BOOLEAN]

ClientInv ==
  /\ button \in ButtonType /\ pc \in [Start -> PcType] /\ call \in [Start -> CallType]
  /\ \A i \in Start : Sound(call[i]) /\ Reached(i) /\ Untouched(i)
  /\ Alone

\* A record of a call with one field changed.
LEMMA Updates ==
  ASSUME NEW c \in CallType
  PROVE  /\ \A q \in 0..MaxQueue : [c EXCEPT !.queue = q] \in CallType
         /\ \A n \in 0..1 : [c EXCEPT !.ended = n] \in CallType /\ [c EXCEPT !.saved = n] \in CallType
         /\ \A w \in SocketStates : [c EXCEPT !.ws = w] \in CallType
         /\ \A r \in {"none", "inactive", "recording", "stopping"} :
              [c EXCEPT !.recorder = r] \in CallType
         /\ \A r \in {"pending", "nothing", "blob"} : [c EXCEPT !.recording = r] \in CallType
         /\ \A s \in {"quiet", "thinking", "speaking"} : [c EXCEPT !.server = s] \in CallType
         /\ \A b \in BOOLEAN : /\ [c EXCEPT !.done = b] \in CallType
                               /\ [c EXCEPT !.audible = b] \in CallType
                               /\ [c EXCEPT !.closed = b] \in CallType
                               /\ [c EXCEPT !.early = b] \in CallType
                               /\ [c EXCEPT !.mic = b] \in CallType
                               /\ [c EXCEPT !.ctx = b] \in CallType
         /\ \A b \in BOOLEAN : /\ [c EXCEPT !.muted = b] \in CallType
                               /\ [c EXCEPT !.alone = b] \in CallType
                               /\ [c EXCEPT !.settled = b] \in CallType
                               /\ [c EXCEPT !.startupFailed = b] \in CallType
                               /\ [c EXCEPT !.processing = b] \in CallType
  <1> USE DEF CallType, SocketStates
  <1>1. \A q \in 0..MaxQueue : [c EXCEPT !.queue = q] \in CallType OBVIOUS
  <1>2. \A n \in 0..1 : [c EXCEPT !.ended = n] \in CallType /\ [c EXCEPT !.saved = n] \in CallType
    OBVIOUS
  <1>3. \A w \in SocketStates : [c EXCEPT !.ws = w] \in CallType OBVIOUS
  <1>4. \A r \in {"none", "inactive", "recording", "stopping"} : [c EXCEPT !.recorder = r] \in CallType
    OBVIOUS
  <1>5. \A r \in {"pending", "nothing", "blob"} : [c EXCEPT !.recording = r] \in CallType OBVIOUS
  <1>6. \A s \in {"quiet", "thinking", "speaking"} : [c EXCEPT !.server = s] \in CallType OBVIOUS
  <1>7. \A b \in BOOLEAN : [c EXCEPT !.done = b] \in CallType /\ [c EXCEPT !.audible = b] \in CallType
    OBVIOUS
  <1>8. \A b \in BOOLEAN : [c EXCEPT !.closed = b] \in CallType /\ [c EXCEPT !.early = b] \in CallType
    OBVIOUS
  <1>9. \A b \in BOOLEAN : [c EXCEPT !.mic = b] \in CallType /\ [c EXCEPT !.ctx = b] \in CallType
    OBVIOUS
  <1>10. \A b \in BOOLEAN : [c EXCEPT !.muted = b] \in CallType /\ [c EXCEPT !.alone = b] \in CallType
    OBVIOUS
  <1>11. \A b \in BOOLEAN : /\ [c EXCEPT !.settled = b] \in CallType
                            /\ [c EXCEPT !.startupFailed = b] \in CallType
                            /\ [c EXCEPT !.processing = b] \in CallType
    OBVIOUS
  <1> HIDE DEF CallType
  <1> QED BY <1>1, <1>2, <1>3, <1>4, <1>5, <1>6, <1>7, <1>8, <1>9, <1>10, <1>11

LEMMA FlushSound ==
  ASSUME CallClientAssumption, NEW c \in CallType
  PROVE  /\ Flush(c) \in CallType
         /\ Flush(c).queue = 0 /\ Flush(c).done /\ ~Flush(c).audible
         /\ Flush(c).mic = c.mic /\ Flush(c).ctx = c.ctx /\ Flush(c).ws = c.ws
         /\ Flush(c).settled = c.settled /\ Flush(c).startupFailed = c.startupFailed
         /\ Flush(c).muted = c.muted /\ Flush(c).closed = c.closed
         /\ Flush(c).recorder = c.recorder /\ Flush(c).recording = c.recording
         /\ Flush(c).ended = c.ended /\ Flush(c).saved = c.saved /\ Flush(c).early = c.early
         /\ Flush(c).alone = c.alone /\ Flush(c).server = c.server
         /\ Flush(c).processing = c.processing
  <1>1. 0 \in 0..MaxQueue BY DEF CallClientAssumption
  <1>2. Flush(c) = [[[c EXCEPT !.queue = 0] EXCEPT !.done = TRUE] EXCEPT !.audible = FALSE]
    BY DEF Flush
  <1>3. Flush(c) \in CallType BY <1>1, <1>2, Updates
  <1> QED BY <1>3 DEF Flush, CallType

\* A teardown frees the microphone and remembers whether there was one.
LEMMA TeardownSound ==
  ASSUME CallClientAssumption, NEW c, Sound(c)
  PROVE  /\ Sound(Teardown(c))
         /\ Teardown(c).closed /\ Teardown(c).ws = c.ws /\ Teardown(c).settled = c.settled
         /\ Teardown(c).startupFailed = c.startupFailed /\ Teardown(c).alone = c.alone
         /\ Teardown(c).ended = c.ended
         /\ ~c.closed => ~Teardown(c).mic /\ (Teardown(c).early <=> ~c.mic)
         /\ c.closed => Teardown(c) = c
  <1> DEFINE f == Flush(c)
             freed == [f EXCEPT !.closed = TRUE, !.early = ~c.mic, !.mic = FALSE, !.ctx = FALSE]
  <1>1. c \in CallType BY DEF Sound
  <1>2. CASE c.closed BY <1>2 DEF Teardown
  <1>3. CASE ~c.closed
    <2>1. f \in CallType BY <1>1, FlushSound
    <2>2. c.mic \in BOOLEAN BY <1>1 DEF CallType
    <2>3. freed = [[[[f EXCEPT !.closed = TRUE] EXCEPT !.early = ~c.mic] EXCEPT !.mic = FALSE]
                    EXCEPT !.ctx = FALSE]
      OBVIOUS
    <2>4. freed \in CallType
      <3> HIDE DEF f
      <3> QED BY <2>1, <2>2, <2>3, Updates
    <2>5. /\ freed.closed /\ freed.early = ~c.mic /\ ~freed.mic /\ freed.ws = f.ws
          /\ freed.settled = f.settled /\ freed.startupFailed = f.startupFailed
          /\ freed.muted = f.muted /\ freed.recorder = f.recorder
          /\ freed.recording = f.recording /\ freed.ended = f.ended /\ freed.saved = f.saved
          /\ freed.alone = f.alone /\ freed.server = f.server
          /\ freed.processing = f.processing /\ freed.queue = f.queue /\ freed.done = f.done
          /\ freed.audible = f.audible
      <3> HIDE DEF f
      <3> QED BY <2>1 DEF CallType
    <2>6. /\ f.queue = 0 /\ f.done /\ ~f.audible /\ f.ws = c.ws
          /\ f.settled = c.settled /\ f.startupFailed = c.startupFailed
          /\ f.muted = c.muted /\ f.recorder = c.recorder /\ f.recording = c.recording
          /\ f.ended = c.ended /\ f.saved = c.saved /\ f.alone = c.alone
          /\ f.server = c.server /\ f.processing = c.processing
      BY <1>1, FlushSound
    <2> HIDE DEF f, freed
    <2>7. CASE c.recorder = "recording"
      <3> DEFINE d == [freed EXCEPT !.recorder = "stopping"]
      <3>1. Teardown(c) = d BY <1>3, <2>7 DEF Teardown, freed, f
      <3>2. d \in CallType BY <2>4, Updates
      <3>3. /\ d.recorder = "stopping" /\ d.closed = freed.closed /\ d.early = freed.early
            /\ d.mic = freed.mic /\ d.ws = freed.ws /\ d.settled = freed.settled
            /\ d.startupFailed = freed.startupFailed /\ d.muted = freed.muted
            /\ d.recording = freed.recording /\ d.ended = freed.ended /\ d.saved = freed.saved
            /\ d.alone = freed.alone /\ d.server = freed.server
            /\ d.processing = freed.processing /\ d.queue = freed.queue /\ d.done = freed.done
            /\ d.audible = freed.audible
        BY <2>4 DEF CallType
      <3> HIDE DEF d
      <3>4. Sound(d)
        BY <1>1, <2>5, <2>6, <2>7, <3>2, <3>3 DEF Sound, GateSound, RecorderSound, EndSound
      <3> QED BY <1>3, <2>5, <2>6, <3>1, <3>3, <3>4
    <2>8. CASE c.recorder # "recording"
      <3> DEFINE e == [freed EXCEPT !.recorder = "none"]
                 value == IF e.recording = "pending" THEN "nothing" ELSE e.recording
                 d == [e EXCEPT !.recording = value]
      <3>1. Teardown(c) = d BY <1>3, <2>8 DEF Teardown, Settle, freed, f
      <3>2. e \in CallType BY <2>4, Updates
      <3>3. /\ e.recorder = "none" /\ e.closed = freed.closed /\ e.early = freed.early
            /\ e.mic = freed.mic /\ e.ws = freed.ws /\ e.settled = freed.settled
            /\ e.startupFailed = freed.startupFailed /\ e.muted = freed.muted
            /\ e.recording = freed.recording /\ e.ended = freed.ended /\ e.saved = freed.saved
            /\ e.alone = freed.alone /\ e.server = freed.server
            /\ e.processing = freed.processing /\ e.queue = freed.queue /\ e.done = freed.done
            /\ e.audible = freed.audible
        BY <2>4 DEF CallType
      <3> HIDE DEF e
      <3>4. value \in {"pending", "nothing", "blob"} /\ (value = "blob" <=> e.recording = "blob")
        BY <3>2 DEF CallType
      <3> HIDE DEF value
      <3>5. d \in CallType BY <3>2, <3>4, Updates
      <3>6. /\ d.recorder = e.recorder /\ d.closed = e.closed /\ d.early = e.early
            /\ d.mic = e.mic /\ d.ws = e.ws /\ d.settled = e.settled
            /\ d.startupFailed = e.startupFailed /\ d.muted = e.muted
            /\ d.recording = value /\ d.ended = e.ended /\ d.saved = e.saved
            /\ d.alone = e.alone /\ d.server = e.server
            /\ d.processing = e.processing /\ d.queue = e.queue /\ d.done = e.done
            /\ d.audible = e.audible
        BY <3>2 DEF CallType
      <3> HIDE DEF d
      <3>7. Sound(d)
        BY <1>1, <2>5, <2>6, <2>8, <3>3, <3>4, <3>5, <3>6
           DEF Sound, GateSound, RecorderSound, EndSound
      <3>8. /\ d.ws = c.ws /\ d.settled = c.settled
            /\ d.startupFailed = c.startupFailed /\ d.alone = c.alone /\ d.ended = c.ended
        BY <2>5, <2>6, <3>3, <3>6
      <3>9. d.closed /\ ~d.mic BY <2>5, <3>3, <3>6
      <3>10. d.early <=> ~c.mic BY <2>5, <3>3, <3>6
      <3> QED BY <1>3, <3>1, <3>7, <3>8, <3>9, <3>10
    <2> QED BY <2>7, <2>8
  <1> QED BY <1>2, <1>3

LEMMA ShutSound ==
  ASSUME NEW c, Sound(c)
  PROVE  /\ Sound([c EXCEPT !.ws = Shut(@)])
         /\ \A w \in SocketStates :
              LET d == [c EXCEPT !.ws = w] IN
              /\ d \in CallType
              /\ c.ended # 1 \/ w = "closed" => Sound(d)
              /\ d.ws = w /\ d.mic = c.mic /\ d.closed = c.closed /\ d.early = c.early
              /\ d.alone = c.alone /\ d.settled = c.settled /\ d.ended = c.ended
              /\ d.startupFailed = c.startupFailed
         /\ Shut(c.ws) \in SocketStates
         /\ Shut(c.ws) = "none" <=> c.ws = "none"
         /\ Live(Shut(c.ws)) <=> Live(c.ws)
  <1>1. c \in CallType BY DEF Sound
  <1>2. ASSUME NEW w \in SocketStates
        PROVE  LET d == [c EXCEPT !.ws = w] IN
              /\ d \in CallType
              /\ c.ended # 1 \/ w = "closed" => Sound(d)
              /\ d.ws = w /\ d.mic = c.mic /\ d.closed = c.closed /\ d.early = c.early
              /\ d.alone = c.alone /\ d.settled = c.settled /\ d.ended = c.ended
              /\ d.startupFailed = c.startupFailed
    <2> DEFINE d == [c EXCEPT !.ws = w]
    <2>1. d \in CallType BY <1>1, Updates
    <2>2. /\ d.ws = w /\ d.mic = c.mic /\ d.closed = c.closed /\ d.early = c.early
          /\ d.alone = c.alone /\ d.settled = c.settled /\ d.ended = c.ended
          /\ d.startupFailed = c.startupFailed /\ d.muted = c.muted
          /\ d.recorder = c.recorder /\ d.recording = c.recording /\ d.saved = c.saved
          /\ d.server = c.server /\ d.processing = c.processing /\ d.queue = c.queue
          /\ d.done = c.done /\ d.audible = c.audible
      BY <1>1 DEF CallType
    <2>3. c.ended # 1 \/ w = "closed" => Sound(d)
      <3> HIDE DEF d
      <3> QED BY <2>1, <2>2 DEF Sound, GateSound, RecorderSound, EndSound
    <2> QED BY <2>1, <2>2, <2>3
  <1>3. /\ Shut(c.ws) \in SocketStates
        /\ Shut(c.ws) = "none" <=> c.ws = "none"
        /\ Live(Shut(c.ws)) <=> Live(c.ws)
        /\ c.ended = 1 => Shut(c.ws) = "closed"
    BY <1>1 DEF CallType, Shut, Live, Sound, EndSound, SocketStates
  <1>4. [c EXCEPT !.ws = Shut(@)] = [c EXCEPT !.ws = Shut(c.ws)] OBVIOUS
  <1> QED BY <1>2, <1>3, <1>4

\* Hanging up shuts the socket and frees the microphone.
LEMMA DisconnectSound ==
  ASSUME CallClientAssumption, NEW c, Sound(c)
  PROVE  /\ Sound(Disconnect(c))
         /\ Disconnect(c).ws = "none" <=> c.ws = "none"
         /\ Live(Disconnect(c).ws) <=> Live(c.ws)
         /\ Disconnect(c).alone = c.alone
         /\ Disconnect(c).startupFailed = c.startupFailed
         /\ ~c.closed => ~Disconnect(c).mic /\ (Disconnect(c).early <=> ~c.mic)
         /\ c.closed => Disconnect(c).mic = c.mic /\ Disconnect(c).early = c.early
  <1> DEFINE s == [c EXCEPT !.ws = Shut(@)]
  <1>1. /\ Sound(s) /\ s.ws = Shut(c.ws) /\ s.mic = c.mic /\ s.closed = c.closed
        /\ s.early = c.early /\ s.alone = c.alone /\ s.startupFailed = c.startupFailed
    <2>1. s = [c EXCEPT !.ws = Shut(c.ws)] OBVIOUS
    <2> HIDE DEF s
    <2> QED BY <2>1, ShutSound DEF s
  <1>2. Disconnect(c) = Teardown(s) BY DEF Disconnect
  <1> HIDE DEF s
  <1>3. /\ Shut(c.ws) = "none" <=> c.ws = "none"
        /\ Live(Shut(c.ws)) <=> Live(c.ws)
    BY ShutSound
  <1>4. /\ Sound(Teardown(s)) /\ Teardown(s).ws = s.ws /\ Teardown(s).alone = s.alone
        /\ Teardown(s).startupFailed = s.startupFailed
        /\ ~s.closed => ~Teardown(s).mic /\ (Teardown(s).early <=> ~s.mic)
        /\ s.closed => Teardown(s) = s
    BY <1>1, TeardownSound
  <1> QED BY <1>1, <1>2, <1>3, <1>4

\* Whoever holds the microphone is pending, so no other pending start is alone.
LEMMA HasMicPends ==
  ASSUME ClientInv, NEW i \in Start, NEW j \in Start, i # j, Pending(j)
  PROVE  ~HasMic(i)
  <1> SUFFICES ASSUME HasMic(i) PROVE FALSE OBVIOUS
  <1>1. Reached(i) /\ Alone BY DEF ClientInv
  <1>2. pc[i] \in PcType BY DEF ClientInv
  <1>3. Pending(i) BY <1>1, <1>2 DEF Reached, HasMic, Pending, Live, PcType
  <1> QED BY <1>1, <1>3 DEF Alone, HasMic

LEMMA HangUpSound ==
  ASSUME CallClientAssumption, button \in ButtonType, NEW C \in [Start -> CallType],
         \A k \in Start : Sound(C[k])
  PROVE  /\ HangUpHeld(C) \in [Start -> CallType]
         /\ \A k \in Start :
              /\ Sound(HangUpHeld(C)[k])
              /\ HangUpHeld(C)[k] = IF k = button.holds THEN Disconnect(C[k]) ELSE C[k]
  <1>1. button.holds \in Start \cup {NoCall} BY DEF ButtonType
  <1>2. NoCall \notin Start BY DEF NoCall, Start
  <1>3. CASE button.holds = NoCall BY <1>2, <1>3 DEF HangUpHeld
  <1>4. CASE button.holds # NoCall
    <2>1. button.holds \in Start BY <1>1, <1>4
    <2>2. HangUpHeld(C) = [C EXCEPT ![button.holds] = Disconnect(C[button.holds])]
      BY <1>4 DEF HangUpHeld
    <2>3. Sound(Disconnect(C[button.holds])) BY <2>1, DisconnectSound
    <2>4. Disconnect(C[button.holds]) \in CallType BY <2>3 DEF Sound
    <2> HIDE DEF HangUpHeld
    <2> QED BY <2>1, <2>2, <2>3, <2>4
  <1> QED BY <1>3, <1>4

\* A step of one call that is none of the button's business.
LEMMA InsideACall ==
  ASSUME ClientInv, NEW i \in Start, NEW d, Sound(d), UNCHANGED <<button, pc>>,
         call' = [call EXCEPT ![i] = d],
         d.ws = call[i].ws, d.mic = call[i].mic, d.alone = call[i].alone,
         d.early = call[i].early, d.closed = call[i].closed,
         d.startupFailed = call[i].startupFailed
  PROVE  ClientInv'
  <1>1. d \in CallType BY DEF Sound
  <1>2. call' \in [Start -> CallType] BY <1>1 DEF ClientInv
  <1>3. \A k \in Start :
          /\ call'[k] = IF k = i THEN d ELSE call[k]
          /\ call'[k].ws = call[k].ws /\ call'[k].mic = call[k].mic
          /\ call'[k].alone = call[k].alone /\ call'[k].early = call[k].early
          /\ call'[k].closed = call[k].closed /\ call'[k].startupFailed = call[k].startupFailed
    BY DEF ClientInv
  <1>4. \A k \in Start : Sound(call'[k]) BY <1>3 DEF ClientInv
  <1>5. \A k \in Start : Reached(k)' /\ Untouched(k)'
    BY <1>3 DEF ClientInv, Reached, Untouched, HasMic
  <1>6. Alone' BY <1>3 DEF ClientInv, Alone, Pending
  <1> QED BY <1>2, <1>4, <1>5, <1>6 DEF ClientInv

\* A step of one start, which is pending: what the others hold is not disturbed,
\* for none of them is alone.
LEMMA OneStart ==
  ASSUME ClientInv, NEW i \in Start, Pending(i), NEW d, Sound(d), d.alone = call[i].alone,
         call' = [call EXCEPT ![i] = d],
         pc' \in [Start -> PcType], \A k \in Start \ {i} : pc'[k] = pc[k],
         button' \in ButtonType, button'.holds \in {button.holds, i, NoCall},
         Reached(i)', Untouched(i)'
  PROVE  ClientInv'
  <1>1. d \in CallType BY DEF Sound
  <1>2. call' \in [Start -> CallType] BY <1>1 DEF ClientInv
  <1>3. \A k \in Start : call'[k] = IF k = i THEN d ELSE call[k] BY DEF ClientInv
  <1>4. \A k \in Start : Sound(call'[k]) BY <1>3 DEF ClientInv
  <1>5. ASSUME NEW k \in Start, k # i PROVE Reached(k)' /\ Untouched(k)'
    <2>1. call'[k] = call[k] /\ pc'[k] = pc[k] BY <1>3, <1>5
    <2>2. ~HasMic(k) BY <1>5, HasMicPends
    <2>3. ~HasMic(k)' BY <2>1, <2>2 DEF HasMic
    <2>4. k # NoCall BY DEF NoCall, Start
    <2> QED BY <1>5, <2>1, <2>3, <2>4 DEF ClientInv, Reached, Untouched
  <1>6. Alone' BY <1>3 DEF ClientInv, Alone, Pending
  <1> QED BY <1>2, <1>4, <1>5, <1>6 DEF ClientInv

\* A step that hangs up what the button holds: nobody holds a microphone after it.
LEMMA LetGo ==
  ASSUME CallClientAssumption, ClientInv, NEW C \in [Start -> CallType], call' = HangUpHeld(C),
         button' \in ButtonType, button'.holds \in {button.holds, NoCall},
         pc' \in [Start -> PcType],
         \A k \in Start :
           /\ Sound(C[k]) /\ C[k].mic = call[k].mic /\ C[k].alone = call[k].alone
           /\ C[k].early = call[k].early /\ C[k].closed = call[k].closed
           /\ C[k].ws = "none" <=> call[k].ws = "none"
           /\ Live(C[k].ws) => Live(call[k].ws)
           /\ pc[k] \in {"none", "session"} => C[k].startupFailed = call[k].startupFailed
           /\ pc'[k] = pc[k] \/ (pc'[k] = "over" /\ pc[k] \notin {"none", "over"})
  PROVE  ClientInv'
  <1>1. button \in ButtonType BY DEF ClientInv
  <1>2. /\ call' \in [Start -> CallType]
        /\ \A k \in Start :
             /\ Sound(call'[k])
             /\ call'[k] = IF k = button.holds THEN Disconnect(C[k]) ELSE C[k]
    BY <1>1, HangUpSound
  <1>3. ASSUME NEW k \in Start
        PROVE  /\ call'[k].ws = "none" <=> C[k].ws = "none"
               /\ Live(call'[k].ws) <=> Live(C[k].ws)
               /\ call'[k].alone = C[k].alone
               /\ call'[k].startupFailed = C[k].startupFailed
               /\ k # button.holds => call'[k] = C[k]
               /\ k = button.holds /\ ~C[k].closed
                    => ~call'[k].mic /\ (call'[k].early <=> ~C[k].mic)
               /\ k = button.holds /\ C[k].closed
                    => call'[k].mic = C[k].mic /\ call'[k].early = C[k].early
    <2>1. CASE k = button.holds BY <1>2, <2>1, DisconnectSound
    <2>2. CASE k # button.holds BY <1>2, <2>2
    <2> QED BY <2>1, <2>2
  <1>4. ASSUME NEW k \in Start PROVE ~HasMic(k)'
    <2>1. Reached(k) /\ Untouched(k) BY DEF ClientInv
    <2>2. CASE k # button.holds \/ C[k].closed
      <3>1. /\ call'[k].mic = call[k].mic /\ call'[k].early = call[k].early
            /\ call'[k].alone = call[k].alone
        BY <1>3, <2>2
      <3>2. ~HasMic(k) BY <2>1, <2>2 DEF Reached
      <3> QED BY <2>1, <3>1, <3>2 DEF HasMic, Untouched
    <2>3. CASE k = button.holds /\ ~C[k].closed
      <3>1. ~call'[k].mic /\ (call'[k].early <=> ~call[k].mic) BY <1>3, <2>3
      <3> QED BY <2>1, <3>1 DEF HasMic, Untouched
    <2> QED BY <2>2, <2>3
  <1>5. ASSUME NEW k \in Start PROVE Untouched(k)'
    <2>1. Untouched(k) /\ k # NoCall BY DEF ClientInv, NoCall, Start
    <2>2. pc'[k] \in {"none", "session"} => pc[k] = pc'[k] /\ k # button.holds
      BY <2>1 DEF Untouched
    <2>3. pc'[k] \in {"none", "session", "prompt"} => ~call'[k].mic
      BY <1>3, <2>1 DEF Untouched
    <2>4. call'[k].ws # "none" => pc'[k] \in {"socket", "ring", "over"}
      BY <1>3, <2>1 DEF Untouched
    <2> QED BY <1>3, <2>1, <2>2, <2>3, <2>4 DEF Untouched
  <1>6. Alone'
    <2>1. \A k \in Start : Pending(k)' => Pending(k)
      <3> TAKE k \in Start
      <3>1. call[k].ws \in SocketStates /\ call'[k].ws \in SocketStates
        BY <1>2 DEF ClientInv, CallType, SocketStates
      <3> QED BY <1>3, <3>1 DEF Pending, Live, SocketStates
    <2> QED BY <1>3, <2>1 DEF ClientInv, Alone
  <1> QED BY <1>2, <1>4, <1>5, <1>6 DEF ClientInv, Reached

LEMMA UiTyped ==
  ASSUME NEW b \in ButtonType, NEW ringing \in BOOLEAN, NEW connected \in BOOLEAN
  PROVE  Ui(b, ringing, connected) \in ButtonType /\ Ui(b, ringing, connected).holds = b.holds
  BY DEF Ui, ButtonType

LEMMA Held ==
  ASSUME NEW b \in ButtonType, NEW h \in Start \cup {NoCall}
  PROVE  [b EXCEPT !.holds = h] \in ButtonType /\ [b EXCEPT !.holds = h].holds = h
         /\ b.ringing \in BOOLEAN /\ b.connected \in BOOLEAN
  BY DEF ButtonType

LEMMA OverTyped ==
  ASSUME pc \in [Start -> PcType], NEW i \in Start, NEW b \in ButtonType, Over(i, b)
  PROVE  /\ button' \in ButtonType /\ button'.holds = b.holds
         /\ pc' \in [Start -> PcType] /\ pc'[i] = "over"
         /\ \A k \in Start \ {i} : pc'[k] = pc[k]
  <1>1. b.connected \in BOOLEAN BY DEF ButtonType
  <1>2. button' = Ui(b, FALSE, b.connected) BY DEF Over
  <1>3. pc' = [pc EXCEPT ![i] = "over"] BY DEF Over
  <1> QED BY <1>1, <1>2, <1>3, UiTyped DEF PcType

LEMMA CaughtStep ==
  ASSUME CallClientAssumption, ClientInv, NEW i \in Start, pc[i] \notin {"none", "session"},
         NEW c, Sound(c), Caught(i, [call EXCEPT ![i] = c]),
         c.mic = call[i].mic, c.alone = call[i].alone, c.early = call[i].early,
         c.closed = call[i].closed, c.ws = "none" <=> call[i].ws = "none",
         Live(c.ws) => Live(call[i].ws)
  PROVE  ClientInv'
  <1> DEFINE C == [call EXCEPT ![i] = c]
             b == [button EXCEPT !.holds = NoCall]
  <1>1. c \in CallType BY DEF Sound
  <1>2. C \in [Start -> CallType] /\ \A k \in Start : C[k] = IF k = i THEN c ELSE call[k]
    BY <1>1 DEF ClientInv
  <1>3. b \in ButtonType /\ b.holds = NoCall BY Held DEF ClientInv
  <1>4. call' = HangUpHeld(C) /\ Over(i, b) BY DEF Caught
  <1> HIDE DEF C, b
  <1>5. pc \in [Start -> PcType] BY DEF ClientInv
  <1>6. /\ button' \in ButtonType /\ button'.holds = NoCall
        /\ pc' \in [Start -> PcType] /\ pc'[i] = "over"
        /\ \A k \in Start \ {i} : pc'[k] = pc[k]
    BY <1>3, <1>4, <1>5, OverTyped
  <1>7. \A k \in Start :
           /\ Sound(C[k]) /\ C[k].mic = call[k].mic /\ C[k].alone = call[k].alone
           /\ C[k].early = call[k].early /\ C[k].closed = call[k].closed
           /\ C[k].ws = "none" <=> call[k].ws = "none"
           /\ Live(C[k].ws) => Live(call[k].ws)
           /\ pc[k] \in {"none", "session"} => C[k].startupFailed = call[k].startupFailed
           /\ pc'[k] = pc[k] \/ (pc'[k] = "over" /\ pc[k] \notin {"none", "over"})
    BY <1>2, <1>6 DEF ClientInv
  <1> QED BY <1>2, <1>4, <1>6, <1>7, LetGo

\* The catch of a start whose call is as it was.
LEMMA FailsStep ==
  ASSUME CallClientAssumption, ClientInv, NEW i \in Start, pc[i] \notin {"none", "over"},
         Caught(i, call)
  PROVE  ClientInv'
  <1> DEFINE b == [button EXCEPT !.holds = NoCall]
  <1>1. b \in ButtonType /\ b.holds = NoCall BY Held DEF ClientInv
  <1>2. call' = HangUpHeld(call) /\ Over(i, b) BY DEF Caught
  <1> HIDE DEF b
  <1>3. pc \in [Start -> PcType] /\ call \in [Start -> CallType] BY DEF ClientInv
  <1>4. /\ button' \in ButtonType /\ button'.holds = NoCall
        /\ pc' \in [Start -> PcType] /\ pc'[i] = "over"
        /\ \A k \in Start \ {i} : pc'[k] = pc[k]
    BY <1>1, <1>2, <1>3, OverTyped
  <1>5. \A k \in Start :
           /\ Sound(call[k])
           /\ pc'[k] = pc[k] \/ (pc'[k] = "over" /\ pc[k] \notin {"none", "over"})
    BY <1>4 DEF ClientInv
  <1> QED BY <1>2, <1>3, <1>4, <1>5, LetGo

\* What the operator does to the button.
LEMMA ClickStartStep ==
  ASSUME CallClientAssumption, ClientInv, NEW i \in Start, ClickStart(i)
  PROVE  ClientInv'
  <1> DEFINE others == {j \in Start : Pending(j)}
             touched(k) == others # {} /\ k \in others \cup {i}
  <1>1. /\ button' = [button EXCEPT !.cancelled = FALSE, !.ringing = TRUE]
        /\ pc' = [pc EXCEPT ![i] = "session"] /\ pc[i] = "none"
        /\ call' = [k \in Start |-> IF touched(k) THEN [call[k] EXCEPT !.alone = FALSE] ELSE call[k]]
    BY DEF ClickStart
  <1>2. button' \in ButtonType /\ button'.holds = button.holds BY <1>1 DEF ClientInv, ButtonType
  <1>3. pc' \in [Start -> PcType] /\ \A k \in Start : pc'[k] = IF k = i THEN "session" ELSE pc[k]
    BY <1>1 DEF ClientInv, PcType
  <1>4. ASSUME NEW k \in Start
        PROVE  /\ Sound(call'[k]) /\ call'[k] \in CallType
               /\ call'[k].ws = call[k].ws /\ call'[k].mic = call[k].mic
               /\ call'[k].early = call[k].early /\ call'[k].closed = call[k].closed
               /\ call'[k].startupFailed = call[k].startupFailed
               /\ touched(k) => ~call'[k].alone
               /\ call'[k].alone => call[k].alone
    <2> DEFINE d == [call[k] EXCEPT !.alone = FALSE]
    <2>1. Sound(call[k]) /\ call[k] \in CallType BY DEF ClientInv
    <2>2. d \in CallType BY <2>1, Updates
    <2>3. /\ ~d.alone /\ d.ws = call[k].ws /\ d.mic = call[k].mic /\ d.early = call[k].early
          /\ d.closed = call[k].closed /\ d.startupFailed = call[k].startupFailed
          /\ d.muted = call[k].muted /\ d.recorder = call[k].recorder
          /\ d.recording = call[k].recording /\ d.ended = call[k].ended
          /\ d.saved = call[k].saved /\ d.server = call[k].server
          /\ d.processing = call[k].processing /\ d.queue = call[k].queue
          /\ d.done = call[k].done /\ d.audible = call[k].audible
      BY <2>1 DEF CallType
    <2>4. call'[k] = IF touched(k) THEN d ELSE call[k] BY <1>1
    <2> HIDE DEF d, touched
    <2>5. Sound(d) BY <2>1, <2>2, <2>3 DEF Sound, GateSound, RecorderSound, EndSound
    <2> QED BY <2>1, <2>2, <2>3, <2>4, <2>5
  <1>5. call' \in [Start -> CallType]
    <2>1. call' = [k \in Start |-> call'[k]] BY <1>1
    <2> QED BY <1>4, <2>1
  <1>6. \A k \in Start : Reached(k)'
    BY <1>2, <1>3, <1>4 DEF ClientInv, Reached, HasMic
  <1>7. \A k \in Start : Untouched(k)'
    BY <1>1, <1>2, <1>3, <1>4 DEF ClientInv, Untouched
  <1>8. Alone'
    <2> SUFFICES ASSUME NEW k \in Start, NEW j \in Start, k # j, Pending(k)', Pending(j)'
                 PROVE  ~call'[k].alone
      BY DEF Alone
    <2>1. (Pending(k) \/ k = i) /\ (Pending(j) \/ j = i) BY <1>3, <1>4 DEF Pending
    <2>2. touched(k) BY <2>1
    <2> QED BY <1>4, <2>2
  <1> QED BY <1>2, <1>3, <1>4, <1>5, <1>6, <1>7, <1>8 DEF ClientInv

LEMMA OperatorStep ==
  ASSUME CallClientAssumption, ClientInv, Operator
  PROVE  ClientInv'
  <1>1. ASSUME NEW i \in Start, ClickStart(i) PROVE ClientInv' BY <1>1, ClickStartStep
  <1>2. ASSUME call' = HangUpHeld(call), UNCHANGED pc, button' \in ButtonType,
               button'.holds \in {button.holds, NoCall}
        PROVE  ClientInv'
    <2>1. call \in [Start -> CallType] /\ pc' \in [Start -> PcType] BY <1>2 DEF ClientInv
    <2>2. \A k \in Start : Sound(call[k]) /\ pc'[k] = pc[k] BY <1>2 DEF ClientInv
    <2> QED BY <1>2, <2>1, <2>2, LetGo
  <1>3. CASE ClickCancel
    <2>1. button' \in ButtonType /\ button'.holds = NoCall
      BY <1>3 DEF ClickCancel, ClientInv, ButtonType
    <2> QED BY <1>2, <1>3, <2>1 DEF ClickCancel
  <1>4. CASE ClickHangUp
    <2>1. button' \in ButtonType /\ button'.holds = button.holds BY <1>4 DEF ClickHangUp, ClientInv
    <2> QED BY <1>2, <1>4, <2>1 DEF ClickHangUp
  <1>5. CASE Unmount
    <2>1. button' \in ButtonType /\ button'.holds = NoCall BY <1>5 DEF Unmount, ClientInv, ButtonType
    <2> QED BY <1>2, <1>5, <2>1 DEF Unmount
  <1> QED BY <1>1, <1>3, <1>4, <1>5 DEF Operator

\* The steps of a start, one for each await.
LEMMA SessionOpensStep ==
  ASSUME CallClientAssumption, ClientInv, NEW i \in Start, SessionOpens(i)
  PROVE  ClientInv'
  <1>1. /\ pc[i] = "session" /\ call' = [call EXCEPT ![i] = call[i]] /\ call' = call
        /\ Sound(call[i]) /\ Untouched(i)
    BY DEF SessionOpens, ClientInv
  <1>2. Pending(i) BY <1>1 DEF Pending
  <1>3. CASE button.cancelled
    <2>1. Over(i, button) BY <1>3 DEF SessionOpens
    <2>2. /\ button' \in ButtonType /\ button'.holds = button.holds
          /\ pc' \in [Start -> PcType] /\ pc'[i] = "over"
          /\ \A k \in Start \ {i} : pc'[k] = pc[k]
      BY <2>1, OverTyped DEF ClientInv
    <2>3. Reached(i)' /\ Untouched(i)' BY <1>1, <2>2 DEF Untouched, Reached, HasMic
    <2> QED BY <1>1, <1>2, <2>2, <2>3, OneStart
  <1>4. CASE ~button.cancelled
    <2>1. button' = [button EXCEPT !.holds = i] /\ pc' = [pc EXCEPT ![i] = "prompt"]
      BY <1>4 DEF SessionOpens
    <2>2. button' \in ButtonType /\ button'.holds = i BY <2>1, Held DEF ClientInv
    <2>3. /\ pc' \in [Start -> PcType] /\ pc'[i] = "prompt"
          /\ \A k \in Start \ {i} : pc'[k] = pc[k]
      BY <2>1 DEF ClientInv, PcType
    <2>4. Reached(i)' /\ Untouched(i)' BY <1>1, <2>2, <2>3 DEF Untouched, Reached, HasMic
    <2> QED BY <1>1, <1>2, <2>2, <2>3, <2>4, OneStart
  <1> QED BY <1>3, <1>4

LEMMA MicGrantedStep ==
  ASSUME CallClientAssumption, ClientInv, NEW i \in Start, MicGranted(i)
  PROVE  ClientInv'
  <1> DEFINE d == [[call[i] EXCEPT !.mic = TRUE] EXCEPT !.ctx = TRUE]
  <1>1. /\ pc[i] = "prompt" /\ pc' = [pc EXCEPT ![i] = "graph"] /\ UNCHANGED button
        /\ Sound(call[i]) /\ Untouched(i) /\ Reached(i) /\ call[i] \in CallType
    BY DEF MicGranted, ClientInv
  <1>2. call' = [call EXCEPT ![i] = d] BY DEF MicGranted, ClientInv
  <1>3. d \in CallType BY <1>1, Updates
  <1>4. /\ d.mic /\ d.ws = call[i].ws /\ d.early = call[i].early
        /\ d.closed = call[i].closed /\ d.startupFailed = call[i].startupFailed
        /\ d.muted = call[i].muted /\ d.recorder = call[i].recorder
        /\ d.recording = call[i].recording /\ d.ended = call[i].ended
        /\ d.saved = call[i].saved /\ d.server = call[i].server
        /\ d.processing = call[i].processing /\ d.queue = call[i].queue
        /\ d.done = call[i].done /\ d.audible = call[i].audible /\ d.alone = call[i].alone
    BY <1>1 DEF CallType
  <1> HIDE DEF d
  <1>5. Sound(d) BY <1>1, <1>3, <1>4 DEF Sound, GateSound, RecorderSound, EndSound
  <1>6. /\ pc' \in [Start -> PcType] /\ pc'[i] = "graph"
        /\ \A k \in Start \ {i} : pc'[k] = pc[k]
    BY <1>1 DEF ClientInv, PcType
  <1>7. call'[i] = d BY <1>2 DEF ClientInv
  <1>8. Reached(i)' /\ Untouched(i)' BY <1>1, <1>4, <1>6, <1>7 DEF Untouched, Reached, HasMic
  <1>9. Pending(i) BY <1>1 DEF Pending
  <1> QED BY <1>1, <1>2, <1>4, <1>5, <1>6, <1>8, <1>9, OneStart DEF ClientInv

LEMMA GraphReadyStep ==
  ASSUME CallClientAssumption, ClientInv, NEW i \in Start, GraphReady(i)
  PROVE  ClientInv'
  <1>1. /\ pc[i] = "graph" /\ Sound(call[i]) /\ Untouched(i) /\ Reached(i) /\ call[i] \in CallType
    BY DEF GraphReady, ClientInv
  <1>2. CASE ~call[i].ctx BY <1>1, <1>2, FailsStep DEF GraphReady
  <1>3. ASSUME call[i].ctx, NEW d \in CallType, call' = [call EXCEPT ![i] = d],
               d.ws = "connecting", d.recorder \in {"inactive", call[i].recorder},
               d.recording \in {"nothing", call[i].recording},
               d.mic = call[i].mic, d.early = call[i].early,
               d.closed = call[i].closed, d.startupFailed = call[i].startupFailed,
               d.muted = call[i].muted, d.ended = call[i].ended,
               d.saved = call[i].saved, d.recording = "blob" <=> call[i].recording = "blob",
               d.server = call[i].server,
               d.processing = call[i].processing, d.queue = call[i].queue,
               d.done = call[i].done, d.audible = call[i].audible, d.alone = call[i].alone
        PROVE  ClientInv'
    <2>1. pc' = [pc EXCEPT ![i] = "socket"] /\ UNCHANGED button BY <1>3 DEF GraphReady
    <2>2. call[i].ws = "none" BY <1>1 DEF Untouched
    <2>3. Sound(d) BY <1>1, <1>3, <2>2 DEF Sound, GateSound, RecorderSound, EndSound
    <2>4. /\ pc' \in [Start -> PcType] /\ pc'[i] = "socket"
          /\ \A k \in Start \ {i} : pc'[k] = pc[k]
      BY <2>1 DEF ClientInv, PcType
    <2>5. call'[i] = d BY <1>3 DEF ClientInv
    <2>6. Reached(i)' /\ Untouched(i)'
      BY <1>1, <1>3, <2>1, <2>4, <2>5 DEF Untouched, Reached, HasMic, Live
    <2>7. Pending(i) BY <1>1 DEF Pending
    <2> QED BY <1>3, <2>1, <2>3, <2>4, <2>6, <2>7, OneStart DEF ClientInv
  <1>4. CASE call[i].ctx /\ call' = [call EXCEPT ![i].ws = "connecting", ![i].recorder = "inactive"]
    <2> DEFINE d == [[call[i] EXCEPT !.ws = "connecting"] EXCEPT !.recorder = "inactive"]
    <2>1. call' = [call EXCEPT ![i] = d] BY <1>4 DEF ClientInv
    <2>2. d \in CallType BY <1>1, Updates DEF SocketStates
    <2>3. /\ d.ws = "connecting" /\ d.recorder = "inactive" /\ d.recording = call[i].recording
          /\ d.mic = call[i].mic /\ d.early = call[i].early
          /\ d.closed = call[i].closed /\ d.startupFailed = call[i].startupFailed
          /\ d.muted = call[i].muted /\ d.ended = call[i].ended
          /\ d.saved = call[i].saved /\ d.server = call[i].server
          /\ d.processing = call[i].processing /\ d.queue = call[i].queue
          /\ d.done = call[i].done /\ d.audible = call[i].audible /\ d.alone = call[i].alone
      BY <1>1 DEF CallType
    <2> HIDE DEF d
    <2> QED BY <1>3, <1>4, <2>1, <2>2, <2>3
  <1>5. CASE /\ call[i].ctx
             /\ call' = [call EXCEPT ![i] = Settle([call[i] EXCEPT !.ws = "connecting"], "nothing")]
    <2> DEFINE e == [call[i] EXCEPT !.ws = "connecting"]
               value == IF e.recording = "pending" THEN "nothing" ELSE e.recording
               d == [e EXCEPT !.recording = value]
    <2>1. call' = [call EXCEPT ![i] = d] BY <1>5 DEF Settle
    <2>2. e \in CallType BY <1>1, Updates DEF SocketStates
    <2>3. /\ e.ws = "connecting" /\ e.recorder = call[i].recorder
          /\ e.recording = call[i].recording
          /\ e.mic = call[i].mic /\ e.early = call[i].early
          /\ e.closed = call[i].closed /\ e.startupFailed = call[i].startupFailed
          /\ e.muted = call[i].muted /\ e.ended = call[i].ended
          /\ e.saved = call[i].saved /\ e.server = call[i].server
          /\ e.processing = call[i].processing /\ e.queue = call[i].queue
          /\ e.done = call[i].done /\ e.audible = call[i].audible /\ e.alone = call[i].alone
      BY <1>1 DEF CallType
    <2> HIDE DEF e
    <2>4. /\ value \in {"pending", "nothing", "blob"} /\ value \in {"nothing", e.recording}
          /\ value = "blob" <=> e.recording = "blob"
      BY <2>2 DEF CallType
    <2> HIDE DEF value
    <2>5. d \in CallType BY <2>2, <2>4, Updates
    <2>6. /\ d.ws = e.ws /\ d.recorder = e.recorder /\ d.recording = value
          /\ d.mic = e.mic /\ d.early = e.early
          /\ d.closed = e.closed /\ d.startupFailed = e.startupFailed
          /\ d.muted = e.muted /\ d.ended = e.ended
          /\ d.saved = e.saved /\ d.server = e.server
          /\ d.processing = e.processing /\ d.queue = e.queue
          /\ d.done = e.done /\ d.audible = e.audible /\ d.alone = e.alone
      BY <2>2 DEF CallType
    <2> HIDE DEF d
    <2>7. /\ d.ws = "connecting" /\ d.recorder = call[i].recorder
          /\ d.mic = call[i].mic /\ d.early = call[i].early
          /\ d.closed = call[i].closed /\ d.startupFailed = call[i].startupFailed
          /\ d.muted = call[i].muted /\ d.ended = call[i].ended
          /\ d.saved = call[i].saved /\ d.server = call[i].server
          /\ d.processing = call[i].processing /\ d.queue = call[i].queue
          /\ d.done = call[i].done /\ d.audible = call[i].audible /\ d.alone = call[i].alone
      BY <2>3, <2>6
    <2>8. /\ d.recording \in {"nothing", call[i].recording}
          /\ d.recording = "blob" <=> call[i].recording = "blob"
      BY <2>3, <2>4, <2>6
    <2>9. d.recorder \in {"inactive", call[i].recorder} BY <2>7
    <2> QED BY <1>3, <1>5, <2>1, <2>5, <2>7, <2>8, <2>9
  <1> QED BY <1>2, <1>4, <1>5 DEF GraphReady

\* A start that is cancelled hangs up its own call.
LEMMA GivesUp ==
  ASSUME CallClientAssumption, ClientInv, NEW i \in Start, pc[i] \in {"socket", "ring"},
         NEW c, Sound(c), c.mic = call[i].mic, c.alone = call[i].alone, c.early = call[i].early,
         c.closed = call[i].closed, c.ws # "none" => Live(call[i].ws),
         call' = [call EXCEPT ![i] = Disconnect(c)], Over(i, button)
  PROVE  ClientInv'
  <1> DEFINE d == Disconnect(c)
  <1>1. /\ Sound(d)
        /\ d.ws = "none" <=> c.ws = "none"
        /\ d.alone = c.alone
        /\ ~c.closed => ~d.mic /\ (d.early <=> ~c.mic)
        /\ c.closed => d.mic = c.mic /\ d.early = c.early
    BY DisconnectSound
  <1> HIDE DEF d
  <1>2. Reached(i) /\ Untouched(i) BY DEF ClientInv
  <1>3. /\ button' \in ButtonType /\ button'.holds = button.holds
        /\ pc' \in [Start -> PcType] /\ pc'[i] = "over"
        /\ \A k \in Start \ {i} : pc'[k] = pc[k]
    BY OverTyped DEF ClientInv
  <1>4. call'[i] = d BY DEF ClientInv, d
  <1>5. ~HasMic(i)'
    <2>1. CASE c.closed BY <1>1, <1>2, <1>3, <1>4, <2>1 DEF Reached, HasMic
    <2>2. CASE ~c.closed BY <1>1, <1>3, <1>4, <2>2 DEF HasMic
    <2> QED BY <2>1, <2>2
  <1>6. Reached(i)' /\ Untouched(i)' BY <1>3, <1>5 DEF Reached, Untouched
  <1>7. Pending(i) BY DEF Pending
  <1>8. call' = [call EXCEPT ![i] = d] BY DEF d
  <1>9. button'.holds \in {button.holds, i, NoCall} BY <1>3
  <1>10. d.alone = call[i].alone BY <1>1
  <1> QED BY <1>1, <1>3, <1>6, <1>7, <1>8, <1>9, <1>10, OneStart

LEMMA ReadyStep ==
  ASSUME CallClientAssumption, ClientInv, NEW i \in Start, Ready(i)
  PROVE  ClientInv'
  <1> DEFINE e == [call[i] EXCEPT !.ws = "open"]
             c == [e EXCEPT !.settled = TRUE]
  <1>1. /\ pc[i] = "socket" /\ call[i].ws = "connecting"
        /\ Sound(call[i]) /\ Untouched(i) /\ Reached(i)
    BY DEF Ready, ClientInv
  <1>2. [call[i] EXCEPT !.ws = "open", !.settled = TRUE] = c OBVIOUS
  <1>3. /\ Sound(e) /\ e.ws = "open" /\ e.mic = call[i].mic /\ e.closed = call[i].closed
        /\ e.early = call[i].early /\ e.alone = call[i].alone
        /\ e.startupFailed = call[i].startupFailed
    BY <1>1, ShutSound DEF SocketStates, Sound, EndSound
  <1> HIDE DEF e
  <1>4. c \in CallType BY <1>3, Updates DEF Sound
  <1>5. /\ c.ws = e.ws /\ c.mic = e.mic /\ c.closed = e.closed /\ c.early = e.early
        /\ c.alone = e.alone /\ c.startupFailed = e.startupFailed
        /\ c.muted = e.muted /\ c.recorder = e.recorder /\ c.recording = e.recording
        /\ c.ended = e.ended /\ c.saved = e.saved /\ c.server = e.server
        /\ c.processing = e.processing /\ c.queue = e.queue /\ c.done = e.done
        /\ c.audible = e.audible
    BY <1>3 DEF Sound, CallType
  <1> HIDE DEF c
  <1>6. Sound(c) BY <1>3, <1>4, <1>5 DEF Sound, GateSound, RecorderSound, EndSound
  <1>7. CASE button.cancelled
    <2>1. call' = [call EXCEPT ![i] = Disconnect(c)] /\ Over(i, button) BY <1>2, <1>7 DEF Ready
    <2>2. Live(call[i].ws) BY <1>1 DEF Live
    <2> QED BY <1>1, <1>3, <1>5, <1>6, <2>1, <2>2, GivesUp
  <1>8. CASE ~button.cancelled
    <2>1. /\ call' = [call EXCEPT ![i] = c] /\ pc' = [pc EXCEPT ![i] = "ring"] /\ UNCHANGED button
      BY <1>2, <1>8 DEF Ready
    <2>2. /\ pc' \in [Start -> PcType] /\ pc'[i] = "ring"
          /\ \A k \in Start \ {i} : pc'[k] = pc[k]
      BY <2>1 DEF ClientInv, PcType
    <2>3. call'[i] = c BY <2>1 DEF ClientInv
    <2>4. Reached(i)' /\ Untouched(i)'
      BY <1>1, <1>3, <1>5, <2>1, <2>2, <2>3 DEF Reached, Untouched, HasMic, Live
    <2>5. Pending(i) BY <1>1 DEF Pending
    <2> QED BY <1>3, <1>5, <1>6, <2>1, <2>2, <2>4, <2>5, OneStart DEF ClientInv
  <1> QED BY <1>7, <1>8

\* The start fails while its socket is opening.
LEMMA RefusedStep ==
  ASSUME CallClientAssumption, ClientInv, NEW i \in Start, Refused(i) \/ SocketError(i)
  PROVE  ClientInv'
  <1> DEFINE w == [call[i] EXCEPT !.ws = Shut(@)]
             e == [w EXCEPT !.settled = TRUE]
  <1>1. /\ pc[i] = "socket" /\ Live(call[i].ws) /\ call[i].ws # "closed"
        /\ Sound(call[i]) /\ call[i] \in CallType
    BY DEF Refused, SocketError, ClientInv, Live
  <1>2. w = [call[i] EXCEPT !.ws = Shut(call[i].ws)] OBVIOUS
  <1>3. /\ Sound(w) /\ w.ws = Shut(call[i].ws) /\ w.mic = call[i].mic
        /\ w.closed = call[i].closed /\ w.early = call[i].early /\ w.alone = call[i].alone
        /\ w.startupFailed = call[i].startupFailed /\ w.ended = call[i].ended
    <2> HIDE DEF w
    <2> QED BY <1>1, <1>2, ShutSound DEF w
  <1>4. /\ w.ws = "none" <=> call[i].ws = "none"
        /\ Live(w.ws) <=> Live(call[i].ws)
        /\ w.ended # 1
    BY <1>1, <1>3, ShutSound DEF Sound, EndSound
  <1> HIDE DEF w
  <1>5. e \in CallType BY <1>3, Updates DEF Sound
  <1>6. /\ e.ws = w.ws /\ e.mic = w.mic /\ e.closed = w.closed /\ e.early = w.early
        /\ e.alone = w.alone /\ e.startupFailed = w.startupFailed
        /\ e.muted = w.muted /\ e.recorder = w.recorder /\ e.recording = w.recording
        /\ e.ended = w.ended /\ e.saved = w.saved /\ e.server = w.server
        /\ e.processing = w.processing /\ e.queue = w.queue /\ e.done = w.done
        /\ e.audible = w.audible
    BY <1>3 DEF Sound, CallType
  <1> HIDE DEF e
  <1>7. Sound(e) BY <1>3, <1>5, <1>6 DEF Sound, GateSound, RecorderSound, EndSound
  <1>8. CASE SocketError(i)
    <2>1. Caught(i, [call EXCEPT ![i] = e])
      <3>1. [call EXCEPT ![i].settled = TRUE, ![i].ws = Shut(@)] = [call EXCEPT ![i] = e]
        BY <1>1 DEF ClientInv, CallType, e, w
      <3> QED BY <1>8, <3>1 DEF SocketError
    <2> QED BY <1>1, <1>3, <1>4, <1>6, <1>7, <2>1, CaughtStep
  <1>9. CASE Refused(i)
    <2> DEFINE f == [e EXCEPT !.startupFailed = TRUE]
    <2>1. f \in CallType BY <1>5, Updates
    <2>2. /\ f.ws = e.ws /\ f.mic = e.mic /\ f.closed = e.closed /\ f.early = e.early
          /\ f.alone = e.alone
          /\ f.muted = e.muted /\ f.recorder = e.recorder /\ f.recording = e.recording
          /\ f.ended = e.ended /\ f.saved = e.saved /\ f.server = e.server
          /\ f.processing = e.processing /\ f.queue = e.queue /\ f.done = e.done
          /\ f.audible = e.audible
      BY <1>5 DEF CallType
    <2>3. Caught(i, [call EXCEPT ![i] = f])
      <3>1. [call EXCEPT ![i].settled = TRUE, ![i].startupFailed = TRUE, ![i].ws = Shut(@)]
              = [call EXCEPT ![i] = f]
        BY <1>1 DEF ClientInv, CallType, f, e, w
      <3> QED BY <1>9, <3>1 DEF Refused
    <2> HIDE DEF f
    <2>4. Sound(f)
      BY <1>4, <1>6, <1>7, <2>1, <2>2 DEF Sound, GateSound, RecorderSound, EndSound
    <2> QED BY <1>1, <1>3, <1>4, <1>6, <2>2, <2>3, <2>4, CaughtStep
  <1> QED BY <1>8, <1>9

LEMMA SocketClosesStep ==
  ASSUME CallClientAssumption, ClientInv, NEW i \in Start, SocketCloses(i)
  PROVE  ClientInv'
  <1> DEFINE e == [call[i] EXCEPT !.ws = "closed"]
  <1>1. /\ Live(call[i].ws) /\ pc[i] \in {"socket", "ring", "over"}
        /\ Sound(call[i]) /\ call[i] \in CallType /\ Untouched(i) /\ Reached(i)
    BY DEF SocketCloses, ClientInv, Live, Untouched
  <1>2. /\ Sound(e) /\ e.ws = "closed" /\ e.mic = call[i].mic
        /\ e.closed = call[i].closed /\ e.early = call[i].early /\ e.alone = call[i].alone
        /\ e.startupFailed = call[i].startupFailed /\ e.ended = call[i].ended
    BY <1>1, ShutSound DEF SocketStates
  <1>3. Pending(i) /\ call[i].ended = 0
    BY <1>1 DEF Pending, Live, Sound, EndSound, CallType
  <1> HIDE DEF e
  <1>4. CASE ~call[i].settled
    <2> DEFINE c == [e EXCEPT !.settled = TRUE]
    <2>1. c \in CallType BY <1>2, Updates DEF Sound
    <2>2. /\ c.ws = e.ws /\ c.mic = e.mic /\ c.closed = e.closed /\ c.early = e.early
          /\ c.alone = e.alone /\ c.startupFailed = e.startupFailed
          /\ c.muted = e.muted /\ c.recorder = e.recorder /\ c.recording = e.recording
          /\ c.ended = e.ended /\ c.saved = e.saved /\ c.server = e.server
          /\ c.processing = e.processing /\ c.queue = e.queue /\ c.done = e.done
          /\ c.audible = e.audible
      BY <1>2 DEF Sound, CallType
    <2>3. Caught(i, [call EXCEPT ![i] = c])
      <3>1. [call EXCEPT ![i].settled = TRUE, ![i].ws = "closed"] = [call EXCEPT ![i] = c]
        BY <1>1 DEF ClientInv, CallType, c, e
      <3> QED BY <1>4, <3>1 DEF SocketCloses
    <2> HIDE DEF c
    <2>4. Sound(c) BY <1>2, <2>1, <2>2 DEF Sound, GateSound, RecorderSound, EndSound
    <2>5. c.ws # "none" /\ call[i].ws # "none" BY <1>1, <1>2, <2>2 DEF Live
    <2>6. Live(c.ws) => Live(call[i].ws) BY <1>1
    <2>7. call' = HangUpHeld([call EXCEPT ![i] = c]) /\ Over(i, [button EXCEPT !.holds = NoCall])
      BY <2>3 DEF Caught
    <2> QED BY <1>1, <1>2, <2>2, <2>3, <2>4, <2>5, <2>6, CaughtStep
  <1>5. CASE call[i].settled /\ call[i].startupFailed
    <2>1. call' = [call EXCEPT ![i] = e] /\ UNCHANGED <<button, pc>>
      BY <1>5 DEF SocketCloses, ClientInv, e
    <2>2. call'[i] = e BY <2>1 DEF ClientInv
    <2>3. Reached(i)' /\ Untouched(i)'
      BY <1>1, <1>2, <1>5, <2>1, <2>2 DEF Reached, Untouched, HasMic
    <2> QED BY <1>2, <1>3, <2>1, <2>3, OneStart DEF ClientInv
  <1>6. CASE call[i].settled /\ ~call[i].startupFailed
    <2> DEFINE t == Teardown(e)
               d == [t EXCEPT !.ended = 1]
    <2>1. /\ Sound(t) /\ t.closed /\ t.ws = e.ws /\ t.startupFailed = e.startupFailed
          /\ t.alone = e.alone /\ t.ended = e.ended
          /\ ~e.closed => ~t.mic
          /\ e.closed => t = e
      BY <1>2, TeardownSound
    <2>2. Ended(i) BY <1>6 DEF SocketCloses
    <2>3. call' = [call EXCEPT ![i] = d] /\ UNCHANGED pc
          /\ button' = Ui([button EXCEPT !.holds = NoCall], button.ringing, FALSE)
      <3>1. t.ended + 1 = 1 BY <1>2, <1>3, <2>1
      <3>2. [t EXCEPT !.ended = @ + 1] = d BY <3>1
      <3>3. call' = [call EXCEPT ![i] = [t EXCEPT !.ended = @ + 1]] BY <2>2 DEF Ended, e
      <3> QED BY <2>2, <3>2, <3>3 DEF Ended
    <2> HIDE DEF t
    <2>4. d \in CallType
      <3>1. 1 \in 0..1 /\ t \in CallType BY <2>1 DEF Sound
      <3> QED BY <3>1, Updates
    <2>5. /\ d.ws = t.ws /\ d.mic = t.mic /\ d.closed = t.closed /\ d.early = t.early
          /\ d.alone = t.alone /\ d.startupFailed = t.startupFailed
          /\ d.muted = t.muted /\ d.recorder = t.recorder /\ d.recording = t.recording
          /\ d.ended = 1 /\ d.saved = t.saved /\ d.server = t.server
          /\ d.processing = t.processing /\ d.queue = t.queue /\ d.done = t.done
          /\ d.audible = t.audible
      BY <2>1 DEF Sound, CallType
    <2> HIDE DEF d
    <2>6. Sound(d)
      BY <1>2, <1>6, <2>1, <2>4, <2>5 DEF Sound, GateSound, RecorderSound, EndSound
    <2>7. button' \in ButtonType /\ button'.holds = NoCall
      <3>1. [button EXCEPT !.holds = NoCall] \in ButtonType BY Held DEF ClientInv
      <3>2. [button EXCEPT !.holds = NoCall].holds = NoCall /\ button.ringing \in BOOLEAN
        BY Held DEF ClientInv
      <3> QED BY <2>3, <3>1, <3>2, UiTyped
    <2>8. call'[i] = d BY <2>3 DEF ClientInv
    <2>9. ~HasMic(i)'
      <3>1. CASE e.closed BY <1>1, <1>2, <2>1, <2>3, <2>5, <2>8, <3>1 DEF Reached, HasMic
      <3>2. CASE ~e.closed BY <1>1, <2>1, <2>3, <2>5, <2>8, <3>2 DEF HasMic
      <3> QED BY <3>1, <3>2
    <2>10. Reached(i)' /\ Untouched(i)' BY <1>1, <2>3, <2>9 DEF Reached, Untouched
    <2> QED BY <1>2, <1>3, <2>1, <2>3, <2>5, <2>6, <2>7, <2>10, OneStart DEF ClientInv
  <1> QED BY <1>4, <1>5, <1>6

LEMMA RingDoneStep ==
  ASSUME CallClientAssumption, ClientInv, NEW i \in Start, RingDone(i)
  PROVE  ClientInv'
  <1>1. pc[i] = "ring" /\ Sound(call[i]) /\ call[i] \in CallType /\ Untouched(i) /\ Reached(i)
    BY DEF RingDone, ClientInv
  <1>2. CASE button.cancelled /\ Live(call[i].ws)
    <2>1. call' = [call EXCEPT ![i] = Disconnect(call[i])] /\ Over(i, button)
      BY <1>2 DEF RingDone, ClientInv
    <2> QED BY <1>1, <1>2, <2>1, GivesUp
  <1>3. CASE button.cancelled /\ ~Live(call[i].ws)
    <2> DEFINE d == Disconnect(call[i])
    <2>1. call' = [call EXCEPT ![i] = d] /\ Over(i, button) BY <1>3 DEF RingDone, ClientInv
    <2>2. /\ Sound(d)
          /\ d.ws = "none" <=> call[i].ws = "none"
          /\ Live(d.ws) <=> Live(call[i].ws)
          /\ d.alone = call[i].alone
          /\ ~call[i].closed => ~d.mic
          /\ call[i].closed => d.mic = call[i].mic /\ d.early = call[i].early
      BY <1>1, DisconnectSound
    <2>3. /\ button' \in ButtonType /\ button'.holds = button.holds
          /\ pc' \in [Start -> PcType] /\ pc'[i] = "over"
          /\ \A k \in Start \ {i} : pc'[k] = pc[k]
      BY <2>1, OverTyped DEF ClientInv
    <2> HIDE DEF d
    <2>4. call'[i] = d BY <2>1 DEF ClientInv
    <2>5. Reached(i)' /\ Untouched(i)'
      BY <1>1, <1>3, <2>2, <2>3, <2>4 DEF Reached, Untouched, HasMic
    <2>6. Pending(i) BY <1>1 DEF Pending
    <2> QED BY <2>1, <2>2, <2>3, <2>5, <2>6, OneStart
  <1>4. CASE ~button.cancelled
    <2> DEFINE m == [call[i] EXCEPT !.muted = FALSE]
               r == IF m.recorder = "inactive" THEN "recording" ELSE m.recorder
               d == [m EXCEPT !.recorder = r]
               b == Ui(button, button.ringing, TRUE)
    <2>1. call' = [call EXCEPT ![i] = d] /\ Over(i, b)
      <3>1. [call EXCEPT ![i].muted = FALSE,
                         ![i].recorder = IF @ = "inactive" THEN "recording" ELSE @]
              = [call EXCEPT ![i] = d]
        BY <1>1 DEF ClientInv, CallType
      <3> QED BY <1>4, <3>1 DEF RingDone
    <2>2. m \in CallType BY <1>1, Updates
    <2>3. /\ ~m.muted /\ m.ws = call[i].ws /\ m.mic = call[i].mic /\ m.closed = call[i].closed
          /\ m.early = call[i].early /\ m.alone = call[i].alone
          /\ m.startupFailed = call[i].startupFailed
          /\ m.recorder = call[i].recorder /\ m.recording = call[i].recording
          /\ m.ended = call[i].ended /\ m.saved = call[i].saved /\ m.server = call[i].server
          /\ m.processing = call[i].processing /\ m.queue = call[i].queue
          /\ m.done = call[i].done /\ m.audible = call[i].audible
      BY <1>1 DEF CallType
    <2> HIDE DEF m
    <2>4. r \in {"none", "inactive", "recording", "stopping"} BY <2>2 DEF CallType
    <2> HIDE DEF r
    <2>5. d \in CallType BY <2>2, <2>4, Updates
    <2>6. /\ d.muted = m.muted /\ d.ws = m.ws /\ d.mic = m.mic /\ d.closed = m.closed
          /\ d.early = m.early /\ d.alone = m.alone
          /\ d.startupFailed = m.startupFailed /\ d.recording = m.recording
          /\ d.ended = m.ended /\ d.saved = m.saved /\ d.server = m.server
          /\ d.processing = m.processing /\ d.queue = m.queue
          /\ d.done = m.done /\ d.audible = m.audible
      BY <2>2 DEF CallType
    <2> HIDE DEF d
    <2>7. Sound(d)
      BY <1>1, <2>3, <2>5, <2>6 DEF Sound, GateSound, RecorderSound, EndSound
    <2>8. b \in ButtonType /\ b.holds = button.holds BY UiTyped, Held, ClientInv DEF ClientInv
    <2> HIDE DEF b
    <2>9. /\ button' \in ButtonType /\ button'.holds = button.holds
          /\ pc' \in [Start -> PcType] /\ pc'[i] = "over"
          /\ \A k \in Start \ {i} : pc'[k] = pc[k]
      BY <2>1, <2>8, OverTyped DEF ClientInv
    <2>10. call'[i] = d BY <2>1 DEF ClientInv
    <2>11. Reached(i)' /\ Untouched(i)'
      BY <1>1, <2>3, <2>6, <2>9, <2>10 DEF Reached, Untouched, HasMic
    <2>12. Pending(i) BY <1>1 DEF Pending
    <2> QED BY <2>1, <2>3, <2>6, <2>7, <2>9, <2>11, <2>12, OneStart
  <1> QED BY <1>2, <1>3, <1>4

LEMMA StartStepKeeps ==
  ASSUME CallClientAssumption, ClientInv, NEW i \in Start, StartStep(i)
  PROVE  ClientInv'
  <1>1. CASE Fails(i) BY <1>1, FailsStep DEF Fails
  <1> QED BY <1>1, SessionOpensStep, MicGrantedStep, GraphReadyStep, ReadyStep, RefusedStep,
             SocketClosesStep, RingDoneStep DEF StartStep

\* The recording.
LEMMA RecordingStep ==
  ASSUME CallClientAssumption, ClientInv, NEW i \in Start, RecorderStops(i) \/ Upload(i)
  PROVE  ClientInv'
  <1>1. Sound(call[i]) /\ call[i] \in CallType BY DEF ClientInv
  <1>2. CASE RecorderStops(i)
    <2>1. PICK value \in {"blob", "nothing"} :
            call' = [call EXCEPT ![i] = Settle([@ EXCEPT !.recorder = "none"], value)]
      BY <1>2 DEF RecorderStops
    <2> DEFINE e == [call[i] EXCEPT !.recorder = "none"]
               v == IF e.recording = "pending" THEN value ELSE e.recording
               d == [e EXCEPT !.recording = v]
    <2>2. call' = [call EXCEPT ![i] = d] BY <2>1 DEF Settle
    <2>3. e \in CallType BY <1>1, Updates
    <2>4. /\ e.recorder = "none" /\ e.muted = call[i].muted /\ e.ws = call[i].ws
          /\ e.mic = call[i].mic /\ e.closed = call[i].closed
          /\ e.early = call[i].early /\ e.alone = call[i].alone
          /\ e.startupFailed = call[i].startupFailed /\ e.recording = call[i].recording
          /\ e.ended = call[i].ended /\ e.saved = call[i].saved /\ e.server = call[i].server
          /\ e.processing = call[i].processing /\ e.queue = call[i].queue
          /\ e.done = call[i].done /\ e.audible = call[i].audible
      BY <1>1 DEF CallType
    <2> HIDE DEF e
    <2>5. v \in {"pending", "nothing", "blob"} /\ (e.recording = "blob" => v = "blob")
      BY <2>3 DEF CallType
    <2> HIDE DEF v
    <2>6. d \in CallType BY <2>3, <2>5, Updates
    <2>7. /\ d.recorder = e.recorder /\ d.recording = v /\ d.muted = e.muted /\ d.ws = e.ws
          /\ d.mic = e.mic /\ d.closed = e.closed
          /\ d.early = e.early /\ d.alone = e.alone
          /\ d.startupFailed = e.startupFailed
          /\ d.ended = e.ended /\ d.saved = e.saved /\ d.server = e.server
          /\ d.processing = e.processing /\ d.queue = e.queue
          /\ d.done = e.done /\ d.audible = e.audible
      BY <2>3 DEF CallType
    <2> HIDE DEF d
    <2>8. ~call[i].muted BY <1>1, <1>2 DEF RecorderStops, Sound, RecorderSound
    <2>9. Sound(d)
      BY <1>1, <2>4, <2>5, <2>6, <2>7, <2>8 DEF Sound, GateSound, RecorderSound, EndSound
    <2>10. UNCHANGED <<button, pc>> BY <1>2 DEF RecorderStops
    <2> QED BY <2>2, <2>4, <2>7, <2>9, <2>10, InsideACall
  <1>3. CASE Upload(i)
    <2> DEFINE d == [call[i] EXCEPT !.saved = 1]
    <2>1. call[i].ended = 1 /\ call[i].saved = 0 /\ call[i].recording = "blob"
      BY <1>1, <1>3 DEF Upload, CallType
    <2>2. call' = [call EXCEPT ![i] = d] /\ UNCHANGED <<button, pc>>
      BY <1>3, <2>1 DEF Upload, ClientInv
    <2>3. d \in CallType
      <3>1. 1 \in 0..1 OBVIOUS
      <3> QED BY <1>1, <3>1, Updates
    <2>4. /\ d.saved = 1 /\ d.muted = call[i].muted /\ d.ws = call[i].ws
          /\ d.mic = call[i].mic /\ d.closed = call[i].closed
          /\ d.early = call[i].early /\ d.alone = call[i].alone
          /\ d.startupFailed = call[i].startupFailed /\ d.recording = call[i].recording
          /\ d.recorder = call[i].recorder
          /\ d.ended = call[i].ended /\ d.server = call[i].server
          /\ d.processing = call[i].processing /\ d.queue = call[i].queue
          /\ d.done = call[i].done /\ d.audible = call[i].audible
      BY <1>1 DEF CallType
    <2> HIDE DEF d
    <2>5. Sound(d)
      BY <1>1, <2>1, <2>3, <2>4 DEF Sound, GateSound, RecorderSound, EndSound
    <2> QED BY <2>2, <2>4, <2>5, InsideACall
  <1> QED BY <1>2, <1>3

\* A step of the conversation touches the turn and the player and nothing else.
LEMMA TurnStepKeeps ==
  ASSUME CallClientAssumption, ClientInv, NEW i \in Start, TurnStep(i)
  PROVE  ClientInv'
  <1>1. Sound(call[i]) /\ call[i] \in CallType BY DEF ClientInv
  <1>2. /\ call[i].queue \in 0..MaxQueue /\ call[i].audible \in BOOLEAN
        /\ MaxQueue \in Nat /\ 0 \in 0..MaxQueue
    BY <1>1 DEF CallType, CallClientAssumption
  <1>3. ASSUME NEW s \in {"quiet", "thinking", "speaking"}, NEW p \in BOOLEAN, NEW a \in BOOLEAN,
               NEW dn \in BOOLEAN, NEW q \in 0..MaxQueue,
               p <=> s = "thinking", q > 0 => a, s # "speaking" => dn /\ (q = 0 => ~a),
               UNCHANGED <<button, pc>>,
               NEW d,
               d = [[[[[call[i] EXCEPT !.server = s] EXCEPT !.processing = p] EXCEPT !.audible = a]
                      EXCEPT !.done = dn] EXCEPT !.queue = q],
               call' = [call EXCEPT ![i] = d]
        PROVE  ClientInv'
    <2>1. d \in CallType BY <1>1, <1>3, Updates
    <2>2. /\ d.server = s /\ d.processing = p /\ d.audible = a /\ d.done = dn /\ d.queue = q
          /\ d.saved = call[i].saved /\ d.muted = call[i].muted /\ d.ws = call[i].ws
          /\ d.mic = call[i].mic /\ d.closed = call[i].closed
          /\ d.early = call[i].early /\ d.alone = call[i].alone
          /\ d.startupFailed = call[i].startupFailed /\ d.recording = call[i].recording
          /\ d.recorder = call[i].recorder /\ d.ended = call[i].ended
      BY <1>1, <1>3 DEF CallType
    <2>3. Sound(d)
      BY <1>1, <1>3, <2>1, <2>2 DEF Sound, GateSound, RecorderSound, EndSound
    <2> QED BY <1>3, <2>2, <2>3, InsideACall
  <1> DEFINE after(s, p, a, dn, q) ==
               [[[[[call[i] EXCEPT !.server = s] EXCEPT !.processing = p] EXCEPT !.audible = a]
                  EXCEPT !.done = dn] EXCEPT !.queue = q]
  <1>4. CASE UserFinal(i)
    <2> DEFINE d == after("thinking", TRUE, call[i].audible, call[i].done, call[i].queue)
    <2>1. call' = [call EXCEPT ![i] = d] /\ UNCHANGED <<button, pc>> /\ call[i].server = "quiet"
      BY <1>1, <1>4 DEF UserFinal, Hears, CallType
    <2> QED BY <1>1, <1>2, <1>3, <2>1 DEF Sound, GateSound, CallType
  <1>5. CASE SpeakingStart(i)
    <2> DEFINE d == after("speaking", FALSE, call[i].audible, FALSE, call[i].queue)
    <2>1. call' = [call EXCEPT ![i] = d] /\ UNCHANGED <<button, pc>>
      BY <1>1, <1>5 DEF SpeakingStart, Hears, CallType
    <2> QED BY <1>1, <1>2, <1>3, <2>1 DEF Sound, GateSound
  <1>6. CASE Chunk(i)
    <2> DEFINE c == call[i]
               q == c.queue + 1
               d == after(c.server, c.processing, TRUE, c.done, q)
    <2>1. call' = [call EXCEPT ![i] = d]
      <3>1. call' = [call EXCEPT ![i] = [c EXCEPT !.queue = @ + 1, !.audible = TRUE]]
        BY <1>6 DEF Chunk, Hears
      <3>2. [c EXCEPT !.queue = @ + 1, !.audible = TRUE] = d BY <1>1 DEF CallType
      <3> QED BY <3>1, <3>2
    <2>2. UNCHANGED <<button, pc>> /\ c.queue < MaxQueue /\ c.server = "speaking"
      BY <1>6 DEF Chunk, Hears
    <2>3. c.server \in {"quiet", "thinking", "speaking"} /\ c.processing \in BOOLEAN
          /\ c.done \in BOOLEAN /\ q \in 0..MaxQueue
      BY <1>1, <1>2, <2>2 DEF CallType
    <2>4. c.processing <=> c.server = "thinking" BY <1>1 DEF Sound, GateSound
    <2> HIDE DEF q
    <2> QED BY <1>3, <2>1, <2>2, <2>3, <2>4
  <1>7. CASE SpeakingEnd(i)
    <2> DEFINE c == call[i]
               a == c.audible /\ c.queue > 0
               d == after("quiet", FALSE, a, TRUE, c.queue)
    <2>1. call' = [call EXCEPT ![i] = d] /\ UNCHANGED <<button, pc>>
      BY <1>1, <1>7 DEF SpeakingEnd, Hears, CallType
    <2>2. a \in BOOLEAN /\ (c.queue > 0 => a) /\ (c.queue = 0 => ~a)
      BY <1>1 DEF Sound, GateSound
    <2> HIDE DEF a
    <2> QED BY <1>2, <1>3, <2>1, <2>2
  <1>8. CASE Interrupt(i)
    <2> DEFINE c == call[i]
               f == FALSE
               q == 0
               d == after("quiet", f, f, TRUE, q)
    <2>1. call' = [call EXCEPT ![i] = d] /\ UNCHANGED <<button, pc>>
      BY <1>1, <1>8 DEF Interrupt, Hears, CallType, Flush
    <2>2. f \in BOOLEAN /\ ~f /\ q \in 0..MaxQueue /\ ~(q > 0) BY <1>2
    <2> HIDE DEF f, q
    <2> QED BY <1>3, <2>1, <2>2
  <1>9. CASE ChunkEnds(i)
    <2> DEFINE c == call[i]
               a == ~(c.queue = 1 /\ c.done)
               q == c.queue - 1
               d == after(c.server, c.processing, a, c.done, q)
    <2>1. call' = [call EXCEPT ![i] = d]
      <3>1. call' = [call EXCEPT ![i] = [c EXCEPT !.queue = @ - 1, !.audible = a]]
        BY <1>9 DEF ChunkEnds, ClientInv
      <3> HIDE DEF a
      <3>2. [c EXCEPT !.queue = @ - 1, !.audible = a] = d BY <1>1 DEF CallType
      <3> QED BY <3>1, <3>2
    <2>2. UNCHANGED <<button, pc>> /\ c.queue > 0 BY <1>9 DEF ChunkEnds
    <2>3. c.server \in {"quiet", "thinking", "speaking"} /\ c.processing \in BOOLEAN
          /\ c.done \in BOOLEAN /\ q \in 0..MaxQueue /\ a \in BOOLEAN
      BY <1>1, <1>2, <2>2 DEF CallType
    <2>4. c.processing <=> c.server = "thinking" BY <1>1 DEF Sound, GateSound
    <2>5. q > 0 => a BY <1>2
    <2>6. c.server # "speaking" => c.done /\ (q = 0 => ~a)
      BY <1>1, <1>2 DEF Sound, GateSound
    <2> HIDE DEF a, q
    <2> QED BY <1>3, <2>1, <2>2, <2>3, <2>4, <2>5, <2>6
  <1> QED BY <1>4, <1>5, <1>6, <1>7, <1>8, <1>9 DEF TurnStep

LEMMA ClientBegins == CallClientAssumption /\ ClientInit => ClientInv
  <1> SUFFICES ASSUME CallClientAssumption, ClientInit PROVE ClientInv OBVIOUS
  <1>1. button \in ButtonType /\ pc \in [Start -> PcType] /\ button.holds = NoCall
    BY DEF ClientInit, ButtonType, PcType
  <1>2. \A i \in Start : pc[i] = "none" /\ call[i] = NewCall /\ i # NoCall
    BY DEF ClientInit, Start, NoCall
  <1>3. NewCall \in CallType BY DEF NewCall, CallType, CallClientAssumption
  <1>4. Sound(NewCall) BY <1>3 DEF NewCall, Sound, GateSound, RecorderSound, EndSound
  <1>5. call \in [Start -> CallType] BY <1>3 DEF ClientInit
  <1>6. ~NewCall.mic /\ ~NewCall.closed /\ ~NewCall.startupFailed /\ NewCall.ws = "none"
    BY DEF NewCall
  <1>7. \A i \in Start : Reached(i) /\ Untouched(i)
    BY <1>1, <1>2, <1>6 DEF Reached, Untouched, HasMic
  <1>8. Alone BY <1>2, <1>6 DEF Alone, Pending
  <1> QED BY <1>1, <1>2, <1>4, <1>5, <1>7, <1>8 DEF ClientInv

\* The inductive invariant of the page: the types, the records and the ways to
\* a microphone.
LEMMA ClientStaysSound ==
  ASSUME CallClientAssumption
  PROVE  ClientSpec => []ClientInv
  <1>1. ClientInit => ClientInv BY ClientBegins
  <1>2. ClientInv /\ [ClientNext]_clientVars => ClientInv'
    <2> SUFFICES ASSUME ClientInv, [ClientNext]_clientVars PROVE ClientInv' OBVIOUS
    <2>1. CASE Operator BY <2>1, OperatorStep
    <2>2. ASSUME NEW i \in Start, StartStep(i) \/ RecorderStops(i) \/ Upload(i) \/ TurnStep(i)
          PROVE ClientInv'
      BY <2>2, StartStepKeeps, RecordingStep, TurnStepKeeps
    <2>3. CASE UNCHANGED clientVars
      BY <2>3 DEF clientVars, ClientInv, Reached, Untouched, HasMic, Alone, Pending
    <2> QED BY <2>1, <2>2, <2>3 DEF ClientNext
  <1> QED BY <1>1, <1>2, PTL DEF ClientSpec

\* For every number of starts and chunks the refs of the button, the starts and
\* the records of their calls keep their shape, and a call ends once and is
\* uploaded once, after its socket closed (VoiceButton.tsx:199-206, 106-117).
THEOREM CallsEndOnce ==
  ASSUME CallClientAssumption
  PROVE  ClientSpec => []EndsOnce
  <1>1. ClientInv => EndsOnce
    <2> SUFFICES ASSUME ClientInv PROVE EndsOnce OBVIOUS
    <2>1. ClientTypeOK BY DEF ClientTypeOK, ClientInv, ButtonType, PcType, Untouched
    <2>2. \A i \in Start : EndSound(call[i]) BY DEF ClientInv, Sound
    <2> QED BY <2>1, <2>2 DEF EndsOnce, EndSound
  <1> QED BY <1>1, ClientStaysSound, PTL

\* For every number of chunks in the queue the microphone is gated while the
\* server thinks or is heard and open when both are over (voiceCall.ts:253-277,
\* 350-404).
THEOREM GateIsTheTurn ==
  ASSUME CallClientAssumption
  PROVE  ClientSpec => []GateFollowsTheTurn
  <1>1. ClientInv => GateFollowsTheTurn
    <2> SUFFICES ASSUME ClientInv, NEW i \in Start
                 PROVE  LET d == call[i]  gated == d.processing \/ d.audible IN
                        /\ d.server = "thinking" \/ d.queue > 0 => gated
                        /\ d.server = "quiet" /\ d.queue = 0 => ~gated
      BY DEF GateFollowsTheTurn
    <2> QED BY DEF ClientInv, Sound, GateSound
  <1> QED BY <1>1, ClientStaysSound, PTL

\* For every number of starts, and however they overlap, a microphone that is
\* open once its start is over is one the button hangs up, but in the two ways
\* out the property names (VoiceButton.tsx:143-240, voiceCall.ts:452-484).
THEOREM MicrophoneInReach ==
  ASSUME CallClientAssumption
  PROVE  ClientSpec => []MicInReach
  <1>1. ClientInv => MicInReach
    BY DEF ClientInv, Reached, HasMic, MicInReach
  <1> QED BY <1>1, ClientStaysSound, PTL

=============================================================================
