------------------------ MODULE VoicePipelineProofs ------------------------
(***************************************************************************)
(* What is proved of VoicePipeline, for every number of commits and of     *)
(* pieces in a reply.                                                      *)
(***************************************************************************)
EXTENDS VoicePipeline, TLAPS

USE BoundsAssumption

QueueType == line \in [Lock -> SUBSET Waiter] /\ ahead \in [Waiter -> SUBSET Waiter]

---------------------------------------------------------------------------
(* The locks and _cancel_turn keep the types.                              *)

LEMMA Sets == /\ Stt \in Caller /\ Run \in Caller /\ Turn \subseteq Caller
              /\ \A p \in Caller : C(p) \in Waiter
              /\ \A t \in Turn : T(t) \in Waiter
              /\ L \in Waiter /\ Stt # Run /\ NoTurn \notin Turn
  BY DEF Stt, Run, Caller, Turn, C, T, L, Waiter, NoTurn

LEMMA QuietTyped == Quiet \in CallType
  BY DEF Quiet, CallType, CallerPc

LEMMA AskTyped ==
  ASSUME QueueType, NEW w \in Waiter, NEW l \in Lock, Ask(w, l)
  PROVE  QueueType'
  BY DEF QueueType, Ask

LEMMA QuitTyped ==
  ASSUME QueueType, NEW ws, Quit(ws)
  PROVE  QueueType'
  BY DEF QueueType, Quit

\* What _cancel_turn and _fire_pending change.
CancelType == /\ call \in [Caller -> CallType] /\ turn \in [Turn -> TurnType]
              /\ active \in Turn \cup {NoTurn} /\ speaking \in BOOLEAN
              /\ turnText \in 0..MaxDeltas /\ turnTask \in Turn \cup {NoTurn}
              /\ QueueType

LEMMA ProceedTyped ==
  ASSUME CancelType, NEW p \in Caller, NEW r \in CallType, Proceed(p, r)
  PROVE  call' \in [Caller -> CallType] /\ turnText' \in 0..MaxDeltas /\ QueueType'
  <1>1. QueueType'
    BY Sets, AskTyped, QuitTyped DEF CancelType, Proceed, Lock
  <1>2. call' \in [Caller -> CallType]
    <2>1. /\ [Quiet EXCEPT !.pc = "marking"] \in CallType
          /\ [Quiet EXCEPT !.pc = "held"] \in CallType
          /\ [r EXCEPT !.pc = "announce", !.cut = FALSE] \in CallType
      BY DEF CallType, CallerPc, Quiet
    <2> QED BY <2>1 DEF CancelType, Proceed
  <1> QED BY <1>1, <1>2 DEF Proceed, CancelType

LEMMA SilenceTyped ==
  ASSUME CancelType, NEW p \in Caller, NEW r \in CallType, NEW i \in BOOLEAN,
         Silence(p, r, i)
  PROVE  /\ call' \in [Caller -> CallType] /\ turnText' \in 0..MaxDeltas /\ QueueType'
         /\ active' \in Turn \cup {NoTurn} /\ speaking' \in BOOLEAN
  <1>1. CASE Proceed(p, r)
    BY <1>1, ProceedTyped DEF Silence, CancelType
  <1>2. CASE /\ call' = [call EXCEPT ![p] =
                      [r EXCEPT !.pc = IF r.cut /\ turnText > 0 THEN "flushText" ELSE "flush"]]
             /\ Ask(C(p), "browser") /\ UNCHANGED turnText
    <2>1. QueueType' BY <1>2, Sets, AskTyped DEF CancelType, Lock
    <2>2. call' \in [Caller -> CallType]
      BY <1>2 DEF CancelType, CallType, CallerPc
    <2> QED BY <1>2, <2>1, <2>2 DEF Silence, CancelType
  <1> QED BY <1>1, <1>2 DEF Silence

LEMMA DropAudioTyped ==
  ASSUME CancelType, NEW p \in Caller, NEW r \in CallType, DropAudio(p, r)
  PROVE  /\ call' \in [Caller -> CallType] /\ turnText' \in 0..MaxDeltas /\ QueueType'
         /\ active' \in Turn \cup {NoTurn} /\ speaking' \in BOOLEAN
  <1>1. CASE active # NoTurn
    <2>1. QueueType' BY <1>1, Sets, AskTyped DEF CancelType, DropAudio, Lock
    <2>2. call' \in [Caller -> CallType]
      BY <1>1 DEF CancelType, DropAudio, CallType, CallerPc
    <2> QED BY <1>1, <2>1, <2>2 DEF DropAudio, CancelType
  <1>2. CASE active = NoTurn
    BY <1>2, SilenceTyped DEF DropAudio, CallType
  <1> QED BY <1>1, <1>2

LEMMA CancelTurnTyped ==
  ASSUME CancelType, NEW p \in Caller, NEW r \in CallType, CancelTurn(p, r),
         UNCHANGED turnTask
  PROVE  CancelType'
  <1>1. CASE TurnAlive
    <2>1. QueueType' BY <1>1, QuitTyped DEF CancelType, CancelTurn
    <2>2. call' \in [Caller -> CallType]
      <3>1. [r EXCEPT !.pc = "dropTurn", !.on = turnTask, !.cut = TRUE] \in CallType
        <4>1. turnTask \in Turn \cup {NoTurn} BY DEF CancelType
        <4>2. PICK x \in CallType : x = r OBVIOUS
        <4> QED BY <4>1, <4>2 DEF CallType, CallerPc
      <3> QED BY <1>1, <3>1 DEF CancelType, CancelTurn
    <2>3. turn' \in [Turn -> TurnType]
      <3>1. turn' = [turn EXCEPT ![turnTask].killed = TRUE] BY <1>1 DEF CancelTurn
      <3>2. \A x \in TurnType : [x EXCEPT !.killed = TRUE] \in TurnType BY DEF TurnType
      <3>3. turnTask \in Turn /\ turn \in [Turn -> TurnType] BY <1>1 DEF CancelType, TurnAlive
      <3> QED BY <3>1, <3>2, <3>3
    <2>4. UNCHANGED <<active, speaking, turnText>> BY <1>1 DEF CancelTurn
    <2> QED BY <2>1, <2>2, <2>3, <2>4 DEF CancelType
  <1>2. CASE ~TurnAlive
    BY <1>2, DropAudioTyped DEF CancelTurn, CancelType
  <1> QED BY <1>1, <1>2

---------------------------------------------------------------------------
(* Where _cancel_turn leaves the words its caller carries: r is what the   *)
(* caller carries when it enters.                                          *)

Goes(p, r) ==
  /\ \A q \in Caller \ {p} : call'[q] = call[q]
  /\ \/ /\ call'[p].pc \in InCancel /\ call'[p].text = r.text /\ call'[p].turn = r.turn
        /\ call'[p].pc = "announce" => p # Run /\ r.turn # NoTurn
     \/ /\ p = Run /\ call'[p].pc = "marking" /\ call'[p].text = {} /\ call'[p].turn = NoTurn
     \/ /\ p = Stt /\ r.turn = NoTurn
        /\ call'[p].pc = "held" /\ call'[p].text = {} /\ call'[p].turn = NoTurn

LEMMA ProceedGoes ==
  ASSUME CancelType, NEW p \in Caller, NEW r \in CallType, Proceed(p, r)
  PROVE  Goes(p, r)
  <1>1. CASE p = Run /\ call' = [call EXCEPT ![p] = [Quiet EXCEPT !.pc = "marking"]]
    BY <1>1 DEF Goes, Quiet, CancelType
  <1>2. CASE p = Stt /\ r.turn = NoTurn /\ call' = [call EXCEPT ![p] = [Quiet EXCEPT !.pc = "held"]]
    BY <1>2 DEF Goes, Quiet, CancelType
  <1>3. CASE /\ p # Run /\ r.turn # NoTurn
             /\ call' = [call EXCEPT ![p] = [r EXCEPT !.pc = "announce", !.cut = FALSE]]
    BY <1>3 DEF Goes, CancelType, CallType, InCancel
  <1> QED BY <1>1, <1>2, <1>3 DEF Proceed

LEMMA SilenceGoes ==
  ASSUME CancelType, NEW p \in Caller, NEW r \in CallType, NEW i \in BOOLEAN,
         Silence(p, r, i)
  PROVE  Goes(p, r)
  <1>1. CASE Proceed(p, r) BY <1>1, ProceedGoes
  <1>2. CASE call' = [call EXCEPT ![p] =
                        [r EXCEPT !.pc = IF r.cut /\ turnText > 0 THEN "flushText" ELSE "flush"]]
    BY <1>2 DEF Goes, CancelType, CallType, InCancel
  <1> QED BY <1>1, <1>2 DEF Silence

LEMMA DropAudioGoes ==
  ASSUME CancelType, NEW p \in Caller, NEW r \in CallType, DropAudio(p, r)
  PROVE  Goes(p, r)
  <1>1. CASE call' = [call EXCEPT ![p] = [r EXCEPT !.pc = "dropAudio"]]
    BY <1>1 DEF Goes, CancelType, CallType, InCancel
  <1>2. CASE Silence(p, r, r.cut)
    BY <1>2, SilenceGoes DEF CallType
  <1> QED BY <1>1, <1>2 DEF DropAudio

LEMMA CancelTurnGoes ==
  ASSUME CancelType, NEW p \in Caller, NEW r \in CallType, CancelTurn(p, r)
  PROVE  Goes(p, r)
  <1>1. CASE call' = [call EXCEPT ![p] = [r EXCEPT !.pc = "dropTurn", !.on = turnTask, !.cut = TRUE]]
    BY <1>1 DEF Goes, CancelType, CallType, InCancel
  <1>2. CASE DropAudio(p, r) BY <1>2, DropAudioGoes
  <1> QED BY <1>1, <1>2 DEF CancelTurn

---------------------------------------------------------------------------
(* Types.                                                                  *)

SpeechType == /\ turnCount \in 0..MaxCommits /\ pendingTurn \in Turn \cup {NoTurn}
              /\ pendingText \in SUBSET Commit /\ settle \in BOOLEAN

RecordType == /\ history \in Seq(EntryType) /\ writing \in SUBSET Nat /\ rows \in Seq(Nat)

OuterType == /\ run \in {"up", "stopping", "closing", "ended"} /\ ended \in BOOLEAN
             /\ heard \in 0..MaxCommits
             /\ tts \in [pc : TtsPc, ctx : Turn \cup {NoTurn}, last : BOOLEAN]

LEMMA TypeParts == TypeOK <=> CancelType /\ SpeechType /\ RecordType /\ OuterType
  BY DEF TypeOK, CancelType, QueueType, SpeechType, RecordType, OuterType

LEMMA TypePartsPrime == TypeOK' <=> CancelType' /\ SpeechType' /\ RecordType' /\ OuterType'
  BY DEF TypeOK, CancelType, QueueType, SpeechType, RecordType, OuterType

LEMMA SpeechSame == ASSUME SpeechType, UNCHANGED speech PROVE SpeechType'
  BY DEF SpeechType, speech

LEMMA RecordSame == ASSUME RecordType, UNCHANGED record PROVE RecordType'
  BY DEF RecordType, record

LEMMA OuterSame == ASSUME OuterType, UNCHANGED <<run, heard, tts, ended>> PROVE OuterType'
  BY DEF OuterType

LEMMA CancelSame ==
  ASSUME CancelType, UNCHANGED <<call, turnTask, turn, turnText, active, speaking, queues>>
  PROVE  CancelType'
  BY DEF CancelType, QueueType, queues

LEMMA RememberTyped ==
  ASSUME RecordType, NEW entry \in EntryType, Remember(entry)
  PROVE  RecordType'
  <1>1. Append(history, entry) \in Seq(EntryType) /\ Len(history) + 1 \in Nat
    BY DEF RecordType
  <1> QED BY <1>1 DEF RecordType, Remember

LEMMA RememberReplyTyped ==
  ASSUME RecordType, CancelType, NEW t \in Turn, RememberReply(t)
  PROVE  RecordType'
  <1>1. Entry("assistant", t, {}, turn[t].said) \in EntryType
    BY DEF CancelType, TurnType, Entry, EntryType
  <1> QED BY <1>1, RecordSame, RememberTyped DEF RememberReply

\* The commit that is held opens a turn only if a number is left for it.
LEMMA HoldTyped ==
  ASSUME SpeechType, NEW text \in SUBSET Commit, Hold(text),
         pendingTurn = NoTurn => turnCount < MaxCommits
  PROVE  SpeechType'
  <1>1. pendingText' \in SUBSET Commit /\ settle' \in BOOLEAN
    BY DEF SpeechType, Hold
  <1>2. CASE pendingTurn = NoTurn
    <2>1. turnCount' = turnCount + 1 /\ pendingTurn' = turnCount + 1
      BY <1>2 DEF Hold
    <2>2. turnCount + 1 \in 1..MaxCommits
      BY <1>2 DEF SpeechType
    <2> QED BY <1>1, <2>1, <2>2 DEF SpeechType, Turn
  <1>3. CASE pendingTurn # NoTurn
    BY <1>1, <1>3 DEF SpeechType, Hold
  <1> QED BY <1>2, <1>3

LEMMA HoldIfReachedTyped ==
  ASSUME TypeOK, Bookkeeping, NEW p \in Caller, HoldIfReached(p),
         Goes(p, call[p]), call[p].pc \in InCancel
  PROVE  SpeechType'
  <1>1. SpeechType /\ call[p] \in CallType BY TypeParts DEF CancelType
  <1>2. CASE call'[p].pc = "held"
    <2>1. p = Stt /\ call[p].turn = NoTurn
      BY <1>2 DEF Goes, InCancel
    <2>2. turnCount < MaxCommits
      BY <2>1, <1>1 DEF Bookkeeping, TypeOK, SpeechType
    <2> QED BY <1>1, <1>2, <2>2, HoldTyped DEF HoldIfReached, CallType
  <1>3. CASE call'[p].pc # "held"
    BY <1>1, <1>3, SpeechSame DEF HoldIfReached
  <1> QED BY <1>2, <1>3

\* A caller comes back from one of the awaits of _cancel_turn.
LEMMA ResumesTyped ==
  ASSUME TypeOK, Bookkeeping, NEW p \in Caller,
         DropTurnEnds(p) \/ DropAudioEnds(p) \/ FlushEnds(p)
  PROVE  TypeOK' /\ Goes(p, call[p]) /\ Resuming(p) /\ call[p].pc \in InCancel
  <1>1. CancelType /\ RecordType /\ OuterType /\ call[p] \in CallType
    BY TypeParts DEF CancelType
  <1>2. Resuming(p) /\ call[p].pc \in InCancel
    BY DEF DropTurnEnds, DropAudioEnds, FlushEnds, InCancel
  <1>3. CancelType' /\ Goes(p, call[p])
    <2>1. CASE DropTurnEnds(p)
      BY <2>1, <1>1, DropAudioTyped, DropAudioGoes DEF DropTurnEnds, Resuming, CancelType
    <2>2. CASE DropAudioEnds(p)
      BY <2>2, <1>1, SilenceTyped, SilenceGoes DEF DropAudioEnds, Resuming, CancelType
    <2>3. CASE FlushEnds(p)
      BY <2>3, <1>1, ProceedTyped, ProceedGoes DEF FlushEnds, Resuming, CancelType
    <2> QED BY <2>1, <2>2, <2>3
  <1>4. SpeechType'
    BY <1>2, <1>3, HoldIfReachedTyped DEF Resuming
  <1> QED BY <1>1, <1>2, <1>3, <1>4, RecordSame, OuterSame, TypePartsPrime DEF Resuming

LEMMA FirePendingTyped ==
  ASSUME TypeOK, NEW p \in Caller, FirePending(p), UNCHANGED turnTask
  PROVE  CancelType' /\ SpeechType'
  <1>1. CancelType /\ SpeechType BY TypeParts
  <1>2. SpeechType' BY <1>1 DEF SpeechType, FirePending
  <1>3. CASE pendingTurn = NoTurn
    <2>1. QueueType' BY <1>1, <1>3, QuitTyped DEF CancelType, FirePending
    <2>2. call' \in [Caller -> CallType]
      BY <1>1, <1>3, QuietTyped DEF CancelType, FirePending
    <2>3. UNCHANGED <<turn, active, speaking, turnText>> BY <1>3 DEF FirePending
    <2> QED BY <1>1, <1>2, <2>1, <2>2, <2>3 DEF CancelType
  <1>4. CASE pendingTurn # NoTurn
    <2>1. [Quiet EXCEPT !.turn = pendingTurn, !.text = pendingText] \in CallType
      BY <1>1 DEF Quiet, CallType, CallerPc, SpeechType
    <2> QED BY <1>1, <1>2, <1>4, <2>1, CancelTurnTyped DEF FirePending
  <1> QED BY <1>2, <1>3, <1>4

\* The callers, whatever await they come back from.
LEMMA CallerTyped ==
  ASSUME TypeOK, Bookkeeping, NEW p \in Caller, CallerStep(p)
  PROVE  TypeOK'
  <1>1. CancelType /\ SpeechType /\ RecordType /\ OuterType BY TypeParts
  <1>2. CASE DropTurnEnds(p) \/ DropAudioEnds(p) \/ FlushEnds(p)
    BY <1>2, ResumesTyped
  <1>3. CASE FlushTextEnds(p)
    <2>1. QueueType' BY <1>1, <1>3, AskTyped, Sets DEF FlushTextEnds, CancelType, Lock
    <2>2. call' \in [Caller -> CallType]
      BY <1>1, <1>3 DEF FlushTextEnds, CancelType, CallType, CallerPc
    <2>3. CancelType' BY <1>1, <1>3, <2>1, <2>2 DEF FlushTextEnds, CancelType
    <2> QED BY <1>1, <1>3, <2>3, SpeechSame, RecordSame, OuterSame, TypePartsPrime DEF FlushTextEnds
  <1>4. CASE AnnounceEnds(p)
    <2>1. call[p].turn \in Turn /\ call[p].text \in SUBSET Commit
      BY <1>1, <1>4 DEF Bookkeeping, AnnounceEnds, CancelType, CallType
    <2>2. QueueType' BY <1>1, <1>4, QuitTyped DEF AnnounceEnds, CancelType
    <2>3. call' \in [Caller -> CallType]
      BY <1>1, <1>4, QuietTyped DEF AnnounceEnds, CancelType
    <2>4. turn' \in [Turn -> TurnType]
      <3>1. turn' = [turn EXCEPT ![call[p].turn].pc = "created"] BY <1>4 DEF AnnounceEnds
      <3>2. \A x \in TurnType : [x EXCEPT !.pc = "created"] \in TurnType BY DEF TurnType, TurnPc
      <3>3. turn \in [Turn -> TurnType] BY <1>1 DEF CancelType
      <3> QED BY <2>1, <3>1, <3>2, <3>3
    <2>5. CancelType' BY <1>1, <1>4, <2>1, <2>2, <2>3, <2>4 DEF AnnounceEnds, CancelType
    <2>6. Entry("user", call[p].turn, call[p].text, 0) \in EntryType
      BY <2>1 DEF Entry, EntryType
    <2>7. RecordType' BY <1>1, <1>4, <2>6, RememberTyped DEF AnnounceEnds
    <2> QED BY <1>1, <1>4, <2>5, <2>7, SpeechSame, OuterSame, TypePartsPrime DEF AnnounceEnds
  <1> QED BY <1>2, <1>3, <1>4 DEF CallerStep

LEMMA SttTyped ==
  ASSUME TypeOK, Bookkeeping, SttStep
  PROVE  TypeOK'
  <1>1. CancelType /\ SpeechType /\ RecordType /\ OuterType /\ Stt \in Caller BY TypeParts, Sets
  <1>2. CASE SttPartial
    <2>1. QueueType' BY <1>1, <1>2, AskTyped, Sets DEF SttPartial, CancelType, Lock
    <2>2. call' \in [Caller -> CallType]
      BY <1>1, <1>2 DEF SttPartial, CancelType, CallType, CallerPc
    <2>3. CancelType' BY <1>1, <1>2, <2>1, <2>2 DEF SttPartial, CancelType
    <2>4. SpeechType' BY <1>1, <1>2 DEF SttPartial, SpeechType
    <2> QED BY <1>1, <1>2, <2>3, <2>4, RecordSame, OuterSame, TypePartsPrime DEF SttPartial
  <1>3. CASE SttEchoed
    <2>1. QueueType' BY <1>1, <1>3, QuitTyped DEF SttEchoed, CancelType
    <2>2. call' \in [Caller -> CallType]
      BY <1>1, <1>3, QuietTyped DEF SttEchoed, CancelType
    <2>3. CancelType' BY <1>1, <1>3, <2>1, <2>2 DEF SttEchoed, CancelType
    <2> QED BY <1>1, <1>3, <2>3, SpeechSame, RecordSame, OuterSame, TypePartsPrime DEF SttEchoed
  <1>4. CASE SttCommit
    <2>1. heard + 1 \in Commit /\ OuterType'
      BY <1>1, <1>4 DEF SttCommit, OuterType, Commit
    <2>2. CASE TurnAlive
      <3>1. [Quiet EXCEPT !.text = {heard + 1}] \in CallType
        BY <2>1 DEF Quiet, CallType, CallerPc
      <3> QED BY <1>1, <1>4, <2>1, <2>2, <3>1, CancelTurnTyped, SpeechSame, RecordSame,
                 TypePartsPrime DEF SttCommit
    <2>3. CASE ~TurnAlive
      <3>1. QueueType' BY <1>1, <1>4, <2>3, AskTyped, Sets DEF SttCommit, CancelType, Lock
      <3>2. call' \in [Caller -> CallType]
        <4>1. [Quiet EXCEPT !.pc = "held"] \in CallType
          BY DEF CallType, CallerPc, Quiet
        <4> QED BY <1>1, <1>4, <2>3, <4>1 DEF SttCommit, CancelType
      <3>3. CancelType' BY <1>1, <1>4, <2>3, <3>1, <3>2 DEF SttCommit, CancelType
      <3>4. SpeechType'
        <4>1. turnCount < MaxCommits
          BY <1>1, <1>4 DEF SttCommit, Bookkeeping, OuterType, SpeechType
        <4> QED BY <1>1, <1>4, <2>1, <2>3, <4>1, HoldTyped DEF SttCommit
      <3> QED BY <1>1, <1>4, <2>1, <3>3, <3>4, RecordSame, TypePartsPrime DEF SttCommit
    <2> QED BY <2>2, <2>3
  <1>5. CASE SttFires
    <2>1. CancelType' /\ SpeechType' BY <1>1, <1>5, FirePendingTyped DEF SttFires
    <2> QED BY <1>1, <1>5, <2>1, RecordSame, OuterSame, TypePartsPrime DEF SttFires
  <1>6. CASE SttWaits
    <2>1. QueueType' BY <1>1, <1>6, QuitTyped DEF SttWaits, CancelType
    <2>2. call' \in [Caller -> CallType]
      BY <1>1, <1>6, QuietTyped DEF SttWaits, CancelType
    <2>3. CancelType' BY <1>1, <1>6, <2>1, <2>2 DEF SttWaits, CancelType
    <2>4. SpeechType' BY <1>1, <1>6 DEF SttWaits, SpeechType
    <2> QED BY <1>1, <1>6, <2>3, <2>4, RecordSame, OuterSame, TypePartsPrime DEF SttWaits
  <1> QED BY <1>2, <1>3, <1>4, <1>5, <1>6 DEF SttStep

LEMMA TurnTyped ==
  ASSUME TypeOK, NEW t \in Turn, TurnStep(t)
  PROVE  TypeOK'
  <1>1. CancelType /\ SpeechType /\ RecordType /\ OuterType /\ T(t) \in Waiter
    BY TypeParts, Sets
  <1>2. SpeechType' /\ OuterType'
    BY <1>1, SpeechSame, OuterSame DEF TurnStep, TurnOnly, TurnStarts, TurnSpeaks,
       TurnCompletes, TurnEnds, TurnKilled, TurnFails
  <1>3. RecordType'
    BY <1>1, RecordSame, RememberReplyTyped DEF TurnStep, TurnStarts, TurnSpeaks,
       TurnCompletes, TurnEnds, TurnKilled, TurnFails
  <1>4. QueueType'
    <2>1. CASE UNCHANGED queues BY <1>1, <2>1 DEF queues, QueueType, CancelType
    <2>2. CASE Quit({T(t)}) BY <1>1, <2>2, QuitTyped DEF CancelType
    <2>3. CASE Ask(T(t), "browser") BY <1>1, <2>3, AskTyped DEF CancelType, Lock
    <2> QED BY <2>1, <2>2, <2>3 DEF TurnStep, TurnStarts, TurnSpeaks, TurnCompletes,
               TurnEnds, TurnKilled, TurnFails
  <1>5. turn' \in [Turn -> TurnType] /\ turnText' \in 0..MaxDeltas
    <2>1. turn[t] \in TurnType BY <1>1 DEF CancelType
    <2>2. CASE TurnSpeaks(t)
      BY <1>1, <2>1, <2>2 DEF TurnSpeaks, CancelType, TurnType
    <2>3. CASE TurnStarts(t)
      BY <1>1, <2>1, <2>3 DEF TurnStarts, CancelType, TurnType, TurnPc
    <2>4. CASE TurnCompletes(t)
      BY <1>1, <2>1, <2>4 DEF TurnCompletes, CancelType, TurnType, TurnPc
    <2>5. CASE TurnEnds(t) \/ TurnKilled(t) \/ TurnFails(t)
      BY <1>1, <2>1, <2>5 DEF TurnEnds, TurnKilled, TurnFails, CancelType, TurnType, TurnPc
    <2> QED BY <2>2, <2>3, <2>4, <2>5 DEF TurnStep
  <1>6. /\ call' \in [Caller -> CallType] /\ active' \in Turn \cup {NoTurn}
        /\ speaking' \in BOOLEAN /\ turnTask' \in Turn \cup {NoTurn}
    BY <1>1 DEF CancelType, TurnStep, TurnOnly, TurnStarts, TurnSpeaks,
       TurnCompletes, TurnEnds, TurnKilled, TurnFails
  <1> QED BY <1>2, <1>3, <1>4, <1>5, <1>6, TypePartsPrime DEF CancelType

LEMMA TtsTyped ==
  ASSUME TypeOK, TtsStep
  PROVE  TypeOK'
  <1>1. CancelType /\ SpeechType /\ RecordType /\ OuterType /\ L \in Waiter
    BY TypeParts, Sets
  <1>2. TtsOnly
    BY DEF TtsStep, TtsAudio, TtsStarted, TtsAudioSent, TtsFinal, TtsError, TtsEndSent
  <1>3. SpeechType' /\ RecordType'
    BY <1>1, <1>2, SpeechSame, RecordSame DEF TtsOnly
  <1>4. QueueType'
    <2>1. CASE Quit({L}) BY <1>1, <2>1, QuitTyped DEF CancelType
    <2>2. CASE Ask(L, "browser") BY <1>1, <2>2, AskTyped DEF CancelType, Lock
    <2> QED BY <2>1, <2>2 DEF TtsStep, TtsAudio, TtsStarted, TtsAudioSent, TtsFinal,
               TtsError, TtsEndSent, ContextOver
  <1>5. active' \in Turn \cup {NoTurn} /\ speaking' \in BOOLEAN
    BY <1>1 DEF CancelType, TtsStep, TtsAudio, TtsStarted, TtsAudioSent, TtsFinal,
                TtsError, TtsEndSent, ContextOver
  <1>6. CancelType' BY <1>1, <1>2, <1>4, <1>5 DEF TtsOnly, CancelType
  <1>7. tts' \in [pc : TtsPc, ctx : Turn \cup {NoTurn}, last : BOOLEAN]
    <2>1. TtsAtRest \in [pc : TtsPc, ctx : Turn \cup {NoTurn}, last : BOOLEAN]
      BY DEF TtsAtRest, TtsPc
    <2>2. ASSUME NEW last \in BOOLEAN, TtsAudio(last)
          PROVE  tts' \in [pc : TtsPc, ctx : Turn \cup {NoTurn}, last : BOOLEAN]
      BY <1>1, <2>2 DEF TtsAudio, TtsPc, CancelType
    <2>3. CASE TtsStarted BY <1>1, <2>3 DEF TtsStarted, TtsPc, OuterType
    <2>4. CASE ContextOver BY <2>4 DEF ContextOver, TtsPc
    <2>5. CASE TtsAudioSent BY <2>1, <2>4, <2>5 DEF TtsAudioSent
    <2>6. CASE TtsEndSent BY <1>1, <2>1, <2>6 DEF TtsEndSent
    <2> QED BY <2>2, <2>3, <2>4, <2>5, <2>6 DEF TtsStep, TtsFinal, TtsError
  <1>8. OuterType' BY <1>1, <1>2, <1>7 DEF OuterType, TtsOnly
  <1> QED BY <1>3, <1>6, <1>8, TypePartsPrime

LEMMA StoppingTyped ==
  ASSUME TypeOK, HangUp \/ SttEnds \/ RunStopped \/ RunMarks
  PROVE  TypeOK'
  <1>1. CancelType /\ SpeechType /\ RecordType /\ OuterType /\ Stt \in Caller /\ Run \in Caller
    BY TypeParts, Sets
  <1>2. SpeechType' /\ RecordType'
    BY <1>1, RecordSame DEF HangUp, SttEnds, RunStopped, RunMarks, RunOnly, SpeechType
  <1>3. QueueType'
    BY <1>1, QuitTyped DEF HangUp, SttEnds, RunStopped, RunMarks, CancelLoops, queues,
       QueueType, CancelType
  <1>4. call' \in [Caller -> CallType]
    <2>1. [Quiet EXCEPT !.pc = "dead"] \in CallType BY DEF Quiet, CallType, CallerPc
    <2>2. CASE HangUp BY <1>1, <2>1, <2>2 DEF HangUp, CancelLoops, CancelType
    <2>3. CASE SttEnds
      BY <1>1, <2>1, <2>3 DEF SttEnds, CancelLoops, CancelType, CallType, CallerPc
    <2>4. CASE RunStopped BY <1>1, <2>4 DEF RunStopped, CancelType
    <2>5. CASE RunMarks BY <1>1, <2>5, QuietTyped DEF RunMarks, CancelType
    <2> QED BY <2>2, <2>3, <2>4, <2>5
  <1>5. CancelType'
    BY <1>1, <1>3, <1>4 DEF CancelType, HangUp, SttEnds, RunStopped, RunMarks, RunOnly
  <1>6. OuterType'
    <2>1. [TtsAtRest EXCEPT !.pc = "dead"] \in [pc : TtsPc, ctx : Turn \cup {NoTurn}, last : BOOLEAN]
      BY DEF TtsAtRest, TtsPc
    <2> QED BY <1>1, <2>1 DEF HangUp, SttEnds, RunStopped, RunMarks, RunOnly, CancelLoops,
               OuterType
  <1> QED BY <1>2, <1>5, <1>6, TypePartsPrime

LEMMA TypeStep ==
  ASSUME TypeOK, Bookkeeping, [Next]_vars
  PROVE  TypeOK'
  <1>1. CancelType /\ SpeechType /\ RecordType /\ OuterType BY TypeParts
  <1>2. ASSUME NEW p \in Caller, CallerStep(p) PROVE TypeOK' BY <1>2, CallerTyped
  <1>3. CASE SttStep BY <1>3, SttTyped
  <1>4. CASE SettleExpires
    <2>1. pendingTurn \in Caller BY <1>1, <1>4, Sets DEF SettleExpires, SpeechType
    <2>2. CancelType' /\ SpeechType' BY <1>4, <2>1, FirePendingTyped DEF SettleExpires
    <2> QED BY <1>1, <1>4, <2>2, RecordSame, OuterSame, TypePartsPrime DEF SettleExpires
  <1>5. CASE SettleExpiresEmpty
    <2>1. SpeechType' BY <1>1, <1>5 DEF SettleExpiresEmpty, SpeechType
    <2> QED BY <1>1, <1>5, <2>1, CancelSame, RecordSame, OuterSame, TypePartsPrime
            DEF SettleExpiresEmpty
  <1>6. ASSUME NEW t \in Turn, TurnStep(t) PROVE TypeOK' BY <1>6, TurnTyped
  <1>7. CASE TtsStep BY <1>7, TtsTyped
  <1>8. CASE HangUp \/ SttEnds \/ RunStopped \/ RunMarks BY <1>8, StoppingTyped
  <1>9. CASE RunFinally
    <2>1. CancelType'
      BY <1>1, <1>9, CancelTurnTyped, QuietTyped, Sets DEF RunFinally, RunOnly
    <2>2. SpeechType' BY <1>1, <1>9 DEF RunFinally, RunOnly, SpeechType
    <2> QED BY <1>1, <1>9, <2>1, <2>2, RecordSame, OuterSame, TypePartsPrime
            DEF RunFinally, RunOnly
  <1>10. CASE Persists
    <2>1. RecordType'
      <3>1. PICK i \in writing : PersistCommits(i) \/ PersistFails(i) BY <1>10 DEF Persists
      <3>2. i \in Nat /\ rows \in Seq(Nat) BY <1>1 DEF RecordType
      <3>3. Append(rows, i) \in Seq(Nat) BY <3>2
      <3> QED BY <1>1, <3>1, <3>3 DEF PersistCommits, PersistFails, RecordType
    <2>2. UNCHANGED <<run, call, heard, speech, turnTask, turn, turnText, active,
                      speaking, tts, queues, history, ended>>
      BY <1>10 DEF Persists, PersistCommits, PersistFails
    <2> QED BY <1>1, <2>1, <2>2, CancelSame, SpeechSame, OuterSame, TypePartsPrime
  <1>11. CASE UNCHANGED vars
    BY <1>1, <1>11, CancelSame, SpeechSame, RecordSame, OuterSame, TypePartsPrime
       DEF vars, speech, record, queues
  <1> QED BY <1>2, <1>3, <1>4, <1>5, <1>6, <1>7, <1>8, <1>9, <1>10, <1>11 DEF Next, RunStep

---------------------------------------------------------------------------
(* The bookkeeping of words, callers and turn numbers.                     *)

LEMMA BookkeepingSame ==
  ASSUME Bookkeeping, UNCHANGED <<call, heard, speech>>
  PROVE  Bookkeeping'
  BY DEF Bookkeeping, PendingAgrees, speech

\* A caller that keeps what it carries, or holds it in the pending turn.
LEMMA ResumesBookkeeping ==
  ASSUME TypeOK, Bookkeeping, NEW p \in Caller, Goes(p, call[p]), Resuming(p),
         call[p].pc \in InCancel
  PROVE  Bookkeeping'
  <1>1. call \in [Caller -> CallType] /\ SpeechType /\ heard \in 0..MaxCommits /\ heard' = heard
    BY TypeParts DEF CancelType, OuterType, Resuming
  <1>2. call'[p].pc \in InCancel \/ call'[p].pc = "marking" \/ call'[p].pc = "held"
    BY DEF Goes
  <1>3. CASE call'[p].pc = "held"
    <2>1. /\ p = Stt /\ call[p].turn = NoTurn /\ call[p].text # {} /\ turnCount < heard
          /\ call'[p].text = {} /\ call'[p].turn = NoTurn
      BY <1>3, Sets DEF Goes, InCancel, Bookkeeping
    <2>2. Hold(call[p].text) BY <1>3 DEF Resuming, HoldIfReached
    <2>3. /\ pendingText' # {} /\ pendingTurn' # NoTurn /\ pendingTurn' = turnCount'
          /\ turnCount' <= heard' /\ turnCount' \in Nat /\ turnCount <= turnCount'
      BY <1>1, <2>1, <2>2 DEF Hold, Bookkeeping, PendingAgrees, SpeechType, NoTurn, Turn
    <2>4. \A q \in Caller \ {p} : call'[q] = call[q] BY DEF Goes
    <2>5. \A t \in Turn : t > turnCount' \/ t = pendingTurn' => call'[t].pc = "idle"
      <3>1. \A t \in Turn : t > turnCount' \/ t = pendingTurn' => t > turnCount \/ t = pendingTurn
        BY <1>1, <2>2, <2>3 DEF Hold, Turn, SpeechType
      <3>2. Stt \notin Turn BY DEF Stt, Turn
      <3> QED BY <2>1, <2>4, <3>1, <3>2, Sets DEF Bookkeeping
    <2>6. "held" \notin InCancel BY DEF InCancel
    <2>7. PendingAgrees' BY <2>3 DEF PendingAgrees
    <2> QED BY <1>3, <2>1, <2>3, <2>4, <2>5, <2>6, <2>7, Sets DEF Bookkeeping
  <1>4. CASE call'[p].pc # "held"
    <2>1. UNCHANGED speech BY <1>4 DEF Resuming, HoldIfReached
    <2>2. \A q \in Caller \ {p} : call'[q] = call[q] BY DEF Goes
    <2>3. PendingAgrees' BY <2>1 DEF Bookkeeping, PendingAgrees, speech
    <2>4. CASE call'[p].pc \in InCancel
      <3>1. call'[p].text = call[p].text /\ call'[p].turn = call[p].turn
        BY <1>4, <2>4 DEF Goes, InCancel
      <3>2. call'[p].pc = "announce" => call[p].turn # NoTurn
        BY <2>4, <1>4 DEF Goes, InCancel
      <3>3. \A t \in Turn : t > turnCount \/ t = pendingTurn => t # p
        BY DEF Bookkeeping, InCancel
      <3> QED BY <1>1, <2>1, <2>2, <2>3, <2>4, <3>1, <3>2, <3>3, Sets DEF Bookkeeping, speech
    <2>5. CASE call'[p].pc = "marking"
      <3>1. p = Run /\ call'[p].text = {} /\ call'[p].turn = NoTurn
        BY <2>5 DEF Goes, InCancel
      <3>2. "marking" \notin InCancel /\ Run \notin Turn BY DEF InCancel, Run, Turn
      <3> QED BY <1>1, <2>1, <2>2, <2>3, <2>5, <3>1, <3>2, Sets DEF Bookkeeping, speech
    <2> QED BY <1>2, <1>4, <2>4, <2>5
  <1> QED BY <1>3, <1>4

\* The pending words go to the caller that fires them, or there were none.
Fires(p) ==
  /\ pendingText' = {} /\ pendingTurn' = NoTurn /\ turnCount' = turnCount
  /\ \A q \in Caller \ {p} : call'[q] = call[q]
  /\ \/ pendingTurn = NoTurn /\ call'[p] = Quiet
     \/ /\ pendingTurn # NoTurn /\ call'[p].pc \in InCancel
        /\ call'[p].text = pendingText /\ call'[p].turn = pendingTurn

LEMMA FirePendingFires ==
  ASSUME TypeOK, NEW p \in Caller, p # Run, FirePending(p)
  PROVE  Fires(p)
  <1>1. CancelType /\ SpeechType BY TypeParts
  <1>2. CASE pendingTurn = NoTurn
    BY <1>1, <1>2 DEF FirePending, Fires, CancelType
  <1>3. CASE pendingTurn # NoTurn
    <2> DEFINE r == [Quiet EXCEPT !.turn = pendingTurn, !.text = pendingText]
    <2>1. r \in CallType /\ r.turn = pendingTurn /\ r.text = pendingText
      BY <1>1 DEF Quiet, CallType, CallerPc, SpeechType
    <2>2. Goes(p, r)
      <3>1. CancelTurn(p, r) BY <1>3 DEF FirePending
      <3> HIDE DEF r
      <3> QED BY <1>1, <2>1, <3>1, CancelTurnGoes
    <2>3. pendingText' = {} /\ pendingTurn' = NoTurn /\ turnCount' = turnCount
      BY DEF FirePending
    <2> HIDE DEF r
    <2> QED BY <1>3, <2>1, <2>2, <2>3 DEF Goes, Fires
  <1> QED BY <1>2, <1>3

LEMMA FiresBookkeeping ==
  ASSUME TypeOK, Bookkeeping, NEW p \in Caller, p # Run, Fires(p), UNCHANGED heard,
         p \in Turn => p = pendingTurn
  PROVE  Bookkeeping'
  <1>1. SpeechType /\ heard \in Nat BY TypeParts DEF OuterType
  <1>2. PendingAgrees' BY DEF Fires, PendingAgrees
  <1>3. \A t \in Turn : t > turnCount' \/ t = pendingTurn' => t # p /\ t > turnCount
    <2>1. pendingTurn' = NoTurn /\ turnCount' = turnCount /\ NoTurn \notin Turn
      BY Sets DEF Fires
    <2>2. p \in Turn => p = turnCount BY Sets DEF Bookkeeping
    <2> QED BY <1>1, <2>1, <2>2 DEF Turn, SpeechType
  <1>4. CASE pendingTurn = NoTurn
    <2>1. call'[p].pc = "idle" /\ call'[p].text = {} /\ call'[p].turn = NoTurn
      BY <1>4 DEF Fires, Quiet
    <2>2. "idle" \notin InCancel BY DEF InCancel
    <2> QED BY <1>1, <1>2, <1>3, <1>4, <2>1, <2>2, Sets DEF Fires, Bookkeeping
  <1>5. CASE pendingTurn # NoTurn
    <2>1. call'[p].pc \in InCancel /\ call'[p].text # {} /\ call'[p].turn # NoTurn
      BY <1>5 DEF Fires, Bookkeeping, PendingAgrees
    <2> QED BY <1>1, <1>2, <1>3, <1>5, <2>1, Sets DEF Fires, Bookkeeping
  <1> QED BY <1>4, <1>5

\* The commits the STT loop takes: carried into _cancel_turn, or held.
LEMMA SttCommitCarries ==
  ASSUME TypeOK, Bookkeeping, SttCommit, TurnAlive
  PROVE  /\ \A q \in Caller \ {Stt} : call'[q] = call[q]
         /\ call'[Stt].pc = "dropTurn" /\ call'[Stt].text = {heard + 1} /\ call'[Stt].turn = NoTurn
         /\ UNCHANGED speech /\ heard' = heard + 1 /\ run' = run
  <1>1. call' = [call EXCEPT ![Stt] = [[Quiet EXCEPT !.text = {heard + 1}]
                    EXCEPT !.pc = "dropTurn", !.on = turnTask, !.cut = TRUE]]
    BY DEF SttCommit, CancelTurn
  <1>2. UNCHANGED speech /\ heard' = heard + 1 /\ run' = run
    BY DEF SttCommit
  <1>3. call \in [Caller -> CallType] /\ Stt \in Caller
    BY TypeParts, Sets DEF CancelType
  <1> QED BY <1>1, <1>2, <1>3 DEF Quiet

LEMMA SttCommitHolds ==
  ASSUME TypeOK, Bookkeeping, SttCommit, ~TurnAlive
  PROVE  /\ \A q \in Caller \ {Stt} : call'[q] = call[q]
         /\ call'[Stt].pc = "held" /\ call'[Stt].text = {} /\ call'[Stt].turn = NoTurn
         /\ Hold({heard + 1}) /\ heard' = heard + 1 /\ run' = run
  BY TypeParts, Sets DEF SttCommit, CancelType, Quiet

LEMMA SttCommitBookkeeping ==
  ASSUME TypeOK, Bookkeeping, SttCommit
  PROVE  Bookkeeping'
  <1>1. SpeechType /\ heard \in Nat BY TypeParts DEF OuterType
  <1>2. Stt \notin Turn /\ "held" \notin InCancel /\ "dropTurn" \in InCancel
    BY DEF Stt, Turn, InCancel
  <1>3. CASE TurnAlive
    <2>1. PendingAgrees' BY <1>3, SttCommitCarries DEF Bookkeeping, PendingAgrees, speech
    <2>2. turnCount' < heard' /\ turnCount' <= heard'
      BY <1>1, <1>3, SttCommitCarries DEF Bookkeeping, speech, SpeechType
    <2> QED BY <1>1, <1>2, <1>3, <2>1, <2>2, SttCommitCarries, Sets DEF Bookkeeping, speech
  <1>4. CASE ~TurnAlive
    <2>1. /\ pendingText' # {} /\ pendingTurn' # NoTurn /\ pendingTurn' = turnCount'
          /\ turnCount' <= heard' /\ turnCount' \in Nat
      BY <1>1, <1>4, SttCommitHolds DEF Hold, Bookkeeping, PendingAgrees, SpeechType, NoTurn, Turn
    <2>2. PendingAgrees' BY <2>1 DEF PendingAgrees
    <2>3. \A t \in Turn : t > turnCount' \/ t = pendingTurn' => t > turnCount \/ t = pendingTurn
      BY <1>1, <1>4, SttCommitHolds, <2>1 DEF Hold, Turn, SpeechType
    <2> QED BY <1>2, <1>4, <2>1, <2>2, <2>3, SttCommitHolds, Sets DEF Bookkeeping
  <1> QED BY <1>3, <1>4

\* Everything else a caller may become.
LEMMA QuietenedBookkeeping ==
  ASSUME TypeOK, Bookkeeping, NEW p \in Caller, UNCHANGED <<heard, turnCount, pendingTurn, pendingText>>,
         \A q \in Caller \ {p} : call'[q] = call[q],
         call'[p].pc \notin InCancel, call'[p].text = {}, call'[p].turn = NoTurn,
         p \in Turn => call'[p].pc = "idle"
  PROVE  Bookkeeping'
  BY TypeParts, Sets DEF Bookkeeping, PendingAgrees, InCancel

LEMMA BookkeepingStep ==
  ASSUME TypeOK, Bookkeeping, [Next]_vars
  PROVE  Bookkeeping'
  <1>1. call \in [Caller -> CallType] /\ SpeechType /\ Stt \in Caller /\ Run \in Caller
        /\ Stt \notin Turn /\ Run \notin Turn /\ Stt # Run
    BY TypeParts, Sets DEF CancelType, Stt, Run, Turn
  <1>2. ASSUME NEW p \in Caller, DropTurnEnds(p) \/ DropAudioEnds(p) \/ FlushEnds(p)
        PROVE  Bookkeeping'
    BY <1>2, ResumesTyped, ResumesBookkeeping
  <1>3. ASSUME NEW p \in Caller, FlushTextEnds(p) PROVE Bookkeeping'
    <2>1. /\ call[p].pc = "flushText" /\ call' = [call EXCEPT ![p].pc = "flush"]
          /\ UNCHANGED <<heard, speech>>
      BY <1>3 DEF FlushTextEnds
    <2>2. /\ call'[p].pc = "flush" /\ call'[p].text = call[p].text /\ call'[p].turn = call[p].turn
          /\ \A q \in Caller \ {p} : call'[q] = call[q]
      BY <1>1, <2>1 DEF CallType
    <2>3. PendingAgrees' BY <2>1 DEF Bookkeeping, PendingAgrees, speech
    <2> QED BY <1>1, <2>1, <2>2, <2>3 DEF Bookkeeping, InCancel, speech
  <1>4. ASSUME NEW p \in Caller, AnnounceEnds(p) PROVE Bookkeeping'
    <2>1. UNCHANGED <<heard, speech>> /\ call' = [call EXCEPT ![p] = Quiet]
      BY <1>4 DEF AnnounceEnds
    <2>2. call'[p] = Quiet /\ \A q \in Caller \ {p} : call'[q] = call[q]
      BY <1>1, <2>1
    <2> QED BY <2>1, <2>2, QuietenedBookkeeping DEF speech, Quiet, InCancel
  <1>5. CASE SttPartial
    <2>1. /\ call[Stt].pc = "idle" /\ call' = [call EXCEPT ![Stt].pc = "echo"]
          /\ UNCHANGED <<heard, turnCount, pendingTurn, pendingText>>
      BY <1>5 DEF SttPartial
    <2>2. /\ call'[Stt].pc = "echo" /\ call'[Stt].text = call[Stt].text
          /\ call'[Stt].turn = call[Stt].turn
          /\ \A q \in Caller \ {Stt} : call'[q] = call[q]
      BY <1>1, <2>1 DEF CallType
    <2>3. call[Stt].text = {} /\ call[Stt].turn = NoTurn
      BY <1>1, <2>1 DEF Bookkeeping, InCancel
    <2> QED BY <1>1, <2>1, <2>2, <2>3, QuietenedBookkeeping DEF InCancel
  <1>6. CASE SttEchoed \/ SttWaits
    <2>1. UNCHANGED <<heard, turnCount, pendingTurn, pendingText>> /\ call' = [call EXCEPT ![Stt] = Quiet]
      BY <1>6 DEF SttEchoed, SttWaits, speech
    <2>2. call'[Stt] = Quiet /\ \A q \in Caller \ {Stt} : call'[q] = call[q]
      BY <1>1, <2>1
    <2> QED BY <1>1, <2>1, <2>2, QuietenedBookkeeping DEF Quiet, InCancel
  <1>7. CASE SttCommit BY <1>7, SttCommitBookkeeping
  <1>8. CASE SttFires
    BY <1>1, <1>8, FirePendingFires, FiresBookkeeping DEF SttFires
  <1>9. CASE SettleExpires
    <2>1. pendingTurn \in Caller /\ pendingTurn # Run
      BY <1>1, <1>9, Sets DEF SettleExpires, SpeechType
    <2> QED BY <1>9, <2>1, FirePendingFires, FiresBookkeeping DEF SettleExpires
  <1>10. CASE SettleExpiresEmpty
    BY <1>10 DEF SettleExpiresEmpty, Bookkeeping, PendingAgrees
  <1>11. ASSUME NEW t \in Turn, TurnStep(t) PROVE Bookkeeping'
    BY <1>11, BookkeepingSame DEF TurnStep, TurnOnly, TurnStarts, TurnSpeaks, TurnCompletes,
       TurnEnds, TurnKilled, TurnFails
  <1>12. CASE TtsStep
    BY <1>12, BookkeepingSame DEF TtsStep, TtsOnly, TtsAudio, TtsStarted, TtsAudioSent,
       TtsFinal, TtsError, TtsEndSent
  <1>13. CASE HangUp \/ SttEnds \/ RunStopped \/ RunMarks
    <2>1. UNCHANGED <<heard, turnCount, pendingTurn, pendingText>>
      BY <1>13 DEF HangUp, SttEnds, RunStopped, RunMarks, RunOnly
    <2>2. CASE UNCHANGED call
      BY <2>1, <2>2 DEF Bookkeeping, PendingAgrees
    <2>3. CASE call' = [call EXCEPT ![Stt] = [Quiet EXCEPT !.pc = "dead"]]
      <3>1. /\ call'[Stt] = [Quiet EXCEPT !.pc = "dead"]
            /\ \A q \in Caller \ {Stt} : call'[q] = call[q]
        BY <1>1, <2>3
      <3> QED BY <1>1, <2>1, <3>1, QuietenedBookkeeping DEF Quiet, InCancel
    <2>4. CASE call[Stt].pc = "idle" /\ call' = [call EXCEPT ![Stt].pc = "dead"]
      <3>1. /\ call'[Stt].pc = "dead" /\ call'[Stt].text = call[Stt].text
            /\ call'[Stt].turn = call[Stt].turn
            /\ \A q \in Caller \ {Stt} : call'[q] = call[q]
        BY <1>1, <2>4 DEF CallType
      <3>2. call[Stt].text = {} /\ call[Stt].turn = NoTurn
        BY <1>1, <2>4 DEF Bookkeeping, InCancel
      <3> QED BY <1>1, <2>1, <3>1, <3>2, QuietenedBookkeeping DEF InCancel
    <2>5. CASE call' = [call EXCEPT ![Run] = Quiet]
      <3>1. call'[Run] = Quiet /\ \A q \in Caller \ {Run} : call'[q] = call[q]
        BY <1>1, <2>5
      <3> QED BY <1>1, <2>1, <3>1, QuietenedBookkeeping DEF Quiet, InCancel
    <2> QED BY <1>13, <2>2, <2>3, <2>4, <2>5 DEF HangUp, SttEnds, RunStopped, RunMarks, CancelLoops
  <1>14. CASE RunFinally
    <2>1. Goes(Run, Quiet)
      BY <1>1, <1>14, TypeParts, QuietTyped, CancelTurnGoes DEF RunFinally
    <2>2. /\ call'[Run].text = {} /\ call'[Run].turn = NoTurn /\ call'[Run].pc # "announce"
          /\ \A q \in Caller \ {Run} : call'[q] = call[q]
      BY <1>1, <2>1 DEF Goes, Quiet
    <2>3. UNCHANGED <<heard, turnCount, pendingTurn, pendingText>>
      BY <1>14 DEF RunFinally, RunOnly
    <2>4. PendingAgrees' BY <2>3 DEF Bookkeeping, PendingAgrees
    <2> QED BY <1>1, <2>2, <2>3, <2>4, Sets DEF Bookkeeping
  <1>15. CASE Persists
    BY <1>15, BookkeepingSame DEF Persists, PersistCommits, PersistFails
  <1>16. CASE UNCHANGED vars
    BY <1>16, BookkeepingSame DEF vars, speech
  <1> QED BY <1>2, <1>3, <1>4, <1>5, <1>6, <1>7, <1>8, <1>9, <1>10, <1>11, <1>12, <1>13,
             <1>14, <1>15, <1>16 DEF Next, CallerStep, SttStep, RunStep

LEMMA TypeInit == Init => TypeOK /\ Bookkeeping
  <1> SUFFICES ASSUME Init PROVE TypeOK /\ Bookkeeping OBVIOUS
  <1>1. CancelType /\ SpeechType /\ RecordType /\ OuterType
    <2>1. QueueType BY DEF Init, QueueType
    <2>2. call \in [Caller -> CallType] BY QuietTyped DEF Init
    <2>3. turn \in [Turn -> TurnType] BY DEF Init, TurnType, TurnPc
    <2>4. /\ active = NoTurn /\ speaking = FALSE /\ turnText = 0 /\ turnTask = NoTurn
          /\ turnCount = 0 /\ pendingTurn = NoTurn /\ pendingText = {} /\ settle = FALSE
          /\ run = "up" /\ ended = FALSE /\ heard = 0
          /\ tts = [pc |-> "idle", ctx |-> NoTurn, last |-> FALSE]
      BY DEF Init
    <2>5. 0 \in 0..MaxDeltas /\ 0 \in 0..MaxCommits OBVIOUS
    <2>6. CancelType BY <2>1, <2>2, <2>3, <2>4, <2>5 DEF CancelType
    <2>7. SpeechType BY <2>4, <2>5 DEF SpeechType
    <2>8. OuterType BY <2>4, <2>5 DEF OuterType, TtsPc
    <2>9. RecordType BY DEF Init, RecordType
    <2> QED BY <2>6, <2>7, <2>8, <2>9
  <1>2. Bookkeeping
    BY Sets DEF Init, Bookkeeping, PendingAgrees, Quiet, InCancel
  <1> QED BY <1>1, <1>2, TypeParts

\* Every reachable state of a call is well typed, and a caller carries words
\* exactly while it is inside _cancel_turn or about to announce them.
THEOREM TypeCorrect == Spec => [](TypeOK /\ Bookkeeping)
  <1>1. TypeOK /\ Bookkeeping /\ [Next]_vars => (TypeOK /\ Bookkeeping)'
    BY TypeStep, BookkeepingStep
  <1> QED BY TypeInit, <1>1, PTL DEF Spec

---------------------------------------------------------------------------
(* Where the words of the operator go.  Every step of the call does one of *)
(* these to them.                                                          *)

HistoryKept == /\ DOMAIN history \subseteq DOMAIN history'
               /\ \A i \in DOMAIN history : Said(i)' = Said(i)

\* The history gains nothing, or an entry with these words.
Tells(text) ==
  /\ HistoryKept
  /\ \E n \in DOMAIN history' \ DOMAIN history :
       /\ DOMAIN history' = DOMAIN history \cup {n}
       /\ Said(n)' = text

TellsNothing == HistoryKept /\ (DOMAIN history' = DOMAIN history \/ Tells({}))

SameWords(Q) == \A q \in Q : call'[q].text = call[q].text

Stay == /\ SameWords(Caller) /\ pendingText' = pendingText /\ heard' = heard /\ TellsNothing

Hear == /\ heard' = heard + 1 /\ TellsNothing /\ SameWords(Caller \ {Stt})
        /\ call[Stt].text = {}
        /\ \/ call'[Stt].text = {heard + 1} /\ pendingText' = pendingText
           \/ call'[Stt].text = {} /\ pendingText' = pendingText \cup {heard + 1}

Joins == /\ heard' = heard /\ TellsNothing /\ SameWords(Caller \ {Stt})
         /\ call'[Stt].text = {} /\ pendingText' = pendingText \cup call[Stt].text

Carries(p) == /\ heard' = heard /\ TellsNothing /\ SameWords(Caller \ {p})
              /\ call[p].text = {} /\ call'[p].text = pendingText /\ pendingText' = {}

Announces(p) == /\ heard' = heard /\ SameWords(Caller \ {p}) /\ pendingText' = pendingText
            /\ Tells(call[p].text) /\ call'[p].text = {}

Drops == /\ heard' = heard /\ TellsNothing /\ SameWords(Caller \ {Stt})
         /\ call'[Stt].text \in {call[Stt].text, {}} /\ pendingText' = pendingText

Moves == \/ /\ run' = "up" <=> run = "up"
            /\ Stay \/ Hear \/ Joins \/ \E p \in Caller : Carries(p) \/ Announces(p)
         \/ run = "up" /\ run' # "up" /\ Drops

LEMMA RememberTells ==
  ASSUME history \in Seq(EntryType), NEW entry \in EntryType, Remember(entry)
  PROVE  Tells(entry.text)
  <1>1. history' = Append(history, entry) BY DEF Remember
  <1>2. Len(history) \in Nat /\ DOMAIN history = 1..Len(history) OBVIOUS
  <1>3. DOMAIN history' = 1..(Len(history) + 1) BY <1>1
  <1>4. DOMAIN history' = DOMAIN history \cup {Len(history) + 1} BY <1>2, <1>3
  <1>5. Len(history) + 1 \in DOMAIN history' \ DOMAIN history BY <1>2, <1>3
  <1>6. \A i \in DOMAIN history : history'[i] = history[i] BY <1>1, <1>2
  <1>7. history'[Len(history) + 1] = entry BY <1>1, <1>2
  <1> QED BY <1>4, <1>5, <1>6, <1>7 DEF Tells, HistoryKept, Said

LEMMA HistorySame == ASSUME UNCHANGED history PROVE TellsNothing
  BY DEF TellsNothing, HistoryKept, Said

LEMMA ReplyTellsNothing ==
  ASSUME TypeOK, NEW t \in Turn, RememberReply(t) \/ UNCHANGED history
  PROVE  TellsNothing
  <1>1. CASE UNCHANGED history BY <1>1, HistorySame
  <1>2. CASE Remember(Entry("assistant", t, {}, turn[t].said))
    <2>1. Entry("assistant", t, {}, turn[t].said) \in EntryType
      BY DEF TypeOK, TurnType, Entry, EntryType
    <2>2. Entry("assistant", t, {}, turn[t].said).text = {} BY DEF Entry
    <2>3. Tells({}) BY <1>2, <2>1, <2>2, RememberTells DEF TypeOK
    <2> QED BY <2>3 DEF TellsNothing, Tells
  <1> QED BY <1>1, <1>2 DEF RememberReply, record

\* What happens to call and pendingText when nobody moves a word.
LEMMA StayMoves ==
  ASSUME UNCHANGED <<call, heard, pendingText>>, TellsNothing, run' = "up" <=> run = "up"
  PROVE  Moves
  BY DEF Moves, Stay, SameWords

LEMMA ResumesMoves ==
  ASSUME TypeOK, Bookkeeping, NEW p \in Caller, Goes(p, call[p]), Resuming(p),
         call[p].pc \in InCancel
  PROVE  Moves
  <1>1. run' = run /\ heard' = heard /\ TellsNothing
    BY HistorySame DEF Resuming, record
  <1>2. SameWords(Caller \ {p}) BY DEF Goes, SameWords
  <1>3. CASE call'[p].pc = "held"
    <2>1. p = Stt /\ call'[p].text = {} BY <1>3 DEF Goes, InCancel
    <2>2. pendingText' = pendingText \cup call[p].text
      BY <1>3 DEF Resuming, HoldIfReached, Hold
    <2> QED BY <1>1, <1>2, <2>1, <2>2 DEF Moves, Joins
  <1>4. CASE call'[p].pc # "held"
    <2>1. pendingText' = pendingText BY <1>4 DEF Resuming, HoldIfReached, speech
    <2>2. call'[p].text = call[p].text
      BY <1>4 DEF Goes, Bookkeeping
    <2>3. SameWords(Caller) BY <1>2, <2>2 DEF SameWords
    <2> QED BY <1>1, <2>1, <2>3 DEF Moves, Stay
  <1> QED BY <1>3, <1>4

LEMMA FiresMoves ==
  ASSUME TypeOK, Bookkeeping, NEW p \in Caller, Fires(p), call[p].text = {},
         UNCHANGED <<run, heard, history>>
  PROVE  Moves
  <1>1. TellsNothing BY HistorySame
  <1>2. call'[p].text = pendingText
    <2>1. pendingTurn = NoTurn => pendingText = {} BY DEF Bookkeeping, PendingAgrees
    <2>2. Quiet.text = {} BY DEF Quiet
    <2> QED BY <2>1, <2>2 DEF Fires
  <1>3. Carries(p) BY <1>1, <1>2 DEF Carries, Fires, SameWords
  <1> QED BY <1>3 DEF Moves

LEMMA EveryStepMoves ==
  ASSUME TypeOK, Bookkeeping, [Next]_vars
  PROVE  Moves
  <1>1. call \in [Caller -> CallType] /\ SpeechType /\ Stt \in Caller /\ Run \in Caller
        /\ Stt # Run /\ history \in Seq(EntryType)
    BY TypeParts, Sets DEF CancelType, RecordType
  <1>2. ASSUME NEW p \in Caller, DropTurnEnds(p) \/ DropAudioEnds(p) \/ FlushEnds(p)
        PROVE  Moves
    BY <1>2, ResumesTyped, ResumesMoves
  <1>3. ASSUME NEW p \in Caller, NEW pc \in CallerPc, call' = [call EXCEPT ![p].pc = pc],
               UNCHANGED <<heard, pendingText, history>>, run' = "up" <=> run = "up"
        PROVE  Moves
    <2>1. SameWords(Caller) BY <1>1, <1>3 DEF SameWords, CallType
    <2> QED BY <1>3, <2>1, HistorySame DEF Moves, Stay
  <1>4. ASSUME NEW p \in Caller, FlushTextEnds(p) PROVE Moves
    <2>1. /\ call' = [call EXCEPT ![p].pc = "flush"] /\ "flush" \in CallerPc
          /\ UNCHANGED <<heard, pendingText, history>> /\ run' = run
      BY <1>4 DEF FlushTextEnds, speech, record, CallerPc
    <2> QED BY <1>3, <2>1
  <1>5. ASSUME NEW p \in Caller, AnnounceEnds(p) PROVE Moves
    <2>1. call' = [call EXCEPT ![p] = Quiet] /\ UNCHANGED <<run, heard, pendingText>>
      BY <1>5 DEF AnnounceEnds, speech
    <2>2. call'[p].text = {} /\ SameWords(Caller \ {p})
      BY <1>1, <2>1 DEF Quiet, SameWords
    <2>3. call[p].turn \in Turn /\ call[p].text \in SUBSET Commit
      BY <1>1, <1>5 DEF Bookkeeping, AnnounceEnds, CallType
    <2>4. Tells(call[p].text)
      <3>1. Remember(Entry("user", call[p].turn, call[p].text, 0)) BY <1>5 DEF AnnounceEnds
      <3>2. Entry("user", call[p].turn, call[p].text, 0) \in EntryType
        BY <2>3 DEF Entry, EntryType
      <3>3. Entry("user", call[p].turn, call[p].text, 0).text = call[p].text BY DEF Entry
      <3> QED BY <1>1, <3>1, <3>2, <3>3, RememberTells
    <2> QED BY <2>1, <2>2, <2>4 DEF Moves, Announces
  <1>6. CASE SttPartial
    <2>1. /\ call' = [call EXCEPT ![Stt].pc = "echo"] /\ "echo" \in CallerPc
          /\ UNCHANGED <<heard, pendingText, history>> /\ run' = run
      BY <1>6 DEF SttPartial, record, CallerPc
    <2> QED BY <1>1, <1>3, <2>1
  <1>7. CASE SttEchoed \/ SttWaits
    <2>1. /\ UNCHANGED <<run, heard, pendingText, history>> /\ call' = [call EXCEPT ![Stt] = Quiet]
          /\ call[Stt].pc \notin InCancel
      BY <1>7 DEF SttEchoed, SttWaits, speech, record, InCancel
    <2>2. call[Stt].text = {} BY <1>1, <2>1 DEF Bookkeeping
    <2>3. SameWords(Caller) BY <1>1, <2>1, <2>2 DEF SameWords, Quiet
    <2> QED BY <2>1, <2>3, HistorySame DEF Moves, Stay
  <1>8. CASE SttCommit
    <2>1. call[Stt].text = {} /\ TellsNothing
      BY <1>1, <1>8, HistorySame DEF SttCommit, Bookkeeping, InCancel, record
    <2>2. CASE TurnAlive
      BY <1>8, <2>1, <2>2, SttCommitCarries DEF Moves, Hear, SameWords, speech
    <2>3. CASE ~TurnAlive
      BY <1>8, <2>1, <2>3, SttCommitHolds DEF Moves, Hear, SameWords, Hold
    <2> QED BY <2>2, <2>3
  <1>9. CASE SttFires
    <2>1. call[Stt].text = {} /\ UNCHANGED <<run, heard, history>>
      BY <1>1, <1>9 DEF SttFires, Bookkeeping, InCancel, record
    <2> QED BY <1>1, <1>9, <2>1, FirePendingFires, FiresMoves DEF SttFires
  <1>10. CASE SettleExpires
    <2>1. pendingTurn \in Turn /\ pendingTurn \in Caller /\ pendingTurn # Run
      BY <1>1, <1>10, Sets DEF SettleExpires, SpeechType, Run, Turn
    <2>2. call[pendingTurn].text = {} /\ UNCHANGED <<run, heard, history>>
      BY <1>10, <2>1 DEF SettleExpires, Bookkeeping, InCancel, record
    <2> QED BY <1>10, <2>1, <2>2, FirePendingFires, FiresMoves DEF SettleExpires
  <1>11. CASE SettleExpiresEmpty
    BY <1>11, StayMoves, HistorySame DEF SettleExpiresEmpty, record
  <1>12. ASSUME NEW t \in Turn, TurnStep(t) PROVE Moves
    <2>1. UNCHANGED <<run, call, heard, pendingText>> /\ (RememberReply(t) \/ UNCHANGED history)
      BY <1>12 DEF TurnStep, TurnOnly, TurnStarts, TurnSpeaks, TurnCompletes, TurnEnds,
         TurnKilled, TurnFails, speech, record
    <2> QED BY <2>1, ReplyTellsNothing, StayMoves
  <1>13. CASE TtsStep
    BY <1>13, StayMoves, HistorySame DEF TtsStep, TtsOnly, TtsAudio, TtsStarted, TtsAudioSent,
       TtsFinal, TtsError, TtsEndSent, speech, record
  <1>14. CASE HangUp \/ (SttEnds /\ run = "up")
    <2>1. run = "up" /\ run' # "up" /\ UNCHANGED <<heard, pendingText, history>>
      BY <1>14 DEF HangUp, SttEnds, CancelLoops, RunOnly, record
    <2>2. CASE UNCHANGED call
      BY <2>1, <2>2, HistorySame DEF Moves, Drops, SameWords
    <2>3. CASE call' = [call EXCEPT ![Stt] = [Quiet EXCEPT !.pc = "dead"]]
      <3>1. call'[Stt].text = {} /\ SameWords(Caller \ {Stt})
        BY <1>1, <2>3 DEF SameWords, Quiet
      <3> QED BY <2>1, <3>1, HistorySame DEF Moves, Drops
    <2> QED BY <1>14, <2>2, <2>3 DEF HangUp, SttEnds, CancelLoops
  <1>15. CASE SttEnds /\ run # "up"
    <2>1. /\ call' = [call EXCEPT ![Stt].pc = "dead"] /\ "dead" \in CallerPc
          /\ UNCHANGED <<heard, pendingText, history>> /\ run' = run
      BY <1>15 DEF SttEnds, RunOnly, record, CallerPc
    <2> QED BY <1>1, <1>3, <2>1
  <1>16. CASE RunStopped
    BY <1>16, StayMoves, HistorySame DEF RunStopped, RunOnly, record
  <1>17. CASE RunMarks
    <2>1. /\ call' = [call EXCEPT ![Run] = Quiet] /\ call[Run].text = {}
          /\ UNCHANGED <<heard, pendingText, history>> /\ run' # "up" /\ call[Run].pc = "marking"
      BY <1>17 DEF RunMarks, RunOnly, record, Bookkeeping
    <2>2. SameWords(Caller) BY <1>1, <2>1 DEF SameWords, Quiet
    <2>3. TellsNothing BY <2>1, HistorySame
    <2>4. CASE run = "up" BY <1>1, <2>1, <2>2, <2>3, <2>4 DEF Moves, Drops, SameWords
    <2>5. CASE run # "up" BY <2>1, <2>2, <2>3, <2>5 DEF Moves, Stay
    <2> QED BY <2>4, <2>5
  <1>18. CASE RunFinally
    <2>1. Goes(Run, Quiet) /\ call[Run].text = {} /\ UNCHANGED <<run, heard, pendingText, history>>
      BY <1>1, <1>18, TypeParts, QuietTyped, CancelTurnGoes DEF RunFinally, RunOnly, record, Bookkeeping
    <2>2. SameWords(Caller) BY <2>1 DEF SameWords, Goes, Quiet
    <2> QED BY <2>1, <2>2, HistorySame DEF Moves, Stay
  <1>19. CASE Persists
    BY <1>19, StayMoves, HistorySame DEF Persists, PersistCommits, PersistFails, speech
  <1>20. CASE UNCHANGED vars
    BY <1>20, StayMoves, HistorySame DEF vars
  <1> QED BY <1>2, <1>4, <1>5, <1>6, <1>7, <1>8, <1>9, <1>10, <1>11, <1>12, <1>13, <1>14,
             <1>15, <1>16, <1>17, <1>18, <1>19, <1>20 DEF Next, CallerStep, SttStep, RunStep

---------------------------------------------------------------------------
(* What follows from the moves.                                            *)

\* The words in the history, seen from before and after a step.
LEMMA ToldBefore ==
  ASSUME HistoryKept, NEW S, DOMAIN history' = DOMAIN history \/ Tells(S)
  PROVE  \A i \in DOMAIN history' :
           \/ i \in DOMAIN history /\ Said(i)' = Said(i)
           \/ i \notin DOMAIN history /\ Said(i)' = S
  BY DEF HistoryKept, Tells

LEMMA OnlyHeardStep ==
  ASSUME TypeOK, OnlyHeard, Moves
  PROVE  OnlyHeard'
  <1>1. heard \in Nat /\ Stt \in Caller BY TypeParts, Sets DEF OuterType
  <1>2. ASSUME TellsNothing, heard' \in {heard, heard + 1}
        PROVE  \A i \in DOMAIN history' : Said(i)' \subseteq 1..heard'
    <2>1. \A i \in DOMAIN history' : Said(i)' = {} \/ (i \in DOMAIN history /\ Said(i)' = Said(i))
      BY <1>2, ToldBefore DEF TellsNothing
    <2> QED BY <1>1, <1>2, <2>1 DEF OnlyHeard
  <1>3. CASE Stay BY <1>2, <1>3 DEF Stay, SameWords, OnlyHeard
  <1>4. CASE Hear
    <2>1. \A c \in 1..heard : c \in 1..heard' BY <1>1, <1>4 DEF Hear
    <2>2. heard + 1 \in 1..heard' BY <1>1, <1>4 DEF Hear
    <2> QED BY <1>1, <1>2, <1>4, <2>1, <2>2 DEF Hear, SameWords, OnlyHeard
  <1>5. CASE Joins BY <1>1, <1>2, <1>5 DEF Joins, SameWords, OnlyHeard
  <1>6. ASSUME NEW p \in Caller, Carries(p) PROVE OnlyHeard'
    BY <1>2, <1>6 DEF Carries, SameWords, OnlyHeard
  <1>7. ASSUME NEW p \in Caller, Announces(p) PROVE OnlyHeard'
    <2>1. \A i \in DOMAIN history' : Said(i)' = call[p].text \/ (i \in DOMAIN history /\ Said(i)' = Said(i))
      BY <1>7, ToldBefore DEF Announces, Tells
    <2> QED BY <1>7, <2>1 DEF Announces, SameWords, OnlyHeard
  <1>8. CASE Drops BY <1>1, <1>2, <1>8 DEF Drops, SameWords, OnlyHeard
  <1> QED BY <1>3, <1>4, <1>5, <1>6, <1>7, <1>8 DEF Moves

LEMMA NoSpeechTwiceStep ==
  ASSUME TypeOK, OnlyHeard, NoSpeechTwice, Moves
  PROVE  NoSpeechTwice'
  <1>1. heard \in Nat /\ Stt \in Caller /\ heard + 1 \notin 1..heard
    BY TypeParts, Sets DEF OuterType
  <1>2. ASSUME TellsNothing
        PROVE  \A i \in DOMAIN history' : Said(i)' = {} \/ (i \in DOMAIN history /\ Said(i)' = Said(i))
    BY <1>2, ToldBefore DEF TellsNothing
  <1>3. CASE Stay
    BY <1>2, <1>3 DEF Stay, SameWords, NoSpeechTwice
  <1>4. CASE Hear
    <2>1. CASE call'[Stt].text = {heard + 1} /\ pendingText' = pendingText
      BY <1>1, <1>2, <1>4, <2>1 DEF Hear, SameWords, NoSpeechTwice, OnlyHeard
    <2>2. CASE call'[Stt].text = {} /\ pendingText' = pendingText \cup {heard + 1}
      BY <1>1, <1>2, <1>4, <2>2 DEF Hear, SameWords, NoSpeechTwice, OnlyHeard
    <2> QED BY <1>4, <2>1, <2>2 DEF Hear
  <1>5. CASE Joins
    BY <1>1, <1>2, <1>5 DEF Joins, SameWords, NoSpeechTwice
  <1>6. ASSUME NEW p \in Caller, Carries(p) PROVE NoSpeechTwice'
    BY <1>2, <1>6 DEF Carries, SameWords, NoSpeechTwice
  <1>7. ASSUME NEW p \in Caller, Announces(p) PROVE NoSpeechTwice'
    <2>1. PICK n \in DOMAIN history' \ DOMAIN history :
            /\ DOMAIN history' = DOMAIN history \cup {n} /\ Said(n)' = call[p].text
      BY <1>7 DEF Announces, Tells
    <2>2. \A i \in DOMAIN history : Said(i)' = Said(i)
      BY <1>7 DEF Announces, Tells, HistoryKept
    <2> QED BY <1>7, <2>1, <2>2 DEF Announces, SameWords, NoSpeechTwice
  <1>8. CASE Drops
    BY <1>1, <1>2, <1>8 DEF Drops, SameWords, NoSpeechTwice
  <1> QED BY <1>3, <1>4, <1>5, <1>6, <1>7, <1>8 DEF Moves

\* No words of the operator are ever in two places, however many tasks are
\* inside _cancel_turn at once, and none is told twice.
THEOREM SpeechOnce == Spec => [](OnlyHeard /\ NoSpeechTwice)
  <1>1. Init => OnlyHeard /\ NoSpeechTwice
    BY DEF Init, OnlyHeard, NoSpeechTwice, Said, Quiet
  <1>2. TypeOK /\ Bookkeeping /\ OnlyHeard /\ NoSpeechTwice /\ [Next]_vars
          => (OnlyHeard /\ NoSpeechTwice)'
    BY EveryStepMoves, OnlyHeardStep, NoSpeechTwiceStep
  <1> QED BY <1>1, <1>2, TypeCorrect, PTL DEF Spec

LEMMA NoSpeechLostStep ==
  ASSUME TypeOK, NoSpeechLost, Moves
  PROVE  NoSpeechLost'
  <1> SUFFICES ASSUME run' = "up", NEW c \in 1..heard'
               PROVE  c \in Waiting' \/ c \in Told'
    BY DEF NoSpeechLost
  <1>1. heard \in Nat /\ Stt \in Caller /\ run = "up"
    BY TypeParts, Sets DEF OuterType, Moves
  <1>2. ASSUME c \in 1..heard
        PROVE  \/ c \in pendingText \/ \E p \in Caller : c \in call[p].text
               \/ \E i \in DOMAIN history : c \in Said(i)
    BY <1>1, <1>2 DEF NoSpeechLost, Waiting, Told
  <1>3. ASSUME \/ c \in pendingText' \/ \E p \in Caller : c \in call'[p].text
               \/ \E i \in DOMAIN history' : c \in Said(i)'
        PROVE  c \in Waiting' \/ c \in Told'
    BY <1>3 DEF Waiting, Told
  <1>4. ASSUME HistoryKept, NEW i \in DOMAIN history, c \in Said(i)
        PROVE  \E j \in DOMAIN history' : c \in Said(j)'
    BY <1>4 DEF HistoryKept
  <1>5. CASE Stay
    BY <1>2, <1>3, <1>4, <1>5 DEF Stay, SameWords, TellsNothing
  <1>6. CASE Hear
    <2>1. c \in 1..heard \/ c = heard + 1 BY <1>1, <1>6 DEF Hear
    <2>2. CASE c = heard + 1 BY <1>1, <1>3, <1>6, <2>2 DEF Hear
    <2>3. CASE c \in 1..heard
      BY <1>1, <1>2, <1>3, <1>4, <1>6, <2>3 DEF Hear, SameWords, TellsNothing
    <2> QED BY <2>1, <2>2, <2>3
  <1>7. CASE Joins
    BY <1>1, <1>2, <1>3, <1>4, <1>7 DEF Joins, SameWords, TellsNothing
  <1>8. ASSUME NEW p \in Caller, Carries(p) PROVE c \in Waiting' \/ c \in Told'
    BY <1>2, <1>3, <1>4, <1>8 DEF Carries, SameWords, TellsNothing
  <1>9. ASSUME NEW p \in Caller, Announces(p) PROVE c \in Waiting' \/ c \in Told'
    <2>1. PICK n \in DOMAIN history' : Said(n)' = call[p].text
      BY <1>9 DEF Announces, Tells
    <2>2. HistoryKept BY <1>9 DEF Announces, Tells
    <2> QED BY <1>2, <1>3, <1>4, <1>9, <2>1, <2>2 DEF Announces, SameWords
  <1> QED BY <1>1, <1>5, <1>6, <1>7, <1>8, <1>9 DEF Moves

\* Until somebody hangs up, every commit is waiting for its turn or was told
\* to the model.
THEOREM SpeechKept == Spec => []NoSpeechLost
  <1>1. Init => NoSpeechLost
    BY DEF Init, NoSpeechLost
  <1>2. TypeOK /\ Bookkeeping /\ NoSpeechLost /\ [Next]_vars => NoSpeechLost'
    BY EveryStepMoves, NoSpeechLostStep
  <1> QED BY <1>1, <1>2, TypeCorrect, PTL DEF Spec

---------------------------------------------------------------------------
(* The window, the flag and the context: Orderly.                          *)

\* Nothing is held for good: whoever takes the window away either takes the
\* words with it, or is the STT loop about to decide about them.
LEMMA NothingStrandedStep ==
  ASSUME TypeOK, Bookkeeping, NothingStranded, [Next]_vars
  PROVE  NothingStranded'
  <1> SUFFICES ASSUME run' = "up", pendingText' # {}
               PROVE  settle' \/ call'[Stt].pc = "held"
    BY DEF NothingStranded
  <1>1. call \in [Caller -> CallType] /\ SpeechType /\ Stt \in Caller
    BY TypeParts, Sets DEF CancelType
  <1>2. ASSUME run = "up", pendingText # {}, call[Stt].pc # "held", settle' = settle
        PROVE  settle'
    BY <1>1, <1>2 DEF NothingStranded, SpeechType
  <1>3. ASSUME UNCHANGED <<run, speech>>, call'[Stt] = call[Stt] \/ call[Stt].pc # "held"
        PROVE  settle' \/ call'[Stt].pc = "held"
    BY <1>2, <1>3 DEF speech
  <1>4. ASSUME NEW p \in Caller, CallerStep(p) PROVE settle' \/ call'[Stt].pc = "held"
    <2>1. CASE DropTurnEnds(p) \/ DropAudioEnds(p) \/ FlushEnds(p)
      <3>1. Goes(p, call[p]) /\ Resuming(p) /\ call[p].pc \in InCancel
        BY <2>1, ResumesTyped
      <3>2. CASE call'[p].pc = "held" BY <3>1, <3>2 DEF Goes, InCancel
      <3>3. CASE call'[p].pc # "held"
        BY <1>1, <1>3, <3>1, <3>3 DEF Goes, Resuming, HoldIfReached, InCancel
      <3> QED BY <3>2, <3>3
    <2>2. CASE FlushTextEnds(p) \/ AnnounceEnds(p)
      BY <1>1, <1>3, <2>2 DEF FlushTextEnds, AnnounceEnds
    <2> QED BY <1>4, <2>1, <2>2 DEF CallerStep
  <1>5. CASE SttPartial
    BY <1>1, <1>5 DEF SttPartial, Bookkeeping, PendingAgrees, SpeechType
  <1>6. CASE SttEchoed BY <1>3, <1>6 DEF SttEchoed
  <1>7. CASE SttCommit
    BY <1>3, <1>7, SttCommitCarries, SttCommitHolds DEF SttCommit
  <1>8. CASE SttFires \/ SettleExpires BY <1>8 DEF SttFires, SettleExpires, FirePending
  <1>9. CASE SttWaits BY <1>9 DEF SttWaits
  <1>10. CASE SettleExpiresEmpty
    BY <1>10 DEF SettleExpiresEmpty, Bookkeeping, PendingAgrees
  <1>11. ASSUME NEW t \in Turn, TurnStep(t) PROVE settle' \/ call'[Stt].pc = "held"
    BY <1>3, <1>11 DEF TurnStep, TurnOnly, TurnStarts, TurnSpeaks, TurnCompletes, TurnEnds,
       TurnKilled, TurnFails
  <1>12. CASE TtsStep
    BY <1>3, <1>12 DEF TtsStep, TtsOnly, TtsAudio, TtsStarted, TtsAudioSent, TtsFinal,
       TtsError, TtsEndSent
  <1>13. CASE HangUp \/ SttEnds \/ RunStep
    BY <1>13 DEF HangUp, SttEnds, CancelLoops, RunStep, RunStopped, RunFinally, RunMarks
  <1>14. CASE Persists BY <1>3, <1>14 DEF Persists, PersistCommits, PersistFails
  <1>15. CASE UNCHANGED vars BY <1>3, <1>15 DEF vars, speech
  <1> QED BY <1>4, <1>5, <1>6, <1>7, <1>8, <1>9, <1>10, <1>11, <1>12, <1>13, <1>14, <1>15
          DEF Next, SttStep

\* _cancel_turn clears the flag with the context, from whichever await it
\* comes back: the context it drops may have been opened while it waited.
LEMMA DropAudioSilences ==
  ASSUME SpeakingHasContext, NEW p, NEW r, DropAudio(p, r)
  PROVE  SpeakingHasContext'
  BY DEF DropAudio, Silence, SpeakingHasContext

LEMMA CancelTurnSilences ==
  ASSUME SpeakingHasContext, NEW p, NEW r, CancelTurn(p, r)
  PROVE  SpeakingHasContext'
  <1>1. CASE TurnAlive BY <1>1 DEF CancelTurn, SpeakingHasContext
  <1>2. CASE ~TurnAlive BY <1>2, DropAudioSilences DEF CancelTurn
  <1> QED BY <1>1, <1>2

LEMMA FirePendingSilences ==
  ASSUME SpeakingHasContext, NEW p, FirePending(p)
  PROVE  SpeakingHasContext'
  <1>1. CASE pendingTurn = NoTurn BY <1>1 DEF FirePending, SpeakingHasContext
  <1>2. CASE pendingTurn # NoTurn BY <1>2, CancelTurnSilences DEF FirePending
  <1> QED BY <1>1, <1>2

LEMMA SpeakingHasContextStep ==
  ASSUME SpeakingHasContext, [Next]_vars
  PROVE  SpeakingHasContext'
  <1>1. ASSUME UNCHANGED <<active, speaking>> PROVE SpeakingHasContext'
    BY <1>1 DEF SpeakingHasContext
  <1>2. ASSUME NEW p \in Caller, CallerStep(p) PROVE SpeakingHasContext'
    <2>1. CASE DropTurnEnds(p) BY <2>1, DropAudioSilences DEF DropTurnEnds
    <2>2. CASE DropAudioEnds(p)
      BY <2>2 DEF DropAudioEnds, Silence, SpeakingHasContext
    <2>3. CASE FlushTextEnds(p) \/ FlushEnds(p) \/ AnnounceEnds(p)
      BY <1>1, <2>3 DEF FlushTextEnds, FlushEnds, AnnounceEnds
    <2> QED BY <1>2, <2>1, <2>2, <2>3 DEF CallerStep
  <1>3. CASE SttStep
    <2>1. CASE SttPartial \/ SttEchoed \/ SttWaits
      BY <1>1, <2>1 DEF SttPartial, SttEchoed, SttWaits
    <2>2. CASE SttCommit
      <3>1. CASE TurnAlive BY <2>2, <3>1, CancelTurnSilences DEF SttCommit
      <3>2. CASE ~TurnAlive BY <1>1, <2>2, <3>2 DEF SttCommit
      <3> QED BY <3>1, <3>2
    <2>3. CASE SttFires BY <2>3, FirePendingSilences DEF SttFires
    <2> QED BY <1>3, <2>1, <2>2, <2>3 DEF SttStep
  <1>4. CASE SettleExpires BY <1>4, FirePendingSilences DEF SettleExpires
  <1>5. CASE SettleExpiresEmpty BY <1>1, <1>5 DEF SettleExpiresEmpty
  <1>6. ASSUME NEW t \in Turn, TurnStep(t) PROVE SpeakingHasContext'
    <2>1. CASE TurnStarts(t)
      BY <2>1, Sets DEF TurnStarts, SpeakingHasContext
    <2>2. CASE UNCHANGED <<active, speaking>> BY <1>1, <2>2
    <2> QED BY <1>6, <2>1, <2>2 DEF TurnStep, TurnOnly, TurnSpeaks, TurnCompletes, TurnEnds,
               TurnKilled, TurnFails
  <1>7. CASE TtsStep
    <2>1. CASE ContextOver BY <2>1 DEF ContextOver, SpeakingHasContext
    <2>2. ASSUME NEW last \in BOOLEAN, TtsAudio(last) PROVE SpeakingHasContext'
      BY <2>2 DEF TtsAudio, SpeakingHasContext
    <2> QED BY <1>1, <1>7, <2>1, <2>2 DEF TtsStep, TtsStarted, TtsAudioSent, TtsFinal, TtsError,
               TtsEndSent
  <1>8. CASE HangUp \/ SttEnds \/ RunStopped \/ RunMarks
    BY <1>1, <1>8 DEF HangUp, SttEnds, RunStopped, RunMarks
  <1>9. CASE RunFinally BY <1>9, CancelTurnSilences DEF RunFinally
  <1>10. CASE Persists BY <1>1, <1>10 DEF Persists, PersistCommits, PersistFails
  <1>11. CASE UNCHANGED vars BY <1>1, <1>11 DEF vars
  <1> QED BY <1>2, <1>3, <1>4, <1>5, <1>6, <1>7, <1>8, <1>9, <1>10, <1>11 DEF Next, RunStep

\* How run() ends: the STT loop is dead before the finally begins, and from
\* then on nothing opens a window again.
Stopping ==
  /\ run \in {"closing", "ended"} => call[Stt].pc = "dead"
  /\ call[Run].pc # "idle" => run = "closing" /\ ~settle
  /\ NoWindowLeft

LEMMA StoppingStep ==
  ASSUME TypeOK, Bookkeeping, Stopping, [Next]_vars
  PROVE  Stopping'
  <1>1. /\ call \in [Caller -> CallType] /\ SpeechType /\ Stt \in Caller /\ Run \in Caller
        /\ Stt # Run /\ Run \notin Turn /\ Stt \notin Turn
    BY TypeParts, Sets DEF CancelType, Run, Stt, Turn
  <1>2. ASSUME run' = run, settle' => settle,
               call'[Stt] = call[Stt] \/ call[Stt].pc # "dead",
               call'[Run] = call[Run] \/ call[Run].pc # "idle"
        PROVE  Stopping'
    BY <1>1, <1>2 DEF Stopping, NoWindowLeft
  <1>3. ASSUME NEW p \in Caller, CallerStep(p) PROVE Stopping'
    <2>1. CASE DropTurnEnds(p) \/ DropAudioEnds(p) \/ FlushEnds(p)
      <3>1. Goes(p, call[p]) /\ Resuming(p) /\ call[p].pc \in InCancel
        BY <2>1, ResumesTyped
      <3>2. settle' = settle BY <3>1 DEF Resuming, HoldIfReached, Hold, speech
      <3> QED BY <1>1, <1>2, <3>1, <3>2 DEF Goes, Resuming, InCancel
    <2>2. CASE FlushTextEnds(p) \/ AnnounceEnds(p)
      BY <1>1, <1>2, <2>2 DEF FlushTextEnds, AnnounceEnds, speech
    <2> QED BY <1>3, <2>1, <2>2 DEF CallerStep
  <1>4. CASE SttPartial \/ SttWaits
    <2>1. /\ call[Stt].pc # "dead" /\ run' = run
          /\ call'[Run] = call[Run]
      BY <1>1, <1>4 DEF SttPartial, SttWaits
    <2>2. run \notin {"closing", "ended"} /\ call[Run].pc = "idle"
      BY <2>1 DEF Stopping
    <2> QED BY <2>1, <2>2 DEF Stopping, NoWindowLeft
  <1>5. CASE SttEchoed BY <1>1, <1>2, <1>5 DEF SttEchoed, speech
  <1>6. CASE SttCommit
    <2>1. settle' = settle BY <1>6 DEF SttCommit, Hold, speech
    <2> QED BY <1>1, <1>2, <1>6, <2>1, SttCommitCarries, SttCommitHolds DEF SttCommit
  <1>7. CASE SttFires
    <2>1. ~settle' /\ run' = run /\ call[Stt].pc # "dead" BY <1>7 DEF SttFires, FirePending
    <2> QED BY <1>1, <1>2, <1>7, <2>1, FirePendingFires DEF SttFires, Fires
  <1>8. CASE SettleExpires
    <2>1. pendingTurn \in Turn /\ pendingTurn \in Caller BY <1>1, <1>8, Sets DEF SettleExpires, SpeechType
    <2>2. ~settle' /\ run' = run BY <1>8 DEF SettleExpires, FirePending
    <2>3. call'[Stt] = call[Stt] /\ call'[Run] = call[Run]
      BY <1>1, <1>8, <2>1, FirePendingFires DEF SettleExpires, Fires
    <2> QED BY <1>2, <2>2, <2>3
  <1>9. CASE SettleExpiresEmpty BY <1>2, <1>9 DEF SettleExpiresEmpty
  <1>10. ASSUME NEW t \in Turn, TurnStep(t) PROVE Stopping'
    BY <1>2, <1>10 DEF TurnStep, TurnOnly, TurnStarts, TurnSpeaks, TurnCompletes, TurnEnds,
       TurnKilled, TurnFails, speech
  <1>11. CASE TtsStep
    BY <1>2, <1>11 DEF TtsStep, TtsOnly, TtsAudio, TtsStarted, TtsAudioSent, TtsFinal,
       TtsError, TtsEndSent, speech
  <1>12. CASE HangUp \/ SttEnds
    <2>1. call[Run].pc = "idle" /\ call'[Run] = call[Run] /\ run' = "stopping"
      BY <1>1, <1>12 DEF HangUp, SttEnds, CancelLoops, Stopping
    <2> QED BY <2>1 DEF Stopping, NoWindowLeft
  <1>13. CASE RunStopped
    BY <1>13 DEF RunStopped, Stopping, NoWindowLeft
  <1>14. CASE RunFinally
    <2>1. Goes(Run, Quiet)
      BY <1>1, <1>14, TypeParts, QuietTyped, CancelTurnGoes DEF RunFinally
    <2>2. run' = "closing" /\ ~settle' /\ call[Stt].pc = "dead" /\ call'[Stt] = call[Stt]
      BY <1>1, <1>14, <2>1 DEF RunFinally, Stopping, Goes
    <2> QED BY <2>2 DEF Stopping, NoWindowLeft
  <1>15. CASE RunMarks
    <2>1. /\ call[Run].pc = "marking" /\ call' = [call EXCEPT ![Run] = Quiet]
          /\ run' = "ended" /\ settle' = settle
      BY <1>15 DEF RunMarks
    <2>2. call'[Run].pc = "idle" /\ call'[Stt] = call[Stt] BY <1>1, <2>1 DEF Quiet
    <2> QED BY <2>1, <2>2 DEF Stopping, NoWindowLeft
  <1>16. CASE Persists BY <1>2, <1>16 DEF Persists, PersistCommits, PersistFails, speech
  <1>17. CASE UNCHANGED vars BY <1>2, <1>17 DEF vars
  <1> QED BY <1>3, <1>4, <1>5, <1>6, <1>7, <1>8, <1>9, <1>10, <1>11, <1>12, <1>13, <1>14,
             <1>15, <1>16, <1>17 DEF Next, SttStep, RunStep

\* What the tasks of a call leave to each other is in order, whichever of them
\* ran between: words held back have a window counting down or the STT loop
\* about to decide, the voice's flag never outlives its context, and no window
\* outlives the call.
THEOREM CallOrderly == Spec => []Orderly
  <1> DEFINE Inv == NothingStranded /\ SpeakingHasContext /\ Stopping
  <1>1. Init => Inv
    BY Sets DEF Init, NothingStranded, SpeakingHasContext, Stopping, NoWindowLeft, Quiet
  <1>2. TypeOK /\ Bookkeeping /\ Inv /\ [Next]_vars => Inv'
    BY NothingStrandedStep, SpeakingHasContextStep, StoppingStep
  <1>3. TypeOK /\ Bookkeeping /\ Inv => Orderly
    BY DEF Orderly, Stopping
  <1> QED BY <1>1, <1>2, <1>3, TypeCorrect, PTL DEF Spec

---------------------------------------------------------------------------
(* The call implements CallTranscript.                                     *)

LEMMA InWaiting ==
  \A c : c \in Waiting <=> c \in pendingText \/ \E p \in Caller : c \in call[p].text
  BY DEF Waiting

LEMMA InWaitingNext ==
  \A c : c \in Waiting' <=> c \in pendingText' \/ \E p \in Caller : c \in call'[p].text
  BY DEF Waiting

LEMMA InTold ==
  /\ \A c : c \in Told <=> \E i \in DOMAIN history : c \in Said(i)
  /\ \A c : c \in Told' <=> \E i \in DOMAIN history' : c \in Said(i)'
  BY DEF Told

LEMMA ToldKept ==
  ASSUME TellsNothing
  PROVE  Told' = Told
  <1>1. \A i \in DOMAIN history' : Said(i)' = {} \/ (i \in DOMAIN history /\ Said(i)' = Said(i))
    BY ToldBefore DEF TellsNothing
  <1>2. \A i \in DOMAIN history : i \in DOMAIN history' /\ Said(i)' = Said(i)
    BY DEF TellsNothing, HistoryKept
  <1>3. \A c : c \in Told' <=> c \in Told
    BY <1>1, <1>2, InTold
  <1> QED BY <1>3

LEMMA TranscriptStep ==
  ASSUME TypeOK, TypeOK', OnlyHeard, NoSpeechTwice, Moves
  PROVE  Transcript!Next \/ UNCHANGED <<run = "up", heard, Waiting, Told>>
  <1>1. heard \in Nat /\ heard' <= MaxCommits /\ Stt \in Caller /\ heard + 1 \notin 1..heard
    BY TypeParts, TypePartsPrime, Sets DEF OuterType
  <1>2. CASE (run' = "up" <=> run = "up") /\ Stay
    <2>1. \A c : c \in Waiting' <=> c \in Waiting
      BY <1>2, InWaiting, InWaitingNext DEF Stay, SameWords
    <2>2. Waiting' = Waiting /\ Told' = Told BY <1>2, <2>1, ToldKept DEF Stay
    <2> QED BY <1>2, <2>2 DEF Stay
  <1>3. CASE (run' = "up" <=> run = "up") /\ Hear
    <2>1. \A c : c \in Waiting' <=> c \in Waiting \/ c = heard + 1
      BY <1>1, <1>3, InWaiting, InWaitingNext DEF Hear, SameWords
    <2>2. Waiting' = Waiting \cup {heard + 1} /\ Told' = Told
      BY <1>3, <2>1, ToldKept DEF Hear
    <2>3. heard < MaxCommits /\ heard' = heard + 1 BY <1>1, <1>3 DEF Hear
    <2>4. Transcript!Hear BY <1>3, <2>2, <2>3 DEF Transcript!Hear
    <2> QED BY <2>4 DEF Transcript!Next
  <1>4. CASE (run' = "up" <=> run = "up") /\ Joins
    <2>1. \A c : c \in Waiting' <=> c \in Waiting
      BY <1>1, <1>4, InWaiting, InWaitingNext DEF Joins, SameWords
    <2>2. Waiting' = Waiting /\ Told' = Told BY <1>4, <2>1, ToldKept DEF Joins
    <2> QED BY <1>4, <2>2 DEF Joins
  <1>5. ASSUME NEW p \in Caller, run' = "up" <=> run = "up", Carries(p)
        PROVE  UNCHANGED <<run = "up", heard, Waiting, Told>>
    <2>1. \A c : c \in Waiting' <=> c \in Waiting
      BY <1>5, InWaiting, InWaitingNext DEF Carries, SameWords
    <2>2. Waiting' = Waiting /\ Told' = Told BY <1>5, <2>1, ToldKept DEF Carries
    <2> QED BY <1>5, <2>2 DEF Carries
  <1>6. ASSUME NEW p \in Caller, run' = "up" <=> run = "up", Announces(p)
        PROVE  Transcript!Next
    <2>1. \A c : c \in Waiting' <=> c \in Waiting /\ c \notin call[p].text
      BY <1>6, InWaiting, InWaitingNext DEF Announces, SameWords, NoSpeechTwice
    <2>2. \A c : c \in Told' <=> c \in Told \/ c \in call[p].text
      BY <1>6, InTold DEF Announces, Tells, HistoryKept
    <2>3. Waiting' = Waiting \ call[p].text /\ Told' = Told \cup call[p].text
      BY <2>1, <2>2
    <2>4. call[p].text \in SUBSET Waiting BY InWaiting
    <2>5. Transcript!Tell(call[p].text)
      BY <1>6, <2>3 DEF Transcript!Tell, Announces
    <2> QED BY <2>4, <2>5 DEF Transcript!Next
  <1>7. CASE run = "up" /\ run' # "up" /\ Drops
    <2> DEFINE D == Waiting \ Waiting'
    <2>1. \A c : c \in Waiting' => c \in Waiting
      BY <1>1, <1>7, InWaiting, InWaitingNext DEF Drops, SameWords
    <2>2. Waiting' = Waiting \ D /\ D \in SUBSET Waiting BY <2>1
    <2>3. Told' = Told /\ heard' = heard BY <1>7, ToldKept DEF Drops
    <2> HIDE DEF D
    <2>4. Transcript!HangUp(D) BY <1>7, <2>2, <2>3 DEF Transcript!HangUp
    <2> QED BY <2>2, <2>4 DEF Transcript!Next
  <1> QED BY <1>2, <1>3, <1>4, <1>5, <1>6, <1>7 DEF Moves

\* The pipeline implements CallTranscript: with run() up for an open call, the
\* words held or carried for those waiting and those in the history for those
\* told, every step of the pipeline is a step of the promise or leaves it be.
THEOREM ImplementsTranscript == Spec => KeepsTranscript
  <1>1. Init => Transcript!Init
    <2> SUFFICES ASSUME Init PROVE Transcript!Init OBVIOUS
    <2>1. Waiting = {}
      <3>1. \A p \in Caller : call[p].text = {} BY DEF Init, Quiet
      <3> QED BY <3>1, InWaiting DEF Init
    <2>2. Told = {} BY InTold DEF Init
    <2> QED BY <2>1, <2>2 DEF Init, Transcript!Init
  <1>2. TypeOK /\ Bookkeeping /\ TypeOK' /\ OnlyHeard /\ NoSpeechTwice /\ [Next]_vars
          => [Transcript!Next]_(Transcript!tvars)
    BY EveryStepMoves, TranscriptStep DEF Transcript!tvars
  <1> QED BY <1>1, <1>2, TypeCorrect, SpeechOnce, PTL DEF Spec, KeepsTranscript, Transcript!Spec

\* The promise is worth having: whatever implements CallTranscript tells no
\* word twice and, until the hang-up, misses none (voice_pipeline.py:19-27).
THEOREM PromiseKept ==
  KeepsTranscript => [](heard \in Nat /\ Transcript!ToldOnce /\ Transcript!NothingMissing)
  <1> DEFINE Inv == heard \in Nat /\ Transcript!ToldOnce /\ Transcript!NothingMissing
  <1>1. Transcript!Init => Inv
    BY DEF Transcript!Init, Transcript!ToldOnce, Transcript!NothingMissing
  <1>2. Inv /\ [Transcript!Next]_(Transcript!tvars) => Inv'
    <2> SUFFICES ASSUME Inv, [Transcript!Next]_(Transcript!tvars) PROVE Inv' OBVIOUS
    <2>1. CASE Transcript!Hear
      <3>1. 1..heard' = 1..heard \cup {heard + 1} /\ heard + 1 \notin 1..heard
        BY <2>1 DEF Transcript!Hear
      <3> QED BY <2>1, <3>1 DEF Transcript!Hear, Transcript!ToldOnce, Transcript!NothingMissing
    <2>2. ASSUME NEW words \in SUBSET Waiting, Transcript!Tell(words) PROVE Inv'
      BY <2>2 DEF Transcript!Tell, Transcript!ToldOnce, Transcript!NothingMissing
    <2>3. ASSUME NEW words \in SUBSET Waiting, Transcript!HangUp(words) PROVE Inv'
      BY <2>3 DEF Transcript!HangUp, Transcript!ToldOnce, Transcript!NothingMissing
    <2>4. CASE UNCHANGED Transcript!tvars
      BY <2>4 DEF Transcript!tvars, Transcript!ToldOnce, Transcript!NothingMissing
    <2> QED BY <2>1, <2>2, <2>3, <2>4 DEF Transcript!Next
  <1> QED BY <1>1, <1>2, PTL DEF KeepsTranscript, Transcript!Spec

=============================================================================
