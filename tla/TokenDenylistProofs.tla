------------------------ MODULE TokenDenylistProofs ------------------------
(***************************************************************************)
(* TokenDenylist, for any processes, threads and times: what a snapshot    *)
(* may hold, how long a row stays, and how late a revocation may arrive.   *)
(***************************************************************************)
EXTENDS TokenDenylist, TLAPS

\* No clock that was read is ahead, and no query has been out for too long.
Clocks ==
  /\ \A t \in Thread :
       /\ thread[t].since <= now
       /\ thread[t].pc \in {"install", "insert"} => now <= thread[t].since + Slowest
  /\ \A p \in Process : loadedAt[p] <= now
  /\ \A j \in Jti : revokedAt[j] <= now /\ (row[j] # Never => revokedAt[j] # Never)

\* A row that has not expired, committed before x.
Committed(j, x) == row[j] > now /\ revokedAt[j] # Never /\ revokedAt[j] < x

\* What was read, what is installed and what is about to be answered misses
\* only revocations that are recent enough.
Fresh ==
  /\ \A t \in Thread, j \in Jti :
       /\ thread[t].pc = "install" /\ Committed(j, thread[t].since) => j \in thread[t].seen
       /\ thread[t].pc = "answer" /\ Committed(j, thread[t].since - CacheTTL - Slowest)
            => j \in snapshot[Proc(t)]
  /\ \A p \in Process, j \in Jti :
       loadedAt[p] # Never /\ Committed(j, loadedAt[p] - Slowest) => j \in snapshot[p]

\* Nobody has read a jti that was not revoked.
SeenRevoked == \A t \in Thread : thread[t].seen \subseteq EverRevoked

\* When a revocation may leave the table at the earliest, and what keeps it.
Due(j) == revokedAt[j] - Slowest + Life

Lasting == \A j \in Jti :
  revokedAt[j] # Never => Due(j) <= now \/ (row[j] # Never /\ Due(j) <= row[j])

Inv == TypeOK /\ Clocks /\ Fresh /\ NeverInvents /\ SeenRevoked /\ Lasting

LEMMA Lasts == ASSUME Inv PROVE KeptUntilExpiry
  <1> SUFFICES ASSUME NEW j \in Jti, revokedAt[j] # Never, now < revokedAt[j] - Slowest + Life
               PROVE row[j] # Never /\ row[j] > now
    BY DEF KeptUntilExpiry
  <1>1. revokedAt[j] \in Int /\ row[j] \in Int /\ now \in Int /\ Slowest \in Int /\ Life \in Int
    BY TimesAssumption DEF Inv, TypeOK, Never
  <1> QED BY <1>1 DEF Inv, Lasting, Due

LEMMA ProcType == \A t \in Thread : Proc(t) \in Process
  BY ThreadAssumption DEF Proc

LEMMA InitInv == Init => Inv
  BY TimesAssumption DEF Init, Inv, TypeOK, Clocks, Fresh, Committed, NeverInvents, SeenRevoked,
     Lasting, Due, EverRevoked, Never, Idle, ThreadType

LEMMA CheckInv ==
  ASSUME Inv, NEW t \in Thread, NEW J \in Asked, Check(t, J) PROVE Inv'
  <1> USE ProcType, TimesAssumption DEF Inv
  <1> DEFINE new == [pc |-> IF Stale(Proc(t)) THEN "query" ELSE "answer", jtis |-> J, seen |-> {},
                     since |-> IF Stale(Proc(t)) THEN 0 ELSE now]
  <1>1. /\ thread' = [thread EXCEPT ![t] = new]
        /\ UNCHANGED <<now, row, snapshot, loadedAt, revokedAt>>
    BY DEF Check
  <1>2. new \in ThreadType BY DEF Asked, TypeOK, ThreadType
  <1>3. /\ new.since <= now /\ new.pc \in {"query", "answer"} /\ new.seen = {}
        /\ new.pc = "answer" => ~Stale(Proc(t)) /\ new.since = now
    BY DEF TypeOK
  <1> HIDE DEF new
  <1>4. \A u \in Thread : thread'[u] = IF u = t THEN new ELSE thread[u] BY <1>1 DEF TypeOK
  <1>5. TypeOK' BY <1>1, <1>2 DEF TypeOK
  <1>6. Clocks' BY <1>1, <1>3, <1>4 DEF Clocks
  <1>7. Fresh'
    <2>1. ASSUME NEW j \in Jti, new.pc = "answer", Committed(j, new.since - CacheTTL - Slowest)
          PROVE j \in snapshot[Proc(t)]
      <3>1. loadedAt[Proc(t)] # Never /\ now - loadedAt[Proc(t)] <= CacheTTL
        BY <1>3, <2>1 DEF Stale, TypeOK, Never
      <3>2. Committed(j, loadedAt[Proc(t)] - Slowest)
        BY <1>3, <2>1, <3>1 DEF Committed, TypeOK, Never
      <3> QED BY <3>1, <3>2 DEF Fresh
    <2> QED BY <1>1, <1>3, <1>4, <2>1 DEF Fresh, Committed
  <1>8. NeverInvents' /\ SeenRevoked' /\ Lasting'
    BY <1>1, <1>3, <1>4 DEF NeverInvents, SeenRevoked, Lasting, Due, EverRevoked
  <1> QED BY <1>5, <1>6, <1>7, <1>8

LEMMA QueryInv == ASSUME Inv, NEW t \in Thread, Query(t) PROVE Inv'
  <1> USE ProcType, TimesAssumption DEF Inv
  <1>1. /\ thread' = [thread EXCEPT ![t].pc = "install", ![t].seen = Live, ![t].since = now]
        /\ UNCHANGED <<now, row, snapshot, loadedAt, revokedAt>>
    BY DEF Query
  <1>2. /\ thread'[t].pc = "install" /\ thread'[t].seen = Live /\ thread'[t].since = now
        /\ thread'[t].jtis = thread[t].jtis
        /\ \A u \in Thread \ {t} : thread'[u] = thread[u]
    BY <1>1 DEF TypeOK, ThreadType
  <1>3. TypeOK'
    <2>1. [thread[t] EXCEPT !.pc = "install", !.seen = Live, !.since = now] \in ThreadType
      BY DEF TypeOK, ThreadType, Live
    <2>2. thread' \in [Thread -> ThreadType] BY <1>1, <2>1 DEF TypeOK, ThreadType
    <2> QED BY <1>1, <2>2 DEF TypeOK
  <1>4. Clocks' BY <1>1, <1>2 DEF Clocks, TypeOK
  <1>5. Fresh' BY <1>1, <1>2 DEF Fresh, Committed, Live
  <1>6. Live \subseteq EverRevoked BY DEF Live, EverRevoked, Clocks, TypeOK, Never
  <1>7. NeverInvents' /\ SeenRevoked' /\ Lasting'
    BY <1>1, <1>2, <1>6 DEF NeverInvents, SeenRevoked, Lasting, Due, EverRevoked
  <1> QED BY <1>3, <1>4, <1>5, <1>7

LEMMA InstallInv == ASSUME Inv, NEW t \in Thread, Install(t) PROVE Inv'
  <1> USE ProcType, TimesAssumption DEF Inv
  <1>1. /\ thread[t].pc = "install"
        /\ snapshot' = [snapshot EXCEPT ![Proc(t)] = thread[t].seen]
        /\ loadedAt' = [loadedAt EXCEPT ![Proc(t)] = now]
        /\ thread' = [thread EXCEPT ![t].pc = "answer", ![t].seen = {}]
        /\ UNCHANGED <<now, row, revokedAt>>
    BY DEF Install
  <1>2. /\ thread'[t].pc = "answer" /\ thread'[t].seen = {} /\ thread'[t].since = thread[t].since
        /\ \A u \in Thread \ {t} : thread'[u] = thread[u]
    BY <1>1 DEF TypeOK, ThreadType
  <1>3. \A p \in Process : /\ snapshot'[p] = IF p = Proc(t) THEN thread[t].seen ELSE snapshot[p]
                           /\ loadedAt'[p] = IF p = Proc(t) THEN now ELSE loadedAt[p]
    BY <1>1 DEF TypeOK
  <1>4. TypeOK'
    <2>1. thread[t] \in ThreadType BY DEF TypeOK
    <2>2. [thread[t] EXCEPT !.pc = "answer", !.seen = {}] \in ThreadType BY <2>1 DEF ThreadType
    <2>3. thread' \in [Thread -> ThreadType] BY <1>1, <2>2 DEF TypeOK
    <2>4. thread[t].seen \in SUBSET Jti BY <2>1 DEF ThreadType
    <2> QED BY <1>1, <2>3, <2>4 DEF TypeOK
  <1>5. Clocks' BY <1>1, <1>2, <1>3 DEF Clocks, TypeOK
  <1>6. /\ thread[t].since <= now /\ now <= thread[t].since + Slowest
        /\ thread[t].since \in Nat /\ now \in Nat
    BY <1>1 DEF Clocks, TypeOK, ThreadType
  <1>7. \A j \in Jti : Committed(j, thread[t].since) => j \in thread[t].seen BY <1>1 DEF Fresh
  <1>8. \A j \in Jti : revokedAt[j] \in Int BY DEF TypeOK, Never
  <1>9. \A u \in Thread : thread[u].since \in Nat /\ thread[u].since <= now
    BY DEF Clocks, TypeOK, ThreadType
  <1>10. Fresh'
    <2>1. ASSUME NEW u \in Thread, NEW j \in Jti, thread'[u].pc = "answer",
                 Committed(j, thread'[u].since - CacheTTL - Slowest)
          PROVE j \in snapshot'[Proc(u)]
      <3>1. CASE Proc(u) = Proc(t)
        <4>1. thread'[u].since = thread[u].since BY <1>2
        <4>2. thread[u].since - CacheTTL - Slowest <= thread[t].since BY <1>6, <1>9
        <4>3. Committed(j, thread[t].since) BY <1>6, <1>8, <1>9, <2>1, <4>1, <4>2 DEF Committed
        <4> QED BY <1>3, <1>7, <3>1, <4>3
      <3>2. CASE Proc(u) # Proc(t)
        <4>1. thread'[u] = thread[u] BY <1>2, <3>2
        <4> QED BY <1>3, <2>1, <3>2, <4>1 DEF Fresh
      <3> QED BY <3>1, <3>2
    <2>2. ASSUME NEW p \in Process, NEW j \in Jti, loadedAt'[p] # Never,
                 Committed(j, loadedAt'[p] - Slowest)
          PROVE j \in snapshot'[p]
      <3>1. CASE p = Proc(t)
        <4>1. Committed(j, thread[t].since) BY <1>3, <1>6, <1>8, <2>2, <3>1 DEF Committed
        <4> QED BY <1>3, <1>7, <3>1, <4>1
      <3>2. CASE p # Proc(t) BY <1>3, <2>2, <3>2 DEF Fresh
      <3> QED BY <3>1, <3>2
    <2>3. ASSUME NEW u \in Thread, NEW j \in Jti, thread'[u].pc = "install",
                 Committed(j, thread'[u].since)
          PROVE j \in thread'[u].seen
      BY <1>2, <2>3 DEF Fresh
    <2> QED BY <1>1, <2>1, <2>2, <2>3 DEF Fresh, Committed
  <1>11. thread[t].seen \subseteq EverRevoked BY DEF SeenRevoked
  <1>12. NeverInvents'
    <2>1. \A u \in Thread : thread'[u].pc = "publish" => thread'[u] = thread[u] BY <1>2
    <2> QED BY <1>1, <1>3, <1>11, <2>1 DEF NeverInvents, EverRevoked
  <1>13. SeenRevoked' BY <1>1, <1>2 DEF SeenRevoked, EverRevoked
  <1>14. Lasting' BY <1>1 DEF Lasting, Due
  <1> QED BY <1>4, <1>5, <1>10, <1>12, <1>13, <1>14

\* A thread that becomes idle changes nothing that matters.
LEMMA RestInv ==
  ASSUME Inv, NEW t \in Thread, thread' = [thread EXCEPT ![t] = Idle],
         UNCHANGED <<now, row, snapshot, loadedAt, revokedAt>>
  PROVE Inv'
  <1> USE ProcType, TimesAssumption DEF Inv
  <1>1. \A u \in Thread : thread'[u] = IF u = t THEN Idle ELSE thread[u] BY DEF TypeOK
  <1>2. TypeOK' BY DEF TypeOK, ThreadType, Idle
  <1>3. Clocks' BY <1>1 DEF Clocks, TypeOK, Idle
  <1>4. Fresh' BY <1>1 DEF Fresh, Committed, Idle
  <1>5. NeverInvents' /\ SeenRevoked' /\ Lasting'
    BY <1>1 DEF NeverInvents, SeenRevoked, Lasting, Due, EverRevoked, Idle
  <1> QED BY <1>2, <1>3, <1>4, <1>5

LEMMA RevokeReadsInv == ASSUME Inv, NEW t \in Thread, NEW J \in Asked, RevokeReads(t, J) PROVE Inv'
  <1> USE ProcType, TimesAssumption DEF Inv
  <1> DEFINE new == [pc |-> "insert", jtis |-> J, seen |-> {j \in J \cap Rows : row[j] >= now},
                     since |-> now]
  <1>1. thread' = [thread EXCEPT ![t] = new] /\ UNCHANGED <<now, row, snapshot, loadedAt, revokedAt>>
    BY DEF RevokeReads
  <1>2. new \in ThreadType BY DEF Asked, TypeOK, ThreadType
  <1>3. new.pc = "insert" /\ new.since = now /\ new.seen \subseteq Rows OBVIOUS
  <1> HIDE DEF new
  <1>4. \A u \in Thread : thread'[u] = IF u = t THEN new ELSE thread[u] BY <1>1 DEF TypeOK
  <1>5. TypeOK' BY <1>1, <1>2 DEF TypeOK
  <1>6. Clocks' BY <1>1, <1>3, <1>4 DEF Clocks, TypeOK
  <1>7. Fresh' BY <1>1, <1>3, <1>4 DEF Fresh, Committed
  <1>8. Rows \subseteq EverRevoked BY DEF Rows, EverRevoked, Clocks
  <1>9. NeverInvents' /\ SeenRevoked' /\ Lasting'
    BY <1>1, <1>3, <1>4, <1>8 DEF NeverInvents, SeenRevoked, Lasting, Due, EverRevoked
  <1> QED BY <1>5, <1>6, <1>7, <1>9

LEMMA InsertInv == ASSUME Inv, NEW t \in Thread, Insert(t) PROVE Inv'
  <1> USE ProcType, TimesAssumption DEF Inv
  <1> DEFINE new == thread[t].jtis \ thread[t].seen
             s   == thread[t].since
  <1>1. /\ thread[t].pc = "insert"
        /\ row' = [j \in Jti |-> IF j \in new THEN s + Life
                                 ELSE IF row[j] < s THEN Never ELSE row[j]]
        /\ revokedAt' = [j \in Jti |-> IF j \in new THEN now ELSE revokedAt[j]]
        /\ thread' = [thread EXCEPT ![t].pc = "publish", ![t].seen = {}, ![t].since = 0]
        /\ UNCHANGED <<now, snapshot, loadedAt>>
    BY DEF Insert
  <1>2. /\ s \in Nat /\ now \in Nat /\ s <= now /\ now <= s + Slowest
        /\ thread[t].seen \subseteq EverRevoked /\ thread[t].jtis \subseteq Jti
        /\ \A j \in Jti : revokedAt[j] \in Int /\ row[j] \in Int /\ revokedAt[j] <= now
    BY <1>1 DEF Clocks, SeenRevoked, TypeOK, ThreadType, Never
  <1>3. /\ thread'[t].pc = "publish" /\ thread'[t].seen = {} /\ thread'[t].since = 0
        /\ thread'[t].jtis = thread[t].jtis
        /\ \A u \in Thread \ {t} : thread'[u] = thread[u]
    BY <1>1 DEF TypeOK, ThreadType
  <1> HIDE DEF new, s
  <1>4. \A j \in Jti :
          \/ j \in new /\ row'[j] = s + Life /\ revokedAt'[j] = now
          \/ /\ j \notin new /\ revokedAt'[j] = revokedAt[j]
             /\ row'[j] = row[j] \/ (row'[j] = Never /\ row[j] < s)
    BY <1>1
  <1>5. EverRevoked' = EverRevoked \cup (new \cap Jti)
    BY <1>1, <1>2 DEF EverRevoked, Never
  <1>6. new \subseteq Jti /\ thread[t].jtis \subseteq EverRevoked'
    BY <1>2, <1>5 DEF new
  <1>7. TypeOK'
    <2>1. row' \in [Jti -> Nat \cup {Never}] /\ revokedAt' \in [Jti -> Nat \cup {Never}]
      BY <1>1, <1>2 DEF TypeOK
    <2>2. [thread[t] EXCEPT !.pc = "publish", !.seen = {}, !.since = 0] \in ThreadType
      BY DEF TypeOK, ThreadType
    <2>3. thread' \in [Thread -> ThreadType] BY <1>1, <2>2 DEF TypeOK, ThreadType
    <2> QED BY <1>1, <2>1, <2>3 DEF TypeOK
  <1>8. Clocks'
    <2>1. \A j \in Jti : revokedAt'[j] <= now /\ (row'[j] # Never => revokedAt'[j] # Never)
      BY <1>2, <1>4 DEF Clocks, Never
    <2>2. \A u \in Thread : thread'[u].since <= now
                         /\ (thread'[u].pc \in {"install", "insert"} => now <= thread'[u].since + Slowest)
      BY <1>2, <1>3 DEF Clocks
    <2>3. \A p \in Process : loadedAt[p] <= now BY DEF Clocks
    <2> QED BY <1>1, <2>1, <2>2, <2>3 DEF Clocks
  <1>9. ASSUME NEW j \in Jti, NEW x \in Int, x <= now, Committed(j, x)' PROVE Committed(j, x)
    <2>1. j \notin new BY <1>2, <1>4, <1>9 DEF Committed
    <2>2. row'[j] # Never BY <1>1, <1>2, <1>9 DEF Committed, Never
    <2> QED BY <1>1, <1>2, <1>4, <1>9, <2>1, <2>2 DEF Committed
  <1>10. Fresh'
    <2>1. \A u \in Thread : thread[u].since \in Int /\ thread[u].since <= now
                         /\ thread[u].since - CacheTTL - Slowest \in Int
                         /\ thread[u].since - CacheTTL - Slowest <= now
      BY <1>2 DEF Clocks, TypeOK, ThreadType
    <2>2. ASSUME NEW u \in Thread, NEW j \in Jti, thread'[u].pc = "answer",
                 Committed(j, thread[u].since - CacheTTL - Slowest)'
          PROVE j \in snapshot[Proc(u)]
      <3>1. u # t /\ thread'[u] = thread[u] BY <1>3, <2>2
      <3>2. Committed(j, thread[u].since - CacheTTL - Slowest)
        <4> DEFINE x == thread'[u].since - CacheTTL - Slowest
        <4>1. x \in Int /\ x <= now BY <2>1, <3>1
        <4>2. row'[j] > now /\ revokedAt'[j] # Never /\ revokedAt'[j] < x
          BY <1>1, <2>2 DEF Committed
        <4>3. j \notin new BY <1>2, <1>4, <4>1, <4>2
        <4>4. row'[j] = row[j] /\ revokedAt'[j] = revokedAt[j]
          BY <1>2, <1>4, <4>2, <4>3 DEF Never
        <4> QED BY <3>1, <4>2, <4>4 DEF Committed
      <3> QED BY <2>2, <3>1, <3>2 DEF Fresh
    <2>3. ASSUME NEW u \in Thread, NEW j \in Jti, thread'[u].pc = "install",
                 Committed(j, thread[u].since)'
          PROVE j \in thread'[u].seen
      <3>1. u # t /\ thread'[u] = thread[u] BY <1>3, <2>3
      <3>2. row'[j] > now /\ revokedAt'[j] # Never /\ revokedAt'[j] < thread[u].since
        BY <1>1, <2>3, <3>1 DEF Committed
      <3>3. j \notin new BY <1>2, <1>4, <2>1, <3>2
      <3>4. row'[j] = row[j] /\ revokedAt'[j] = revokedAt[j] BY <1>2, <1>4, <3>2, <3>3 DEF Never
      <3>5. Committed(j, thread[u].since) BY <3>2, <3>4 DEF Committed
      <3> QED BY <2>3, <3>1, <3>5 DEF Fresh
    <2>4. ASSUME NEW p \in Process, NEW j \in Jti, loadedAt[p] # Never,
                 row'[j] > now, revokedAt'[j] # Never, revokedAt'[j] < loadedAt[p] - Slowest
          PROVE j \in snapshot[p]
      <3>1. loadedAt[p] \in Int /\ loadedAt[p] <= now BY <1>2 DEF Clocks, TypeOK, Never
      <3>2. j \notin new BY <1>2, <1>4, <2>4, <3>1
      <3>3. row'[j] = row[j] /\ revokedAt'[j] = revokedAt[j] BY <1>2, <1>4, <2>4, <3>2 DEF Never
      <3>4. Committed(j, loadedAt[p] - Slowest) BY <2>4, <3>3 DEF Committed
      <3> QED BY <2>4, <3>4 DEF Fresh
    <2> QED BY <1>1, <2>2, <2>3, <2>4 DEF Fresh, Committed
  <1>11. NeverInvents' /\ SeenRevoked'
    BY <1>1, <1>3, <1>5, <1>6 DEF NeverInvents, SeenRevoked
  <1>12. Lasting'
    <2> SUFFICES ASSUME NEW j \in Jti, revokedAt'[j] # Never
                 PROVE \/ revokedAt'[j] - Slowest + Life <= now
                       \/ row'[j] # Never /\ revokedAt'[j] - Slowest + Life <= row'[j]
      BY <1>1 DEF Lasting, Due
    <2>1. CASE j \in new BY <1>2, <1>4, <2>1 DEF Never
    <2>2. CASE j \notin new
      <3>1. revokedAt'[j] = revokedAt[j]
            /\ (Due(j) <= now \/ (row[j] # Never /\ Due(j) <= row[j]))
        BY <1>4, <2>2 DEF Lasting
      <3> QED BY <1>2, <1>4, <2>2, <3>1 DEF Due
    <2> QED BY <2>1, <2>2
  <1> QED BY <1>7, <1>8, <1>10, <1>11, <1>12

LEMMA PublishInv == ASSUME Inv, NEW t \in Thread, Publish(t) PROVE Inv'
  <1> USE ProcType, TimesAssumption DEF Inv
  <1>1. /\ thread[t].pc = "publish"
        /\ snapshot' = [snapshot EXCEPT ![Proc(t)] = @ \cup thread[t].jtis]
        /\ thread' = [thread EXCEPT ![t] = Idle]
        /\ UNCHANGED <<now, row, loadedAt, revokedAt>>
    BY DEF Publish
  <1>2. \A u \in Thread : thread'[u] = IF u = t THEN Idle ELSE thread[u] BY <1>1 DEF TypeOK
  <1>3. \A p \in Process : /\ snapshot[p] \subseteq snapshot'[p]
                           /\ snapshot'[p] \subseteq snapshot[p] \cup thread[t].jtis
    BY <1>1 DEF TypeOK
  <1>4. TypeOK' BY <1>1 DEF TypeOK, ThreadType, Idle
  <1>5. Clocks' BY <1>1, <1>2 DEF Clocks, TypeOK, Idle
  <1>6. Fresh' BY <1>1, <1>2, <1>3 DEF Fresh, Committed, Idle
  <1>7. NeverInvents' /\ SeenRevoked' /\ Lasting'
    BY <1>1, <1>2, <1>3 DEF NeverInvents, SeenRevoked, Lasting, Due, EverRevoked, Idle
  <1> QED BY <1>4, <1>5, <1>6, <1>7

LEMMA RestartInv == ASSUME Inv, NEW p \in Process, Restart(p) PROVE Inv'
  <1> USE ProcType, TimesAssumption DEF Inv
  <1>1. /\ snapshot' = [snapshot EXCEPT ![p] = {}] /\ loadedAt' = [loadedAt EXCEPT ![p] = Never]
        /\ thread' = [t \in Thread |-> IF Proc(t) = p THEN Idle ELSE thread[t]]
        /\ UNCHANGED <<now, row, revokedAt>>
    BY DEF Restart
  <1>2. \A u \in Thread : thread'[u] = IF Proc(u) = p THEN Idle ELSE thread[u] BY <1>1
  <1>3. \A q \in Process : /\ snapshot'[q] = IF q = p THEN {} ELSE snapshot[q]
                           /\ loadedAt'[q] = IF q = p THEN Never ELSE loadedAt[q]
    BY <1>1 DEF TypeOK
  <1>4. TypeOK' BY <1>1 DEF TypeOK, ThreadType, Idle
  <1>5. Clocks' BY <1>1, <1>2, <1>3 DEF Clocks, TypeOK, Idle, Never
  <1>6. Fresh' BY <1>1, <1>2, <1>3 DEF Fresh, Committed, Idle
  <1>7. NeverInvents' /\ SeenRevoked' /\ Lasting'
    BY <1>1, <1>2, <1>3 DEF NeverInvents, SeenRevoked, Lasting, Due, EverRevoked, Idle
  <1> QED BY <1>4, <1>5, <1>6, <1>7

LEMMA SweepInv == ASSUME Inv, Sweep PROVE Inv'
  <1> USE ProcType, TimesAssumption DEF Inv
  <1>1. /\ row' = [j \in Jti |-> IF row[j] < now THEN Never ELSE row[j]]
        /\ UNCHANGED <<now, snapshot, loadedAt, thread, revokedAt>>
    BY DEF Sweep
  <1>2. now \in Nat /\ \A j \in Jti : row[j] \in Int BY DEF TypeOK, Never
  <1>3. \A j \in Jti : row'[j] = row[j] \/ (row'[j] = Never /\ row[j] < now) BY <1>1
  <1>4. TypeOK' BY <1>1 DEF TypeOK
  <1>5. Clocks' BY <1>1, <1>3 DEF Clocks
  <1>6. \A j \in Jti : row'[j] > now => row'[j] = row[j] BY <1>2, <1>3 DEF Never
  <1>7. Fresh' BY <1>1, <1>6 DEF Fresh, Committed
  <1>8. NeverInvents' /\ SeenRevoked' BY <1>1 DEF NeverInvents, SeenRevoked, EverRevoked
  <1>9. Lasting'
    <2>1. \A j \in Jti : revokedAt[j] \in Int BY DEF TypeOK, Never
    <2> QED BY <1>1, <1>2, <1>3, <2>1 DEF Lasting, Due
  <1> QED BY <1>4, <1>5, <1>7, <1>8, <1>9

LEMMA TickInv == ASSUME Inv, Tick PROVE Inv'
  <1> USE ProcType, TimesAssumption DEF Inv
  <1>1. /\ now' = now + 1
        /\ \A t \in Thread : thread[t].pc \in {"install", "insert"} => now - thread[t].since < Slowest
        /\ UNCHANGED <<row, snapshot, loadedAt, thread, revokedAt>>
    BY DEF Tick
  <1>2. /\ now \in Nat /\ \A j \in Jti : row[j] \in Int /\ revokedAt[j] \in Int
        /\ \A t \in Thread : thread[t].since \in Nat
        /\ \A p \in Process : loadedAt[p] \in Int
    BY DEF TypeOK, ThreadType, Never
  <1>3. TypeOK' BY <1>1 DEF TypeOK
  <1>4. Clocks' BY <1>1, <1>2 DEF Clocks
  <1>5. \A j \in Jti : row[j] > now' => row[j] > now BY <1>1, <1>2
  <1>6. Fresh' BY <1>1, <1>5 DEF Fresh, Committed
  <1>7. NeverInvents' /\ SeenRevoked' BY <1>1 DEF NeverInvents, SeenRevoked, EverRevoked
  <1>8. Lasting' BY <1>1, <1>2 DEF Lasting, Due
  <1> QED BY <1>3, <1>4, <1>6, <1>7, <1>8

LEMMA NextInv == Inv /\ [Next]_vars => Inv'
  <1> SUFFICES ASSUME Inv, [Next]_vars PROVE Inv' OBVIOUS
  <1>1. ASSUME NEW t \in Thread, Answer(t) \/ Conflict(t) PROVE Inv'
    BY <1>1, RestInv DEF Answer, Conflict
  <1>2. CASE UNCHANGED vars
    BY <1>2 DEF vars, Inv, TypeOK, Clocks, Fresh, Committed, NeverInvents, SeenRevoked,
       Lasting, Due, EverRevoked
  <1> QED BY <1>1, <1>2, CheckInv, QueryInv, InstallInv, RevokeReadsInv, InsertInv, PublishInv,
             RestartInv, SweepInv, TickInv DEF Next

\* A token is turned away only if somebody revoked it.
THEOREM NothingInvented == Spec => [](TypeOK /\ NeverInvents)
  BY InitInv, NextInv, PTL DEF Spec, Inv

\* A revocation stays in the table for as long as it was given.
THEOREM RowsStay == Spec => []KeptUntilExpiry
  BY InitInv, NextInv, Lasts, PTL DEF Spec

\* The snapshots say no more than the table held, the table no less than is in
\* force, for every number of processes, threads and tokens and every time.
THEOREM DenylistAccurate == Spec => []Accurate
  BY NothingInvented, RowsStay, PTL DEF Accurate

\* A revocation reaches every process within _CACHE_TTL and one query.
THEOREM RevocationsReachAll == Spec => ReachesAll
  <1>1. Inv /\ [Next]_vars =>
          [\A t \in Thread : Answer(t) /\ ~Revoked(t) =>
              thread[t].jtis \cap Overdue(t, CacheTTL + Slowest) = {}]_vars
    <2> SUFFICES ASSUME Inv, NEW t \in Thread, Answer(t),
                        NEW j \in thread[t].jtis, j \in Overdue(t, CacheTTL + Slowest)
                 PROVE Revoked(t)
      OBVIOUS
    <2>1. /\ thread[t].pc = "answer" /\ j \in Jti /\ row[j] > now /\ revokedAt[j] # Never
          /\ revokedAt[j] + (CacheTTL + Slowest) < thread[t].since
      BY DEF Answer, Overdue, Live
    <2>2. revokedAt[j] < thread[t].since - CacheTTL - Slowest
      BY <2>1, TimesAssumption DEF Inv, TypeOK, ThreadType, Never
    <2>3. j \in snapshot[Proc(t)] BY <2>1, <2>2 DEF Inv, Fresh, Committed
    <2> QED BY <2>3 DEF Revoked
  <1> QED BY <1>1, InitInv, NextInv, PTL DEF Spec, ReachesAll
=============================================================================
