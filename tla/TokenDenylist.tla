---------------------------- MODULE TokenDenylist ----------------------------
(***************************************************************************)
(* backend/token_denylist.py: the table revoked_jti, which every process   *)
(* writes, and the snapshot of it that each process keeps so that checking *)
(* a token costs no query.  The functions run in the threads of the pool;  *)
(* _lock covers the accesses to the snapshot, not the queries, so every    *)
(* query and every locked block is a step of its own.  Time is a counter:  *)
(* monotonic() and the column expires_at read the same clock.              *)
(***************************************************************************)
EXTENDS Integers

CONSTANTS Process,   \* backend processes
          Thread,    \* the threads that serve requests: a process and a number
          Jti,       \* identifiers of access tokens and of their sessions
          CacheTTL,  \* _CACHE_TTL
          Life,      \* how long an entry stays before it expires
          Slowest,   \* bound: the longest a query's answer is on its way
          MaxTime    \* bound: the clock

ASSUME TimesAssumption ==
  /\ CacheTTL \in Nat \ {0} /\ Life \in Nat \ {0} /\ Slowest \in Nat /\ MaxTime \in Nat
ASSUME ThreadAssumption == Thread \subseteq Process \X Nat

Never == -1

VARIABLES
  now,
  row,        \* revoked_jti: the expiry of each row, Never for no row
  snapshot,   \* _cache of each process
  loadedAt,   \* _cache_loaded_at, Never for None
  thread,     \* each thread: where it is, what it was asked, what it has read
  revokedAt   \* when each jti was last committed to the denylist (history)

vars == <<now, row, snapshot, loadedAt, thread, revokedAt>>

Idle == [pc |-> "idle", jtis |-> {}, seen |-> {}, since |-> 0]

Init ==
  /\ now = 0
  /\ row = [j \in Jti |-> Never] /\ revokedAt = [j \in Jti |-> Never]
  /\ snapshot = [p \in Process |-> {}] /\ loadedAt = [p \in Process |-> Never]
  /\ thread = [t \in Thread |-> Idle]

Proc(t) == t[1]
Rows    == {j \in Jti : row[j] # Never}
Live    == {j \in Jti : row[j] > now}

---------------------------------------------------------------------------
(* is_jti_revoked                                                          *)

\* Broken on purpose: a snapshot that was loaded once never ages.
StaleOnlyAtFirst(p) == loadedAt[p] = Never

Stale(p) == loadedAt[p] = Never \/ now - loadedAt[p] > CacheTTL

\* The first locked block: is the snapshot too old?
Check(t, J) ==
  /\ thread[t].pc = "idle"
  /\ thread' = [thread EXCEPT ![t] =
       [pc |-> IF Stale(Proc(t)) THEN "query" ELSE "answer", jtis |-> J, seen |-> {},
        since |-> IF Stale(Proc(t)) THEN 0 ELSE now]]
  /\ UNCHANGED <<now, row, snapshot, loadedAt, revokedAt>>

\* The rows that have not expired, outside the lock.
Query(t) ==
  /\ thread[t].pc = "query"
  /\ thread' = [thread EXCEPT ![t].pc = "install", ![t].seen = Live, ![t].since = now]
  /\ UNCHANGED <<now, row, snapshot, loadedAt, revokedAt>>

\* The second locked block: the snapshot is replaced by what was read.
Install(t) ==
  /\ thread[t].pc = "install"
  /\ snapshot' = [snapshot EXCEPT ![Proc(t)] = thread[t].seen]
  /\ loadedAt' = [loadedAt EXCEPT ![Proc(t)] = now]
  /\ thread' = [thread EXCEPT ![t].pc = "answer", ![t].seen = {}]
  /\ UNCHANGED <<now, row, revokedAt>>

Revoked(t) == thread[t].jtis \cap snapshot[Proc(t)] # {}

\* The last locked block.
Answer(t) ==
  /\ thread[t].pc = "answer"
  /\ thread' = [thread EXCEPT ![t] = Idle]
  /\ UNCHANGED <<now, row, snapshot, loadedAt, revokedAt>>

---------------------------------------------------------------------------
(* revoke_jtis                                                             *)

\* Inside the transaction: which of them are in the table already.  The
\* expired rows that are purged on the way are not counted.
RevokeReads(t, J) ==
  /\ thread[t].pc = "idle"
  /\ thread' = [thread EXCEPT ![t] =
       [pc |-> "insert", jtis |-> J, seen |-> {j \in J \cap Rows : row[j] >= now},
        since |-> now]]
  /\ UNCHANGED <<now, row, snapshot, loadedAt, revokedAt>>

\* Broken on purpose: the purge takes what is about to expire as well.
InsertPurgesTooMuch(t) ==
  LET new == thread[t].jtis \ thread[t].seen IN
  /\ thread[t].pc = "insert" /\ new \cap {j \in Rows : row[j] >= thread[t].since} = {}
  /\ row' = [j \in Jti |-> IF j \in new THEN thread[t].since + Life
                           ELSE IF row[j] <= thread[t].since + 1 THEN Never ELSE row[j]]
  /\ revokedAt' = [j \in Jti |-> IF j \in new THEN now ELSE revokedAt[j]]
  /\ thread' = [thread EXCEPT ![t].pc = "publish", ![t].seen = {}, ![t].since = 0]
  /\ UNCHANGED <<now, snapshot, loadedAt>>

\* The commit: the new rows, and the purge of the ones that had expired when
\* the transaction began.
Insert(t) ==
  LET new == thread[t].jtis \ thread[t].seen IN
  /\ thread[t].pc = "insert" /\ new \cap {j \in Rows : row[j] >= thread[t].since} = {}
  /\ row' = [j \in Jti |-> IF j \in new THEN thread[t].since + Life
                           ELSE IF row[j] < thread[t].since THEN Never ELSE row[j]]
  /\ revokedAt' = [j \in Jti |-> IF j \in new THEN now ELSE revokedAt[j]]
  /\ thread' = [thread EXCEPT ![t].pc = "publish", ![t].seen = {}, ![t].since = 0]
  /\ UNCHANGED <<now, snapshot, loadedAt>>

\* Somebody inserted one of them meanwhile: the primary key refuses them all.
Conflict(t) ==
  LET new == thread[t].jtis \ thread[t].seen IN
  /\ thread[t].pc = "insert" /\ new \cap {j \in Rows : row[j] >= thread[t].since} # {}
  /\ thread' = [thread EXCEPT ![t] = Idle]
  /\ UNCHANGED <<now, row, snapshot, loadedAt, revokedAt>>

\* The locked block after the commit.
Publish(t) ==
  /\ thread[t].pc = "publish"
  /\ snapshot' = [snapshot EXCEPT ![Proc(t)] = @ \cup thread[t].jtis]
  /\ thread' = [thread EXCEPT ![t] = Idle]
  /\ UNCHANGED <<now, row, loadedAt, revokedAt>>

---------------------------------------------------------------------------
\* A process starts again with nothing in memory.
Restart(p) ==
  /\ snapshot' = [snapshot EXCEPT ![p] = {}] /\ loadedAt' = [loadedAt EXCEPT ![p] = Never]
  /\ thread' = [t \in Thread |-> IF Proc(t) = p THEN Idle ELSE thread[t]]
  /\ UNCHANGED <<now, row, revokedAt>>

\* housekeeping._purge_expired_sessions
Sweep ==
  /\ row' = [j \in Jti |-> IF row[j] < now THEN Never ELSE row[j]]
  /\ UNCHANGED <<now, snapshot, loadedAt, thread, revokedAt>>

\* Time passes, but no answer is on its way for longer than Slowest.
Tick ==
  /\ now < MaxTime
  /\ \A t \in Thread : thread[t].pc \in {"install", "insert"} => now - thread[t].since < Slowest
  /\ now' = now + 1
  /\ UNCHANGED <<row, snapshot, loadedAt, thread, revokedAt>>

Asked == SUBSET Jti \ {{}}

Next ==
  \/ \E t \in Thread, J \in Asked : Check(t, J) \/ RevokeReads(t, J)
  \/ \E t \in Thread : \/ Query(t) \/ Install(t) \/ Answer(t)
                       \/ Insert(t) \/ Conflict(t) \/ Publish(t)
  \/ \E p \in Process : Restart(p)
  \/ Sweep \/ Tick

Spec == Init /\ [][Next]_vars

---------------------------------------------------------------------------
(* What is checked.                                                        *)

ThreadType == [pc : {"idle", "query", "install", "answer", "insert", "publish"},
               jtis : SUBSET Jti, seen : SUBSET Jti, since : Nat]

\* Every variable holds a value of its shape.
TypeOK ==
  /\ now \in Nat
  /\ row \in [Jti -> Nat \cup {Never}] /\ revokedAt \in [Jti -> Nat \cup {Never}]
  /\ snapshot \in [Process -> SUBSET Jti]
  /\ loadedAt \in [Process -> Nat \cup {Never}]
  /\ thread \in [Thread -> ThreadType]

EverRevoked == {j \in Jti : revokedAt[j] # Never}

\* No token is turned away that nobody revoked: what a snapshot holds, and what
\* is on its way into one, was committed first (token_denylist.py:57-60, 73-78).
NeverInvents ==
  /\ \A p \in Process : snapshot[p] \subseteq EverRevoked
  /\ \A t \in Thread : thread[t].pc = "publish" => thread[t].jtis \subseteq EverRevoked

\* A revocation is in the table until it expires, whoever revokes, purges or
\* collides in the meantime (token_denylist.py:47-57, housekeeping.py:98-100).
KeptUntilExpiry == \A j \in Jti :
  revokedAt[j] # Never /\ now < revokedAt[j] - Slowest + Life => row[j] # Never /\ row[j] > now

\* The snapshots say no more than the table ever held, and the table no less than
\* what is in force.
Accurate == TypeOK /\ NeverInvents /\ KeptUntilExpiry

\* The tokens whose revocation had been in the table for so long, when thread t
\* looked at the age of its snapshot, that it cannot have missed them.
Overdue(t, delay) ==
  {j \in Live : revokedAt[j] # Never /\ revokedAt[j] + delay < thread[t].since}

\* Revocations made by other processes reach this one within _CACHE_TTL and the
\* time a query is on its way: a check that starts later turns the token away
\* (token_denylist.py:11-13, 69-81).
ReachesAll == [][\A t \in Thread :
  Answer(t) /\ ~Revoked(t) => thread[t].jtis \cap Overdue(t, CacheTTL + Slowest) = {}]_vars
=============================================================================
