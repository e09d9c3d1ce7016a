------------------------------ MODULE Training ------------------------------
(***************************************************************************)
(* The path one person is on: what training_progress.py derives from the   *)
(* conversations held, their judgements, the trainer's corrections and the *)
(* tests submitted, and what notifications.py tells of it.  Nothing of the *)
(* progress is stored: it is derived again at every reading, and what it   *)
(* rests on may change in any order.  The clock counts seconds.            *)
(***************************************************************************)
EXTENDS Integers, Sequences, FiniteSetsExt, SequencesExt

CONSTANTS Simulations,  \* technical tests a step may ask for
          Paths,        \* the sequences of steps an admin may write
          Verdicts,     \* what a judgement may say: a score and a criterion
          Corrections,  \* the scores a trainer may put over the judgement's
          Marks,        \* the scores of a test
          Nothing,      \* NULL
          DueSoon,      \* DUE_SOON_DAYS
          TimeBound, MaxTalks, MaxTests, MaxAssigned, MaxWrites

\* A conversation's target is the avatar of this organization.
Avatar == "avatar"

\* A time before any other: the minimum of no times.
Never == TimeBound + 1

ASSUME TrainingAssumption ==
  /\ TimeBound \in Nat /\ Nothing \notin Nat /\ Avatar \notin Simulations
  /\ {MaxTalks, MaxTests, MaxAssigned, MaxWrites} \subseteq Nat
  /\ Paths \subseteq Seq([target : Simulations \cup {Avatar}, score : Nat, criterion : Nat,
                           due : 0..Never])

VARIABLES
  now,
  convs,    \* chat_conversations of this person, with judgement, review and note
  tests,    \* simulation_attempts of this person
  steps,    \* training_path_steps of the path, in order
  ids,      \* of steps, given so far
  given,    \* the assignment: its number and created_at, or nothing
  reads,    \* notification_reads of this person
  writes    \* what was written so far beside conversations, tests and assignments

pathVars == <<now, convs, tests, steps, ids, given, reads, writes>>

Written(p, first) ==
  [i \in DOMAIN p |-> [id |-> first + i, target |-> p[i].target, score |-> p[i].score,
                       criterion |-> p[i].criterion, due |-> p[i].due]]

PathInit ==
  /\ now = 0 /\ convs = <<>> /\ tests = {} /\ reads = {} /\ writes = 0
  /\ given = [number |-> 0, at |-> Nothing]
  /\ \E p \in Paths : steps = Written(p, 0) /\ ids = Len(p)

---------------------------------------------------------------------------
(* What is derived.                                                        *)

\* final_score: the trainer's correction is the score.
Score(c) == IF c.override # Nothing THEN c.override ELSE c.verdict.score

\* proofs_by_key: judged conversations, dated when they were opened, and tests.
Proofs(target) ==
  IF target = Avatar
  THEN {[at |-> c.at, score |-> Score(c), criterion |-> c.verdict.criterion] :
          c \in {d \in Range(convs) : d.verdict # Nothing}}
  ELSE {[at |-> t.at, score |-> t.score, criterion |-> 0] :
          t \in {u \in tests : u.sim = target}}

\* Score and criterion on the same proof.
Passes(proof, s) == proof.score >= s.score /\ proof.criterion >= s.criterion

\* Broken on purpose: from the moment the step opens.
FromUnlock(s, unlocked) == {p \in Proofs(s.target) : p.at >= unlocked}

Relevant(s, unlocked) == {p \in Proofs(s.target) : p.at > unlocked}

\* Broken on purpose: by the last proof that reaches it.
ByTheLast(s, unlocked) ==
  LET T == {p.at : p \in {q \in Relevant(s, unlocked) : Passes(q, s)}} IN
  IF T = {} THEN Nothing ELSE Max(T)

\* achieved_at of a step that opened at unlocked.
Reached(s, unlocked) ==
  LET T == {p.at : p \in {q \in Relevant(s, unlocked) : Passes(q, s)}} IN
  IF T = {} THEN Nothing ELSE Min(T)

\* achieved_at of every step, the start of the path in place of a step before
\* the first: each opens when the one before it was reached.
Achieved ==
  LET f[i \in 0..Len(steps)] ==
        IF i = 0 THEN given.at
        ELSE IF f[i - 1] = Nothing THEN Nothing ELSE Reached(steps[i], f[i - 1])
  IN f

Expired(s) == now > s.due

LateAt(s, at) == at > s.due

\* _step_progress, of a step and the two times around it.
Standing(s, unlocked, at) ==
  CASE at # Nothing -> IF LateAt(s, at) THEN "completed_late" ELSE "completed"
    [] at = Nothing /\ Expired(s) -> "overdue"
    [] at = Nothing /\ ~Expired(s) /\ unlocked # Nothing -> "active"
    [] OTHER -> "locked"

Status == LET a == Achieved IN [i \in DOMAIN steps |-> Standing(steps[i], a[i - 1], a[i])]

Passing == {"completed", "completed_late"}
Passed == {i \in DOMAIN steps : Achieved[i] # Nothing}
Assigned == given.at # Nothing

\* Broken on purpose: an expired step is not to be done any more.
ActiveOnly ==
  LET open == {i \in DOMAIN steps : Status[i] = "active"} IN
  IF open = {} THEN 0 ELSE Min(open)

\* current_index.
Current ==
  LET open == {i \in DOMAIN steps : Status[i] \in {"active", "overdue"}} IN
  IF open = {} THEN 0 ELSE Min(open)

---------------------------------------------------------------------------
(* What is told.                                                           *)

Touches(c) == {c.reviewed, c.note} \ {Nothing}

\* Broken on purpose: one key for a conversation.
UndatedReview(k) == <<"review", k, 0>>

\* The key of the trainer's last passage over a conversation.
ReviewKey(k) == <<"review", k, Max(Touches(convs[k]))>>

StepKeys(i, unlocked, status) ==
  LET s == steps[i]
      Key(kind) == {<<kind, given.number, s.id>>}
  IN (IF i > 1 /\ unlocked # Nothing THEN Key("unlocked") ELSE {})
     \cup (IF status = "active" /\ s.due # Never /\ s.due - DueSoon <= now
           THEN Key("due_soon") ELSE {})
     \cup (IF status = "overdue" THEN Key("overdue") ELSE {})

PathKeys ==
  LET a == Achieved  st == Status IN
  {<<"assigned", given.number, 0>>} \cup
  IF steps # <<>> /\ Range(st) \subseteq Passing THEN {<<"completed", given.number, 0>>}
  ELSE UNION {StepKeys(i, a[i - 1], st[i]) : i \in {j \in DOMAIN steps : st[j] # "locked"}}

\* for_user.
Told ==
  {ReviewKey(k) : k \in {j \in DOMAIN convs : Touches(convs[j]) # {}}}
    \cup IF Assigned THEN PathKeys ELSE {}

---------------------------------------------------------------------------
(* What is done.                                                           *)

\* A conversation with the avatar begins; it counts when it is judged.
Converse ==
  /\ Len(convs) < MaxTalks
  /\ convs' = Append(convs, [at |-> now, verdict |-> Nothing, override |-> Nothing,
                             reviewed |-> Nothing, note |-> Nothing])
  /\ UNCHANGED <<now, tests, steps, ids, given, reads, writes>>

Submit(sim, score) ==
  /\ Cardinality(tests) < MaxTests
  /\ tests' = tests \cup {[sim |-> sim, at |-> now, score |-> score]}
  /\ UNCHANGED <<now, convs, steps, ids, given, reads, writes>>

\* The bound on all that follows.
Write == writes < MaxWrites /\ writes' = writes + 1

Rewrite(k, c) ==
  /\ Write
  /\ convs' = [convs EXCEPT ![k] = c]
  /\ UNCHANGED <<now, tests, steps, ids, given, reads>>

\* The conversation is judged, or judged again.
Judge(k, v) == Rewrite(k, [convs[k] EXCEPT !.verdict = v])

\* save_review: a note, and a correction or none.
SaveReview(k, o) == Rewrite(k, [convs[k] EXCEPT !.override = o, !.reviewed = now])

DeleteReview(k) ==
  /\ convs[k].reviewed # Nothing
  /\ Rewrite(k, [convs[k] EXCEPT !.override = Nothing, !.reviewed = Nothing])

\* save_annotation and delete_annotation, on one message.
Annotate(k) == Rewrite(k, [convs[k] EXCEPT !.note = now])

DeleteAnnotation(k) ==
  /\ convs[k].note # Nothing
  /\ Rewrite(k, [convs[k] EXCEPT !.note = Nothing])

\* assign_path: one row for a person.
Assign ==
  /\ ~Assigned /\ given.number < MaxAssigned
  /\ given' = [number |-> given.number + 1, at |-> now]
  /\ UNCHANGED <<now, convs, tests, steps, ids, reads, writes>>

DeleteAssignment ==
  /\ Assigned /\ Write /\ given' = [given EXCEPT !.at = Nothing]
  /\ UNCHANGED <<now, convs, tests, steps, ids, reads>>

\* update_path: the rows are all new.
UpdatePath(p) ==
  /\ Write
  /\ steps' = Written(p, ids) /\ ids' = ids + Len(p)
  /\ UNCHANGED <<now, convs, tests, given, reads>>

\* delete_simulation, on cascade: its steps go from the path, the others close up.
DeleteSimulation(sim) ==
  LET kept == {i \in DOMAIN steps : steps[i].target # sim} IN
  /\ kept # DOMAIN steps /\ Write
  /\ \E place \in [1..Cardinality(kept) -> kept] :
       /\ \A i, j \in DOMAIN place : i < j => place[i] < place[j]
       /\ steps' = [i \in DOMAIN place |-> steps[place[i]]]
  /\ UNCHANGED <<now, convs, tests, ids, given, reads>>

\* mark_read, of one or of all that is told at that moment.
MarkRead(K) ==
  /\ Write /\ K \subseteq Told /\ ~(K \subseteq reads)
  /\ reads' = reads \cup K
  /\ UNCHANGED <<now, convs, tests, steps, ids, given>>

Tick ==
  /\ now < TimeBound /\ now' = now + 1
  /\ UNCHANGED <<convs, tests, steps, ids, given, reads, writes>>

\* What the person does and the machine judges, better or worse.
Train ==
  \/ Converse \/ (\E s \in Simulations, n \in Marks : Submit(s, n))
  \/ \E k \in DOMAIN convs, v \in Verdicts : Judge(k, v)

Trainer ==
  \E k \in DOMAIN convs :
    \/ (\E o \in Corrections \cup {Nothing} : SaveReview(k, o)) \/ DeleteReview(k)
    \/ Annotate(k) \/ DeleteAnnotation(k)

Admin ==
  \/ Assign \/ DeleteAssignment \/ (\E p \in Paths : UpdatePath(p))
  \/ \E s \in Simulations : DeleteSimulation(s)

Bell == MarkRead(Told) \/ \E key \in Told : MarkRead({key})

PathNext == Tick \/ Train \/ Trainer \/ Admin \/ Bell

PathSpec == PathInit /\ [][PathNext]_pathVars

---------------------------------------------------------------------------

Moment == 0..TimeBound
OrNothing(S) == S \cup {Nothing}
Key == {"review", "assigned", "unlocked", "due_soon", "overdue", "completed"} \X Nat \X Nat

Conversation ==
  [at : 0..now, verdict : OrNothing(Verdicts), override : OrNothing(Corrections),
   reviewed : OrNothing(0..now), note : OrNothing(0..now)]

StepRow ==
  [id : Nat, target : Simulations \cup {Avatar}, score : Nat, criterion : Nat, due : 0..Never]

\* The rows: no step has an id yet to be given, and no score is corrected
\* without a review.
Rows ==
  /\ now \in Moment /\ writes \in 0..MaxWrites /\ ids \in Nat
  /\ convs \in Seq(Conversation)
  /\ tests \subseteq [sim : Simulations, at : 0..now, score : Marks]
  /\ given \in [number : Nat, at : OrNothing(0..now)]
  /\ \A c \in Range(convs) : c.override # Nothing => c.reviewed # Nothing
  /\ steps \in Seq(StepRow)
  /\ \A i, j \in DOMAIN steps : i < j => steps[i].id < steps[j].id
  /\ \A i \in DOMAIN steps : steps[i].id <= ids
  /\ reads \subseteq Key

PathTypeOK == Rows /\ Told \subseteq Key

\* Reading the row of steps once, each from the moment the one before was first
\* reached, takes nothing from anybody and gives nothing away: a step is passed
\* exactly when one proof after another, all after the assignment and in the
\* order of the steps, can be spent on it and on all those before it, one proof
\* on one step.
PassedIffPossible ==
  LET passed == Passed IN
  Assigned =>
    \A i \in DOMAIN steps :
      i \in passed <=>
        \E when \in [1..i -> Moment] :
          \A j \in 1..i :
            /\ when[j] > (IF j = 1 THEN given.at ELSE when[j - 1])
            /\ \E p \in Proofs(steps[j].target) : p.at = when[j] /\ Passes(p, steps[j])

\* While a path is not finished exactly one step is open, all those before it
\* are passed and none after it is, an expired one included: current_index, "è
\* anche l'unica aperta: quelle dopo di lei sono tutte chiuse".
OneStepOpen ==
  LET a == Achieved  current == Current IN
  /\ PathTypeOK
  /\ (Assigned /\ steps # <<>> /\ Passed # DOMAIN steps) =>
       /\ current # 0
       /\ \A i \in DOMAIN steps :
            (i < current <=> a[i] # Nothing) /\ (i > current => a[i - 1] = Nothing)

InTime == {i \in DOMAIN steps : Status[i] = "completed"}

\* Time that passes, one more conversation, test or first judgement, or a path
\* that was not there: none of them takes a step back from who has passed it,
\* moves it later or makes it late.
NothingIsTakenBack ==
  [][(/\ Assigned /\ UNCHANGED <<steps, given>>
      /\ \A k \in DOMAIN convs : convs[k].verdict # Nothing => convs'[k] = convs[k])
     => /\ Passed \subseteq Passed' /\ InTime \subseteq InTime'
        /\ \A i \in Passed : Achieved'[i] <= Achieved[i]]_pathVars

\* A trainer who comes back to a conversation after the person has read of it is
\* told again, whatever was read before: "è una versione che lo studente non ha
\* davvero letto".
RewrittenIsTold ==
  [][\A k \in DOMAIN convs :
       LET later == Touches(convs'[k]) \ Touches(convs[k]) IN
       (later # {} /\ Touches(convs[k]) # {} /\ Max(later) > Max(Touches(convs[k]))
        /\ ~\E key \in reads : key[1] = "review" /\ key[2] = k /\ key[3] >= now)
         => \E key \in Told' \ reads' : key[1] = "review" /\ key[2] = k]_pathVars
=============================================================================
