----------------------------- MODULE RateLimit -----------------------------
(***************************************************************************)
(* The sliding-window limiter shared by every replica (rate_limit.py) and  *)
(* its two kinds of caller: a call to a model, which counts itself before  *)
(* it is made (llm_limits.py), and a login, which counts its failures      *)
(* (routers/auth.py).  To look and to record are two transactions, and     *)
(* whatever is between them, a request to Cognito included, other requests *)
(* run through.  The events are rows of login_attempts; each has a number, *)
(* a bucket (one scope and one key) and the time its writer read.          *)
(***************************************************************************)
EXTENDS Naturals, FiniteSets

CONSTANTS Request,         \* threads serving requests, on any replica
          Email, Ip, Paid, \* a bucket of each kind
          MaxEvents,       \* max_events of a bucket
          Window,          \* window_seconds of a bucket
          Longest,         \* max(_windows_in_use)
          TimeBound, EventBound

Bucket == {Email, Ip, Paid}

ASSUME RateLimitAssumption ==
  /\ IsFiniteSet(Request)
  /\ Email # Ip /\ Email # Paid /\ Ip # Paid
  /\ MaxEvents \in [Bucket -> Nat \ {0}]
  /\ Window \in [Bucket -> Nat \ {0}]
  /\ Longest \in Nat /\ \A b \in Bucket : Window[b] <= Longest
  /\ TimeBound \in Nat /\ EventBound \in Nat

VARIABLES
  now,    \* the clock
  events, \* login_attempts
  told,   \* history: what was recorded and not reset, nothing purged
  req,    \* each request: phase, what the first check said, time of its record
  last    \* events recorded so far

vars == <<now, events, told, req, last>>

\* What has been granted and not yet recorded, by phase.
Holds ==
  [idle |-> {}, paying |-> {Paid}, paid |-> {Paid},
   emailed |-> {Email}, asking |-> {Email, Ip}, failing |-> {Email, Ip},
   half |-> {Ip}, halving |-> {Ip}]

Phase == DOMAIN Holds
Idle == [phase |-> "idle", ok |-> FALSE, at |-> 0]

Init == now = 0 /\ events = {} /\ told = {} /\ req = [r \in Request |-> Idle] /\ last = 0

\* created_at > now - window.
Live(E, b) == {e \in E : e.bucket = b /\ e.at + Window[b] > now}

\* Broken on purpose: one more.
FreeOrAtTheLimit(b) == Cardinality(Live(events, b)) <= MaxEvents[b]

\* retry_after returns 0.
Free(b) == Cardinality(Live(events, b)) < MaxEvents[b]

Becomes(r, from, to) ==
  /\ req[r].phase = from
  /\ req' = [req EXCEPT ![r] = [phase |-> to, ok |-> FALSE, at |-> 0]]

Reads(r, from, to) ==
  /\ req[r].phase = from
  /\ req' = [req EXCEPT ![r] = [phase |-> to, ok |-> @.ok, at |-> now]]
  /\ UNCHANGED <<now, events, told, last>>

\* Broken on purpose: the rows of every bucket.
CleansAll(r, b) == {e \in events : e.at + Window[b] > req[r].at}

\* The rows of this bucket that are out of its window go.
Cleaned(r, b) == {e \in events : e.bucket = b => e.at + Window[b] > req[r].at}

\* record: its clean-up and its row, dated when it began.
Record(r, b, from, to) ==
  LET e == [id |-> last + 1, bucket |-> b, at |-> req[r].at] IN
  /\ last < EventBound
  /\ Becomes(r, from, to)
  /\ events' = Cleaned(r, b) \cup {e}
  /\ told' = told \cup {e}
  /\ last' = last + 1
  /\ UNCHANGED now

---------------------------------------------------------------------------
(* consume, and the export of one's data: look, then record.               *)

CheckPaid(r) ==
  /\ Free(Paid) /\ Becomes(r, "idle", "paying")
  /\ UNCHANGED <<now, events, told, last>>

RecordPaid(r) == Reads(r, "paying", "paid") \/ Record(r, Paid, "paid", "idle")

---------------------------------------------------------------------------
(* login.                                                                  *)

\* The two buckets are looked at one after the other, whatever the first says.
CheckEmail(r) ==
  /\ req[r].phase = "idle"
  /\ req' = [req EXCEPT ![r] = [phase |-> "emailed", ok |-> Free(Email), at |-> @.at]]
  /\ UNCHANGED <<now, events, told, last>>

CheckIp(r) ==
  /\ req[r].phase = "emailed"
  /\ req' = [req EXCEPT ![r] = [phase |-> IF req[r].ok /\ Free(Ip) THEN "asking" ELSE "idle",
                                ok |-> FALSE, at |-> 0]]
  /\ UNCHANGED <<now, events, told, last>>

\* Cognito refuses: the failure is counted in both, one at a time.
Refused(r) == Reads(r, "asking", "failing")
RecordEmail(r) == Record(r, Email, "failing", "half")
RecordIp(r) == Reads(r, "half", "halving") \/ Record(r, Ip, "halving", "idle")

\* Cognito accepts: the failures of the account are forgotten, not those of
\* the address.
Accepted(r) ==
  /\ Becomes(r, "asking", "idle")
  /\ events' = {e \in events : e.bucket # Email}
  /\ told' = {e \in told : e.bucket # Email}
  /\ UNCHANGED <<now, last>>

---------------------------------------------------------------------------

\* The process goes down, or the database does not answer.
Fails(r) ==
  /\ req[r].phase # "idle"
  /\ req' = [req EXCEPT ![r] = Idle]
  /\ UNCHANGED <<now, events, told, last>>

\* purge_expired, from the sweep: what is out of the longest window, seen from
\* a time not later than now.
Purge ==
  /\ \E t \in 0..now : events' = {e \in events : e.at + Longest >= t}
  /\ UNCHANGED <<now, told, req, last>>

Tick ==
  /\ now < TimeBound /\ now' = now + 1
  /\ UNCHANGED <<events, told, req, last>>

Next ==
  \/ Tick \/ Purge
  \/ \E r \in Request : \/ CheckPaid(r) \/ RecordPaid(r) \/ CheckEmail(r) \/ CheckIp(r)
                        \/ Refused(r) \/ RecordEmail(r) \/ RecordIp(r) \/ Accepted(r) \/ Fails(r)

Spec == Init /\ [][Next]_vars

---------------------------------------------------------------------------

Event == [id : 1..last, bucket : Bucket, at : 0..now]

TypeOK ==
  /\ now \in 0..TimeBound /\ last \in 0..EventBound
  /\ events \subseteq told /\ told \subseteq Event
  /\ req \in [Request -> [phase : Phase, ok : BOOLEAN, at : 0..now]]
  /\ \A e, f \in told : e.id = f.id => e = f

\* The clean-up of a record, which looks at its own clock, and the sweep, which
\* any replica may run at any moment, never make a check count less than what
\* was recorded in the window: rate_limit.py, "nessun limite si accorcia di
\* nascosto perché la pulizia è passata prima del conteggio".
NothingForgotten == \A b \in Bucket : Live(events, b) = Live(told, b)

\* What was granted on a bucket and may still be counted there.
Granted(b) ==
  {r \in Request : b \in Holds[req[r].phase] /\ (req[r].phase = "emailed" => req[r].ok)}

\* Looking and recording are not one transaction, but the excess is bounded: in
\* a window, what was recorded and what was granted are fewer than the limit
\* and the requests that run at once.
ExcessBounded ==
  \A b \in Bucket :
    Cardinality(Live(events, b)) + Cardinality(Granted(b)) < MaxEvents[b] + Cardinality(Request)
=============================================================================
