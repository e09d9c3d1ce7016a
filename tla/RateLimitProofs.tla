-------------------------- MODULE RateLimitProofs --------------------------
(***************************************************************************)
(* What holds of the limiter for every number of requests and every limit, *)
(* window and horizon.                                                     *)
(***************************************************************************)
EXTENDS RateLimit, FiniteSetTheorems, TLAPS

Bound(b) ==
  Cardinality(Live(events, b)) + Cardinality(Granted(b)) < MaxEvents[b] + Cardinality(Request)

\* The three properties are inductive together, once what was told is finite.
IInv == TypeOK /\ IsFiniteSet(told) /\ NothingForgotten /\ ExcessBounded

RequestType == [phase : Phase, ok : BOOLEAN, at : 0..now]

---------------------------------------------------------------------------
(* The sets that are counted.                                              *)

LEMMA LiveFinite ==
  ASSUME IInv, NEW b
  PROVE  IsFiniteSet(Live(events, b)) /\ Cardinality(Live(events, b)) \in Nat
<1>1. Live(events, b) \subseteq told BY DEF IInv, TypeOK, Live
<1> QED BY <1>1, FS_Subset, FS_CardinalityType DEF IInv

LEMMA GrantedFinite ==
  ASSUME NEW b
  PROVE  /\ IsFiniteSet(Granted(b)) /\ Cardinality(Granted(b)) \in Nat
         /\ Cardinality(Granted(b)) <= Cardinality(Request)
         /\ Cardinality(Request) \in Nat
<1>1. Granted(b) \subseteq Request BY DEF Granted
<1> QED BY <1>1, FS_Subset, FS_CardinalityType, RateLimitAssumption

\* A step that grants nothing on a bucket and adds nothing to its window.
LEMMA Shrinks ==
  ASSUME IInv, NEW b \in Bucket,
         Live(events, b)' \subseteq Live(events, b), Granted(b)' \subseteq Granted(b)
  PROVE  Bound(b)'
<1> DEFINE L == Live(events, b)  K == Live(events, b)'  G == Granted(b)  H == Granted(b)'
<1>1. Cardinality(L) + Cardinality(G) < MaxEvents[b] + Cardinality(Request)
  BY DEF IInv, ExcessBounded
<1>2. Cardinality(K) <= Cardinality(L) /\ Cardinality(K) \in Nat /\ Cardinality(L) \in Nat
  BY LiveFinite, FS_Subset, FS_CardinalityType
<1>3. Cardinality(H) <= Cardinality(G) /\ Cardinality(H) \in Nat /\ Cardinality(G) \in Nat
  BY GrantedFinite, FS_Subset, FS_CardinalityType
<1>4. MaxEvents[b] \in Nat /\ Cardinality(Request) \in Nat
  BY GrantedFinite, RateLimitAssumption
<1>5. Cardinality(K) + Cardinality(H) < MaxEvents[b] + Cardinality(Request)
  <2> HIDE DEF L, K, G, H
  <2> QED BY <1>1, <1>2, <1>3, <1>4
<1> QED BY <1>5 DEF Bound

\* A check that finds the bucket free: whatever it grants, there is room.
LEMMA Grants ==
  ASSUME IInv, NEW b \in Bucket, Free(b), UNCHANGED <<now, events>>
  PROVE  Bound(b)'
<1> DEFINE K == Live(events, b)  H == Granted(b)'
<1>1. K' = K BY DEF Live
<1>2. Cardinality(K) < MaxEvents[b] BY DEF Free
<1>3. Cardinality(K) \in Nat BY LiveFinite
<1>4. H \subseteq Request BY DEF Granted
<1>5. Cardinality(H) \in Nat /\ Cardinality(H) <= Cardinality(Request)
  BY <1>4, FS_Subset, FS_CardinalityType, RateLimitAssumption
<1>6. MaxEvents[b] \in Nat /\ Cardinality(Request) \in Nat
  BY GrantedFinite, RateLimitAssumption
<1>7. Cardinality(K) + Cardinality(H) < MaxEvents[b] + Cardinality(Request)
  <2> HIDE DEF K, H
  <2> QED BY <1>2, <1>3, <1>5, <1>6
<1> QED BY <1>1, <1>7 DEF Bound

\* A record: one more in the window, one fewer still to be recorded.
LEMMA Moves ==
  ASSUME IInv, NEW b \in Bucket, NEW e, NEW r \in Granted(b),
         Live(events, b)' \subseteq Live(events, b) \cup {e},
         Granted(b)' \subseteq Granted(b) \ {r}
  PROVE  Bound(b)'
<1> DEFINE L == Live(events, b)  K == Live(events, b)'  G == Granted(b)  H == Granted(b)'
<1>1. Cardinality(L) + Cardinality(G) < MaxEvents[b] + Cardinality(Request)
  BY DEF IInv, ExcessBounded
<1>2. IsFiniteSet(L) /\ Cardinality(L) \in Nat BY LiveFinite
<1>3. IsFiniteSet(L \cup {e}) /\ Cardinality(L \cup {e}) <= Cardinality(L) + 1
  <2>1. /\ IsFiniteSet(L \cup {e})
        /\ \/ Cardinality(L \cup {e}) = Cardinality(L)
           \/ Cardinality(L \cup {e}) = Cardinality(L) + 1
    BY <1>2, FS_AddElement
  <2> HIDE DEF L
  <2> QED BY <1>2, <2>1
<1>4. Cardinality(K) <= Cardinality(L) + 1 /\ Cardinality(K) \in Nat
  <2>1. /\ IsFiniteSet(K) /\ Cardinality(K) <= Cardinality(L \cup {e})
    BY <1>3, FS_Subset
  <2>2. Cardinality(K) \in Nat /\ Cardinality(L \cup {e}) \in Nat
    BY <2>1, <1>3, FS_CardinalityType
  <2> HIDE DEF L, K
  <2> QED BY <2>1, <2>2, <1>2, <1>3
<1>5. IsFiniteSet(G) /\ Cardinality(G) \in Nat BY GrantedFinite
<1>6. IsFiniteSet(G \ {r}) /\ Cardinality(G \ {r}) = Cardinality(G) - 1
  BY <1>5, FS_RemoveElement
<1>7. Cardinality(H) <= Cardinality(G) - 1 /\ Cardinality(H) \in Nat
  <2>1. IsFiniteSet(H) /\ Cardinality(H) <= Cardinality(G \ {r}) BY <1>6, FS_Subset
  <2> QED BY <2>1, <1>6, FS_CardinalityType
<1>8. MaxEvents[b] \in Nat /\ Cardinality(Request) \in Nat
  BY GrantedFinite, RateLimitAssumption
<1>9. Cardinality(K) + Cardinality(H) < MaxEvents[b] + Cardinality(Request)
  <2> HIDE DEF L, K, G, H
  <2> QED BY <1>1, <1>2, <1>4, <1>5, <1>7, <1>8
<1> QED BY <1>9 DEF Bound

---------------------------------------------------------------------------
(* One request moves: the others hold what they held.                      *)

LEMMA OneMoves ==
  ASSUME IInv, NEW r \in Request, NEW x, req' = [req EXCEPT ![r] = x], NEW b
  PROVE  /\ Granted(b)' \ {r} = Granted(b) \ {r}
         /\ r \in Granted(b)' <=> b \in Holds[x.phase] /\ (x.phase = "emailed" => x.ok)
<1>1. req \in [Request -> RequestType] BY DEF IInv, TypeOK, RequestType
<1>2. req'[r] = x /\ \A q \in Request \ {r} : req'[q] = req[q] BY <1>1
<1>3. Holds' = Holds BY DEF Holds
<1> QED BY <1>2, <1>3 DEF Granted

LEMMA ReqType ==
  ASSUME IInv, NEW r \in Request, NEW x, req' = [req EXCEPT ![r] = x], x \in RequestType
  PROVE  req' \in [Request -> RequestType]
BY DEF IInv, TypeOK, RequestType

\* Every step that leaves the table and the clock alone.
LEMMA TableKept ==
  ASSUME IInv, UNCHANGED <<now, events, told, last>>,
         req' \in [Request -> RequestType],
         \A b \in Bucket : Bound(b)'
  PROVE  IInv'
<1>1. TypeOK' BY DEF IInv, TypeOK, Event, RequestType
<1>2. NothingForgotten' BY DEF IInv, NothingForgotten, Live
<1>3. ExcessBounded' BY DEF ExcessBounded, Bound
<1> QED BY <1>1, <1>2, <1>3 DEF IInv

LEMMA LiveKept ==
  ASSUME UNCHANGED <<now, events>>, NEW b
  PROVE  Live(events, b)' = Live(events, b)
BY DEF Live
---------------------------------------------------------------------------
(* Clocks and windows.                                                     *)

LEMMA Arithmetic ==
  ASSUME IInv
  PROVE  /\ now \in Nat /\ last \in Nat
         /\ \A b \in Bucket : Window[b] \in Nat \ {0} /\ Window[b] <= Longest
         /\ Longest \in Nat
         /\ \A e \in told : e.at \in Nat /\ e.at <= now /\ e.bucket \in Bucket
         /\ events \subseteq told
         /\ \A r \in Request : req[r].at \in Nat /\ req[r].at <= now
BY RateLimitAssumption DEF IInv, TypeOK, Event

\* A clock that goes on takes out of the window, and puts nothing in.
LEMMA TickShrinks ==
  ASSUME IInv, now' = now + 1, UNCHANGED <<events, told>>, NEW b \in Bucket
  PROVE  /\ Live(events, b)' \subseteq Live(events, b)
         /\ Live(told, b)' \subseteq Live(told, b)
         /\ Live(events, b)' = Live(told, b)'
<1>1. Live(events, b) = Live(told, b) BY DEF IInv, NothingForgotten
<1>2. \A e \in told : e.at + Window[b] > now + 1 => e.at + Window[b] > now
  BY Arithmetic
<1>3. events \subseteq told BY Arithmetic
<1> QED BY <1>1, <1>2, <1>3 DEF Live

\* What the sweep takes is in no window any more.
LEMMA PurgeTakesTheOld ==
  ASSUME IInv, NEW t \in 0..now, NEW b \in Bucket, NEW e \in told, ~(e.at + Longest >= t)
  PROVE  ~(e.at + Window[b] > now)
BY Arithmetic

\* Nor is what a record cleans up in its own bucket.
LEMMA CleanedTakesTheOld ==
  ASSUME IInv, NEW r \in Request, NEW b \in Bucket
  PROVE  /\ Cleaned(r, b) \subseteq events
         /\ \A c \in Bucket : Live(Cleaned(r, b), c) = Live(events, c)
<1>1. \A e \in events : e.bucket = b /\ e.at + Window[b] > now => e.at + Window[b] > req[r].at
  BY Arithmetic
<1> QED BY <1>1 DEF Cleaned, Live

---------------------------------------------------------------------------
(* A record.                                                               *)

LEMMA RecordKeeps ==
  ASSUME IInv, NEW r \in Request, NEW b \in Bucket, NEW from, NEW to \in Phase,
         Record(r, b, from, to),
         b \in Holds[from], from # "emailed", to # "emailed",
         Holds[to] \subseteq Holds[from] \ {b}
  PROVE  IInv'
<1> DEFINE e == [id |-> last + 1, bucket |-> b, at |-> req[r].at]
           x == [phase |-> to, ok |-> FALSE, at |-> 0]
<1>1. /\ last < EventBound /\ req[r].phase = from /\ req' = [req EXCEPT ![r] = x]
      /\ events' = Cleaned(r, b) \cup {e} /\ told' = told \cup {e}
      /\ last' = last + 1 /\ now' = now
  BY DEF Record, Becomes
<1>2. x \in RequestType BY Arithmetic DEF RequestType
<1>3. req' \in [Request -> RequestType] BY <1>1, <1>2, ReqType
<1>4. TypeOK'
  <2>1. now' \in 0..TimeBound BY <1>1 DEF IInv, TypeOK
  <2>2. last' \in 0..EventBound BY <1>1, RateLimitAssumption DEF IInv, TypeOK
  <2>3. events' \subseteq told' BY <1>1, CleanedTakesTheOld, Arithmetic
  <2>4. e \in Event'
    <3>1. last + 1 \in 1..(last + 1) BY Arithmetic
    <3>2. req[r].at \in 0..now BY Arithmetic
    <3> QED BY <1>1, <3>1, <3>2 DEF Event
  <2>5. told \subseteq Event'
    <3>1. \A f \in Event : f.id \in 1..(last + 1) BY Arithmetic DEF Event
    <3>2. Event \subseteq Event' BY <1>1, <3>1 DEF Event
    <3> QED BY <3>2 DEF IInv, TypeOK
  <2>6. told' \subseteq Event' BY <1>1, <2>4, <2>5
  <2>7. req' \in [Request -> [phase : Phase, ok : BOOLEAN, at : 0..now']]
    BY <1>1, <1>3 DEF RequestType
  <2>8. \A f \in told : f.id # last + 1
    <3>1. \A f \in told : f.id \in 1..last BY DEF IInv, TypeOK, Event
    <3> QED BY <3>1, Arithmetic
  <2>9. \A f, g \in told' : f.id = g.id => f = g
    BY <1>1, <2>8 DEF IInv, TypeOK
  <2> QED BY <2>1, <2>2, <2>3, <2>6, <2>7, <2>9 DEF TypeOK, Phase, Holds
<1>5. IsFiniteSet(told)' BY <1>1, FS_AddElement DEF IInv
<1>6. \A c \in Bucket : Live(events, c)' = Live(Cleaned(r, b), c) \cup Live({e}, c)
  BY <1>1 DEF Live
<1>7. \A c \in Bucket : Live(events, c)' = Live(events, c) \cup Live({e}, c)
  BY <1>6, CleanedTakesTheOld
<1>8. NothingForgotten'
  <2>1. \A c \in Bucket : Live(told, c)' = Live(told, c) \cup Live({e}, c)
    BY <1>1 DEF Live
  <2> QED BY <1>7, <2>1 DEF NothingForgotten, IInv
<1>9. \A c \in Bucket : Bound(c)'
  <2> SUFFICES ASSUME NEW c \in Bucket PROVE Bound(c)' OBVIOUS
  <2>1. /\ Granted(c)' \ {r} = Granted(c) \ {r}
        /\ r \in Granted(c)' <=> c \in Holds[to]
    <3>1. x.phase = to OBVIOUS
    <3> HIDE DEF x
    <3> QED BY <3>1, <1>1, OneMoves
  <2>2. r \in Granted(c) <=> c \in Holds[from] BY <1>1 DEF Granted
  <2>3. CASE c = b
    <3>1. r \in Granted(b) BY <2>2, <2>3
    <3>2. Granted(b)' \subseteq Granted(b) \ {r} BY <2>1, <2>3
    <3>3. Live(events, b)' \subseteq Live(events, b) \cup {e} BY <1>7 DEF Live
    <3> QED BY <3>1, <3>2, <3>3, <2>3, Moves
  <2>4. CASE c # b
    <3>1. Granted(c)' \subseteq Granted(c) BY <2>1, <2>2
    <3>2. Live({e}, c) = {} BY <2>4 DEF Live
    <3>3. Live(events, c)' \subseteq Live(events, c) BY <1>7, <3>2
    <3> QED BY <3>1, <3>3, Shrinks
  <2> QED BY <2>3, <2>4
<1> QED BY <1>4, <1>5, <1>8, <1>9 DEF IInv, ExcessBounded, Bound

\* The clock is read before the transaction: nothing that is counted moves.
LEMMA ReadsKeeps ==
  ASSUME IInv, NEW r \in Request, NEW from, NEW to \in Phase, Reads(r, from, to),
         from # "emailed", to # "emailed", Holds[to] = Holds[from]
  PROVE  IInv'
<1> DEFINE x == [phase |-> to, ok |-> req[r].ok, at |-> now]
<1>1. req[r].ok \in BOOLEAN
  BY DEF IInv, TypeOK
<1>2. req' = [req EXCEPT ![r] = x] BY DEF Reads
<1>3. x \in RequestType BY <1>1, Arithmetic DEF RequestType
<1>4. req' \in [Request -> RequestType] BY <1>2, <1>3, ReqType
<1>5. \A b \in Bucket : Bound(b)'
  <2> SUFFICES ASSUME NEW b \in Bucket PROVE Bound(b)' OBVIOUS
  <2>1. /\ Granted(b)' \ {r} = Granted(b) \ {r}
        /\ r \in Granted(b)' <=> b \in Holds[to]
    <3>1. x.phase = to OBVIOUS
    <3> HIDE DEF x
    <3> QED BY <3>1, <1>2, OneMoves
  <2>2. r \in Granted(b) <=> b \in Holds[from] BY DEF Granted, Reads
  <2>3. Granted(b)' \subseteq Granted(b) BY <2>1, <2>2
  <2>4. Live(events, b)' \subseteq Live(events, b) BY DEF Live, Reads
  <2> QED BY <2>3, <2>4, Shrinks
<1> QED BY <1>4, <1>5, TableKept DEF Reads

\* A request that leaves, whatever it held.
LEMMA Leaves ==
  ASSUME IInv, NEW r \in Request, NEW x \in RequestType, req' = [req EXCEPT ![r] = x],
         UNCHANGED <<now, events, told, last>>,
         \A b \in Bucket : b \in Holds[x.phase] /\ (x.phase = "emailed" => x.ok)
                           => r \in Granted(b) \/ Free(b)
  PROVE  IInv'
<1>1. req' \in [Request -> RequestType] BY ReqType
<1>2. \A b \in Bucket : Bound(b)'
  <2> SUFFICES ASSUME NEW b \in Bucket PROVE Bound(b)' OBVIOUS
  <2>1. CASE Free(b) BY <2>1, Grants
  <2>2. CASE ~Free(b)
    <3>1. Granted(b)' \ {r} = Granted(b) \ {r} BY OneMoves
    <3>2. r \in Granted(b)' => r \in Granted(b) BY <2>2, OneMoves
    <3>3. Granted(b)' \subseteq Granted(b) BY <3>1, <3>2
    <3> QED BY <3>3, LiveKept, Shrinks
  <2> QED BY <2>1, <2>2
<1> QED BY <1>1, <1>2, TableKept

LEMMA InitIInv == Init => IInv
<1> SUFFICES ASSUME Init PROVE IInv OBVIOUS
<1>1. TypeOK BY RateLimitAssumption DEF Init, TypeOK, Idle, Phase, Holds, Event
<1>2. IsFiniteSet(told) BY FS_EmptySet DEF Init
<1>3. NothingForgotten BY DEF Init, NothingForgotten
<1>4. ExcessBounded
  <2> SUFFICES ASSUME NEW b \in Bucket PROVE Bound(b) BY DEF ExcessBounded, Bound
  <2>1. Live(events, b) = {} BY DEF Init, Live
  <2>2. Granted(b) = {} BY DEF Init, Granted, Idle, Holds
  <2>3. Cardinality({}) = 0 BY FS_EmptySet
  <2>4. MaxEvents[b] \in Nat \ {0} /\ Cardinality(Request) \in Nat
    BY GrantedFinite, RateLimitAssumption
  <2> QED BY <2>1, <2>2, <2>3, <2>4 DEF Bound
<1> QED BY <1>1, <1>2, <1>3, <1>4 DEF IInv

LEMMA TickKeeps == IInv /\ Tick => IInv'
<1> SUFFICES ASSUME IInv, Tick PROVE IInv' OBVIOUS
<1>1. now < TimeBound /\ now' = now + 1 /\ UNCHANGED <<events, told, req, last>>
  BY DEF Tick
<1>2. TypeOK'
  <2>1. now' \in 0..TimeBound BY <1>1, Arithmetic, RateLimitAssumption
  <2>2. 0..now \subseteq 0..(now + 1) BY Arithmetic
  <2>3. told' \subseteq Event' BY <1>1, <2>2 DEF IInv, TypeOK, Event
  <2>4. req' \in [Request -> [phase : Phase, ok : BOOLEAN, at : 0..now']]
    <3>1. RequestType \subseteq [phase : Phase, ok : BOOLEAN, at : 0..now']
      BY <1>1, <2>2 DEF RequestType
    <3> QED BY <1>1, <3>1 DEF IInv, TypeOK, RequestType
  <2> QED BY <1>1, <2>1, <2>3, <2>4 DEF IInv, TypeOK, Phase, Holds
<1>3. IsFiniteSet(told)' BY <1>1 DEF IInv
<1>4. NothingForgotten' BY <1>1, TickShrinks DEF NothingForgotten
<1>5. \A b \in Bucket : Bound(b)'
  <2> SUFFICES ASSUME NEW b \in Bucket PROVE Bound(b)' OBVIOUS
  <2>1. Granted(b)' = Granted(b) BY <1>1 DEF Granted, Holds
  <2> QED BY <1>1, <2>1, TickShrinks, Shrinks
<1> QED BY <1>2, <1>3, <1>4, <1>5 DEF IInv, ExcessBounded, Bound

LEMMA PurgeKeeps == IInv /\ Purge => IInv'
<1> SUFFICES ASSUME IInv, Purge PROVE IInv' OBVIOUS
<1>1. PICK t \in 0..now : events' = {e \in events : e.at + Longest >= t} BY DEF Purge
<1>2. UNCHANGED <<now, told, req, last>> BY DEF Purge
<1>3. TypeOK' BY <1>1, <1>2 DEF IInv, TypeOK, Event
<1>4. \A b \in Bucket : Live(events, b)' = Live(events, b)
  <2>1. events \subseteq told BY Arithmetic
  <2> QED BY <1>1, <1>2, <2>1, PurgeTakesTheOld DEF Live
<1>5. NothingForgotten' BY <1>2, <1>4 DEF IInv, NothingForgotten, Live
<1>6. \A b \in Bucket : Bound(b)'
  <2> SUFFICES ASSUME NEW b \in Bucket PROVE Bound(b)' OBVIOUS
  <2>1. Granted(b)' = Granted(b) BY <1>2 DEF Granted, Holds
  <2> QED BY <1>4, <2>1, Shrinks
<1> QED BY <1>2, <1>3, <1>5, <1>6 DEF IInv, ExcessBounded, Bound

\* Cognito accepts: the window of the account empties.
LEMMA AcceptedKeeps == ASSUME IInv, NEW r \in Request, Accepted(r) PROVE IInv'
<1> DEFINE x == [phase |-> "idle", ok |-> FALSE, at |-> 0]
<1>1. /\ req[r].phase = "asking" /\ req' = [req EXCEPT ![r] = x]
      /\ events' = {e \in events : e.bucket # Email} /\ told' = {e \in told : e.bucket # Email}
      /\ now' = now /\ last' = last
  BY DEF Accepted, Becomes
<1>2. x \in RequestType BY Arithmetic DEF RequestType, Phase, Holds
<1>3. req' \in [Request -> RequestType] BY <1>1, <1>2, ReqType
<1>4. TypeOK' BY <1>1, <1>3 DEF IInv, TypeOK, Event, RequestType
<1>5. IsFiniteSet(told)' BY <1>1, FS_Subset DEF IInv
<1>6. NothingForgotten'
  <2>1. \A b \in Bucket : Live(events, b)' = {e \in Live(events, b) : e.bucket # Email}
    BY <1>1 DEF Live
  <2>2. \A b \in Bucket : Live(told, b)' = {e \in Live(told, b) : e.bucket # Email}
    BY <1>1 DEF Live
  <2> QED BY <2>1, <2>2 DEF IInv, NothingForgotten
<1>7. \A b \in Bucket : Bound(b)'
  <2> SUFFICES ASSUME NEW b \in Bucket PROVE Bound(b)' OBVIOUS
  <2>1. Granted(b)' \subseteq Granted(b)
    <3>1. x.phase = "idle" /\ Holds["idle"] = {} BY DEF Holds
    <3> HIDE DEF x
    <3>2. Granted(b)' \ {r} = Granted(b) \ {r} BY <1>1, OneMoves
    <3>3. r \notin Granted(b)' BY <3>1, <1>1, OneMoves
    <3> QED BY <3>2, <3>3
  <2>2. Live(events, b)' \subseteq Live(events, b) BY <1>1 DEF Live
  <2> QED BY <2>1, <2>2, Shrinks
<1> QED BY <1>4, <1>5, <1>6, <1>7 DEF IInv, ExcessBounded, Bound

\* What a request does to the requests alone.
LEMMA RequestMoves ==
  ASSUME IInv, NEW r \in Request,
         CheckPaid(r) \/ CheckEmail(r) \/ CheckIp(r) \/ Fails(r)
  PROVE  IInv'
<1>1. CASE CheckPaid(r)
  <2> DEFINE x == [phase |-> "paying", ok |-> FALSE, at |-> 0]
  <2>1. x \in RequestType /\ Holds[x.phase] = {Paid}
    BY Arithmetic DEF RequestType, Phase, Holds
  <2>2. req' = [req EXCEPT ![r] = x] /\ UNCHANGED <<now, events, told, last>> /\ Free(Paid)
    BY <1>1 DEF CheckPaid, Becomes
  <2> HIDE DEF x
  <2> QED BY <2>1, <2>2, Leaves
<1>2. CASE CheckEmail(r)
  <2> DEFINE x == [phase |-> "emailed", ok |-> Free(Email), at |-> req[r].at]
  <2>1. x \in RequestType /\ Holds[x.phase] = {Email} /\ (x.ok => Free(Email))
        /\ x.phase = "emailed"
    <3>1. Free(Email) \in BOOLEAN BY DEF Free
    <3> QED BY <3>1, Arithmetic DEF RequestType, Phase, Holds
  <2>2. req' = [req EXCEPT ![r] = x] /\ UNCHANGED <<now, events, told, last>>
    BY <1>2 DEF CheckEmail
  <2> HIDE DEF x
  <2> QED BY <2>1, <2>2, Leaves
<1>3. CASE CheckIp(r)
  <2> DEFINE p == IF req[r].ok /\ Free(Ip) THEN "asking" ELSE "idle"
             x == [phase |-> p, ok |-> FALSE, at |-> 0]
  <2>1. x \in RequestType /\ x.phase = p BY Arithmetic DEF RequestType, Phase, Holds
  <2>2. req' = [req EXCEPT ![r] = x] /\ UNCHANGED <<now, events, told, last>>
    BY <1>3 DEF CheckIp
  <2>3. req[r].ok => r \in Granted(Email) BY <1>3 DEF CheckIp, Granted, Holds
  <2>4. \A b \in Holds[p] : r \in Granted(b) \/ Free(b)
    <3>1. CASE req[r].ok /\ Free(Ip)
      <4>1. Holds[p] = {Email, Ip} BY <3>1 DEF Holds
      <4> QED BY <3>1, <4>1, <2>3
    <3>2. CASE ~(req[r].ok /\ Free(Ip))
      <4>1. Holds[p] = {} BY <3>2 DEF Holds
      <4> QED BY <4>1
    <3> QED BY <3>1, <3>2
  <2> HIDE DEF p, x
  <2> QED BY <2>1, <2>2, <2>4, Leaves
<1>4. CASE Fails(r)
  <2>1. Idle \in RequestType /\ Holds[Idle.phase] = {}
    BY Arithmetic DEF RequestType, Phase, Holds, Idle
  <2>2. req' = [req EXCEPT ![r] = Idle] /\ UNCHANGED <<now, events, told, last>>
    BY <1>4 DEF Fails
  <2> HIDE DEF Idle
  <2> QED BY <2>1, <2>2, Leaves
<1> QED BY <1>1, <1>2, <1>3, <1>4

\* The two halves of each record.
LEMMA RequestRecords ==
  ASSUME IInv, NEW r \in Request,
         RecordPaid(r) \/ Refused(r) \/ RecordEmail(r) \/ RecordIp(r)
  PROVE  IInv'
<1> USE DEF Phase, Holds
<1>1. CASE Reads(r, "paying", "paid") BY <1>1, ReadsKeeps
<1>2. CASE Record(r, Paid, "paid", "idle") BY <1>2, RecordKeeps DEF Bucket
<1>3. CASE Reads(r, "asking", "failing") BY <1>3, ReadsKeeps
<1>4. CASE Record(r, Email, "failing", "half")
  BY <1>4, RecordKeeps, RateLimitAssumption DEF Bucket
<1>5. CASE Reads(r, "half", "halving") BY <1>5, ReadsKeeps
<1>6. CASE Record(r, Ip, "halving", "idle") BY <1>6, RecordKeeps DEF Bucket
<1> QED BY <1>1, <1>2, <1>3, <1>4, <1>5, <1>6 DEF RecordPaid, Refused, RecordEmail, RecordIp

LEMMA StepKeeps == IInv /\ [Next]_vars => IInv'
<1> SUFFICES ASSUME IInv, [Next]_vars PROVE IInv' OBVIOUS
<1>1. CASE Tick BY <1>1, TickKeeps
<1>2. CASE Purge BY <1>2, PurgeKeeps
<1>3. ASSUME NEW r \in Request, Accepted(r) PROVE IInv' BY <1>3, AcceptedKeeps
<1>4. ASSUME NEW r \in Request, CheckPaid(r) \/ CheckEmail(r) \/ CheckIp(r) \/ Fails(r)
      PROVE  IInv'
  BY <1>4, RequestMoves
<1>5. ASSUME NEW r \in Request, RecordPaid(r) \/ Refused(r) \/ RecordEmail(r) \/ RecordIp(r)
      PROVE  IInv'
  BY <1>5, RequestRecords
<1>6. CASE UNCHANGED vars
  <2>1. req' \in [Request -> RequestType] BY <1>6 DEF IInv, TypeOK, RequestType, vars
  <2>2. \A b \in Bucket : Bound(b)'
    <3>1. \A b \in Bucket : Granted(b)' = Granted(b) BY <1>6 DEF Granted, Holds, vars
    <3> QED BY <1>6, <3>1, LiveKept, Shrinks DEF vars
  <2> QED BY <1>6, <2>1, <2>2, TableKept DEF vars
<1> QED BY <1>1, <1>2, <1>3, <1>4, <1>5, <1>6 DEF Next

THEOREM Inductive == Spec => []IInv
BY InitIInv, StepKeeps, PTL DEF Spec

\* The variables keep their shape, the table holds only what was recorded, and
\* no two records share a number (rate_limit.py, llm_limits.py).
THEOREM TypeCorrect == Spec => []TypeOK
<1>1. IInv => TypeOK BY DEF IInv
<1> QED BY <1>1, Inductive, PTL

\* Whatever the windows are and however the clean-ups and the sweeps fall, a
\* check counts everything recorded in its window (rate_limit.py: record, purge).
THEOREM NothingIsForgotten == Spec => []NothingForgotten
<1>1. IInv => NothingForgotten BY DEF IInv
<1> QED BY <1>1, Inductive, PTL

\* Whatever the limit and however many requests run at once, what is recorded and
\* what is granted in a window stay below their sum (rate_limit.py: check, record).
THEOREM ExcessIsBounded == Spec => []ExcessBounded
<1>1. IInv => ExcessBounded BY DEF IInv
<1> QED BY <1>1, Inductive, PTL
=============================================================================
