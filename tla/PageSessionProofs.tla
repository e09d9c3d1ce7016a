-------------------------- MODULE PageSessionProofs --------------------------
(***************************************************************************)
(* What holds of the pages of one browser for every number of tabs,        *)
(* sessions and requests.                                                  *)
(***************************************************************************)
EXTENDS PageSession, FiniteSetTheorems, TLAPS

\* A refresh has somebody waiting for it, and whoever waits has one.
Shared ==
  /\ \A f, g \in flights : f.tab = g.tab => f = g
  /\ \A f \in flights : \E q \in reqs : q.pc = "waits" /\ q.tab = f.tab
  /\ \A q \in reqs : q.pc = "waits" => q.kind \in Asking /\ \E f \in flights : f.tab = q.tab

\* A page that loads has asked who is there, once, and nothing else.
Loads ==
  /\ \A q \in reqs : q.kind = "me" => tabs[q.tab].loading
  /\ \A q \in reqs : tabs[q.tab].loading => q.kind \in {"me", "logout"}
  /\ \A q, r \in reqs : q.kind = "me" /\ r.kind = "me" /\ q.tab = r.tab => q = r

\* What is in a cache, and when there is none.
Cached ==
  \A t \in Tab :
    /\ tabs[t].loading => tabs[t].cache = {}
    /\ ~tabs[t].stray => tabs[t].cache \subseteq {tabs[t].user}

\* Whoever asked is still shown, while the tab has not forgotten it: a way out of a
\* session disowns everything that is under way.
Askers ==
  \A q \in reqs : q.asker # None =>
    /\ q.kind \in {"read", "write"}
    /\ tabs[q.tab].stray \/ q.asker = tabs[q.tab].user

\* A login awaits its answer alone, in a tab that shows nobody or is not followed.
Entering ==
  \A q \in reqs : q.kind = "login" =>
    /\ tabs[q.tab].user = None \/ tabs[q.tab].stray
    /\ \A r \in reqs : r.kind = "login" /\ r.tab = q.tab => r = q

\* A tab nothing of an earlier session can reach renews its own.
Steady(t) ==
  /\ tabs[t].user # None /\ jar.refresh = tabs[t].user
  /\ ~tabs[t].loading /\ ~tabs[t].stray /\ ~tabs[t].behind

Own(t) ==
  /\ \A f \in flights : f.tab = t => f.refresh = tabs[t].user
  /\ \A q \in reqs : q.tab = t /\ q.pc = "sent" /\ q.again /\ q.kind \in {"read", "write"}
                     => q.access = tabs[t].user

Renewing ==
  /\ \A t \in Tab : tabs[t].user \in 0..opened
  /\ \A t \in Tab : Steady(t) => Own(t)

IInv == TypeOK /\ Shared /\ Loads /\ Cached /\ Askers /\ Entering

---------------------------------------------------------------------------

Cookies == [access : Session \cup {None}, refresh : Session \cup {None}]
TabType == [user : Session \cup {None}, loading : BOOLEAN, cache : SUBSET Session,
            stray : BOOLEAN, behind : BOOLEAN]

LEMMA SentIs ==
  ASSUME TypeOK, NEW t \in Tab, NEW kind \in Asking \cup {"login", "logout"},
         NEW cookies \in Cookies
  PROVE  /\ Sent(t, kind, cookies) \in RequestType
         /\ Sent(t, kind, cookies).pc = "sent" /\ Sent(t, kind, cookies).kind = kind
         /\ Sent(t, kind, cookies).tab = t
         /\ Sent(t, kind, cookies).asker =
              IF kind \in {"read", "write"} THEN tabs[t].user ELSE None
BY DEF Sent, RequestType, Cookies, TypeOK

LEMMA OrphanIs ==
  ASSUME NEW q \in RequestType
  PROVE  /\ Orphaned(q) \in RequestType /\ Orphaned(q).pc = q.pc
         /\ Orphaned(q).kind = q.kind /\ Orphaned(q).tab = q.tab /\ Orphaned(q).asker = None
BY DEF Orphaned, RequestType

LEMMA RetriedIs ==
  ASSUME NEW q \in RequestType, NEW cookies \in Cookies
  PROVE  /\ Retried(q, cookies) \in RequestType /\ Retried(q, cookies).pc = "sent"
         /\ Retried(q, cookies).kind = q.kind /\ Retried(q, cookies).tab = q.tab
         /\ Retried(q, cookies).asker = q.asker
BY DEF Retried, RequestType, Cookies

\* What every step leaves to be typed in the same way.
Sized ==
  /\ jar' \in Cookies
  /\ opened' \in 0..MaxSessions /\ open' \subseteq 1..opened'

\* A page that is loaded again starts from nothing.
LEMMA Reloads ==
  ASSUME IInv, Sized, NEW t \in Tab, NEW cookies \in Cookies,
         tabs' = Loading(t), reqs' = Reloaded(t, cookies), flights' = flights \ Mine(t)
  PROVE  IInv'
<1> USE DEF IInv
<1> DEFINE m == Sent(t, "me", cookies)
<1>1. m \in RequestType /\ m.pc = "sent" /\ m.kind = "me" /\ m.tab = t /\ m.asker = None
  BY SentIs DEF Asking
<1>2. reqs' = {q \in reqs : q.tab # t \/ q.kind = "logout"} \cup {m} BY DEF Reloaded
<1>3. \A f : f \in flights' <=> f \in flights /\ f.tab # t BY DEF Mine
<1>4. tabs \in [Tab -> TabType] BY DEF TypeOK, TabType
<1>5. /\ tabs'[t] = [user |-> None, loading |-> TRUE, cache |-> {},
                     stray |-> FALSE, behind |-> FALSE]
      /\ \A u \in Tab \ {t} : tabs'[u] = tabs[u]
      /\ tabs' \in [Tab -> TabType]
  BY <1>4 DEF Loading, Empty, TabType
<1>6. \A q \in reqs : q.tab \in Tab BY DEF TypeOK, RequestType
<1> HIDE DEF m
<1>7. TypeOK'
  <2>1. reqs' \subseteq RequestType BY <1>1, <1>2 DEF TypeOK
  <2>2. \A u \in Tab : tabs'[u].loading => \E q \in reqs' : q.tab = u /\ q.kind = "me"
    BY <1>1, <1>2, <1>5 DEF TypeOK
  <2>3. flights' \subseteq flights OBVIOUS
  <2> QED BY <1>5, <2>1, <2>2, <2>3 DEF TypeOK, Sized, Cookies, TabType
<1>8. Shared' BY <1>1, <1>2, <1>3 DEF Shared, Asking
<1>9. Loads' BY <1>1, <1>2, <1>5, <1>6 DEF Loads
<1>10. Cached' BY <1>5 DEF Cached
<1>11. Entering' BY <1>1, <1>2, <1>5, <1>6 DEF Entering
<1>12. Askers' BY <1>1, <1>2, <1>5, <1>6 DEF Askers
<1> QED BY <1>7, <1>8, <1>9, <1>10, <1>11, <1>12

\* A tab that loads and finds nobody: nothing may still be asking who is there.
LEMMA Forgotten ==
  ASSUME IInv, Sized, NEW t \in Tab, tabs[t].loading, tabs' = Forgets(t),
         reqs' \subseteq reqs, flights' \subseteq flights,
         \A q \in reqs' : ~(q.kind = "me" /\ q.tab = t),
         \A q \in reqs : q.tab # t => q \in reqs'
  PROVE  TypeOK' /\ Loads' /\ Cached' /\ Askers' /\ Entering'
<1> USE DEF IInv
<1>4. tabs \in [Tab -> TabType] BY DEF TypeOK, TabType
<1>5. /\ tabs'[t] = [user |-> None, loading |-> FALSE, cache |-> {},
                     stray |-> FALSE, behind |-> FALSE]
      /\ \A u \in Tab \ {t} : tabs'[u] = tabs[u]
      /\ tabs' \in [Tab -> TabType]
  BY <1>4 DEF Forgets, Empty, TabType
<1>6. \A q \in reqs : q.tab \in Tab BY DEF TypeOK, RequestType
<1>7. TypeOK'
  <2>1. \A u \in Tab : tabs'[u].loading => \E q \in reqs' : q.tab = u /\ q.kind = "me"
    BY <1>5 DEF TypeOK
  <2> QED BY <1>5, <2>1 DEF TypeOK, Sized, Cookies, TabType
<1>8. Loads' BY <1>5, <1>6 DEF Loads
<1>9. Cached' BY <1>5 DEF Cached
<1>10. Entering' BY <1>5, <1>6 DEF Entering
<1>11. Askers'
  <2>1. \A q \in reqs : q.tab = t => q.asker = None BY DEF Loads, Askers
  <2> QED BY <1>5, <1>6, <2>1 DEF Askers
<1> QED BY <1>7, <1>8, <1>9, <1>10, <1>11

\* A refresh without success.
LEMMA GivenUp ==
  ASSUME IInv, Sized, NEW f \in flights, NEW cookies \in Cookies, GivesUp(f, cookies)
  PROVE  IInv'
<1> USE DEF IInv
<1> DEFINE t == f.tab
<1>1. t \in Tab BY DEF TypeOK
<1>2. flights' = flights \ {f} BY DEF GivesUp
<1>3. flights \ {f} = flights \ Mine(t) BY DEF Shared, Mine
<1>4. CASE \E q \in Waiting(t) : q.kind # "me"
  <2>1. tabs' = Loading(t) /\ reqs' = Reloaded(t, cookies) BY <1>4 DEF GivesUp
  <2> QED BY <1>1, <1>2, <1>3, <2>1, Reloads
<1>5. CASE ~\E q \in Waiting(t) : q.kind # "me"
  <2>1. tabs' = Forgets(t) /\ reqs' = reqs \ Waiting(t) BY <1>5 DEF GivesUp
  <2>2. \E q \in reqs : q.pc = "waits" /\ q.tab = t /\ q.kind = "me"
    BY <1>5 DEF Shared, Waiting
  <2>3. \A q \in reqs' : ~(q.kind = "me" /\ q.tab = t) BY <2>1, <2>2 DEF Loads, Waiting
  <2>4. \A q \in reqs : q.tab # t => q \in reqs' BY <2>1 DEF Waiting
  <2>5. TypeOK' /\ Loads' /\ Cached' /\ Askers' /\ Entering'
    BY <1>1, <1>2, <2>1, <2>2, <2>3, <2>4, Forgotten DEF Loads
  <2>6. Shared' BY <1>2, <2>1 DEF Shared, Waiting
  <2> QED BY <2>5, <2>6
<1> QED BY <1>4, <1>5

\* The steps that leave the refreshes alone, and no page loading that was not.
LEMMA AskedStep ==
  ASSUME IInv, NEW t \in Tab, ~tabs[t].loading, NEW kind \in {"read", "write", "login"},
         NEW cookies \in Cookies,
         kind = "login" => tabs[t].user = None /\ ~\E q \in reqs : q.kind = "login" /\ q.tab = t,
         reqs' = reqs \cup {Sent(t, kind, cookies)},
         UNCHANGED <<jar, open, opened, tabs, flights>>
  PROVE  IInv'
<1> USE DEF IInv
<1> DEFINE m == Sent(t, kind, cookies)
<1>1. /\ m \in RequestType /\ m.pc = "sent" /\ m.kind = kind /\ m.tab = t
      /\ m.asker = IF kind \in {"read", "write"} THEN tabs[t].user ELSE None
  BY SentIs DEF Asking
<1> HIDE DEF m
<1>2. reqs' = reqs \cup {m} BY DEF m
<1>3. TypeOK' BY <1>1, <1>2 DEF TypeOK
<1>4. Shared' BY <1>1, <1>2 DEF Shared
<1>5. Loads' BY <1>1, <1>2 DEF Loads
<1>6. Cached' BY DEF Cached
<1>7. Entering' BY <1>1, <1>2 DEF Entering
<1>8. Askers' BY <1>1, <1>2 DEF Askers
<1> QED BY <1>3, <1>4, <1>5, <1>6, <1>7, <1>8

\* A logout leaves the requests of its tab to nobody.
LEMMA LogoutStep ==
  ASSUME IInv, NEW t \in Tab, Logout(t)
  PROVE  IInv'
<1> USE DEF IInv
<1> DEFINE m == Orphaned(Sent(t, "logout", jar))
<1>1. jar \in Cookies BY DEF TypeOK, Cookies
<1>2. m \in RequestType /\ m.pc = "sent" /\ m.kind = "logout" /\ m.tab = t /\ m.asker = None
  BY <1>1, SentIs, OrphanIs
<1>3. \A q \in reqs : /\ Orphaned(q) \in RequestType /\ Orphaned(q).pc = q.pc
                      /\ Orphaned(q).kind = q.kind /\ Orphaned(q).tab = q.tab
                      /\ Orphaned(q).asker = None
  BY OrphanIs DEF TypeOK
<1> HIDE DEF m
<1>4. reqs' = {IF q.tab = t THEN Orphaned(q) ELSE q : q \in reqs} \cup {m}
  BY DEF Logout, Orphans, m
<1>5. /\ \A r \in reqs' : \/ r = m
                          \/ r \in reqs /\ r.tab # t
                          \/ \E q \in reqs : q.tab = t /\ r = Orphaned(q)
      /\ \A q \in reqs : q.tab # t => q \in reqs'
      /\ \A q \in reqs : q.tab = t => Orphaned(q) \in reqs'
  BY <1>4
<1>6. tabs \in [Tab -> TabType] /\ ~tabs[t].loading BY DEF TypeOK, TabType, Logout
<1>7. /\ tabs'[t] = [user |-> None, loading |-> FALSE, cache |-> {},
                     stray |-> FALSE, behind |-> FALSE]
      /\ \A u \in Tab \ {t} : tabs'[u] = tabs[u]
      /\ tabs' \in [Tab -> TabType]
  BY <1>6 DEF Logout, Forgets, Empty, TabType
<1>8. \A q \in reqs : q.tab \in Tab BY DEF TypeOK, RequestType
<1>9. TypeOK'
  <2>1. reqs' \subseteq RequestType BY <1>2, <1>3, <1>5 DEF TypeOK
  <2>2. \A u \in Tab : tabs'[u].loading => \E q \in reqs' : q.tab = u /\ q.kind = "me"
    BY <1>5, <1>7 DEF TypeOK
  <2> QED BY <1>7, <2>1, <2>2 DEF TypeOK, TabType, Logout
<1>10. Shared'
  <2>1. flights' = flights BY DEF Logout
  <2>2. \A f \in flights : \E q \in reqs' : q.pc = "waits" /\ q.tab = f.tab
    BY <1>3, <1>5 DEF Shared
  <2>3. \A q \in reqs' : q.pc = "waits" => q.kind \in Asking /\ \E f \in flights : f.tab = q.tab
    BY <1>2, <1>3, <1>5 DEF Shared
  <2> QED BY <2>1, <2>2, <2>3 DEF Shared
<1>11. Loads'
  <2>1. \A q \in reqs' : q.kind = "me" => q \in reqs /\ q.tab # t
    BY <1>2, <1>3, <1>5, <1>6 DEF Loads
  <2>2. \A q \in reqs' : tabs'[q.tab].loading => q \in reqs /\ q.tab # t
    BY <1>2, <1>3, <1>5, <1>7
  <2> QED BY <1>7, <1>8, <2>1, <2>2 DEF Loads
<1>12. Cached' BY <1>7 DEF Cached
<1>13. Entering'
  <2> QED BY <1>2, <1>3, <1>5, <1>7, <1>8 DEF Entering
<1>14. Askers' BY <1>2, <1>3, <1>5, <1>7, <1>8 DEF Askers
<1> QED BY <1>9, <1>10, <1>11, <1>12, <1>13, <1>14

\* A request that is refused waits for the refresh of its page.
LEMMA RefusedStep ==
  ASSUME IInv, NEW q \in reqs, Refused(q)
  PROVE  IInv'
<1> USE DEF IInv
<1> DEFINE w == [q EXCEPT !.pc = "waits", !.access = None]
           t == q.tab
<1>1. q \in RequestType /\ q.kind \in Asking /\ q.pc = "sent" BY DEF TypeOK, Refused
<1>2. w \in RequestType /\ w.pc = "waits" /\ w.kind = q.kind /\ w.tab = t /\ w.asker = q.asker
  BY <1>1 DEF RequestType
<1>3. t \in Tab BY <1>1 DEF RequestType
<1>4. reqs' = (reqs \ {q}) \cup {w} BY DEF Refused
<1> HIDE DEF w
<1>5. UNCHANGED <<jar, open, opened, tabs>> BY DEF Refused
<1>6. /\ flights \subseteq flights'
      /\ \E f \in flights' : f.tab = t
      /\ \A f \in flights' : f \in flights \/ f.tab = t
      /\ \A f, g \in flights' : f.tab = g.tab => f = g
      /\ flights' \subseteq [tab : Tab, nth : Nat, access : Session \cup {None},
                             refresh : Session \cup {None}]
  <2>1. CASE Mine(t) # {} BY <2>1 DEF Refused, Joins, Mine, Shared, TypeOK
  <2>2. CASE Mine(t) = {}
    <3>1. flights' = flights \cup {Flight(t)} BY <2>2 DEF Refused, Joins
    <3>2. Cardinality(Mine(t)) = 0 BY <2>2, FS_EmptySet
    <3>3. Flight(t).tab = t
          /\ Flight(t) \in [tab : Tab, nth : Nat, access : Session \cup {None},
                            refresh : Session \cup {None}]
      BY <1>3, <3>2 DEF Flight, TypeOK
    <3>4. \A f \in flights : f.tab # t BY <2>2 DEF Mine
    <3> HIDE DEF t
    <3> QED BY <3>1, <3>3, <3>4 DEF Shared, TypeOK
  <2> QED BY <2>1, <2>2
<1> HIDE DEF t
<1>7. TypeOK' BY <1>2, <1>4, <1>5, <1>6 DEF TypeOK, t
<1>8. Shared' BY <1>1, <1>2, <1>4, <1>6 DEF Shared, t
<1>9. Loads' BY <1>2, <1>4, <1>5 DEF Loads, t
<1>10. Cached' BY <1>5 DEF Cached
<1>11. Entering' BY <1>1, <1>2, <1>4, <1>5 DEF Entering, Asking
<1>12. Askers' BY <1>2, <1>4, <1>5 DEF Askers, t
<1> QED BY <1>7, <1>8, <1>9, <1>10, <1>11, <1>12

\* A refresh that succeeds sends again whatever waited for it.
LEMMA RefreshedStep ==
  ASSUME IInv, NEW f \in flights, Refreshed(f)
  PROVE  IInv'
<1> USE DEF IInv
<1> DEFINE t == f.tab
<1>1. jar' \in Cookies BY DEF Refreshed, TypeOK, Cookies
<1>2. UNCHANGED <<open, opened, tabs>> /\ flights' = flights \ {f} BY DEF Refreshed
<1>3. reqs' = (reqs \ Waiting(t)) \cup {Retried(q, jar') : q \in Waiting(t)} BY DEF Refreshed
<1>4. \A q \in reqs : /\ Retried(q, jar') \in RequestType /\ Retried(q, jar').pc = "sent"
                      /\ Retried(q, jar').kind = q.kind /\ Retried(q, jar').tab = q.tab
                      /\ Retried(q, jar').asker = q.asker
  BY <1>1, RetriedIs DEF TypeOK
<1>5. /\ \A r \in reqs' : \/ r \in reqs /\ ~(r.pc = "waits" /\ r.tab = t)
                          \/ \E q \in reqs : q.pc = "waits" /\ q.tab = t /\ r = Retried(q, jar')
      /\ \A q \in reqs : \/ q \in reqs' /\ ~(q.pc = "waits" /\ q.tab = t)
                         \/ q.pc = "waits" /\ q.tab = t /\ Retried(q, jar') \in reqs'
  <2>1. \A q : q \in Waiting(t) <=> q \in reqs /\ q.pc = "waits" /\ q.tab = t BY DEF Waiting
  <2> HIDE DEF t
  <2> QED BY <1>3, <2>1
<1>6. \A q \in reqs : q.tab \in Tab BY DEF TypeOK, RequestType
<1> HIDE DEF t
<1>7. TypeOK'
  <2>1. reqs' \subseteq RequestType BY <1>4, <1>5 DEF TypeOK
  <2>2. \A u \in Tab : tabs'[u].loading => \E q \in reqs' : q.tab = u /\ q.kind = "me"
    BY <1>2, <1>4, <1>5 DEF TypeOK
  <2> QED BY <1>1, <1>2, <2>1, <2>2 DEF TypeOK, Cookies
<1>8. Shared'
  <2>1. \A g \in flights' : g.tab # t BY <1>2 DEF Shared, t
  <2>2. \A g \in flights' : \E q \in reqs' : q.pc = "waits" /\ q.tab = g.tab
    BY <1>2, <1>5, <2>1 DEF Shared
  <2>3. \A q \in reqs' : q.pc = "waits" => q.kind \in Asking /\ \E g \in flights' : g.tab = q.tab
    BY <1>2, <1>4, <1>5 DEF Shared, t
  <2> QED BY <1>2, <2>2, <2>3 DEF Shared
<1>9. Loads'
  <2>1. \A r \in reqs' : \E q \in reqs : r.kind = q.kind /\ r.tab = q.tab BY <1>4, <1>5
  <2>2. \A r, s \in reqs' : r.kind = "me" /\ s.kind = "me" /\ r.tab = s.tab => r = s
    <3> SUFFICES ASSUME NEW r \in reqs', NEW s \in reqs',
                        r.kind = "me", s.kind = "me", r.tab = s.tab
                 PROVE  r = s
      OBVIOUS
    <3>1. PICK q \in reqs : \/ r = q /\ ~(q.pc = "waits" /\ q.tab = t)
                            \/ q.pc = "waits" /\ q.tab = t /\ r = Retried(q, jar')
      BY <1>5
    <3>2. PICK p \in reqs : \/ s = p /\ ~(p.pc = "waits" /\ p.tab = t)
                            \/ p.pc = "waits" /\ p.tab = t /\ s = Retried(p, jar')
      BY <1>5
    <3>3. q = p BY <1>4, <3>1, <3>2 DEF Loads
    <3> QED BY <3>1, <3>2, <3>3
  <2> QED BY <1>2, <2>1, <2>2 DEF Loads
<1>10. Cached' BY <1>2 DEF Cached
<1>11. Entering'
  <2>1. \A r \in reqs' : r.kind = "login" => r \in reqs BY <1>4, <1>5 DEF Shared, Asking
  <2> QED BY <1>2, <2>1 DEF Entering
<1>12. Askers' BY <1>2, <1>4, <1>5 DEF Askers
<1> QED BY <1>7, <1>8, <1>9, <1>10, <1>11, <1>12

\* An answer lands in its page or nowhere.
LEMMA AnsweredStep ==
  ASSUME IInv, NEW q \in reqs, Answered(q)
  PROVE  IInv'
<1> USE DEF IInv
<1> DEFINE t == q.tab
<1>1. /\ q.pc = "sent" /\ q.kind \in Asking /\ q.access \in open /\ reqs' = reqs \ {q}
      /\ UNCHANGED <<jar, open, opened, flights>>
  BY DEF Answered, Accepted
<1>2. tabs \in [Tab -> TabType] /\ t \in Tab BY DEF TypeOK, TabType, RequestType
<1>3. q.access \in Session BY <1>1 DEF TypeOK, RequestType, None, Session
<1>4. /\ tabs' \in [Tab -> TabType] /\ \A u \in Tab \ {t} : tabs'[u] = tabs[u]
      /\ tabs'[t].loading = (IF q.kind = "me" THEN FALSE ELSE tabs[t].loading)
      /\ tabs'[t].loading => tabs'[t].cache = {}
      /\ ~tabs'[t].stray => tabs'[t].cache \subseteq {tabs'[t].user}
      /\ q.kind = "me" \/ tabs'[t].user = tabs[t].user \/ tabs'[t].stray
      /\ q.kind # "me" /\ tabs[t].stray => tabs'[t].stray
  <2>1. CASE q.kind = "me"
    <3>1. tabs[t].loading BY <2>1 DEF Loads
    <3> QED BY <1>2, <1>3, <2>1, <3>1 DEF Answered, Lands, TabType, Cached
  <2>2. CASE q.kind # "me"
    <3>1. ~tabs[t].loading BY <1>1, <2>2 DEF Loads, Asking
    <3>2. /\ q.kind \in {"read", "write"}
          /\ \/ tabs' = tabs
             \/ Caches(q)
             \/ Profiles(q)
      BY <1>1, <2>2 DEF Answered, Lands, Asking
    <3>3. CASE tabs' = tabs BY <1>2, <2>2, <3>3 DEF Cached
    <3>4. Owned(q) => q.access = tabs[t].user \/ tabs[t].stray
      BY <1>3 DEF Owned, Askers, Session, None
    <3>5. CASE Caches(q)
      BY <1>2, <1>3, <2>2, <3>1, <3>4, <3>5 DEF Caches, TabType, Cached
    <3>6. CASE Profiles(q)
      BY <1>2, <1>3, <2>2, <3>1, <3>4, <3>6 DEF Profiles, TabType, Cached
    <3> QED BY <3>2, <3>3, <3>5, <3>6
  <2> QED BY <2>1, <2>2
<1>5. \A r \in reqs : r.tab \in Tab BY DEF TypeOK, RequestType
<1> HIDE DEF t
<1>6. TypeOK'
  <2>1. \A u \in Tab : tabs'[u].loading => \E r \in reqs' : r.tab = u /\ r.kind = "me"
    <3> SUFFICES ASSUME NEW u \in Tab, tabs'[u].loading
                 PROVE  \E r \in reqs' : r.tab = u /\ r.kind = "me"
      OBVIOUS
    <3>1. tabs[u].loading /\ (u = t => q.kind # "me") BY <1>4
    <3>2. PICK r \in reqs : r.tab = u /\ r.kind = "me" BY <3>1 DEF TypeOK
    <3>3. r # q BY <3>1, <3>2 DEF t
    <3> QED BY <1>1, <3>2, <3>3
  <2> QED BY <1>1, <1>4, <2>1 DEF TypeOK, TabType
<1>7. Shared' BY <1>1 DEF Shared
<1>8. Loads'
  <2>1. \A r \in reqs' : r.kind = "me" => tabs'[r.tab].loading BY <1>1, <1>4, <1>5 DEF Loads, t
  <2>2. \A r \in reqs' : tabs'[r.tab].loading => r.kind \in {"me", "logout"}
    BY <1>1, <1>4, <1>5 DEF Loads, t
  <2> QED BY <1>1, <2>1, <2>2 DEF Loads
<1>9. Cached' BY <1>4 DEF Cached
<1>10. Entering'
  <2>1. q.kind = "me" => \A r \in reqs : r.tab = t => r.kind # "login" BY DEF Loads, t
  <2> QED BY <1>1, <1>4, <1>5, <2>1 DEF Entering
<1>11. Askers'
  <2>1. q.kind = "me" => \A r \in reqs : r.tab = t => r.asker = None BY DEF Loads, Askers, t
  <2> QED BY <1>1, <1>4, <1>5, <2>1 DEF Askers
<1> QED BY <1>6, <1>7, <1>8, <1>9, <1>10, <1>11

\* The server begins a session.
LEMMA LoggedInStep ==
  ASSUME IInv, NEW q \in reqs, LoggedIn(q)
  PROVE  IInv'
<1> USE DEF IInv
<1> DEFINE t == q.tab
<1>1. /\ q.pc = "sent" /\ q.kind = "login" /\ reqs' = reqs \ {q} /\ flights' = flights
      /\ opened' = opened + 1 /\ open' = open \cup {opened + 1}
      /\ jar' = [access |-> opened + 1, refresh |-> opened + 1]
  BY DEF LoggedIn
<1>2. tabs \in [Tab -> TabType] /\ t \in Tab BY DEF TypeOK, TabType, RequestType
<1>3. opened' \in 1..MaxSessions /\ opened + 1 \in Session
  BY PageAssumption DEF LoggedIn, TypeOK, Session
<1>4. /\ tabs' \in [Tab -> TabType] /\ \A u \in Tab \ {t} : tabs'[u] = tabs[u]
      /\ tabs'[t].loading = tabs[t].loading /\ tabs'[t].stray = tabs[t].stray
      /\ tabs'[t].cache = tabs[t].cache
  BY <1>2, <1>3 DEF LoggedIn, TabType
<1>5. \A r \in reqs : r.tab \in Tab BY DEF TypeOK, RequestType
<1> HIDE DEF t
<1>6. \A u \in Tab : tabs'[u].loading = tabs[u].loading BY <1>4
<1>7. TypeOK'
  <2>1. \A u \in Tab : tabs'[u].loading => \E r \in reqs' : r.tab = u /\ r.kind = "me"
    BY <1>1, <1>6 DEF TypeOK
  <2>2. open' \subseteq 1..opened' BY <1>1, <1>3 DEF TypeOK
  <2> QED BY <1>1, <1>3, <1>4, <2>1, <2>2 DEF TypeOK, TabType
<1>8. Shared' BY <1>1 DEF Shared
<1>9. Loads' BY <1>1, <1>5, <1>6 DEF Loads
<1>10. Cached'
  <2>1. tabs[t].cache \subseteq Session /\ None \notin Session
    BY <1>2 DEF TabType, None, Session, t
  <2>2. ~tabs[t].stray => tabs[t].cache = {} BY <1>1, <1>2, <2>1 DEF Cached, Entering, t
  <2> QED BY <1>4, <2>2 DEF Cached
<1>11. Entering' BY <1>1, <1>4, <1>5 DEF Entering, t
<1>12. Askers'
  <2>1. ~tabs[t].stray => \A r \in reqs : r.tab = t => r.asker = None
    BY <1>1 DEF Entering, Askers, t
  <2> QED BY <1>1, <1>4, <1>5, <2>1 DEF Askers
<1> QED BY <1>7, <1>8, <1>9, <1>10, <1>11, <1>12

LEMMA Starts == Init => IInv
<1> SUFFICES ASSUME Init PROVE IInv OBVIOUS
<1>1. TypeOK BY PageAssumption DEF Init, TypeOK, Empty, Session, None
<1>2. Shared /\ Loads /\ Cached /\ Askers /\ Entering
  BY DEF Init, Shared, Loads, Cached, Askers, Entering, Empty
<1> QED BY <1>1, <1>2 DEF IInv

LEMMA Step ==
  ASSUME IInv, [Next]_vars
  PROVE  IInv'
<1> USE DEF IInv
<1>a. jar \in Cookies BY DEF TypeOK, Cookies
<1>b. ASSUME UNCHANGED <<jar, open, opened>> PROVE Sized BY <1>b DEF Sized, TypeOK, Cookies
<1>c. ASSUME NEW q \in reqs PROVE q.tab \in Tab BY DEF TypeOK, RequestType
<1>1. ASSUME NEW t \in Tab, NEW kind \in {"read", "write"}, Asks(t, kind) PROVE IInv'
  BY <1>1, <1>a, AskedStep DEF Asks
<1>2. ASSUME NEW t \in Tab, SubmitLogin(t) PROVE IInv'
  <2>1. [access |-> None, refresh |-> None] \in Cookies BY DEF Cookies
  <2> QED BY <1>2, <2>1, AskedStep DEF SubmitLogin
<1>3. ASSUME NEW t \in Tab, Logout(t) PROVE IInv' BY <1>3, LogoutStep
<1>4. ASSUME NEW t \in Tab, Reload(t) PROVE IInv'
  <2>1. Sized BY <1>4, <1>b DEF Reload
  <2> QED BY <1>4, <1>a, <2>1, Reloads DEF Reload
<1>5. ASSUME NEW q \in reqs, Answered(q) PROVE IInv' BY <1>5, AnsweredStep
<1>6. ASSUME NEW q \in reqs, Dropped(q) PROVE IInv'
  <2>1. q.pc = "sent" /\ reqs' = reqs \ {q} /\ UNCHANGED <<jar, open, opened, flights>>
    BY <1>6 DEF Dropped
  <2>2. Shared' BY <2>1 DEF Shared
  <2>3. CASE q.kind = "me"
    <3>1. tabs' = Forgets(q.tab) BY <1>6, <2>3 DEF Dropped
    <3>2. \A r \in reqs' : ~(r.kind = "me" /\ r.tab = q.tab) BY <2>1, <2>3 DEF Loads
    <3>3. \A r \in reqs : r.tab # q.tab => r \in reqs' BY <2>1
    <3>4. Sized /\ tabs[q.tab].loading BY <2>1, <2>3, <1>b DEF Loads
    <3> QED BY <1>c, <2>1, <2>2, <3>1, <3>2, <3>3, <3>4, Forgotten
  <2>4. CASE q.kind # "me"
    <3>1. tabs' = tabs BY <1>6, <2>4 DEF Dropped
    <3>2. TypeOK' BY <2>1, <2>4, <3>1 DEF TypeOK
    <3>3. Loads' /\ Cached' /\ Askers' /\ Entering' BY <2>1, <3>1 DEF Loads, Cached, Askers, Entering
    <3> QED BY <2>2, <3>2, <3>3
  <2> QED BY <2>3, <2>4
<1>7. ASSUME NEW q \in reqs, Refused(q) PROVE IInv' BY <1>7, RefusedStep
<1>8. ASSUME NEW q \in reqs, RefusedAgain(q) PROVE IInv'
  <2>1. q.pc = "sent" /\ UNCHANGED <<jar, open, opened>> BY <1>8 DEF RefusedAgain
  <2>2. Sized BY <2>1, <1>b
  <2>3. CASE q.kind = "me"
    <3>1. tabs' = Forgets(q.tab) /\ reqs' = reqs \ {q} /\ flights' = flights
      BY <1>8, <2>3 DEF RefusedAgain
    <3>2. \A r \in reqs' : ~(r.kind = "me" /\ r.tab = q.tab) BY <2>3, <3>1 DEF Loads
    <3>3. \A r \in reqs : r.tab # q.tab => r \in reqs' BY <3>1
    <3>4. Shared' /\ tabs[q.tab].loading BY <2>1, <2>3, <3>1 DEF Shared, Loads
    <3> QED BY <1>c, <2>2, <3>1, <3>2, <3>3, <3>4, Forgotten
  <2>4. CASE q.kind # "me"
    <3>1. tabs' = Loading(q.tab) /\ reqs' = Reloaded(q.tab, jar) /\ flights' = flights \ Mine(q.tab)
      BY <1>8, <2>4 DEF RefusedAgain
    <3> QED BY <1>a, <1>c, <2>2, <3>1, Reloads
  <2> QED BY <2>3, <2>4
<1>9. ASSUME NEW q \in reqs, LoggedIn(q) PROVE IInv' BY <1>9, LoggedInStep
<1>10. ASSUME NEW q \in reqs, LoggedOut(q) PROVE IInv'
  <2>1. /\ q.pc = "sent" /\ q.kind = "logout" /\ reqs' = reqs \ {q}
        /\ open' \subseteq open /\ jar' = [access |-> None, refresh |-> None]
        /\ UNCHANGED <<opened, tabs, flights>>
    BY <1>10 DEF LoggedOut
  <2>2. TypeOK' BY <2>1 DEF TypeOK
  <2>3. Shared' BY <2>1 DEF Shared
  <2>4. Loads' /\ Cached' /\ Askers' /\ Entering' BY <2>1 DEF Loads, Cached, Askers, Entering
  <2> QED BY <2>2, <2>3, <2>4
<1>11. ASSUME NEW f \in flights, Refreshed(f) PROVE IInv' BY <1>11, RefreshedStep
<1>12. ASSUME NEW f \in flights, RefreshRefused(f) PROVE IInv'
  <2>1. jar' \in Cookies BY <1>12, <1>a DEF RefreshRefused, Cookies
  <2>2. Sized BY <1>12, <2>1 DEF RefreshRefused, Sized, TypeOK
  <2> QED BY <1>12, <2>1, <2>2, GivenUp DEF RefreshRefused
<1>13. ASSUME NEW f \in flights, RefreshDropped(f) PROVE IInv'
  <2>1. Sized BY <1>13, <1>b DEF RefreshDropped
  <2> QED BY <1>13, <1>a, <2>1, GivenUp DEF RefreshDropped
<1>14. CASE Expires
  <2>1. jar' \in Cookies BY <1>14, <1>a DEF Expires, Cookies
  <2>2. UNCHANGED <<open, opened, tabs, reqs, flights>> BY <1>14 DEF Expires
  <2>3. TypeOK' BY <2>1, <2>2 DEF TypeOK, Cookies
  <2> QED BY <2>2, <2>3 DEF Shared, Loads, Cached, Askers, Entering
<1>15. CASE UNCHANGED vars BY <1>15 DEF vars, TypeOK, Shared, Loads, Cached, Askers, Entering
<1> QED BY <1>1, <1>2, <1>3, <1>4, <1>5, <1>6, <1>7, <1>8, <1>9, <1>10, <1>11, <1>12, <1>13,
           <1>14, <1>15
    DEF Next, TabStep, Resolves, Renewal, Mine

\* A tab that starts from nothing is not steady, and the others are as they were.
LEMMA Emptied ==
  ASSUME IInv, Renewing, NEW t \in Tab, tabs' = Forgets(t) \/ tabs' = Loading(t),
         jar'.refresh \in {jar.refresh, None}, opened' = opened,
         \A f \in flights' : f.tab = t \/ f \in flights,
         \A q \in reqs' : q.tab = t \/ q \in reqs
  PROVE  Renewing'
<1>1. tabs \in [Tab -> TabType] BY DEF IInv, TypeOK, TabType
<1>2. /\ tabs'[t].user = None
      /\ \A u \in Tab \ {t} : tabs'[u] = tabs[u]
  BY <1>1 DEF Forgets, Loading, Empty
<1>3. opened \in Nat BY PageAssumption DEF IInv, TypeOK
<1>4. \A u \in Tab : Steady(u)' => u # t /\ Steady(u) BY <1>2 DEF Steady
<1>5. \A u \in Tab : Steady(u)' => Own(u)' BY <1>2, <1>4 DEF Own, Renewing
<1> QED BY <1>2, <1>3, <1>5 DEF Renewing, None

\* Nothing that tabs show or renew changes.
LEMMA Unmoved ==
  ASSUME IInv, Renewing, tabs' = tabs, opened' = opened, jar'.refresh \in {jar.refresh, None},
         \A f \in flights' : f \in flights \/ f.refresh = jar.refresh,
         \A q \in reqs' : q \in reqs \/ ~q.again \/ q.pc # "sent" \/ q.kind \notin {"read", "write"}
  PROVE  Renewing'
<1>1. \A u \in Tab : Steady(u)' => Steady(u) BY DEF Steady
<1>2. \A u \in Tab : Steady(u)' => Own(u)' BY <1>1 DEF Own, Steady, Renewing
<1> QED BY <1>2 DEF Renewing

LEMMA RenewingGivenUp ==
  ASSUME IInv, Renewing, NEW f \in flights, NEW cookies, GivesUp(f, cookies),
         jar'.refresh \in {jar.refresh, None}, opened' = opened
  PROVE  Renewing'
<1>1. f.tab \in Tab BY DEF IInv, TypeOK
<1>2. flights' \subseteq flights BY DEF GivesUp
<1>3. tabs' = Forgets(f.tab) \/ tabs' = Loading(f.tab) BY DEF GivesUp
<1>4. \A q \in reqs' : q.tab = f.tab \/ q \in reqs BY DEF GivesUp, Reloaded, Sent
<1> QED BY <1>1, <1>2, <1>3, <1>4, Emptied

LEMMA RenewingStep ==
  ASSUME IInv, Renewing, [Next]_vars
  PROVE  Renewing'
<1>t. tabs \in [Tab -> TabType] BY DEF IInv, TypeOK, TabType
<1>q. \A q \in reqs : q.tab \in Tab BY DEF IInv, TypeOK, RequestType
<1>n. opened \in Nat BY PageAssumption DEF IInv, TypeOK
<1>1. ASSUME NEW t \in Tab, NEW kind \in {"read", "write"}, Asks(t, kind) PROVE Renewing'
  BY <1>1, Unmoved DEF Asks, Sent
<1>2. ASSUME NEW t \in Tab, SubmitLogin(t) PROVE Renewing'
  BY <1>2, Unmoved DEF SubmitLogin, Sent
<1>3. ASSUME NEW t \in Tab, Logout(t) PROVE Renewing'
  <2>1. \A q \in reqs' : q.tab = t \/ q \in reqs
    <3>1. \A q \in reqs : Orphaned(q).tab = q.tab BY OrphanIs DEF IInv, TypeOK
    <3>2. Orphaned(Sent(t, "logout", jar)).tab = t BY DEF Orphaned, Sent
    <3> QED BY <1>3, <3>1, <3>2 DEF Logout, Orphans
  <2> QED BY <1>3, <2>1, Emptied DEF Logout
<1>4. ASSUME NEW t \in Tab, Reload(t) PROVE Renewing'
  BY <1>4, Emptied DEF Reload, Reloaded, Sent
<1>5. ASSUME NEW q \in reqs, Answered(q) PROVE Renewing'
  <2> DEFINE t == q.tab
  <2>1. /\ q.pc = "sent" /\ q.kind \in Asking /\ q.access \in 1..opened /\ reqs' = reqs \ {q}
        /\ UNCHANGED <<jar, opened, flights>>
    BY <1>5 DEF Answered, Accepted, IInv, TypeOK
  <2>2. \A u \in Tab \ {t} : tabs'[u] = tabs[u]
    BY <1>5, <1>t DEF Answered, Lands, Caches, Profiles
  <2>3. CASE q.kind = "me"
    <3>1. tabs'[t].user = q.access BY <1>5, <1>t, <1>q, <2>3 DEF Answered, Lands, TabType
    <3>2. \A r \in reqs' : r.tab = t => r.kind = "logout"
      BY <1>q, <2>1, <2>3 DEF IInv, Loads
    <3>3. \A f \in flights : f.tab # t
      BY <1>q, <2>1, <2>3 DEF IInv, Shared, Loads, Asking
    <3>4. Own(t)' BY <2>1, <3>2, <3>3 DEF Own
    <3>5. \A u \in Tab \ {t} : Steady(u)' => Own(u)'
      BY <2>1, <2>2 DEF Steady, Own, Renewing
    <3> QED BY <1>n, <2>1, <2>2, <3>1, <3>4, <3>5 DEF Renewing
  <2>4. CASE q.kind # "me"
    <3>1. \/ tabs' = tabs
          \/ Caches(q)
          \/ Profiles(q)
      BY <1>5, <2>4 DEF Answered, Lands
    <3>2. /\ tabs'[t].user \in {tabs[t].user, q.access}
          /\ tabs'[t].user = tabs[t].user \/ tabs'[t].stray
          /\ tabs[t].stray => tabs'[t].stray
          /\ tabs'[t].loading = tabs[t].loading /\ tabs'[t].behind = tabs[t].behind
      <4>1. CASE tabs' = tabs BY <4>1
      <4>2. CASE Caches(q) BY <1>t, <1>q, <4>2 DEF Caches, TabType
      <4>3. CASE Profiles(q)
        <5>1. Owned(q) => q.access = tabs[t].user \/ tabs[t].stray
          BY <1>n, <2>1 DEF Owned, IInv, Askers, None
        <5> QED BY <1>t, <1>q, <4>3, <5>1 DEF Profiles, TabType
      <4> QED BY <3>1, <4>1, <4>2, <4>3
    <3>3. \A u \in Tab : Steady(u)' => Steady(u) /\ tabs'[u].user = tabs[u].user
      BY <2>1, <2>2, <3>2 DEF Steady
    <3>4. \A u \in Tab : Steady(u)' => Own(u)' BY <2>1, <3>3 DEF Own, Renewing
    <3> QED BY <1>n, <2>1, <2>2, <3>2, <3>4 DEF Renewing
  <2> QED BY <2>3, <2>4
<1>6. ASSUME NEW q \in reqs, Dropped(q) PROVE Renewing'
  <2>1. CASE q.kind = "me" BY <1>6, <1>q, <2>1, Emptied DEF Dropped
  <2>2. CASE q.kind # "me" BY <1>6, <2>2, Unmoved DEF Dropped
  <2> QED BY <2>1, <2>2
<1>7. ASSUME NEW q \in reqs, Refused(q) PROVE Renewing'
  <2>1. q \in RequestType BY DEF IInv, TypeOK
  <2>2. [q EXCEPT !.pc = "waits", !.access = None].pc = "waits" BY <2>1 DEF RequestType
  <2>3. UNCHANGED <<jar, opened, tabs>> BY <1>7 DEF Refused
  <2>4. \A r \in reqs' : r \in reqs \/ r.pc # "sent" BY <1>7, <2>2 DEF Refused
  <2>5. Flight(q.tab).refresh = jar.refresh BY DEF Flight
  <2>6. \A f \in flights' : f \in flights \/ f.refresh = jar.refresh
    BY <1>7, <2>5 DEF Refused, Joins
  <2> QED BY <2>3, <2>4, <2>6, Unmoved
<1>8. ASSUME NEW q \in reqs, RefusedAgain(q) PROVE Renewing'
  <2>1. CASE q.kind = "me" BY <1>8, <1>q, <2>1, Emptied DEF RefusedAgain
  <2>2. CASE q.kind # "me" BY <1>8, <1>q, <2>2, Emptied DEF RefusedAgain, Reloaded, Sent
  <2> QED BY <2>1, <2>2
<1>9. ASSUME NEW q \in reqs, LoggedIn(q) PROVE Renewing'
  <2> DEFINE t == q.tab
  <2>1. /\ flights' = flights /\ reqs' = reqs \ {q}
        /\ opened' = opened + 1 /\ jar'.refresh = opened + 1
    BY <1>9 DEF LoggedIn
  <2>2. /\ tabs'[t].user = opened + 1
        /\ tabs'[t].behind = (flights # {} \/ reqs # {q})
        /\ \A u \in Tab \ {t} : tabs'[u] = tabs[u]
    BY <1>9, <1>t, <1>q DEF LoggedIn, TabType
  <2>3. \A u \in Tab \ {t} : ~Steady(u)' BY <1>n, <2>1, <2>2 DEF Steady, Renewing
  <2>4. Steady(t)' => Own(t)' BY <2>1, <2>2 DEF Steady, Own
  <2>5. \A u \in Tab : tabs'[u].user \in 0..opened' BY <1>n, <2>1, <2>2 DEF Renewing
  <2> QED BY <2>3, <2>4, <2>5 DEF Renewing
<1>10. ASSUME NEW q \in reqs, LoggedOut(q) PROVE Renewing'
  BY <1>10, Unmoved DEF LoggedOut
<1>11. ASSUME NEW f \in flights, Refreshed(f) PROVE Renewing'
  <2>1. jar \in Cookies /\ f.refresh \in Session \cup {None} BY DEF IInv, TypeOK, Cookies
  <2>2. /\ jar'.refresh = jar.refresh /\ jar'.access = f.refresh
        /\ tabs' = tabs /\ opened' = opened /\ flights' \subseteq flights
    BY <1>11, <2>1 DEF Refreshed, Cookies
  <2>3. \A r \in reqs' : r \in reqs \/ (r.tab = f.tab /\ r.access = f.refresh)
    <3>1. \A q \in Waiting(f.tab) : /\ Retried(q, jar').tab = f.tab
                                    /\ Retried(q, jar').access = jar'.access
      BY DEF Retried, Waiting, IInv, TypeOK, RequestType
    <3>2. reqs' = (reqs \ Waiting(f.tab)) \cup {Retried(q, jar') : q \in Waiting(f.tab)}
      BY <1>11 DEF Refreshed
    <3> SUFFICES ASSUME NEW r \in reqs', r \notin reqs
                 PROVE  r.tab = f.tab /\ r.access = f.refresh
      OBVIOUS
    <3>3. PICK q \in Waiting(f.tab) : r = Retried(q, jar') BY <3>2
    <3> QED BY <2>2, <3>1, <3>3
  <2>4. \A u \in Tab : Steady(u)' => Steady(u) BY <2>2 DEF Steady
  <2>5. \A u \in Tab : Steady(u)' => Own(u)' BY <2>2, <2>3, <2>4 DEF Own, Renewing
  <2> QED BY <2>2, <2>5 DEF Renewing
<1>12. ASSUME NEW f \in flights, RefreshRefused(f) PROVE Renewing'
  BY <1>12, RenewingGivenUp DEF RefreshRefused
<1>13. ASSUME NEW f \in flights, RefreshDropped(f) PROVE Renewing'
  BY <1>13, RenewingGivenUp DEF RefreshDropped
<1>14. CASE Expires
  <2>1. jar'.refresh = jar.refresh BY <1>14 DEF Expires, IInv, TypeOK
  <2> QED BY <1>14, <2>1, Unmoved DEF Expires
<1>15. CASE UNCHANGED vars BY <1>15, Unmoved DEF vars
<1> QED BY <1>1, <1>2, <1>3, <1>4, <1>5, <1>6, <1>7, <1>8, <1>9, <1>10, <1>11, <1>12, <1>13,
           <1>14, <1>15
    DEF Next, TabStep, Resolves, Renewal, Mine

LEMMA Holds == Spec => [](IInv /\ Renewing)
<1>1. Init => IInv /\ Renewing
  BY Starts, PageAssumption DEF Init, Renewing, Steady, Empty, None
<1>2. IInv /\ Renewing /\ [Next]_vars => (IInv /\ Renewing)' BY Step, RenewingStep
<1> QED BY <1>1, <1>2, PTL DEF Spec

---------------------------------------------------------------------------

\* The shape of the state; a tab that is loading has asked who is there.
THEOREM TypeCorrect == Spec => []TypeOK
<1>1. IInv => TypeOK BY DEF IInv
<1> QED BY <1>1, Holds, PTL

\* Every tab has one refresh at most under way, and whatever waits has one.
THEOREM RefreshIsShared == Spec => []OneRefresh
<1>1. IInv => OneRefresh
  <2> SUFFICES ASSUME IInv, NEW t \in Tab
               PROVE  Cardinality(Mine(t)) <= 1 /\ (Waiting(t) # {} => Mine(t) # {})
    BY DEF OneRefresh, IInv
  <2>1. CASE Mine(t) = {} BY <2>1, FS_EmptySet DEF IInv, Shared, Waiting, Mine
  <2>2. CASE Mine(t) # {}
    <3>1. PICK f : f \in Mine(t) BY <2>2
    <3>2. Mine(t) = {f} BY <3>1 DEF IInv, Shared, Mine
    <3> QED BY <2>2, <3>2, FS_Singleton
  <2> QED BY <2>1, <2>2
<1> QED BY <1>1, Holds, PTL

\* Of the answers that were given to the session that asked for them, a tab has in its
\* cache only those of the session it shows, however a session ends: every way out
\* empties the cache and disowns what is under way.  Not covered are the answers that
\* are not owned (other cookies, or a mutation that ended late) and the tab whose
\* profile one of those has written.
THEOREM CachesAreOwn == Spec => []CacheIsOwn
<1>1. IInv => CacheIsOwn BY DEF IInv, Cached, CacheIsOwn
<1> QED BY <1>1, Holds, PTL

\* The page of a good session is loaded again by its operator, or after a refresh
\* without an answer, and by nothing else.
THEOREM NobodyIsThrownOut == Spec => GoodSessionStays
<1>1. ASSUME IInv, Renewing, [Next]_vars, NEW t \in Tab, Thrown(t)
      PROVE  tabs[t].behind \/ tabs[t].stray
  <2> SUFFICES ASSUME ~tabs[t].behind, ~tabs[t].stray PROVE FALSE OBVIOUS
  <2>1. tabs \in [Tab -> TabType] BY <1>1 DEF IInv, TypeOK, TabType
  <2>2. Own(t) BY <1>1 DEF Renewing, Steady, Thrown
  <2>3. tabs[t].user \in open' /\ ~tabs[t].loading /\ tabs'[t].loading BY <1>1 DEF Thrown
  <2>4. \A u \in Tab : tabs' = Forgets(u) => FALSE
    BY <2>1, <2>3 DEF Forgets, Empty
  <2>5. \A u \in Tab : tabs' = Loading(u) => u = t BY <2>1, <2>3 DEF Loading, Empty
  <2>6. ASSUME NEW f \in flights, RefreshRefused(f) PROVE FALSE
    <3>1. f.tab = t BY <1>1, <2>4, <2>5, <2>6 DEF RefreshRefused, GivesUp, IInv, TypeOK
    <3>2. f.refresh = tabs[t].user /\ f.refresh # None BY <1>1, <2>2, <3>1 DEF Own, Thrown
    <3>3. f.refresh \in open BY <2>3, <2>6, <3>2 DEF RefreshRefused
    <3>4. open' = open \ {f.refresh} BY <2>6, <3>2, <3>3 DEF RefreshRefused, Renews
    <3> QED BY <2>3, <3>2, <3>4
  <2>7. ASSUME NEW q \in reqs, RefusedAgain(q) PROVE FALSE
    <3>1. q.tab \in Tab BY <1>1 DEF IInv, TypeOK, RequestType
    <3>2. q.kind # "me" /\ q.tab = t BY <2>4, <2>5, <2>7, <3>1 DEF RefusedAgain
    <3>3. q.access = tabs[t].user BY <2>2, <2>7, <3>2 DEF Own, RefusedAgain, Asking
    <3> QED BY <2>3, <2>7, <3>3 DEF RefusedAgain, Accepted
  <2>8. ASSUME NEW q \in reqs, Answered(q) PROVE FALSE
    <3>1. q.tab \in Tab BY <1>1 DEF IInv, TypeOK, RequestType
    <3> QED BY <2>1, <2>3, <2>8, <3>1 DEF Answered, Lands, Caches, Profiles, TabType
  <2>9. ASSUME NEW q \in reqs, LoggedIn(q) PROVE FALSE
    <3>1. q.tab \in Tab BY <1>1 DEF IInv, TypeOK, RequestType
    <3> QED BY <2>1, <2>3, <2>9, <3>1 DEF LoggedIn, TabType
  <2>10. ASSUME NEW u \in Tab, Reload(u) PROVE FALSE
    BY <1>1, <2>5, <2>10 DEF Reload, Thrown
  <2>11. ASSUME NEW u \in Tab, Logout(u) PROVE FALSE BY <2>4, <2>11 DEF Logout
  <2>12. ASSUME NEW q \in reqs, Dropped(q) PROVE FALSE
    <3>1. q.tab \in Tab BY <1>1 DEF IInv, TypeOK, RequestType
    <3> QED BY <2>3, <2>4, <2>12, <3>1 DEF Dropped
  <2>13. ASSUME NEW f \in flights, RefreshDropped(f) PROVE FALSE
    BY <1>1, <2>13 DEF Thrown
  <2>14. CASE tabs' = tabs BY <2>3, <2>14
  <2> QED BY <1>1, <2>6, <2>7, <2>8, <2>9, <2>10, <2>11, <2>12, <2>13, <2>14
        DEF Next, TabStep, Resolves, Renewal, Mine, Asks, SubmitLogin, Refused, LoggedOut,
            Refreshed, Expires, vars
<1>2. IInv /\ Renewing /\ [Next]_vars
        => [\A t \in Tab : Thrown(t) => tabs[t].behind \/ tabs[t].stray]_vars
  BY <1>1
<1> QED BY <1>2, Holds, PTL DEF Spec, GoodSessionStays
=============================================================================
