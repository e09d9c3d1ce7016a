----------------------------- MODULE PageSession -----------------------------
(***************************************************************************)
(* Who the pages of one browser believe is there (AuthProvider.tsx), and   *)
(* how a request survives the end of an access token (api.ts, auth.ts): a  *)
(* 401 waits for the one refresh of its page and is sent again, once; a    *)
(* second 401 reloads the page.  The tabs share the cookies, which only    *)
(* the server's answers change, in the order in which they arrive; the     *)
(* profile, the cache of the readings and the refresh are of each tab.     *)
(***************************************************************************)
EXTENDS Naturals, FiniteSets

CONSTANTS Tab,          \* tabs of the browser
          Followed,     \* those whose calls are followed to their end
          MaxSessions,  \* logins
          MaxRequests   \* requests under way at once

ASSUME PageAssumption ==
  Followed \subseteq Tab /\ {MaxSessions, MaxRequests} \subseteq Nat \ {0}

Session == 1..MaxSessions
None == 0

VARIABLES
  jar,      \* the session of each of the two cookies
  open,     \* the sessions the server has begun and not revoked
  opened,   \* how many it has begun
  tabs,     \* each tab: the user it shows, whether it is loading, its cache
  reqs,     \* the requests under way
  flights   \* the refreshes under way

vars == <<jar, open, opened, tabs, reqs, flights>>

Empty == [user |-> None, loading |-> FALSE, cache |-> {}, stray |-> FALSE, behind |-> FALSE]

Init ==
  /\ jar = [access |-> None, refresh |-> None]
  /\ open = {} /\ opened = 0
  /\ tabs = [t \in Tab |-> Empty]
  /\ reqs = {} /\ flights = {}

---------------------------------------------------------------------------
(* Sending.                                                                *)

Room == Cardinality(reqs) < MaxRequests

\* The browser attaches the cookies it holds.  "asker" is the session the tab shows
\* when it sends a reading or a mutation, until the tab forgets it (history).
Sent(t, kind, cookies) ==
  [pc |-> "sent", kind |-> kind, tab |-> t, access |-> cookies.access,
   refresh |-> IF kind = "logout" THEN cookies.refresh ELSE None, again |-> FALSE,
   asker |-> IF kind \in {"read", "write"} THEN tabs[t].user ELSE None]

\* A reading, or a mutation.
Asks(t, kind) ==
  /\ tabs[t].user # None /\ ~tabs[t].loading /\ Room
  /\ reqs' = reqs \cup {Sent(t, kind, jar)}
  /\ UNCHANGED <<jar, open, opened, tabs, flights>>

SubmitLogin(t) ==
  /\ tabs[t].user = None /\ ~tabs[t].loading /\ opened < MaxSessions /\ Room
  /\ ~\E q \in reqs : q.kind = "login" /\ q.tab = t
  /\ reqs' = reqs \cup {Sent(t, "login", [access |-> None, refresh |-> None])}
  /\ UNCHANGED <<jar, open, opened, tabs, flights>>

\* Broken on purpose: the cache outlives the session.
KeepsCache(t) == [tabs EXCEPT ![t].user = None]

\* forgetSession.
Forgets(t) == [tabs EXCEPT ![t] = Empty]

\* What is under way of that tab finds nobody.
Orphaned(q) == [q EXCEPT !.asker = None]
Orphans(t) == {IF q.tab = t THEN Orphaned(q) ELSE q : q \in reqs}

\* The page does not wait for the server.
Logout(t) ==
  /\ tabs[t].user # None /\ ~tabs[t].loading /\ Room
  /\ tabs' = Forgets(t)
  /\ reqs' = Orphans(t) \cup {Orphaned(Sent(t, "logout", jar))}
  /\ UNCHANGED <<jar, open, opened, flights>>

\* A page that loads asks who is there: all the old one had is gone with it, but the
\* logout the server may have received.
Loading(t) == [tabs EXCEPT ![t] = [Empty EXCEPT !.loading = TRUE]]

Reloaded(t, cookies) ==
  {q \in reqs : q.tab # t \/ q.kind = "logout"} \cup {Sent(t, "me", cookies)}

Mine(t) == {f \in flights : f.tab = t}

Reload(t) ==
  /\ ~tabs[t].loading /\ Room
  /\ tabs' = Loading(t) /\ reqs' = Reloaded(t, jar) /\ flights' = flights \ Mine(t)
  /\ UNCHANGED <<jar, open, opened>>

---------------------------------------------------------------------------
(* Answers.                                                                *)

Accepted(q) == q.access \in open

\* Whether the answer is of the session that asked for it, and that is still shown:
\* it is not if the request left with the cookies of somebody else, or ended after
\* its session had been forgotten.
Owned(q) == q.access = q.asker

\* The cache, as far as it is owned.
Caches(q) ==
  tabs' = IF Owned(q) THEN [tabs EXCEPT ![q.tab].cache = @ \cup {q.access}] ELSE tabs

\* "stray" is a tab whose profile an answer that is not owned has written (history).
Profiles(q) ==
  tabs' = [tabs EXCEPT ![q.tab].user = q.access, ![q.tab].stray = @ \/ ~Owned(q)]

\* A reading of a cache that was cleared lands nowhere; the callbacks of a mutation,
\* which write the cache or the profile, are called all the same.
Lands(q) ==
  \/ /\ q.kind = "me"
     /\ tabs' = [tabs EXCEPT ![q.tab].user = q.access, ![q.tab].loading = FALSE]
  \/ q.kind = "read" /\ IF q.asker # None THEN Caches(q) ELSE UNCHANGED tabs
  \/ q.kind = "write" /\ (Caches(q) \/ Profiles(q))

Asking == {"me", "read", "write"}

Answered(q) ==
  /\ q.pc = "sent" /\ q.kind \in Asking /\ Accepted(q)
  /\ Lands(q) /\ reqs' = reqs \ {q}
  /\ UNCHANGED <<jar, open, opened, flights>>

\* The network loses it: the caller reads an error.
Dropped(q) ==
  /\ q.pc = "sent"
  /\ tabs' = IF q.kind = "me" THEN Forgets(q.tab) ELSE tabs
  /\ reqs' = reqs \ {q}
  /\ UNCHANGED <<jar, open, opened, flights>>

Flight(t) == [tab |-> t, nth |-> Cardinality(Mine(t)) + 1,
              access |-> jar.access, refresh |-> jar.refresh]

\* Broken on purpose: every 401 opens a refresh of its own.
JoinsNone(t) == flights' = flights \cup {Flight(t)}

\* refreshSession: one at a time.
Joins(t) == flights' = IF Mine(t) # {} THEN flights ELSE flights \cup {Flight(t)}

\* 401, for the first time.
Refused(q) ==
  /\ q.pc = "sent" /\ q.kind \in Asking /\ ~Accepted(q) /\ ~q.again
  /\ reqs' = (reqs \ {q}) \cup {[q EXCEPT !.pc = "waits", !.access = None]}
  /\ Joins(q.tab)
  /\ UNCHANGED <<jar, open, opened, tabs>>

\* 401 again: the page is reloaded, or there was no session to begin with.
RefusedAgain(q) ==
  /\ q.pc = "sent" /\ q.kind \in Asking /\ ~Accepted(q) /\ q.again
  /\ IF q.kind = "me"
     THEN tabs' = Forgets(q.tab) /\ reqs' = reqs \ {q} /\ UNCHANGED flights
     ELSE /\ tabs' = Loading(q.tab) /\ reqs' = Reloaded(q.tab, jar)
          /\ flights' = flights \ Mine(q.tab)
  /\ UNCHANGED <<jar, open, opened>>

\* "behind" is a login that something of an earlier session is still under way.
LoggedIn(q) ==
  /\ q.pc = "sent" /\ q.kind = "login" /\ opened < MaxSessions
  /\ opened' = opened + 1 /\ open' = open \cup {opened + 1}
  /\ jar' = [access |-> opened + 1, refresh |-> opened + 1]
  /\ LET behind == flights # {} \/ reqs # {q} IN
     tabs' = [tabs EXCEPT ![q.tab].user = opened + 1, ![q.tab].behind = behind]
  /\ reqs' = reqs \ {q}
  /\ UNCHANGED flights

\* The refresh token is revoked, the access token and its session are denied, and the
\* cookies are cleared whoever they are of by now.
LoggedOut(q) ==
  /\ q.pc = "sent" /\ q.kind = "logout"
  /\ open' = open \ {q.access, q.refresh}
  /\ jar' = [access |-> None, refresh |-> None]
  /\ reqs' = reqs \ {q}
  /\ UNCHANGED <<opened, tabs, flights>>

\* The access cookie lasts an hour.
Expires ==
  /\ jar.access # None /\ jar' = [jar EXCEPT !.access = None]
  /\ UNCHANGED <<open, opened, tabs, reqs, flights>>

---------------------------------------------------------------------------
(* The refresh.                                                            *)

Waiting(t) == {q \in reqs : q.pc = "waits" /\ q.tab = t}

\* The old access token must be of a session nobody revoked, and so the refresh token.
Renews(f) == f.refresh \in open /\ f.access \in open \cup {None}

Retried(q, cookies) ==
  [q EXCEPT !.pc = "sent", !.again = TRUE, !.access = cookies.access]

\* Broken on purpose: what waited is sent with the cookies of before.
RefreshedStale(f) ==
  /\ Renews(f) /\ jar' = [jar EXCEPT !.access = f.refresh]
  /\ reqs' = (reqs \ Waiting(f.tab)) \cup {Retried(q, jar) : q \in Waiting(f.tab)}
  /\ flights' = flights \ {f}
  /\ UNCHANGED <<open, opened, tabs>>

\* Everything that waited is sent again.
Refreshed(f) ==
  /\ Renews(f) /\ jar' = [jar EXCEPT !.access = f.refresh]
  /\ reqs' = (reqs \ Waiting(f.tab)) \cup {Retried(q, jar') : q \in Waiting(f.tab)}
  /\ flights' = flights \ {f}
  /\ UNCHANGED <<open, opened, tabs>>

\* Broken on purpose: what waited is not told.
GivesUpQuietly(f, cookies) ==
  flights' = flights \ {f} /\ UNCHANGED <<tabs, reqs>>

\* Everything that waited keeps its 401: a page that has loaded is reloaded.
GivesUp(f, cookies) ==
  /\ flights' = flights \ {f}
  /\ IF \E q \in Waiting(f.tab) : q.kind # "me"
     THEN tabs' = Loading(f.tab) /\ reqs' = Reloaded(f.tab, cookies)
     ELSE tabs' = Forgets(f.tab) /\ reqs' = reqs \ Waiting(f.tab)

\* A refusal clears the cookies, but for a refresh without a refresh token; one that
\* shows the access token of a revoked session revokes the other token too.
RefreshRefused(f) ==
  /\ ~Renews(f)
  /\ open' = IF f.refresh # None /\ f.access \notin open \cup {None}
             THEN open \ {f.refresh} ELSE open
  /\ jar' = IF f.refresh = None THEN jar ELSE [access |-> None, refresh |-> None]
  /\ GivesUp(f, jar')
  /\ UNCHANGED opened

\* The network, or the limit of the refreshes.
RefreshDropped(f) ==
  /\ GivesUp(f, jar)
  /\ UNCHANGED <<jar, open, opened>>

TabStep(t) ==
  \/ \E kind \in {"read", "write"} : Asks(t, kind)
  \/ SubmitLogin(t) \/ Logout(t) \/ Reload(t)

Resolves(q) ==
  Answered(q) \/ Dropped(q) \/ Refused(q) \/ RefusedAgain(q) \/ LoggedIn(q) \/ LoggedOut(q)

Renewal(t) == \E f \in Mine(t) : Refreshed(f) \/ RefreshRefused(f) \/ RefreshDropped(f)

Next ==
  \/ \E t \in Tab : TabStep(t) \/ Renewal(t)
  \/ \E q \in reqs : Resolves(q)
  \/ Expires

\* Every call comes to an end.
Fairness ==
  \A t \in Followed :
    /\ WF_vars(\E q \in reqs : q.tab = t /\ q.kind = "me" /\ Resolves(q))
    /\ WF_vars(Renewal(t))

Spec == Init /\ [][Next]_vars
FairSpec == Spec /\ Fairness

---------------------------------------------------------------------------

RequestType ==
  [pc : {"sent", "waits"}, kind : Asking \cup {"login", "logout"}, tab : Tab,
   access : Session \cup {None}, refresh : Session \cup {None},
   again : BOOLEAN, asker : Session \cup {None}]

TypeOK ==
  /\ jar \in [access : Session \cup {None}, refresh : Session \cup {None}]
  /\ opened \in 0..MaxSessions /\ open \subseteq 1..opened
  /\ tabs \in [Tab -> [user : Session \cup {None}, loading : BOOLEAN,
                       cache : SUBSET Session, stray : BOOLEAN, behind : BOOLEAN]]
  /\ reqs \subseteq RequestType
  /\ \A t \in Tab : tabs[t].loading => \E q \in reqs : q.tab = t /\ q.kind = "me"
  /\ flights \subseteq [tab : Tab, nth : Nat, access : Session \cup {None},
                        refresh : Session \cup {None}]

\* "The refresh is one, for the whole page": at most one is under way, and whatever
\* had a 401 waits for one that is.
OneRefresh ==
  /\ TypeOK
  /\ \A t \in Tab : /\ Cardinality(Mine(t)) <= 1
                    /\ Waiting(t) # {} => Mine(t) # {}

\* "The answers that were downloaded are of whoever asked for them" (AuthProvider.tsx:
\* 73-83): an answer given to the session that asked for it is in the cache of a tab
\* only while the tab shows that session, whichever way the session ends.  It says
\* nothing of the answers that are not owned, which the code lets in: of a request
\* that left with the cookies of somebody else, and of a mutation that ended after
\* its session; nor of a tab whose profile one of these has written.
CacheIsOwn ==
  \A t \in Tab : tabs[t].cache \subseteq {tabs[t].user} \/ tabs[t].stray

\* A tab whose session is good, and with it the cookies, is loaded again only by its
\* operator or after a refresh that had no answer...
Thrown(t) ==
  /\ tabs[t].user # None /\ ~tabs[t].loading /\ tabs'[t].loading
  /\ tabs[t].user \in open' /\ jar.refresh = tabs[t].user
  /\ jar.access \in {None, tabs[t].user}
  /\ ~Reload(t)
  /\ ~\E f \in flights : RefreshDropped(f)

\* ...if nothing of an earlier session was still under way at its login.
GoodSessionStays == [][\A t \in Tab : Thrown(t) => tabs[t].behind \/ tabs[t].stray]_vars

\* Whatever waits for a refresh, and a page that asks who is there, have an answer.
WaitingEnds ==
  \A t \in Followed :
    (Waiting(t) # {} \/ tabs[t].loading) ~> (Waiting(t) = {} /\ ~tabs[t].loading)
=============================================================================
