---------------------------- MODULE AuthSessions ----------------------------
(***************************************************************************)
(* The sessions of one account: login, refresh, logout and change of       *)
(* password (backend/routers/auth.py) over Cognito's refresh tokens, the   *)
(* table token_session (backend/token_sessions.py), the denylist and the   *)
(* cookies of the account's browser.  A session is a refresh token and its *)
(* origin_jti, a token an access token and its jti.                        *)
(*                                                                         *)
(* Every call to Cognito and every commit is a step of its own, because    *)
(* several requests run at once, and a request may be under way while the  *)
(* clock goes on.  The denylist is the one TokenDenylist promises: every   *)
(* process learns of a revocation in the end, none knows when.             *)
(***************************************************************************)
EXTENDS Integers

CONSTANTS Browser,      \* the User-Agents its browser may go by
          Session,      \* sessions Cognito may open
          Token,        \* access tokens it may mint
          Request,      \* requests in flight at once
          AccessLife,   \* validity of an access token, and age of its cookie
          Leeway,       \* _CLOCK_SKEW_LEEWAY
          AnchorExpiry, \* when the thirty days of every session are over
          MaxTime,      \* bound: the clock, which stops before
          Across        \* bound: the steps a request may be at when the clock moves

ASSUME TimesAssumption ==
  /\ AccessLife \in Nat \ {0} /\ Leeway \in Nat /\ MaxTime \in Nat
  /\ AnchorExpiry \in Nat /\ AnchorExpiry >= MaxTime + AccessLife
ASSUME NamesAssumption == Session \cap Token = {}

Id == Session \cup Token
Never == -1
NoBrowser == "no browser"
NoSession == "no session"
NoToken   == "no token"
ASSUME NothingAssumption == NoBrowser \notin Browser /\ NoSession \notin Session /\ NoToken \notin Token

VARIABLES
  now,
  upstream,  \* Cognito: each refresh token, "unborn", "live" or "revoked"
  token,     \* each access token: its session and its exp
  bound,     \* token_session: the browser in the row of each jti and origin_jti
  denied,    \* revoked_jti: the expiry of each row, Never for no row
  fresh,     \* what was denied, and some process may not know yet
  browser,   \* the User-Agent the account's browser sends
  jar,       \* its cookies, and when the access cookie goes
  req,       \* the requests in flight
  closed,    \* the sessions once closed on both sides (history)
  late,      \* the tokens minted while their session was denied (history)
  slipped    \* those of them a refresh let through all the same (history)

cognito == <<upstream, token>>
list    == <<denied, fresh>>
client  == <<browser, jar>>
vars    == <<now, upstream, token, bound, denied, fresh, browser, jar, req, closed, late, slipped>>

Cookies(t, when, s) == [access |-> t, until |-> when, session |-> s]
Empty == Cookies(NoToken, 0, NoSession)
At(pc, b, t, s) == [pc |-> pc, by |-> b, access |-> t, session |-> s]

Init ==
  /\ now = 0
  /\ upstream = [s \in Session |-> "unborn"]
  /\ token = [t \in Token |-> [of |-> NoSession, exp |-> 0]]
  /\ bound = [i \in Id |-> NoBrowser]
  /\ denied = [i \in Id |-> Never] /\ fresh = {}
  /\ browser \in Browser /\ jar = Empty
  /\ req = [q \in Request |-> At("idle", NoBrowser, NoToken, NoSession)]
  /\ closed = {} /\ late = {} /\ slipped = {}

---------------------------------------------------------------------------
(* The pieces the endpoints share.                                         *)

AccessCookie == jar.access

\* verify_access_token
Verifies(t) == t # NoToken /\ now < token[t].exp + Leeway

\* is_jti_revoked may say yes of what is in the table, and says yes of what
\* every process knows of.
MayRefuse(t)  == \E i \in {t, token[t].of} : denied[i] >= now
MustRefuse(t) == \E i \in {t, token[t].of} : denied[i] > now /\ i \notin fresh

\* revoke_jtis: what is there already keeps its expiry, what expired goes.
RevokeJtis(entries) ==
  /\ denied' = [i \in Id |-> IF denied[i] >= now THEN denied[i]
                             ELSE IF i \in DOMAIN entries THEN entries[i] ELSE Never]
  /\ fresh' = fresh \cup {i \in DOMAIN entries : denied[i] < now}

RevocationEntries(t) ==
  [i \in {t, token[t].of} |-> IF i = t THEN token[t].exp ELSE now + AccessLife]

\* The expired rows of token_session, which every bind throws away.
Purged(rows) == [i \in Id |-> IF i \in Token /\ token[i].exp < now THEN NoBrowser ELSE rows[i]]

\* bind_access_token: a row that exists keeps the browser it was made with.
BindAccessToken(q) ==
  bound' = [i \in Id |->
    IF i \in {req[q].access, req[q].session} /\ Purged(bound)[i] = NoBrowser
    THEN req[q].by ELSE Purged(bound)[i]]

\* A request moves on with all it knows, or with what it will need.
Becomes(q, pc, b, t, s) == req' = [req EXCEPT ![q] = At(pc, b, t, s)]
Goes(q, pc)   == Becomes(q, pc, req[q].by, req[q].access, req[q].session)
Leaves(q, pc) == Becomes(q, pc, NoBrowser, req[q].access, req[q].session)
ToRevoke(q)   == Becomes(q, "revoke", NoBrowser, NoToken, req[q].session)
ToMint(q)     == Becomes(q, "mint", req[q].by, NoToken, req[q].session)
ToClear(q)    == Becomes(q, "clear", NoBrowser, NoToken, NoSession)
Ends(q)       == Becomes(q, "idle", NoBrowser, NoToken, NoSession)

\* Cognito mints token t for session s; the request carries both from here.
Mints(q, pc, b, t, s) ==
  /\ token[t].of = NoSession
  /\ token' = [token EXCEPT ![t] = [of |-> s, exp |-> now + AccessLife]]
  /\ Becomes(q, pc, b, t, s)

\* revoke_refresh_token: done, or an error that is logged.
Revokes(s) ==
  \/ UNCHANGED upstream
  \/ s # NoSession /\ upstream' = [upstream EXCEPT ![s] = "revoked"]

---------------------------------------------------------------------------
(* POST /login, and what POST /new-password does once Cognito has agreed.  *)

Opens(q, b, s, t) ==
  /\ upstream[s] = "unborn"
  /\ upstream' = [upstream EXCEPT ![s] = "live"]
  /\ Mints(q, "bindLogin", b, t, s)
  /\ UNCHANGED <<now, bound, list, client>>

Login(q, s, t) == req[q].pc = "idle" /\ Opens(q, browser, s, t)

\* _bind_fresh_token: without Cognito's keys nothing is recorded.
BindLogin(q) ==
  /\ req[q].pc = "bindLogin"
  /\ BindAccessToken(q) \/ UNCHANGED bound
  /\ Leaves(q, "replyLogin")
  /\ UNCHANGED <<now, cognito, list, client>>

ReplyLogin(q) ==
  /\ req[q].pc = "replyLogin"
  /\ jar' = Cookies(req[q].access, now + AccessLife, req[q].session)
  /\ Ends(q)
  /\ UNCHANGED <<now, cognito, bound, list, browser>>

---------------------------------------------------------------------------
(* POST /refresh                                                           *)

Refresh(q) ==
  /\ req[q].pc = "idle" /\ jar.session # NoSession
  /\ Becomes(q, IF AccessCookie = NoToken THEN "mint" ELSE "precheck",
             browser, AccessCookie, jar.session)
  /\ UNCHANGED <<now, cognito, bound, list, client>>

\* The old access token: denied, in the wrong browser, or in order, which one
\* that cannot be read for want of Cognito's keys counts as.
Precheck(q) ==
  LET t == req[q].access IN
  /\ req[q].pc = "precheck"
  /\ \/ MayRefuse(t) /\ ToRevoke(q) /\ UNCHANGED list
     \/ ~MustRefuse(t) /\ bound[t] # req[q].by /\ ToRevoke(q)
        /\ RevokeJtis(RevocationEntries(t))
     \/ ToMint(q) /\ UNCHANGED list
  /\ UNCHANGED <<now, cognito, bound, client>>

RefreshMints(q, t) ==
  /\ req[q].pc = "mint" /\ upstream[req[q].session] = "live"
  /\ Mints(q, "postcheck", req[q].by, t, req[q].session)
  /\ UNCHANGED <<now, upstream, bound, list, client>>

RefreshRefused(q) ==
  /\ req[q].pc = "mint" /\ ToClear(q)
  /\ UNCHANGED <<now, cognito, bound, list, client>>

\* Broken on purpose: the new token is not looked up in the denylist.
PostcheckTrusts(q) ==
  LET t == req[q].access IN
  /\ req[q].pc = "postcheck"
  /\ \/ bound[req[q].session] # req[q].by /\ ToRevoke(q) /\ RevokeJtis(RevocationEntries(t))
     \/ bound[req[q].session] = req[q].by /\ Goes(q, "bind") /\ UNCHANGED list
  /\ UNCHANGED <<now, cognito, bound, client>>

\* Broken on purpose: the new token is not held against the anchor.
PostcheckSkipsAnchor(q) ==
  LET t == req[q].access IN
  /\ req[q].pc = "postcheck"
  /\ \/ MayRefuse(t) /\ ToRevoke(q)
     \/ ~MustRefuse(t) /\ Goes(q, "bind")
  /\ UNCHANGED <<now, cognito, bound, list, client>>

\* The new one: its session denied meanwhile, anchored elsewhere, or in order.
Postcheck(q) ==
  LET t == req[q].access IN
  /\ req[q].pc = "postcheck"
  /\ \/ MayRefuse(t) /\ ToRevoke(q) /\ UNCHANGED list
     \/ ~MustRefuse(t) /\ bound[req[q].session] # req[q].by /\ ToRevoke(q)
        /\ RevokeJtis(RevocationEntries(t))
     \/ ~MustRefuse(t) /\ bound[req[q].session] = req[q].by /\ Goes(q, "bind") /\ UNCHANGED list
  /\ UNCHANGED <<now, cognito, bound, client>>

BindRefresh(q) ==
  /\ req[q].pc = "bind"
  /\ BindAccessToken(q) /\ Leaves(q, "replyRefresh")
  /\ UNCHANGED <<now, cognito, list, client>>

\* Only the access cookie is set.
ReplyRefresh(q) ==
  /\ req[q].pc = "replyRefresh"
  /\ jar' = Cookies(req[q].access, now + AccessLife, jar.session)
  /\ Ends(q)
  /\ UNCHANGED <<now, cognito, bound, list, browser>>

\* A rejected refresh: upstream, then the cookies.
RevokeRejected(q) ==
  /\ req[q].pc = "revoke" /\ Revokes(req[q].session) /\ ToClear(q)
  /\ UNCHANGED <<now, token, bound, list, client>>

ClearCookies(q) ==
  /\ req[q].pc = "clear"
  /\ jar' = Empty
  /\ Ends(q)
  /\ UNCHANGED <<now, cognito, bound, list, browser>>

---------------------------------------------------------------------------
(* POST /logout                                                            *)

Logout(q) ==
  /\ req[q].pc = "idle"
  /\ Revokes(jar.session)
  /\ Becomes(q, "deny", NoBrowser, AccessCookie, NoSession)
  /\ UNCHANGED <<now, token, bound, list, client>>

\* _denylist_access_token: an expired token, or none, or an error, denies nothing.
LogoutDenies(q) ==
  LET t == req[q].access IN
  /\ req[q].pc = "deny"
  /\ \/ Verifies(t) /\ RevokeJtis(RevocationEntries(t))
     \/ UNCHANGED list
  /\ ToClear(q)
  /\ UNCHANGED <<now, cognito, bound, client>>

---------------------------------------------------------------------------
(* Every other request, and POST /change-password.                         *)

Accepts ==
  LET t == AccessCookie IN Verifies(t) /\ ~MustRefuse(t) /\ bound[t] = browser

\* enforce_session_binding: a token out of its browser takes its session down.
OutOfPlace ==
  LET t == AccessCookie IN
  /\ Verifies(t) /\ ~MustRefuse(t) /\ bound[t] # browser
  /\ RevokeJtis(RevocationEntries(t))
  /\ UNCHANGED <<now, cognito, bound, client, req>>

\* Cognito has taken the new password.
ChangePassword(q) ==
  /\ req[q].pc = "idle" /\ Accepts
  /\ Becomes(q, "closeAll", browser, NoToken, NoSession)
  /\ UNCHANGED <<now, cognito, bound, list, client>>

RowExpiry(i) == IF i \in Token THEN token[i].exp ELSE AnchorExpiry

\* revoke_user_sessions: every row of the account, with the row's own expiry.
CloseAll(q) ==
  /\ req[q].pc = "closeAll"
  /\ RevokeJtis([i \in {j \in Id : bound[j] # NoBrowser /\ RowExpiry(j) > now} |-> RowExpiry(i)])
  /\ Goes(q, "signOut")
  /\ UNCHANGED <<now, cognito, bound, client>>

\* global_sign_out: every refresh token of the account, or an error in the log.
SignOut(q) ==
  /\ req[q].pc = "signOut"
  /\ \/ upstream' = [s \in Session |-> IF upstream[s] = "live" THEN "revoked" ELSE upstream[s]]
     \/ UNCHANGED upstream
  /\ Goes(q, "reopen")
  /\ UNCHANGED <<now, token, bound, list, client>>

Reopen(q, s, t) == req[q].pc = "reopen" /\ Opens(q, req[q].by, s, t)

ReopenFails(q) ==
  /\ req[q].pc = "reopen" /\ ToClear(q)
  /\ UNCHANGED <<now, cognito, bound, list, client>>

---------------------------------------------------------------------------
\* A request ends with its process, or its answer is lost, or a locked
\* account gets no cookies from its login.
Dies(q) ==
  /\ req[q].pc # "idle" /\ Ends(q)
  /\ UNCHANGED <<now, cognito, bound, list, client>>

\* housekeeping._purge_expired_sessions
Sweep ==
  /\ bound' = Purged(bound)
  /\ denied' = [i \in Id |-> IF denied[i] < now THEN Never ELSE denied[i]]
  /\ UNCHANGED <<now, cognito, fresh, client, req>>

\* The last process has reloaded its snapshot since session s and its tokens
\* were denied.
Known(s) ==
  /\ s \in fresh
  /\ fresh' = fresh \ ({s} \cup {t \in Token : token[t].of = s})
  /\ UNCHANGED <<now, cognito, bound, denied, client, req>>

\* Whatever is under way, between any two of its steps.  The browser drops
\* the access cookie when its age is over.
Tick ==
  /\ now < MaxTime /\ now' = now + 1
  /\ \A q \in Request : req[q].pc \in Across
  /\ fresh' = {i \in fresh : denied[i] >= now'}
  /\ jar' = IF jar.until <= now' THEN Cookies(NoToken, 0, jar.session) ELSE jar
  /\ UNCHANGED <<cognito, bound, denied, browser, req>>

\* The browser updates itself, or is asked for the desktop site: the same
\* cookies, another User-Agent.
Updates(b) ==
  /\ b # browser /\ browser' = b
  /\ UNCHANGED <<now, cognito, bound, list, jar, req>>

RequestStep(q) ==
  \/ BindLogin(q) \/ ReplyLogin(q)
  \/ Precheck(q) \/ RefreshRefused(q) \/ Postcheck(q) \/ BindRefresh(q) \/ ReplyRefresh(q)
  \/ RevokeRejected(q) \/ ClearCookies(q) \/ LogoutDenies(q)
  \/ CloseAll(q) \/ SignOut(q) \/ ReopenFails(q) \/ Dies(q)

Step ==
  \/ \E q \in Request : RequestStep(q)
  \/ \E q \in Request : Refresh(q) \/ Logout(q) \/ ChangePassword(q)
  \/ \E q \in Request, t \in Token : RefreshMints(q, t)
  \/ \E q \in Request, s \in Session, t \in Token : Login(q, s, t) \/ Reopen(q, s, t)
  \/ OutOfPlace \/ \E b \in Browser : Updates(b)
  \/ Sweep \/ Tick \/ \E s \in Session : Known(s)

\* The refresh that was given token t lets it through, as a process may that
\* does not know of a denial, or looks when the denial has run out.
LetThrough(t) ==
  ~MustRefuse(t) /\ \E q \in Request : /\ req[q].pc = "postcheck" /\ req[q].access = t
                                       /\ req'[q].pc = "bind"

\* The sessions closed on both sides: Cognito renews them no more, and the
\* denylist has them.  The tokens Cognito gave for a session that was denied.
Remembers ==
  /\ closed' = closed \cup {s \in Session : upstream'[s] = "revoked" /\ denied'[s] > now'}
  /\ late' = late \cup {t \in Token : token'[t] # token[t] /\ denied[token'[t].of] > now}
  /\ slipped' = slipped \cup {t \in late : LetThrough(t)}

Next == Step /\ Remembers

Spec == Init /\ [][Next]_vars

---------------------------------------------------------------------------
(* What is checked.                                                        *)

RequestPc == {"idle", "bindLogin", "replyLogin", "precheck", "mint", "postcheck", "bind",
              "replyRefresh", "revoke", "clear", "deny", "closeAll", "signOut", "reopen"}
TokenType   == [of : Session \cup {NoSession}, exp : Nat]
JarType     == [access : Token \cup {NoToken}, until : Nat, session : Session \cup {NoSession}]
RequestType == [pc : RequestPc, by : Browser \cup {NoBrowser},
                access : Token \cup {NoToken}, session : Session \cup {NoSession}]

\* Every variable holds a value of its shape.
TypeOK ==
  /\ now \in Nat
  /\ upstream \in [Session -> {"unborn", "live", "revoked"}]
  /\ token \in [Token -> TokenType]
  /\ bound \in [Id -> Browser \cup {NoBrowser}]
  /\ denied \in [Id -> Nat \cup {Never}] /\ fresh \subseteq Id
  /\ browser \in Browser /\ jar \in JarType /\ req \in [Request -> RequestType]
  /\ closed \subseteq Session /\ late \subseteq Token /\ slipped \subseteq Token

\* Token t would be taken from some browser, if its exp is read with leeway l.
Honoured(t, l) ==
  token[t].of # NoSession /\ now < token[t].exp + l /\ bound[t] # NoBrowser /\ ~MustRefuse(t)

\* A session that was closed on both sides stays closed, whatever refreshes,
\* logins, logouts and purges were under way: when every process knows of it,
\* no token of it that has not expired is taken again, the denylist entry
\* having gone or not.  One way round there is, and only one: a token minted
\* when the session was denied already and not yet revoked at Cognito, let
\* through by a refresh whose process did not know of the denial or looked
\* after it had run out; it may outlive the denial, which was made for tokens
\* older than it (routers/auth.py:471-484, 536-555, token_sessions.py:73-85, 125-149).
ClosedStaysClosed ==
  \A t \in Token : Honoured(t, 0) /\ token[t].of \in closed =>
    token[t].of \in fresh \/ t \in slipped

\* A token that was bound is bound to the browser its session was opened in,
\* whichever browsers, refreshes and rejections came between: a refresh is no
\* way to carry a session elsewhere (routers/auth.py:431-434, 508-517;
\* token_sessions.py:88-122).
TokensFollowTheAnchor ==
  \A t \in Token : bound[t] # NoBrowser => bound[t] = bound[token[t].of]
=============================================================================
