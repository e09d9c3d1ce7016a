------------------------- MODULE AuthSessionsProofs -------------------------
(***************************************************************************)
(* AuthSessions for every number of User-Agents, sessions, tokens and      *)
(* requests and every value of the times: its type invariant, that tokens  *)
(* stay where their session was opened, and that closed sessions stay      *)
(* closed.                                                                 *)
(***************************************************************************)
EXTENDS AuthSessions, TLAPS

\* The requests that carry a token they were just given.
Holding == {"bindLogin", "replyLogin", "postcheck", "bind"}

\* Whatever is carried about was minted, of a session that was opened.
Minted ==
  /\ jar.access # NoToken => token[jar.access].of \in Session
  /\ \A q \in Request :
       /\ req[q].access # NoToken => token[req[q].access].of \in Session
       /\ req[q].pc \in Holding =>
            req[q].access # NoToken /\ token[req[q].access].of = req[q].session
       /\ req[q].pc = "precheck" => req[q].access # NoToken
       /\ req[q].pc \in {"precheck", "mint"} => req[q].session # NoSession
       /\ req[q].pc \in {"bindLogin", "precheck", "mint", "postcheck", "bind",
                         "closeAll", "signOut", "reopen"} => req[q].by # NoBrowser
  /\ \A t \in Token : bound[t] # NoBrowser => token[t].of # NoSession

\* A session nobody opened, and one whose login is not recorded yet, is known
\* to nobody else.
Unborn ==
  \A s \in Session : upstream[s] = "unborn" =>
    /\ bound[s] = NoBrowser /\ denied[s] = Never
    /\ jar.session # s
    /\ \A t \in Token : token[t].of # s
    /\ \A q \in Request : req[q].session # s

Private ==
  \A q \in Request : req[q].pc = "bindLogin" =>
    LET s == req[q].session IN
    /\ bound[s] = NoBrowser /\ denied[s] = Never
    /\ jar.session # s /\ jar.access # req[q].access
    /\ \A t \in Token : token[t].of = s => t = req[q].access
    /\ \A r \in Request \ {q} : req[r].session # s /\ req[r].access # req[q].access

\* What a refresh is about to bind was checked against the anchor.
Checked ==
  \A q \in Request : req[q].pc = "bind" => req[q].by = bound[req[q].session]

Anchored == Minted /\ Unborn /\ Private /\ Checked /\ TokensFollowTheAnchor

\* The token may be honoured, now or when its request is done.
Admitted(t) ==
  bound[t] # NoBrowser \/ \E q \in Request : req[q].pc = "bind" /\ req[q].access = t

\* How long tokens and denials last: a token outlives no denial that came
\* after it.
Lasting ==
  /\ now <= MaxTime
  /\ \A t \in Token : token[t].of # NoSession => token[t].exp <= now + AccessLife
  /\ \A t \in Token \ late : \A s \in Session :
       token[t].of = s /\ denied[s] > now => token[t].exp <= denied[s]

\* A token that came after the denial was let through by a refresh, or is not
\* admitted.
Slips ==
  /\ \A t \in late : token[t].of # NoSession
  /\ \A q \in Request : req[q].pc = "bindLogin" => req[q].access \notin late
  /\ \A t \in late : Admitted(t) => t \in slipped

\* What was closed is renewed no more, and its denial is outlived by none of
\* the tokens that came before it.
Sealed ==
  \A s \in closed :
    /\ upstream[s] = "revoked"
    /\ \A t \in Token \ late : token[t].of = s => token[t].exp <= now \/ denied[s] > now

IInv == TypeOK /\ Anchored /\ Lasting /\ Slips /\ Sealed

LEMMA InitTyped == Init => TypeOK
  BY TimesAssumption, NothingAssumption
  DEF Init, TypeOK, TokenType, JarType, RequestType, RequestPc, At, Empty, Cookies, Never, Id

\* What a revocation writes: rows with an expiry, those of sessions for long.
Entries(e) ==
  /\ DOMAIN e \subseteq Id
  /\ \A i \in DOMAIN e : e[i] \in Nat
  /\ \A s \in Session : s \in DOMAIN e => e[s] >= now + AccessLife

LEMMA RevocationEntriesTyped ==
  ASSUME TypeOK, NEW t \in Token, token[t].of \in Session
  PROVE  Entries(RevocationEntries(t)) /\ DOMAIN RevocationEntries(t) = {t, token[t].of}
  <1>1. token[t].exp \in Nat /\ now \in Nat BY DEF TypeOK, TokenType
  <1>2. t \notin Session BY NamesAssumption
  <1> QED BY <1>1, <1>2, TimesAssumption DEF Entries, RevocationEntries, Id

LEMMA RevokeTyped ==
  ASSUME TypeOK, NEW e, Entries(e), RevokeJtis(e)
  PROVE  denied' \in [Id -> Nat \cup {Never}] /\ fresh' \subseteq Id
  BY DEF TypeOK, Entries, RevokeJtis, Never

\* Request q is now at pc with by, access and session, and no other moved.
Became(q, pc, b, t, s) ==
  /\ req' \in [Request -> RequestType]
  /\ req'[q].pc = pc /\ req'[q].by = b /\ req'[q].access = t /\ req'[q].session = s
  /\ \A r \in Request \ {q} : req'[r] = req[r]

LEMMA Becoming ==
  ASSUME TypeOK, NEW q \in Request, NEW pc \in RequestPc, NEW b \in Browser \cup {NoBrowser},
         NEW t \in Token \cup {NoToken}, NEW s \in Session \cup {NoSession}, Becomes(q, pc, b, t, s)
  PROVE  Became(q, pc, b, t, s)
  <1>1. At(pc, b, t, s) \in RequestType BY DEF At, RequestType
  <1>2. req'[q] = At(pc, b, t, s) BY DEF TypeOK, Becomes
  <1>3. \A r \in Request \ {q} : req'[r] = req[r] BY DEF TypeOK, Becomes
  <1>4. req' \in [Request -> RequestType] BY <1>1 DEF TypeOK, Becomes
  <1> QED BY <1>2, <1>3, <1>4 DEF Became, At

LEMMA Moves ==
  ASSUME TypeOK, NEW q \in Request, NEW pc \in RequestPc
  PROVE  /\ Goes(q, pc) => Became(q, pc, req[q].by, req[q].access, req[q].session)
         /\ Leaves(q, pc) => Became(q, pc, NoBrowser, req[q].access, req[q].session)
         /\ ToRevoke(q) => Became(q, "revoke", NoBrowser, NoToken, req[q].session)
         /\ ToMint(q) => Became(q, "mint", req[q].by, NoToken, req[q].session)
         /\ ToClear(q) => Became(q, "clear", NoBrowser, NoToken, NoSession)
         /\ Ends(q) => Became(q, "idle", NoBrowser, NoToken, NoSession)
  <1>1. /\ req[q].by \in Browser \cup {NoBrowser} /\ req[q].access \in Token \cup {NoToken}
        /\ req[q].session \in Session \cup {NoSession}
    BY DEF TypeOK, RequestType
  <1>2. {"revoke", "mint", "clear", "idle"} \subseteq RequestPc BY DEF RequestPc
  <1>3. Goes(q, pc) => Became(q, pc, req[q].by, req[q].access, req[q].session)
    BY <1>1, Becoming DEF Goes
  <1>4. Leaves(q, pc) => Became(q, pc, NoBrowser, req[q].access, req[q].session)
    BY <1>1, Becoming DEF Leaves
  <1>5. ToMint(q) => Became(q, "mint", req[q].by, NoToken, req[q].session)
    BY <1>1, <1>2, Becoming DEF ToMint
  <1>6. ToClear(q) => Became(q, "clear", NoBrowser, NoToken, NoSession)
    BY <1>2, Becoming DEF ToClear
  <1>7. Ends(q) => Became(q, "idle", NoBrowser, NoToken, NoSession)
    BY <1>2, Becoming DEF Ends
  <1>8. ToRevoke(q) => Became(q, "revoke", NoBrowser, NoToken, req[q].session)
    BY <1>1, <1>2, Becoming DEF ToRevoke
  <1> QED BY <1>3, <1>4, <1>5, <1>6, <1>7, <1>8

LEMMA Binding ==
  ASSUME TypeOK, NEW q \in Request, BindAccessToken(q)
  PROVE  /\ bound' \in [Id -> Browser \cup {NoBrowser}]
         /\ \A i \in Id : i \notin {req[q].access, req[q].session} =>
              bound'[i] = bound[i] \/ (i \in Token /\ bound'[i] = NoBrowser)
         /\ \A i \in Id : i \in {req[q].access, req[q].session} => bound'[i] \in {bound[i], req[q].by}
         /\ \A s \in Session : bound[s] # NoBrowser => bound'[s] = bound[s]
         /\ \A s \in Session : s = req[q].session /\ bound[s] = NoBrowser => bound'[s] = req[q].by
  <1>1. req[q].by \in Browser \cup {NoBrowser} BY DEF TypeOK, RequestType
  <1>2. \A s \in Session : s \notin Token /\ s \in Id BY NamesAssumption DEF Id
  <1> QED BY <1>1, <1>2 DEF TypeOK, BindAccessToken, Purged

LEMMA Minting ==
  ASSUME TypeOK, NEW q \in Request, NEW pc \in RequestPc, NEW b \in Browser \cup {NoBrowser},
         NEW t \in Token, NEW s \in Session, Mints(q, pc, b, t, s)
  PROVE  /\ token' \in [Token -> TokenType] /\ Became(q, pc, b, t, s)
         /\ token'[t].of = s /\ token'[t].exp = now + AccessLife
         /\ \A u \in Token \ {t} : token'[u] = token[u]
  <1>1. [of |-> s, exp |-> now + AccessLife] \in TokenType
    BY TimesAssumption DEF TokenType, TypeOK
  <1>2. Became(q, pc, b, t, s) BY Becoming DEF Mints
  <1> QED BY <1>1, <1>2 DEF TypeOK, Mints

LEMMA Carried ==
  ASSUME IInv, NEW q \in Request
  PROVE  /\ req[q].by \in Browser \cup {NoBrowser} /\ req[q].access \in Token \cup {NoToken}
         /\ req[q].session \in Session \cup {NoSession}
         /\ AccessCookie \in Token \cup {NoToken} /\ jar.session \in Session \cup {NoSession}
         /\ AccessCookie # NoToken => token[AccessCookie].of \in Session
         /\ req[q].access # NoToken => token[req[q].access].of \in Session
         /\ req[q].pc \in Holding => /\ req[q].access \in Token /\ req[q].session \in Session
                                     /\ token[req[q].access].of = req[q].session
  BY DEF IInv, TypeOK, Anchored, Minted, RequestType, JarType, AccessCookie

LEMMA JarCarried ==
  ASSUME IInv
  PROVE  /\ AccessCookie \in Token \cup {NoToken} /\ jar.session \in Session \cup {NoSession}
         /\ AccessCookie # NoToken => token[AccessCookie].of \in Session
  BY DEF IInv, TypeOK, Anchored, Minted, JarType, AccessCookie

\* What each step does to the denylist.
Denies(e) ==
  Entries(e) /\ RevokeJtis(e)
ListStep ==
  \/ UNCHANGED <<now, list>>
  \/ now' = now /\ \E e : Denies(e)
  \/ now' = now /\ Sweep
  \/ now' = now /\ \E s \in Session : Known(s)
  \/ Tick

LEMMA ListTyped ==
  ASSUME TypeOK, ListStep
  PROVE  now' \in Nat /\ denied' \in [Id -> Nat \cup {Never}] /\ fresh' \subseteq Id
  <1>1. CASE UNCHANGED <<now, list>> BY <1>1 DEF TypeOK, list
  <1>2. CASE now' = now /\ \E e : Denies(e) BY <1>2, RevokeTyped DEF TypeOK, Denies
  <1>3. CASE now' = now /\ Sweep BY <1>3 DEF TypeOK, Sweep, Never
  <1>4. CASE now' = now /\ \E s \in Session : Known(s) BY <1>4 DEF TypeOK, Known
  <1>5. CASE Tick BY <1>5 DEF Tick, TypeOK
  <1> QED BY <1>1, <1>2, <1>3, <1>4, <1>5 DEF ListStep

LEMMA EntriesOfAllTyped ==
  ASSUME IInv
  PROVE  Entries([i \in {j \in Id : bound[j] # NoBrowser /\ RowExpiry(j) > now} |-> RowExpiry(i)])
  <1>1. now \in Nat /\ now <= MaxTime BY DEF IInv, TypeOK, Lasting
  <1>2. \A t \in Token : token[t].exp \in Nat BY DEF IInv, TypeOK, TokenType
  <1>3. \A s \in Session : s \notin Token BY NamesAssumption
  <1> QED BY <1>1, <1>2, <1>3, TimesAssumption DEF Entries, RowExpiry, Id

\* Every variable but closed has its type, and the denylist did what it may.
Typed ==
  /\ upstream' \in [Session -> {"unborn", "live", "revoked"}]
  /\ token' \in [Token -> TokenType]
  /\ bound' \in [Id -> Browser \cup {NoBrowser}]
  /\ browser' \in Browser /\ jar' \in JarType /\ req' \in [Request -> RequestType]
  /\ ListStep

LEMMA JarTyped ==
  ASSUME TypeOK, NEW t \in Token \cup {NoToken}, NEW s \in Session \cup {NoSession}
  PROVE  Cookies(t, now + AccessLife, s) \in JarType /\ Empty \in JarType
  BY TimesAssumption DEF TypeOK, Cookies, Empty, JarType

LEMMA StepTyped ==
  ASSUME IInv, Step PROVE Typed
  <1> TypeOK BY DEF IInv
  <1>0. /\ upstream \in [Session -> {"unborn", "live", "revoked"}] /\ token \in [Token -> TokenType]
        /\ bound \in [Id -> Browser \cup {NoBrowser}]
        /\ browser \in Browser /\ jar \in JarType /\ req \in [Request -> RequestType]
    BY DEF TypeOK
  <1> USE DEF cognito, client, list
  <1>1. ASSUME NEW q \in Request, BindLogin(q) PROVE Typed
    <2>1. req' \in [Request -> RequestType]
      BY <1>1, Moves DEF BindLogin, RequestPc, Became
    <2>2. bound' \in [Id -> Browser \cup {NoBrowser}] BY <1>0, <1>1, Binding DEF BindLogin
    <2> QED BY <1>0, <1>1, <2>1, <2>2 DEF BindLogin, Typed, ListStep
  <1>2. ASSUME NEW q \in Request, ReplyLogin(q) PROVE Typed
    <2>1. req' \in [Request -> RequestType]
      BY <1>2, Moves DEF ReplyLogin, RequestPc, Became
    <2>2. jar' \in JarType BY <1>2, Carried, JarTyped DEF ReplyLogin
    <2> QED BY <1>0, <1>2, <2>1, <2>2 DEF ReplyLogin, Typed, ListStep
  <1>3. ASSUME NEW q \in Request, Precheck(q) PROVE Typed
    <2>1. req' \in [Request -> RequestType]
      BY <1>3, Moves DEF Precheck, RequestPc, Became
    <2>2. RevokeJtis(RevocationEntries(req[q].access)) => ListStep
      <3>1. req[q].access \in Token /\ token[req[q].access].of \in Session
        BY <1>3, Carried DEF Precheck, Holding, IInv, Anchored, Minted, Verifies
      <3>2. now' = now BY <1>3 DEF Precheck
      <3> QED BY <3>1, <3>2, RevocationEntriesTyped DEF ListStep, Denies
    <2> QED BY <1>0, <1>3, <2>1, <2>2 DEF Precheck, Typed, ListStep
  <1>4. ASSUME NEW q \in Request, RefreshRefused(q) PROVE Typed
    <2>1. req' \in [Request -> RequestType]
      BY <1>4, Moves DEF RefreshRefused, RequestPc, Became
    <2> QED BY <1>0, <1>4, <2>1 DEF RefreshRefused, Typed, ListStep
  <1>5. ASSUME NEW q \in Request, Postcheck(q) PROVE Typed
    <2>1. req' \in [Request -> RequestType]
      BY <1>5, Moves DEF Postcheck, RequestPc, Became
    <2>2. RevokeJtis(RevocationEntries(req[q].access)) => ListStep
      <3>1. req[q].access \in Token /\ token[req[q].access].of \in Session
        BY <1>5, Carried DEF Postcheck, Holding, IInv, Anchored, Minted, Verifies
      <3>2. now' = now BY <1>5 DEF Postcheck
      <3> QED BY <3>1, <3>2, RevocationEntriesTyped DEF ListStep, Denies
    <2> QED BY <1>0, <1>5, <2>1, <2>2 DEF Postcheck, Typed, ListStep
  <1>6. ASSUME NEW q \in Request, BindRefresh(q) PROVE Typed
    <2>1. req' \in [Request -> RequestType]
      BY <1>6, Moves DEF BindRefresh, RequestPc, Became
    <2>2. bound' \in [Id -> Browser \cup {NoBrowser}] BY <1>6, Binding DEF BindRefresh
    <2> QED BY <1>0, <1>6, <2>1, <2>2 DEF BindRefresh, Typed, ListStep
  <1>7. ASSUME NEW q \in Request, ReplyRefresh(q) PROVE Typed
    <2>1. req' \in [Request -> RequestType]
      BY <1>7, Moves DEF ReplyRefresh, RequestPc, Became
    <2>2. jar' \in JarType BY <1>7, Carried, JarTyped DEF ReplyRefresh
    <2> QED BY <1>0, <1>7, <2>1, <2>2 DEF ReplyRefresh, Typed, ListStep
  <1>8. ASSUME NEW q \in Request, RevokeRejected(q) PROVE Typed
    <2>1. req' \in [Request -> RequestType]
      BY <1>8, Moves DEF RevokeRejected, RequestPc, Became
    <2> QED BY <1>0, <1>8, <2>1 DEF RevokeRejected, Typed, ListStep, Revokes
  <1>9. ASSUME NEW q \in Request, ClearCookies(q) PROVE Typed
    <2>1. req' \in [Request -> RequestType]
      BY <1>9, Moves DEF ClearCookies, RequestPc, Became
    <2>2. jar' \in JarType BY <1>9, JarTyped DEF ClearCookies
    <2> QED BY <1>0, <1>9, <2>1, <2>2 DEF ClearCookies, Typed, ListStep
  <1>10. ASSUME NEW q \in Request, LogoutDenies(q) PROVE Typed
    <2>1. req' \in [Request -> RequestType] BY <1>10, Moves DEF LogoutDenies, RequestPc, Became
    <2>2. now' = now /\ UNCHANGED <<cognito, bound, client>> BY <1>10 DEF LogoutDenies
    <2>3. ASSUME Verifies(req[q].access), RevokeJtis(RevocationEntries(req[q].access)) PROVE ListStep
      <3>1. req[q].access \in Token /\ token[req[q].access].of \in Session
        BY <2>3, Carried DEF Verifies
      <3> QED BY <2>2, <2>3, <3>1, RevocationEntriesTyped DEF ListStep, Denies
    <2>4. ListStep BY <1>10, <2>2, <2>3 DEF LogoutDenies, ListStep
    <2> QED BY <1>0, <2>1, <2>2, <2>4 DEF Typed
  <1>11. ASSUME NEW q \in Request, CloseAll(q) PROVE Typed
    <2>1. req' \in [Request -> RequestType]
      BY <1>11, Moves DEF CloseAll, RequestPc, Became
    <2>2. ListStep BY <1>11, EntriesOfAllTyped DEF CloseAll, ListStep, Denies
    <2> QED BY <1>0, <1>11, <2>1, <2>2 DEF CloseAll, Typed, ListStep
  <1>12. ASSUME NEW q \in Request, SignOut(q) PROVE Typed
    <2>1. req' \in [Request -> RequestType]
      BY <1>12, Moves DEF SignOut, RequestPc, Became
    <2> QED BY <1>0, <1>12, <2>1 DEF SignOut, Typed, ListStep
  <1>13. ASSUME NEW q \in Request, ReopenFails(q) PROVE Typed
    <2>1. req' \in [Request -> RequestType]
      BY <1>13, Moves DEF ReopenFails, RequestPc, Became
    <2> QED BY <1>0, <1>13, <2>1 DEF ReopenFails, Typed, ListStep
  <1>14. ASSUME NEW q \in Request, Dies(q) PROVE Typed
    <2>1. req' \in [Request -> RequestType]
      BY <1>14, Moves DEF Dies, RequestPc, Became
    <2> QED BY <1>0, <1>14, <2>1 DEF Dies, Typed, ListStep
  <1>15. ASSUME NEW q \in Request, Refresh(q) PROVE Typed
    <2>1. req' \in [Request -> RequestType]
      BY <1>0, <1>15, Becoming, Carried DEF Refresh, RequestPc, Became
    <2> QED BY <1>0, <1>15, <2>1 DEF Refresh, Typed, ListStep, Revokes
  <1>16. ASSUME NEW q \in Request, Logout(q) PROVE Typed
    <2>1. req' \in [Request -> RequestType]
      BY <1>0, <1>16, Becoming, Carried DEF Logout, RequestPc, Became
    <2> QED BY <1>0, <1>16, <2>1 DEF Logout, Typed, ListStep, Revokes
  <1>17. ASSUME NEW q \in Request, ChangePassword(q) PROVE Typed
    <2>1. req' \in [Request -> RequestType]
      BY <1>0, <1>17, Becoming, Carried DEF ChangePassword, RequestPc, Became
    <2> QED BY <1>0, <1>17, <2>1 DEF ChangePassword, Typed, ListStep, Revokes
  <1>18. ASSUME NEW q \in Request, NEW t \in Token, RefreshMints(q, t) PROVE Typed
    <2>1. req[q].session \in Session BY <1>18, Carried DEF IInv, Anchored, Minted, RefreshMints
    <2>2. /\ Mints(q, "postcheck", req[q].by, t, req[q].session) /\ "postcheck" \in RequestPc
          /\ req[q].by \in Browser \cup {NoBrowser}
      BY <1>18, Carried DEF RefreshMints, RequestPc
    <2>3. token' \in [Token -> TokenType] /\ req' \in [Request -> RequestType]
      BY <2>1, <2>2, Minting DEF Became
    <2> QED BY <1>0, <1>18, <2>3 DEF RefreshMints, Typed, ListStep
  <1>19. ASSUME NEW q \in Request, NEW b \in Browser \cup {NoBrowser}, NEW s \in Session, NEW t \in Token,
               Opens(q, b, s, t)
        PROVE Typed
    <2>1. token' \in [Token -> TokenType] /\ req' \in [Request -> RequestType]
      BY <1>19, Minting DEF Opens, RequestPc, Became
    <2> QED BY <1>0, <1>19, <2>1 DEF Opens, Typed, ListStep
  <1>20. ASSUME OutOfPlace PROVE Typed
    <2>1. AccessCookie \in Token /\ token[AccessCookie].of \in Session
      BY <1>20, JarCarried DEF OutOfPlace, Verifies
    <2>2. ListStep BY <1>20, <2>1, RevocationEntriesTyped DEF OutOfPlace, ListStep, Denies
    <2> QED BY <1>0, <1>20, <2>2 DEF OutOfPlace, Typed
  <1>21. ASSUME NEW b \in Browser, Updates(b) PROVE Typed
    BY <1>0, <1>21 DEF Updates, Typed, ListStep
  <1>22. ASSUME Sweep PROVE Typed
    <2>1. bound' \in [Id -> Browser \cup {NoBrowser}] BY <1>0, <1>22 DEF Sweep, Purged
    <2> QED BY <1>0, <1>22, <2>1 DEF Sweep, Typed, ListStep
  <1>23. ASSUME Tick PROVE Typed
    <2>1. jar' \in JarType BY <1>0, <1>23 DEF Tick, Cookies, JarType
    <2> QED BY <1>0, <1>23, <2>1 DEF Tick, Typed, ListStep
  <1>24. ASSUME NEW q \in Request, NEW s \in Session, NEW t \in Token, Login(q, s, t) \/ Reopen(q, s, t)
        PROVE Typed
    BY <1>0, <1>19, <1>24, Carried DEF Login, Reopen
  <1>25. ASSUME NEW s \in Session, Known(s) PROVE Typed
    BY <1>0, <1>25 DEF Known, Typed, ListStep
  <1> QED
    BY <1>1, <1>2, <1>3, <1>4, <1>5, <1>6, <1>7, <1>8, <1>9, <1>10, <1>11, <1>12, <1>13, <1>14, <1>15, <1>16, <1>17, <1>18, <1>19, <1>20, <1>21, <1>22, <1>23, <1>24, <1>25
    DEF Step, RequestStep

\* What is asked of the request q alone by Minted and Checked.
Fit(q) ==
  /\ req[q].pc \in Holding =>
       req[q].access # NoToken /\ token[req[q].access].of = req[q].session
  /\ req[q].pc = "precheck" => req[q].access # NoToken
  /\ req[q].pc \in {"precheck", "mint"} => req[q].session # NoSession
  /\ req[q].pc \in {"bindLogin", "precheck", "mint", "postcheck", "bind",
                    "closeAll", "signOut", "reopen"} => req[q].by # NoBrowser
  /\ req[q].pc = "bind" => req[q].by = bound[req[q].session]

\* A step of request q that records and mints nothing, and passes on only what
\* q and the browser know.
Quiet(q) ==
  /\ UNCHANGED <<now, token, bound>>
  /\ \A r \in Request \ {q} : req'[r] = req[r]
  /\ req'[q].access \in {req[q].access, AccessCookie, NoToken}
  /\ req'[q].session \in {req[q].session, jar.session, NoSession}
  /\ req'[q].pc \notin {"bindLogin", "postcheck"} /\ Fit(q)'
  /\ req'[q].pc = "bind" =>
       /\ req[q].pc = "postcheck" /\ req'[q].access = req[q].access
       /\ UNCHANGED list /\ ~MustRefuse(req[q].access)
  /\ jar'.access \in {jar.access, req[q].access, NoToken}
  /\ jar'.session \in {jar.session, req[q].session, NoSession}
  /\ \A s \in Session : /\ upstream'[s] = "unborn" <=> upstream[s] = "unborn"
                        /\ upstream[s] = "revoked" => upstream'[s] = "revoked"
  /\ \A s \in Session : denied'[s] # Never =>
       \/ denied[s] # Never \/ bound[s] # NoBrowser
       \/ req[q].access # NoToken /\ req[q].pc # "bindLogin" /\ s = token[req[q].access].of

LEMMA QuietStep ==
  ASSUME IInv, Typed, NEW q \in Request, Quiet(q) PROVE Anchored'
  <1> TypeOK /\ Anchored BY DEF IInv
  <1>1. Minted'
    <2>1. jar'.access # NoToken => token'[jar'.access].of \in Session
      BY Carried, NothingAssumption DEF Quiet, Anchored, Minted
    <2>2. req'[q].access # NoToken => token'[req'[q].access].of \in Session
      BY Carried, JarCarried DEF Quiet
    <2> QED BY <2>1, <2>2 DEF Quiet, Fit, Anchored, Minted
  <1>2. Unborn'
    <2> SUFFICES ASSUME NEW s \in Session, upstream'[s] = "unborn"
                 PROVE /\ bound'[s] = NoBrowser /\ denied'[s] = Never /\ jar'.session # s
                       /\ \A t \in Token : token'[t].of # s
                       /\ \A r \in Request : req'[r].session # s
      BY DEF Unborn
    <2>1. /\ bound[s] = NoBrowser /\ denied[s] = Never /\ jar.session # s
          /\ \A t \in Token : token[t].of # s
          /\ \A r \in Request : req[r].session # s
      BY DEF Quiet, Anchored, Unborn
    <2>2. denied'[s] = Never BY <2>1, Carried DEF Quiet
    <2> QED BY <2>1, <2>2, NothingAssumption DEF Quiet
  <1>3. Private'
    <2> SUFFICES ASSUME NEW r \in Request, req'[r].pc = "bindLogin", NEW s, s = req'[r].session
                 PROVE /\ bound'[s] = NoBrowser /\ denied'[s] = Never
                       /\ jar'.session # s /\ jar'.access # req'[r].access
                       /\ \A t \in Token : token'[t].of = s => t = req'[r].access
                       /\ \A x \in Request \ {r} : req'[x].session # s /\ req'[x].access # req'[r].access
      BY DEF Private
    <2>1. r # q /\ req'[r] = req[r] BY DEF Quiet
    <2>2. s \in Session /\ req[r].access \in Token BY <2>1, Carried DEF Holding
    <2>3. /\ bound[s] = NoBrowser /\ denied[s] = Never
          /\ jar.session # s /\ jar.access # req[r].access
          /\ \A t \in Token : token[t].of = s => t = req[r].access
          /\ \A x \in Request \ {r} : req[x].session # s /\ req[x].access # req[r].access
      BY <2>1 DEF Anchored, Private
    <2>4. denied'[s] = Never BY <2>1, <2>2, <2>3, Carried DEF Quiet
    <2>5. AccessCookie # req[r].access BY <2>2, <2>3, NothingAssumption DEF AccessCookie
    <2> QED BY <2>1, <2>2, <2>3, <2>4, <2>5, NothingAssumption DEF Quiet
  <1>4. Checked' BY DEF Quiet, Fit, Anchored, Checked
  <1>5. TokensFollowTheAnchor' BY DEF Quiet, Anchored, TokensFollowTheAnchor
  <1> QED BY <1>1, <1>2, <1>3, <1>4, <1>5 DEF Anchored

LEMMA DeniesItsSession ==
  ASSUME TypeOK, NEW t \in Token, token[t].of \in Session, RevokeJtis(RevocationEntries(t))
  PROVE  \A s \in Session : denied'[s] # Never => denied[s] # Never \/ s = token[t].of
  <1> SUFFICES ASSUME NEW s \in Session, denied[s] = Never, s # token[t].of PROVE denied'[s] = Never
    OBVIOUS
  <1>1. s \in Id /\ s # t BY NamesAssumption DEF Id
  <1>2. s \notin DOMAIN RevocationEntries(t) BY <1>1, RevocationEntriesTyped
  <1> QED BY <1>1, <1>2 DEF RevokeJtis

\* The steps of a request that are quiet.
QuietActions(q) ==
  \/ ReplyLogin(q) \/ Precheck(q) \/ RefreshRefused(q) \/ Postcheck(q) \/ ReplyRefresh(q)
  \/ RevokeRejected(q) \/ ClearCookies(q) \/ LogoutDenies(q)
  \/ CloseAll(q) \/ SignOut(q) \/ ReopenFails(q) \/ Dies(q)
  \/ Refresh(q) \/ Logout(q) \/ ChangePassword(q)

LEMMA QuietSteps ==
  ASSUME IInv, NEW q \in Request, QuietActions(q) PROVE Quiet(q)
  <1> TypeOK BY DEF IInv
  <1> USE NothingAssumption DEF cognito, client, list
  <1>0. /\ req[q].by \in Browser \cup {NoBrowser} /\ req[q].access \in Token \cup {NoToken}
        /\ req[q].session \in Session \cup {NoSession} /\ Fit(q)
        /\ req[q].access # NoToken => token[req[q].access].of \in Session
    BY Carried DEF IInv, Anchored, Minted, Checked, Fit
  <1>u. upstream \in [Session -> {"unborn", "live", "revoked"}] BY DEF TypeOK
  <1>1. ASSUME ReplyLogin(q) PROVE Quiet(q)
    <2>1. Became(q, "idle", NoBrowser, NoToken, NoSession)
      BY <1>1, Moves DEF ReplyLogin, RequestPc
    <2>2. jar'.access = req[q].access /\ jar'.session = req[q].session BY <1>1 DEF ReplyLogin, Cookies
    <2> QED BY <1>0, <1>1, <2>1, <2>2 DEF ReplyLogin, Became, Quiet, Fit, Holding
  <1>2. ASSUME Precheck(q) PROVE Quiet(q)
    <2>1. \/ Became(q, "revoke", NoBrowser, NoToken, req[q].session)
          \/ Became(q, "mint", req[q].by, NoToken, req[q].session) /\ req[q].session # NoSession
      BY <1>0, <1>2, Moves DEF Precheck, RequestPc, Fit
    <2>2. req[q].access \in Token /\ token[req[q].access].of \in Session
      BY <1>0, <1>2 DEF Precheck, Fit, Holding
    <2>3. \A s \in Session : denied'[s] # Never => denied[s] # Never \/ s = token[req[q].access].of
      BY <1>2, <2>2, DeniesItsSession DEF Precheck
    <2> QED BY <1>0, <1>2, <2>1, <2>2, <2>3 DEF Precheck, Became, Quiet, Fit, Holding
  <1>3. ASSUME RefreshRefused(q) PROVE Quiet(q)
    <2>1. Became(q, "clear", NoBrowser, NoToken, NoSession)
      BY <1>3, Moves DEF RefreshRefused, RequestPc
    <2> QED BY <1>0, <1>3, <2>1 DEF RefreshRefused, Became, Quiet, Fit, Holding
  <1>4. ASSUME Postcheck(q) PROVE Quiet(q)
    <2>1. \/ Became(q, "revoke", NoBrowser, NoToken, req[q].session)
          \/ /\ Became(q, "bind", req[q].by, req[q].access, req[q].session)
             /\ bound[req[q].session] = req[q].by /\ UNCHANGED list /\ ~MustRefuse(req[q].access)
      BY <1>4, Moves DEF Postcheck, RequestPc
    <2>2. req[q].access \in Token /\ token[req[q].access].of \in Session
      BY <1>0, <1>4 DEF Postcheck, Fit, Holding
    <2>3. \A s \in Session : denied'[s] # Never => denied[s] # Never \/ s = token[req[q].access].of
      BY <1>4, <2>2, DeniesItsSession DEF Postcheck
    <2>4. req[q].pc = "postcheck" /\ UNCHANGED <<now, cognito, bound, client>> BY <1>4 DEF Postcheck
    <2> QED BY <1>0, <2>1, <2>2, <2>3, <2>4 DEF Became, Quiet, Fit, Holding
  <1>5. ASSUME ReplyRefresh(q) PROVE Quiet(q)
    <2>1. Became(q, "idle", NoBrowser, NoToken, NoSession)
      BY <1>5, Moves DEF ReplyRefresh, RequestPc
    <2>2. jar'.access = req[q].access /\ jar'.session = jar.session BY <1>5 DEF ReplyRefresh, Cookies
    <2> QED BY <1>0, <1>5, <2>1, <2>2 DEF ReplyRefresh, Became, Quiet, Fit, Holding
  <1>6. ASSUME RevokeRejected(q) PROVE Quiet(q)
    <2>1. Became(q, "clear", NoBrowser, NoToken, NoSession)
      BY <1>6, Moves DEF RevokeRejected, RequestPc
    <2>2. \A s \in Session : /\ upstream'[s] = "unborn" <=> upstream[s] = "unborn"
                             /\ upstream[s] = "revoked" => upstream'[s] = "revoked"
      BY <1>u, <1>0, <1>6 DEF RevokeRejected, Revokes, IInv, Anchored, Unborn
    <2> QED BY <1>0, <1>6, <2>1, <2>2 DEF RevokeRejected, Became, Quiet, Fit, Holding
  <1>7. ASSUME ClearCookies(q) PROVE Quiet(q)
    <2>1. Became(q, "idle", NoBrowser, NoToken, NoSession)
      BY <1>7, Moves DEF ClearCookies, RequestPc
    <2>2. jar'.access = NoToken /\ jar'.session = NoSession BY <1>7 DEF ClearCookies, Empty, Cookies
    <2> QED BY <1>0, <1>7, <2>1, <2>2 DEF ClearCookies, Became, Quiet, Fit, Holding
  <1>8. ASSUME LogoutDenies(q) PROVE Quiet(q)
    <2>1. Became(q, "clear", NoBrowser, NoToken, NoSession)
      BY <1>8, Moves DEF LogoutDenies, RequestPc
    <2>2. \A s \in Session : denied'[s] # Never =>
            denied[s] # Never \/ (req[q].access # NoToken /\ s = token[req[q].access].of)
      <3>0. PICK t : t = req[q].access OBVIOUS
      <3>1. (Verifies(t) /\ RevokeJtis(RevocationEntries(t))) \/ UNCHANGED list
        BY <1>8, <3>0 DEF LogoutDenies
      <3>2. CASE UNCHANGED list BY <3>2
      <3>3. CASE Verifies(t) /\ RevokeJtis(RevocationEntries(t))
        <4>1. t \in Token /\ token[t].of \in Session BY <1>0, <3>0, <3>3 DEF Verifies
        <4>2. \A s \in Session : denied'[s] # Never => denied[s] # Never \/ s = token[t].of
          BY <3>3, <4>1, DeniesItsSession
        <4> QED BY <3>0, <4>1, <4>2
      <3> QED BY <3>1, <3>2, <3>3
    <2> QED BY <1>0, <1>8, <2>1, <2>2 DEF LogoutDenies, Became, Quiet, Fit, Holding
  <1>9. ASSUME CloseAll(q) PROVE Quiet(q)
    <2>1. Became(q, "signOut", req[q].by, req[q].access, req[q].session)
      BY <1>9, Moves DEF CloseAll, RequestPc
    <2>2. \A s \in Session : s \in Id BY DEF Id
    <2>3. \A s \in Session : denied'[s] # Never => denied[s] # Never \/ bound[s] # NoBrowser
      BY <1>9, <2>2 DEF CloseAll, RevokeJtis, Never, TypeOK
    <2> QED BY <1>0, <1>9, <2>1, <2>3 DEF CloseAll, Became, Quiet, Fit, Holding
  <1>10. ASSUME SignOut(q) PROVE Quiet(q)
    <2>1. Became(q, "reopen", req[q].by, req[q].access, req[q].session)
      BY <1>10, Moves DEF SignOut, RequestPc
    <2>2. \A s \in Session : /\ upstream'[s] = "unborn" <=> upstream[s] = "unborn"
                             /\ upstream[s] = "revoked" => upstream'[s] = "revoked"
      BY <1>u, <1>10 DEF SignOut
    <2> QED BY <1>0, <1>10, <2>1, <2>2 DEF SignOut, Became, Quiet, Fit, Holding
  <1>11. ASSUME ReopenFails(q) PROVE Quiet(q)
    <2>1. Became(q, "clear", NoBrowser, NoToken, NoSession)
      BY <1>11, Moves DEF ReopenFails, RequestPc
    <2> QED BY <1>0, <1>11, <2>1 DEF ReopenFails, Became, Quiet, Fit, Holding
  <1>12. ASSUME Dies(q) PROVE Quiet(q)
    <2>1. Became(q, "idle", NoBrowser, NoToken, NoSession)
      BY <1>12, Moves DEF Dies, RequestPc
    <2> QED BY <1>0, <1>12, <2>1 DEF Dies, Became, Quiet, Fit, Holding
  <1>13. ASSUME Refresh(q) PROVE Quiet(q)
    <2>1. \/ Became(q, "mint", browser, AccessCookie, jar.session) /\ AccessCookie = NoToken
          \/ Became(q, "precheck", browser, AccessCookie, jar.session) /\ AccessCookie # NoToken
      BY <1>13, Becoming, JarCarried DEF Refresh, RequestPc, TypeOK
    <2>2. browser \in Browser /\ jar.session # NoSession BY <1>13 DEF Refresh, TypeOK
    <2> QED BY <1>0, <1>13, <2>1, JarCarried, <2>2 DEF Refresh, Became, Quiet, Fit, Holding
  <1>14. ASSUME Logout(q) PROVE Quiet(q)
    <2>1. Became(q, "deny", NoBrowser, AccessCookie, NoSession)
      BY <1>14, Becoming, JarCarried DEF Logout, RequestPc, TypeOK
    <2>2. \A s \in Session : /\ upstream'[s] = "unborn" <=> upstream[s] = "unborn"
                             /\ upstream[s] = "revoked" => upstream'[s] = "revoked"
      BY <1>u, <1>14, JarCarried DEF Logout, Revokes, IInv, Anchored, Unborn
    <2> QED BY <1>0, <1>14, <2>1, JarCarried, <2>2 DEF Logout, Became, Quiet, Fit, Holding
  <1>15. ASSUME ChangePassword(q) PROVE Quiet(q)
    <2>1. Became(q, "closeAll", browser, NoToken, NoSession)
      BY <1>15, Becoming, JarCarried DEF ChangePassword, RequestPc, TypeOK
    <2>2. browser \in Browser BY DEF TypeOK
    <2> QED BY <1>0, <1>15, <2>1, JarCarried, <2>2 DEF ChangePassword, Became, Quiet, Fit, Holding
  <1> QED BY <1>1, <1>2, <1>3, <1>4, <1>5, <1>6, <1>7, <1>8, <1>9, <1>10, <1>11, <1>12, <1>13, <1>14, <1>15 DEF QuietActions

LEMMA BindLoginAnchored ==
  ASSUME IInv, Typed, NEW q \in Request, BindLogin(q) PROVE Anchored'
  <1> TypeOK /\ Anchored BY DEF IInv
  <1> DEFINE s == req[q].session  t == req[q].access
  <1>1. /\ s \in Session /\ t \in Token /\ token[t].of = s /\ req[q].by # NoBrowser
        /\ req[q].pc = "bindLogin"
    BY Carried DEF BindLogin, Holding, Anchored, Minted
  <1>2. /\ bound[s] = NoBrowser /\ denied[s] = Never /\ jar.session # s /\ jar.access # t
        /\ \A u \in Token : token[u].of = s => u = t
        /\ \A r \in Request \ {q} : req[r].session # s /\ req[r].access # t
    BY <1>1 DEF Anchored, Private
  <1>3. Became(q, "replyLogin", NoBrowser, t, s) BY Moves DEF BindLogin, RequestPc
  <1>4. UNCHANGED <<now, upstream, token, denied, fresh, browser, jar>>
    BY DEF BindLogin, cognito, list, client
  <1>5. /\ \A i \in Id : bound'[i] = bound[i] \/ i \in {s, t} \/ (i \in Token /\ bound'[i] = NoBrowser)
        /\ \A i \in Session : i # s => bound'[i] = bound[i]
        /\ UNCHANGED bound \/ (bound'[s] = req[q].by /\ bound'[t] \in {bound[t], req[q].by})
    <2>1. CASE UNCHANGED bound BY <2>1
    <2>2. CASE BindAccessToken(q)
      <3>1. s \in Id /\ t \in Id /\ \A i \in Session : i \in Id /\ i \notin Token
        BY <1>1, NamesAssumption DEF Id
      <3> QED BY <1>1, <1>2, <2>2, <3>1, Binding
    <2> QED BY <2>1, <2>2 DEF BindLogin
  <1>6. bound[t] = NoBrowser /\ upstream[s] # "unborn"
    BY <1>1, <1>2 DEF Anchored, TokensFollowTheAnchor, Unborn
  <1>7. \A u \in Token, x \in Session : u \in Id /\ x \in Id /\ u # x BY NamesAssumption DEF Id
  <1> HIDE DEF s, t
  <1>8. Minted'
    <2>1. \A u \in Token : bound'[u] # NoBrowser => token[u].of # NoSession
      BY <1>1, <1>5, <1>7, NothingAssumption DEF Anchored, Minted
    <2> QED BY <1>1, <1>3, <1>4, <2>1 DEF Anchored, Minted, Became, Holding, s, t
  <1>9. Unborn'
    BY <1>1, <1>3, <1>4, <1>5, <1>6, <1>7 DEF Anchored, Unborn, Became
  <1>10. Private'
    <2> SUFFICES ASSUME NEW r \in Request, req'[r].pc = "bindLogin", NEW x, x = req'[r].session
                 PROVE /\ bound'[x] = NoBrowser /\ denied'[x] = Never
                       /\ jar'.session # x /\ jar'.access # req'[r].access
                       /\ \A u \in Token : token'[u].of = x => u = req'[r].access
                       /\ \A p \in Request \ {r} : req'[p].session # x /\ req'[p].access # req'[r].access
      BY DEF Private
    <2>1. r # q /\ req'[r] = req[r] BY <1>3 DEF Became
    <2>2. x \in Session /\ x # s BY <1>2, <2>1, Carried DEF Holding
    <2>3. /\ bound[x] = NoBrowser /\ denied[x] = Never /\ jar.session # x /\ jar.access # req[r].access
          /\ \A u \in Token : token[u].of = x => u = req[r].access
          /\ \A p \in Request \ {r} : req[p].session # x /\ req[p].access # req[r].access
      BY <2>1 DEF Anchored, Private
    <2>4. \A p \in Request : req'[p].session = req[p].session /\ req'[p].access = req[p].access
      BY <1>3 DEF Became, s, t
    <2> QED BY <1>4, <1>5, <2>1, <2>2, <2>3, <2>4
  <1>11. Checked'
    <2> SUFFICES ASSUME NEW r \in Request, req'[r].pc = "bind" PROVE req'[r].by = bound'[req'[r].session]
      BY DEF Checked
    <2>1. r # q /\ req'[r] = req[r] BY <1>3 DEF Became
    <2>2. req[r].session \in Session /\ req[r].session # s BY <1>2, <2>1, Carried DEF Holding
    <2> QED BY <1>5, <2>1, <2>2 DEF Anchored, Checked
  <1>12. TokensFollowTheAnchor'
    <2> SUFFICES ASSUME NEW u \in Token, bound'[u] # NoBrowser PROVE bound'[u] = bound'[token[u].of]
      BY <1>4 DEF TokensFollowTheAnchor
    <2>1. CASE u = t BY <1>1, <1>5, <1>6, <2>1
    <2>2. CASE u # t
      <3>1. bound[u] = bound'[u] /\ u # s BY <1>1, <1>5, <1>7, <2>2
      <3>2. token[u].of \in Session /\ token[u].of # s
        BY <1>2, <2>2, <3>1 DEF Anchored, Minted, TypeOK, TokenType
      <3> QED BY <1>5, <3>1, <3>2 DEF Anchored, TokensFollowTheAnchor
    <2> QED BY <2>1, <2>2
  <1> QED BY <1>8, <1>9, <1>10, <1>11, <1>12 DEF Anchored

LEMMA BindRefreshAnchored ==
  ASSUME IInv, Typed, NEW q \in Request, BindRefresh(q) PROVE Anchored'
  <1> TypeOK /\ Anchored BY DEF IInv
  <1> DEFINE s == req[q].session  t == req[q].access
  <1>1. /\ s \in Session /\ t \in Token /\ token[t].of = s
        /\ req[q].by # NoBrowser /\ req[q].by = bound[s]
    BY Carried DEF BindRefresh, Holding, Anchored, Minted, Checked
  <1>2. Became(q, "replyRefresh", NoBrowser, t, s) BY Moves DEF BindRefresh, RequestPc
  <1>3. UNCHANGED <<now, upstream, token, denied, fresh, browser, jar>>
    BY DEF BindRefresh, cognito, list, client
  <1>4. \A u \in Token, x \in Session : u \in Id /\ x \in Id /\ u # x /\ x \notin Token
    BY NamesAssumption DEF Id
  <1>5. /\ \A x \in Session : bound'[x] = bound[x]
        /\ \A u \in Token : bound'[u] \in {bound[u], NoBrowser} \/ (u = t /\ bound'[u] = bound[s])
    BY <1>1, <1>4, Binding DEF BindRefresh
  <1>6. \A p \in Request : req'[p].session = req[p].session /\ req'[p].access = req[p].access
    BY <1>2 DEF Became
  <1> HIDE DEF s, t
  <1>7. Minted'
    <2>1. \A u \in Token : bound'[u] # NoBrowser => token[u].of # NoSession
      BY <1>1, <1>5, NothingAssumption DEF Anchored, Minted
    <2> QED BY <1>1, <1>2, <1>3, <2>1 DEF Anchored, Minted, Became, Holding, s, t
  <1>8. Unborn' BY <1>3, <1>5, <1>6 DEF Anchored, Unborn
  <1>9. Private'
    <2> SUFFICES ASSUME NEW r \in Request, req'[r].pc = "bindLogin", NEW x, x = req'[r].session
                 PROVE /\ bound'[x] = NoBrowser /\ denied'[x] = Never
                       /\ jar'.session # x /\ jar'.access # req'[r].access
                       /\ \A u \in Token : token'[u].of = x => u = req'[r].access
                       /\ \A p \in Request \ {r} : req'[p].session # x /\ req'[p].access # req'[r].access
      BY DEF Private
    <2>1. r # q /\ req'[r] = req[r] BY <1>2 DEF Became
    <2>2. x \in Session BY <2>1, Carried DEF Holding
    <2> QED BY <1>3, <1>5, <1>6, <2>1, <2>2 DEF Anchored, Private
  <1>10. Checked'
    <2> SUFFICES ASSUME NEW r \in Request, req'[r].pc = "bind" PROVE req'[r].by = bound'[req'[r].session]
      BY DEF Checked
    <2>1. r # q /\ req'[r] = req[r] BY <1>2 DEF Became
    <2>2. req[r].session \in Session BY <2>1, Carried DEF Holding
    <2> QED BY <1>5, <2>1, <2>2 DEF Anchored, Checked
  <1>11. TokensFollowTheAnchor'
    <2> SUFFICES ASSUME NEW u \in Token, bound'[u] # NoBrowser PROVE bound'[u] = bound'[token[u].of]
      BY <1>3 DEF TokensFollowTheAnchor
    <2>1. token[u].of \in Session BY <1>1, <1>5 DEF Anchored, Minted, TypeOK, TokenType
    <2> QED BY <1>1, <1>5, <2>1 DEF Anchored, TokensFollowTheAnchor
  <1> QED BY <1>7, <1>8, <1>9, <1>10, <1>11 DEF Anchored

\* A token is minted for a session that is no other login's.
LEMMA MintAnchored ==
  ASSUME IInv, NEW q \in Request, NEW pc \in {"bindLogin", "postcheck"}, NEW b \in Browser,
         NEW s \in Session, NEW t \in Token, Mints(q, pc, b, t, s),
         UNCHANGED <<bound, denied, jar>>,
         \A x \in Session : upstream'[x] = "unborn" => upstream[x] = "unborn" /\ x # s,
         \A r \in Request \ {q} : req[r].pc = "bindLogin" => req[r].session # s,
         pc = "bindLogin" => upstream[s] = "unborn"
  PROVE  Anchored'
  <1> TypeOK /\ Anchored BY DEF IInv
  <1>1. /\ Became(q, pc, b, t, s) /\ token'[t].of = s /\ \A u \in Token \ {t} : token'[u] = token[u]
        /\ token[t].of \notin Session
    <2>1. pc \in RequestPc /\ b \in Browser \cup {NoBrowser} BY DEF RequestPc
    <2>2. /\ Became(q, pc, b, t, s) /\ token'[t].of = s
          /\ \A u \in Token \ {t} : token'[u] = token[u]
      BY <2>1, Minting
    <2> QED BY <2>2, NothingAssumption DEF Mints
  <1>2. /\ jar.access # t /\ bound[t] = NoBrowser /\ b # NoBrowser
        /\ \A r \in Request : req[r].access # t
    BY <1>1, NothingAssumption DEF Anchored, Minted, Mints
  <1>3. Minted'
    <2>1. jar'.access # NoToken => token'[jar'.access].of \in Session
      BY <1>1, <1>2 DEF Anchored, Minted, TypeOK, JarType
    <2>2. \A r \in Request \ {q} : req[r].access # NoToken =>
            req[r].access \in Token \ {t} /\ token[req[r].access].of \in Session
      BY <1>2 DEF Anchored, Minted, TypeOK, RequestType
    <2>3. \A u \in Token : bound'[u] # NoBrowser => token'[u].of # NoSession
      BY <1>1, <1>2 DEF Anchored, Minted
    <2> QED BY <1>1, <1>2, <2>1, <2>2, <2>3, NothingAssumption DEF Anchored, Minted, Became, Holding
  <1>4. Unborn' BY <1>1 DEF Anchored, Unborn, Became
  <1>5. Private'
    <2> SUFFICES ASSUME NEW r \in Request, req'[r].pc = "bindLogin", NEW x, x = req'[r].session
                 PROVE /\ bound'[x] = NoBrowser /\ denied'[x] = Never
                       /\ jar'.session # x /\ jar'.access # req'[r].access
                       /\ \A u \in Token : token'[u].of = x => u = req'[r].access
                       /\ \A p \in Request \ {r} : req'[p].session # x /\ req'[p].access # req'[r].access
      BY DEF Private
    <2>1. CASE r = q
      <3>1. x = s /\ req'[r].access = t /\ upstream[s] = "unborn" BY <1>1, <2>1 DEF Became
      <3>2. /\ bound[s] = NoBrowser /\ denied[s] = Never /\ jar.session # s
            /\ \A u \in Token : token[u].of # s
            /\ \A p \in Request : req[p].session # s
        BY <3>1 DEF Anchored, Unborn
      <3> QED BY <1>1, <1>2, <2>1, <3>1, <3>2 DEF Became
    <2>2. CASE r # q
      <3>1. req'[r] = req[r] /\ x # s /\ x = req[r].session BY <1>1, <2>2 DEF Became
      <3>2. /\ bound[x] = NoBrowser /\ denied[x] = Never /\ jar.session # x /\ jar.access # req[r].access
            /\ \A u \in Token : token[u].of = x => u = req[r].access
            /\ \A p \in Request \ {r} : req[p].session # x /\ req[p].access # req[r].access
        BY <3>1 DEF Anchored, Private
      <3> QED BY <1>1, <1>2, <3>1, <3>2 DEF Became
    <2> QED BY <2>1, <2>2
  <1>6. Checked' BY <1>1 DEF Anchored, Checked, Became
  <1>7. TokensFollowTheAnchor' BY <1>1, <1>2 DEF Anchored, TokensFollowTheAnchor
  <1> QED BY <1>3, <1>4, <1>5, <1>6, <1>7 DEF Anchored

LEMMA MintSteps ==
  ASSUME IInv, NEW q \in Request, NEW t \in Token,
         RefreshMints(q, t) \/ \E s \in Session : Login(q, s, t) \/ Reopen(q, s, t)
  PROVE  Anchored'
  <1> TypeOK /\ Anchored BY DEF IInv
  <1>1. CASE RefreshMints(q, t)
    <2> DEFINE s == req[q].session  b == req[q].by
    <2>1. s \in Session /\ req[q].pc = "mint" /\ upstream[s] = "live" /\ b \in Browser \cup {NoBrowser}
      BY <1>1, Carried DEF RefreshMints, Anchored, Minted
    <2>2. Mints(q, "postcheck", b, t, s) /\ UNCHANGED <<upstream, bound, denied, jar>>
      BY <1>1 DEF RefreshMints, list, client
    <2>3. \A r \in Request \ {q} : req[r].pc = "bindLogin" => req[r].session # s
      BY DEF Anchored, Private
    <2>4. b # NoBrowser BY <2>1 DEF Anchored, Minted
    <2> HIDE DEF s, b
    <2> QED BY <2>1, <2>2, <2>3, <2>4, MintAnchored
  <1>2. ASSUME NEW s \in Session, NEW b \in Browser, Opens(q, b, s, t) PROVE Anchored'
    <2>1. /\ Mints(q, "bindLogin", b, t, s) /\ UNCHANGED <<bound, denied, jar>>
          /\ upstream[s] = "unborn" /\ upstream' = [upstream EXCEPT ![s] = "live"]
      BY <1>2 DEF Opens, list, client
    <2>2. \A x \in Session : upstream'[x] = "unborn" => upstream[x] = "unborn" /\ x # s
      BY <2>1 DEF TypeOK
    <2>3. \A r \in Request : req[r].session # s BY <2>1 DEF Anchored, Unborn
    <2> QED BY <2>1, <2>2, <2>3, MintAnchored
  <1>3. ASSUME NEW s \in Session, Login(q, s, t) \/ Reopen(q, s, t) PROVE Anchored'
    <2>1. browser \in Browser /\ (req[q].pc = "reopen" => req[q].by \in Browser)
      BY Carried DEF TypeOK, Anchored, Minted
    <2> QED BY <1>2, <1>3, <2>1 DEF Login, Reopen
  <1> QED BY <1>1, <1>3

\* The steps of no request.
LEMMA OtherSteps ==
  ASSUME IInv, Typed,
         OutOfPlace \/ (\E b \in Browser : Updates(b)) \/ Sweep \/ Tick \/ \E s \in Session : Known(s)
  PROVE  Anchored'
  <1> TypeOK /\ Anchored BY DEF IInv
  <1>1. /\ UNCHANGED <<upstream, token, req>>
        /\ jar'.session = jar.session /\ jar'.access \in {jar.access, NoToken}
        /\ \A i \in Id : bound'[i] = bound[i] \/ (i \in Token /\ bound'[i] = NoBrowser)
    BY DEF OutOfPlace, Updates, Sweep, Tick, Known, Cookies, cognito, client, Purged, TypeOK
  <1>2. \A s \in Session : s \in Id /\ bound'[s] = bound[s] BY <1>1, NamesAssumption DEF Id
  <1>3. \A s \in Session : denied'[s] # Never =>
          \/ denied[s] # Never
          \/ AccessCookie \in Token /\ s = token[AccessCookie].of /\ jar.access = AccessCookie
    <2>1. CASE OutOfPlace
      <3>1. AccessCookie \in Token /\ token[AccessCookie].of \in Session /\ jar.access = AccessCookie
        BY <2>1, JarCarried, NothingAssumption DEF OutOfPlace, Verifies, AccessCookie
      <3>2. \A s \in Session : denied'[s] # Never => denied[s] # Never \/ s = token[AccessCookie].of
        BY <2>1, <3>1, DeniesItsSession DEF OutOfPlace
      <3> QED BY <3>1, <3>2
    <2>2. CASE \E b \in Browser : Updates(b) BY <2>2 DEF Updates, list
    <2>3. CASE Sweep BY <1>2, <2>3 DEF Sweep
    <2>4. CASE Tick BY <2>4 DEF Tick
    <2>5. CASE \E s \in Session : Known(s) BY <2>5 DEF Known
    <2> QED BY <2>1, <2>2, <2>3, <2>4, <2>5
  <1>4. Minted'
    <2>1. \A t \in Token : bound'[t] # NoBrowser => bound[t] # NoBrowser BY <1>1 DEF Id
    <2> QED BY <1>1, <2>1 DEF Anchored, Minted
  <1>5. Unborn'
    <2> SUFFICES ASSUME NEW s \in Session, upstream[s] = "unborn" PROVE bound'[s] = NoBrowser /\ denied'[s] = Never
      BY <1>1 DEF Anchored, Unborn
    <2>1. bound[s] = NoBrowser /\ denied[s] = Never /\ \A t \in Token : token[t].of # s
      BY DEF Anchored, Unborn
    <2> QED BY <1>2, <1>3, <2>1
  <1>6. Private'
    <2> SUFFICES ASSUME NEW r \in Request, req[r].pc = "bindLogin", NEW s, s = req[r].session
                 PROVE bound'[s] = NoBrowser /\ denied'[s] = Never /\ jar'.access # req[r].access
      BY <1>1 DEF Anchored, Private
    <2>1. /\ bound[s] = NoBrowser /\ denied[s] = Never /\ s \in Session /\ req[r].access # NoToken
          /\ jar.access # req[r].access /\ \A u \in Token : token[u].of = s => u = req[r].access
      BY Carried, NothingAssumption DEF Anchored, Private, Holding
    <2> QED BY <1>1, <1>2, <1>3, <2>1
  <1>7. Checked'
    <2> SUFFICES ASSUME NEW r \in Request, req[r].pc = "bind" PROVE req[r].by = bound'[req[r].session]
      BY <1>1 DEF Checked
    <2>1. req[r].session \in Session BY Carried DEF Holding
    <2> QED BY <1>2, <2>1 DEF Anchored, Checked
  <1>8. TokensFollowTheAnchor'
    <2> SUFFICES ASSUME NEW t \in Token, bound'[t] # NoBrowser PROVE bound'[t] = bound'[token[t].of]
      BY <1>1 DEF TokensFollowTheAnchor
    <2>1. bound'[t] = bound[t] /\ token[t].of \in Session
      BY <1>1 DEF Anchored, Minted, TypeOK, TokenType, Id
    <2> QED BY <1>2, <2>1 DEF Anchored, TokensFollowTheAnchor
  <1> QED BY <1>4, <1>5, <1>6, <1>7, <1>8 DEF Anchored

LEMMA StepAnchored ==
  ASSUME IInv, Step PROVE Anchored'
  <1>1. Typed BY StepTyped
  <1>2. ASSUME NEW q \in Request, RequestStep(q) PROVE Anchored'
    <2>1. QuietActions(q) \/ BindLogin(q) \/ BindRefresh(q) BY <1>2 DEF RequestStep, QuietActions
    <2> QED BY <1>1, <2>1, QuietSteps, QuietStep, BindLoginAnchored, BindRefreshAnchored
  <1>3. ASSUME NEW q \in Request, Refresh(q) \/ Logout(q) \/ ChangePassword(q) PROVE Anchored'
    BY <1>1, <1>3, QuietSteps, QuietStep DEF QuietActions
  <1> QED BY <1>1, <1>2, <1>3, MintSteps, OtherSteps DEF Step

---------------------------------------------------------------------------
(* How long it lasts.  Below, what the proof needs to know of a step.      *)

\* Token t is minted, for a session Cognito still renews.
Born(t) ==
  /\ UNCHANGED <<now, list>> /\ token[t].of = NoSession
  /\ token'[t].of \in Session /\ upstream[token'[t].of] # "revoked"
  /\ token'[t].exp = now + AccessLife /\ ~Admitted(t)'

OfLogin(t) == \E q \in Request : req[q].pc = "bindLogin" /\ req[q].access = t

Moved ==
  /\ \A s \in Session : upstream[s] = "revoked" => upstream'[s] = "revoked"
  /\ \A t \in Token : token'[t] = token[t] \/ Born(t)
  /\ \A t \in Token : Admitted(t)' => Admitted(t) \/ LetThrough(t) \/ OfLogin(t)
  /\ \A q \in Request : req'[q].pc = "bindLogin" =>
       \/ req'[q] = req[q]
       \/ /\ req'[q].access \in Token /\ token[req'[q].access].of = NoSession
          /\ denied[token'[req'[q].access].of] = Never

LEMMA QuietMoved ==
  ASSUME IInv, NEW q \in Request, Quiet(q) PROVE Moved
  <1>1. \A r \in Request : req'[r].pc = "bindLogin" => req'[r] = req[r] BY DEF Quiet
  <1>2. ASSUME NEW t \in Token, Admitted(t)', ~Admitted(t) PROVE LetThrough(t)
    <2>1. req'[q].pc = "bind" /\ req'[q].access = t BY <1>2 DEF Quiet, Admitted
    <2>2. req[q].pc = "postcheck" /\ req[q].access = t /\ ~MustRefuse(t) BY <2>1 DEF Quiet
    <2> QED BY <2>1, <2>2 DEF LetThrough
  <1> QED BY <1>1, <1>2 DEF Moved, Quiet

LEMMA BindMoved ==
  ASSUME IInv, NEW q \in Request, BindLogin(q) \/ BindRefresh(q) PROVE Moved
  <1> TypeOK BY DEF IInv
  <1> DEFINE s == req[q].session  t == req[q].access
  <1>1. s \in Session /\ t \in Token /\ token[t].of = s
    BY Carried DEF BindLogin, BindRefresh, Holding
  <1>2. \/ Became(q, "replyLogin", NoBrowser, t, s) \/ Became(q, "replyRefresh", NoBrowser, t, s)
    BY Moves DEF BindLogin, BindRefresh, RequestPc
  <1>3. UNCHANGED <<now, upstream, token, list>> BY DEF BindLogin, BindRefresh, cognito
  <1>4. \A u \in Token : bound'[u] # NoBrowser => bound[u] # NoBrowser \/ u = t
    <2>1. s \notin Token /\ Token \subseteq Id BY <1>1, NamesAssumption DEF Id
    <2>2. CASE UNCHANGED bound BY <2>2
    <2>3. CASE BindAccessToken(q) BY <2>1, <2>3, Binding
    <2> QED BY <2>2, <2>3 DEF BindLogin, BindRefresh
  <1>5. Admitted(t) \/ OfLogin(t) BY DEF BindLogin, BindRefresh, Admitted, OfLogin
  <1> HIDE DEF s, t
  <1>6. \A u \in Token : Admitted(u)' => Admitted(u) \/ u = t BY <1>2, <1>4 DEF Admitted, Became
  <1>7. \A r \in Request : req'[r].pc = "bindLogin" => req'[r] = req[r]
    BY <1>2 DEF Became
  <1> QED BY <1>3, <1>5, <1>6, <1>7 DEF Moved

LEMMA MintMoved ==
  ASSUME IInv, NEW q \in Request, NEW t \in Token,
         RefreshMints(q, t) \/ \E s \in Session : Login(q, s, t) \/ Reopen(q, s, t)
  PROVE  Moved
  <1> TypeOK BY DEF IInv
  <1>1. PICK pc \in {"bindLogin", "postcheck"}, b \in Browser \cup {NoBrowser}, s \in Session :
          /\ Mints(q, pc, b, t, s) /\ upstream[s] # "revoked"
          /\ pc = "bindLogin" => upstream[s] = "unborn"
    BY Carried DEF RefreshMints, Login, Reopen, Opens, IInv, Anchored, Minted, TypeOK
  <1>2. /\ UNCHANGED <<now, bound, list>>
        /\ \A x \in Session : upstream[x] = "revoked" => upstream'[x] = "revoked"
    BY DEF RefreshMints, Login, Reopen, Opens, TypeOK
  <1>3. /\ Became(q, pc, b, t, s) /\ token'[t].exp = now + AccessLife /\ token'[t].of = s
        /\ \A u \in Token \ {t} : token'[u] = token[u]
    BY <1>1, Minting DEF RequestPc
  <1>4. token[t].of = NoSession /\ bound[t] = NoBrowser /\ \A r \in Request : req[r].access # t
    BY <1>1, NothingAssumption DEF IInv, Anchored, Minted, Mints
  <1>5. ~Admitted(t)' BY <1>2, <1>3, <1>4 DEF Admitted, Became
  <1>6. Born(t) BY <1>1, <1>2, <1>3, <1>4, <1>5 DEF Born
  <1>7. \A u \in Token : Admitted(u)' => Admitted(u) BY <1>2, <1>3, <1>5 DEF Admitted, Became
  <1>8. pc = "bindLogin" => denied[s] = Never BY <1>1 DEF IInv, Anchored, Unborn
  <1>9. \A r \in Request : req'[r].pc = "bindLogin" =>
          \/ req'[r] = req[r]
          \/ /\ req'[r].access \in Token /\ token[req'[r].access].of = NoSession
             /\ denied[token'[req'[r].access].of] = Never
    BY <1>3, <1>4, <1>8 DEF Became
  <1> QED BY <1>2, <1>3, <1>6, <1>7, <1>9 DEF Moved

LEMMA OtherMoved ==
  ASSUME IInv,
         OutOfPlace \/ (\E b \in Browser : Updates(b)) \/ Sweep \/ Tick \/ \E s \in Session : Known(s)
  PROVE  Moved
  <1>1. UNCHANGED <<upstream, token, req>> /\ \A t \in Token : bound'[t] # NoBrowser => bound[t] # NoBrowser
    BY DEF OutOfPlace, Updates, Sweep, Tick, Known, cognito, client, Purged, Id, IInv, TypeOK
  <1> QED BY <1>1 DEF Moved, Admitted

LEMMA StepMoved ==
  ASSUME IInv, Step PROVE Moved
  <1>1. ASSUME NEW q \in Request, RequestStep(q) PROVE Moved
    <2>1. QuietActions(q) \/ BindLogin(q) \/ BindRefresh(q) BY <1>1 DEF RequestStep, QuietActions
    <2> QED BY <2>1, QuietSteps, QuietMoved, BindMoved
  <1>2. ASSUME NEW q \in Request, Refresh(q) \/ Logout(q) \/ ChangePassword(q) PROVE Moved
    BY <1>2, QuietSteps, QuietMoved DEF QuietActions
  <1> QED BY <1>1, <1>2, MintMoved, OtherMoved DEF Step

\* A denial that has not expired stays as it is, and a new one is for long.
LEMMA ListLasts ==
  ASSUME IInv, ListStep
  PROVE  /\ now <= now' /\ now' <= MaxTime
         /\ \A s \in Session : /\ denied[s] > now' => denied'[s] = denied[s]
                               /\ denied'[s] > now' => \/ denied'[s] = denied[s]
                                                       \/ denied'[s] >= now' + AccessLife
  <1>0. /\ now \in Nat /\ now <= MaxTime /\ MaxTime \in Nat /\ AccessLife \in Nat
        /\ \A s \in Session : s \in Id /\ denied[s] \in Nat \cup {Never} /\ denied \in [Id -> Nat \cup {Never}]
    BY TimesAssumption DEF IInv, TypeOK, Lasting, Id
  <1>1. CASE UNCHANGED <<now, list>> BY <1>0, <1>1 DEF list
  <1>2. CASE now' = now /\ \E e : Denies(e)
    <2>1. PICK e : Denies(e) BY <1>2
    <2> QED BY <1>0, <1>2, <2>1 DEF Denies, Entries, RevokeJtis, Never
  <1>3. CASE now' = now /\ Sweep BY <1>0, <1>3 DEF Sweep, Never
  <1>4. CASE now' = now /\ \E s \in Session : Known(s) BY <1>0, <1>4 DEF Known
  <1>5. CASE Tick BY <1>0, <1>5 DEF Tick
  <1> QED BY <1>1, <1>2, <1>3, <1>4, <1>5 DEF ListStep

LEMMA StepLasting ==
  ASSUME IInv, Typed, Moved, Remembers PROVE Lasting'
  <1> TypeOK /\ Lasting BY DEF IInv
  <1>0. now \in Nat /\ now' \in Nat /\ AccessLife \in Nat BY TimesAssumption, ListTyped DEF Typed, TypeOK
  <1>1. /\ now <= now' /\ now' <= MaxTime
        /\ \A s \in Session : denied'[s] > now' => denied'[s] = denied[s] \/ denied'[s] >= now' + AccessLife
    BY ListLasts DEF Typed
  <1>2. ASSUME NEW t \in Token, token'[t].of # NoSession PROVE token'[t].exp <= now' + AccessLife
    <2>1. token[t].exp \in Nat BY DEF TypeOK, TokenType
    <2>2. now <= now' BY <1>1
    <2>3. CASE token'[t] = token[t]
      <3>1. token[t].exp <= now + AccessLife BY <1>2, <2>3 DEF Lasting
      <3> QED BY <1>0, <2>1, <2>2, <2>3, <3>1
    <2>4. CASE Born(t) BY <1>0, <2>2, <2>4 DEF Born
    <2> QED BY <2>3, <2>4 DEF Moved
  <1>3. ASSUME NEW t \in Token \ late', NEW s \in Session, token'[t].of = s, denied'[s] > now'
        PROVE  token'[t].exp <= denied'[s]
    <2>1. t \in Token \ late /\ token[t].exp \in Nat
      BY DEF Remembers, TypeOK, TokenType
    <2>2. denied'[s] \in Nat \cup {Never} /\ denied[s] \in Nat \cup {Never}
      BY ListTyped DEF Typed, TypeOK, Id
    <2>3. token'[t] = token[t]
      <3>1. CASE Born(t)
        <4>1. denied[s] > now BY <1>3, <3>1 DEF Born, list
        <4>2. token'[t] # token[t] BY <1>3, <3>1, NothingAssumption DEF Born
        <4> QED BY <1>3, <4>1, <4>2 DEF Remembers
      <3> QED BY <3>1 DEF Moved
    <2>4. token[t].exp <= now + AccessLife BY <1>3, <2>3, NothingAssumption DEF Lasting
    <2>5. CASE denied'[s] >= now' + AccessLife BY <1>0, <1>1, <2>1, <2>2, <2>3, <2>4, <2>5 DEF Never
    <2>6. CASE denied'[s] = denied[s]
      <3>1. denied[s] > now BY <1>0, <1>1, <1>3, <2>2, <2>6 DEF Never
      <3> QED BY <1>3, <2>1, <2>3, <2>6, <3>1 DEF Lasting
    <2> QED BY <1>1, <1>3, <2>5, <2>6
  <1> QED BY <1>1, <1>2, <1>3 DEF Lasting

LEMMA StepSlips ==
  ASSUME IInv, Typed, Moved, Remembers PROVE Slips'
  <1> TypeOK /\ Slips BY DEF IInv
  <1>1. ASSUME NEW t \in late' PROVE token'[t].of # NoSession
    <2>1. t \in Token BY DEF Remembers, TypeOK
    <2>2. CASE Born(t) BY <2>2, NothingAssumption DEF Born
    <2>3. CASE token'[t] = token[t] /\ t \in late BY <2>3 DEF Slips
    <2> QED BY <2>1, <2>2, <2>3 DEF Moved, Remembers
  <1>2. ASSUME NEW q \in Request, req'[q].pc = "bindLogin" PROVE req'[q].access \notin late'
    <2>1. CASE req'[q] = req[q]
      <3>1. req[q].access \in Token /\ token[req[q].access].of \in Session /\ req[q].access \notin late
        BY <1>2, <2>1, Carried DEF Holding, Slips
      <3>2. token'[req[q].access] = token[req[q].access]
        BY <3>1, NothingAssumption DEF Moved, Born
      <3> QED BY <2>1, <3>1, <3>2 DEF Remembers
    <2>2. CASE /\ req'[q].access \in Token /\ token[req'[q].access].of = NoSession
               /\ denied[token'[req'[q].access].of] = Never
      <3>1. req'[q].access \notin late BY <2>2 DEF Slips
      <3>2. ~(Never > now) BY DEF TypeOK, Never
      <3> QED BY <2>2, <3>1, <3>2 DEF Remembers
    <2> QED BY <1>2, <2>1, <2>2 DEF Moved
  <1>3. ASSUME NEW t \in late', Admitted(t)' PROVE t \in slipped'
    <2>1. t \in Token BY DEF Remembers, TypeOK
    <2>2. t \in late BY <1>3, <2>1 DEF Remembers, Moved, Born
    <2>3. Admitted(t) \/ LetThrough(t)
      BY <1>3, <2>1, <2>2 DEF Moved, OfLogin, Slips
    <2> QED BY <2>2, <2>3 DEF Remembers, Slips
  <1> QED BY <1>1, <1>2, <1>3 DEF Slips

LEMMA StepSealed ==
  ASSUME IInv, Typed, Moved, Lasting', Remembers PROVE Sealed'
  <1> TypeOK BY DEF IInv
  <1> SUFFICES ASSUME NEW s \in Session, s \in closed'
               PROVE /\ upstream'[s] = "revoked"
                     /\ \A t \in Token \ late' : token'[t].of = s =>
                          token'[t].exp <= now' \/ denied'[s] > now'
    BY DEF Sealed, Remembers, TypeOK
  <1>1. CASE upstream'[s] = "revoked" /\ denied'[s] > now' BY <1>1
  <1>2. CASE s \in closed
    <2>1. /\ upstream[s] = "revoked"
          /\ \A t \in Token \ late : token[t].of = s => token[t].exp <= now \/ denied[s] > now
      BY <1>2 DEF IInv, Sealed
    <2>2. upstream'[s] = "revoked" BY <2>1 DEF Moved
    <2>3. /\ now \in Nat /\ now' \in Nat /\ now <= now'
          /\ denied[s] \in Nat \cup {Never} /\ denied'[s] \in Nat \cup {Never}
          /\ denied[s] > now' => denied'[s] = denied[s]
      BY ListTyped, ListLasts DEF Typed, TypeOK, Id
    <2>4. ASSUME NEW t \in Token \ late', token'[t].of = s
          PROVE  token'[t].exp <= now' \/ denied'[s] > now'
      <3>1. token'[t] = token[t] BY <2>1, <2>4 DEF Moved, Born
      <3>2. t \in Token \ late /\ token[t].of = s /\ token[t].exp \in Nat
        BY <2>4, <3>1 DEF TypeOK, TokenType, Remembers
      <3>3. token[t].exp <= now \/ denied[s] > now BY <2>1, <3>2
      <3>4. denied[s] > now => token[t].exp <= denied[s] BY <3>2 DEF IInv, Lasting
      <3> QED BY <2>3, <3>1, <3>2, <3>3, <3>4 DEF Never
    <2> QED BY <2>2, <2>4
  <1> QED BY <1>1, <1>2 DEF Remembers

---------------------------------------------------------------------------
LEMMA InitIInv == Init => IInv
  BY InitTyped, TimesAssumption, NothingAssumption
  DEF Init, IInv, TypeOK, Anchored, Minted, Unborn, Private, Checked, TokensFollowTheAnchor,
      Lasting, Slips, Sealed, Admitted, Holding, Empty, Cookies, At, Id

LEMMA StepIInv == IInv /\ [Next]_vars => IInv'
  <1> SUFFICES ASSUME IInv, [Next]_vars PROVE IInv'
    OBVIOUS
  <1>1. CASE UNCHANGED vars
    BY <1>1 DEF vars, IInv, TypeOK, Anchored, Minted, Unborn, Private, Checked, TokensFollowTheAnchor,
                Lasting, Slips, Sealed, Admitted
  <1>2. CASE Next
    <2>1. Step /\ Remembers BY <1>2 DEF Next
    <2>2. Typed /\ Anchored' /\ Moved BY <2>1, StepTyped, StepAnchored, StepMoved
    <2>3. TypeOK'
      <3>1. closed' \subseteq Session /\ late' \subseteq Token /\ slipped' \subseteq Token
        BY <2>1 DEF Remembers, IInv, TypeOK
      <3>2. now' \in Nat /\ denied' \in [Id -> Nat \cup {Never}] /\ fresh' \subseteq Id
        BY <2>2, ListTyped DEF Typed, IInv
      <3> QED BY <2>2, <3>1, <3>2 DEF Typed, TypeOK
    <2> QED BY <2>1, <2>2, <2>3, StepLasting, StepSlips, StepSealed DEF IInv
  <1> QED BY <1>1, <1>2

LEMMA Invariant == Spec => []IInv
  BY InitIInv, StepIInv, PTL DEF Spec

\* Every variable always holds a value of its shape.
THEOREM TypeCorrect == Spec => []TypeOK
  BY Invariant, PTL DEF IInv

\* A token that was bound is bound where its session was opened
\* (routers/auth.py:508-517, token_sessions.py:88-122).
THEOREM AnchoredTokens == Spec => []TokensFollowTheAnchor
  BY Invariant, PTL DEF IInv, Anchored

\* No token of a session closed on both sides is taken again by processes that
\* know of it, but for those minted after the denial and let through by a
\* process that did not (routers/auth.py:471-484, 536-555, token_sessions.py:73-85, 125-149).
THEOREM ClosedForGood == Spec => []ClosedStaysClosed
  <1>1. IInv => ClosedStaysClosed
    <2> SUFFICES ASSUME IInv, NEW t \in Token, Honoured(t, 0), token[t].of \in closed, t \notin slipped
                 PROVE  token[t].of \in fresh
      BY DEF ClosedStaysClosed
    <2>1. token[t].of \in Session /\ Admitted(t) BY DEF IInv, TypeOK, Honoured, Admitted
    <2>2. now < token[t].exp /\ now \in Nat /\ token[t].exp \in Nat
      BY DEF Honoured, IInv, TypeOK, TokenType
    <2>3. t \notin late BY <2>1 DEF IInv, Slips
    <2>4. denied[token[t].of] > now BY <2>1, <2>2, <2>3 DEF IInv, Sealed
    <2> QED BY <2>4 DEF Honoured, MustRefuse
  <1> QED BY <1>1, Invariant, PTL
=============================================================================
