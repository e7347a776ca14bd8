--------------------------- MODULE BrowserSession ---------------------------
(***************************************************************************)
(* The session of a user: the tabs of one browser                          *)
(* (front/src/services/{auth,refreshAuth}.service.ts, api/apiClient.ts,    *)
(* contexts/AuthContext.tsx, pages/CallbackPage.tsx) and the API that      *)
(* issues their cookies (back/src/authentication, back/src/user).          *)
(*                                                                         *)
(* Shared by the tabs: the cookies, and the expiry kept in localStorage.   *)
(* A tab's own: the refresher (timer and running operation), the one       *)
(* refresh request its callers share, and those callers: refreshUser at    *)
(* the load of the page and after the callback, and a call of the API.     *)
(* No tab hears of what another one stores: the listeners are one tab's.   *)
(*                                                                         *)
(* The cookies of a request are those of the instant it is sent; those of  *)
(* an answer are set when it is received, in the step that runs the code   *)
(* awaiting it.  Requests of a page that goes away are dropped.            *)
(***************************************************************************)
EXTENDS Integers, Sequences, FiniteSets

CONSTANTS
    Tabs, Users,
    NoUser,
    Lives,      \* lifetimes of a token (expires_in), in ticks
    Window,     \* REFRESH_WINDOW_MS: a refresh is due that long before expiry
    Soon,       \* the 60 s of getAccessToken
    Tolerance,  \* the 7 days of extractSubjectFromExpiredToken
    TxLife,     \* OIDC_TRANSACTION_TTL_MS
    MaxTime,    \* bound: last instant
    MaxTokens,  \* bound: refresh tokens issued
    MaxLogins,  \* bound: logins begun
    MaxEvents,  \* bound: other things a user does
    MaxFaults   \* bound: requests that fail, answers lost, storage errors

ASSUME SessionAssumption ==
    /\ NoUser \notin Users
    /\ Lives \subseteq Nat \ {0}
    /\ {Window, Soon, Tolerance, TxLife, MaxTime, MaxLogins, MaxEvents,
        MaxFaults} \subseteq Nat
    /\ MaxTokens \in Nat \ {0}

VARIABLES
    now,       \* the clock
    jar,       \* the cookies access_token, refresh_token, __Host-verseau_oidc
    session,   \* expires_at under verseau_session in localStorage
    rotates,   \* whether the provider gives a new refresh token at each use
    owner,     \* the refresh tokens issued, each with its user
    live,      \* those the identity provider still accepts
    rows,      \* users with a row in the database
    page,      \* what a tab is at
    state,     \* oidc_state in a tab's sessionStorage
    refresher, \* RefreshAuthService of a tab
    flight,    \* AuthService.refreshPromise of a tab and its request
    proc,      \* the callers of a tab
    callback,  \* POST /auth/callback of a tab
    leaving,   \* POST /auth/logout of a tab
    shown,     \* authenticatedUser of a tab
    signedOut, \* history: a logout was answered and no callback since
    lost,      \* history: a rotated refresh token never reached the cookies
    burst,     \* history: proactive refreshes of a tab at this instant
    logins, events, faults

vars == <<now, jar, session, rotates, owner, live, rows, page, state, refresher, flight,
          proc, callback, leaving, shown, signedOut, lost, burst, logins, events,
          faults>>
idpVars == <<rotates, owner, live>>
boundVars == <<logins, events, faults>>

None == -1  \* no timer, no expiry
NoToken == 0
Tokens == 0..MaxTokens
Instants == Int
Access == [sub : Users \cup {NoUser}, exp : Instants]
NoAccess == [sub |-> NoUser, exp |-> None]
Tx == [attempt : 0..MaxLogins, exp : Instants]
NoTx == [attempt |-> 0, exp |-> None]

\* The callers that may await a refresh, and where they are.
Procs == {"page", "callback", "api"}
Waiting == {"token", "meRefresh", "apiRefresh"}
Caller == [pc : {"idle", "me", "meRetry", "api", "apiRetry"} \cup Waiting,
           ans : Users \cup {NoUser}]
Idle == [pc |-> "idle", ans |-> NoUser]
NoProcs == [p \in Procs |-> Idle]

Refresher == [proactive : BOOLEAN, timer : Instants, op : BOOLEAN]
Stopped == [proactive |-> FALSE, timer |-> None, op |-> FALSE]

Flight == [pc : {"none", "sent", "refused", "ok"}, access : Access,
           refresh : Tokens, token : Tokens, life : Lives \cup {0}, exp : Instants]
NoFlight == [pc |-> "none", access |-> NoAccess, refresh |-> NoToken,
             token |-> NoToken, life |-> 0, exp |-> None]

Callback == [pc : {"none", "returned", "sent", "creating", "refused", "cleared", "ok"},
             attempt : 0..MaxLogins, sub : Users \cup {NoUser}, tx : Tx,
             token : Tokens, life : Lives \cup {0}, exp : Instants]
NoCallback == [pc |-> "none", attempt |-> 0, sub |-> NoUser, tx |-> NoTx,
               token |-> NoToken, life |-> 0, exp |-> None]

Event == events < MaxEvents /\ events' = events + 1 /\ UNCHANGED <<logins, faults>>
Fault == faults < MaxFaults /\ faults' = faults + 1 /\ UNCHANGED <<logins, events>>

-----------------------------------------------------------------------------
(* RefreshAuthService: what becomes of a refresher *)

\* Mutant: a timer is armed whether or not an operation runs.
Armed_BesideOperation(r, expiry, refreshIfDue) ==
    LET due == expiry - now <= Window
    IN [r EXCEPT !.timer = IF r.proactive /\ ~due THEN expiry - Window ELSE None,
                 !.op = @ \/ (r.proactive /\ due /\ refreshIfDue)]

\* scheduleSession: the timer is cleared first; an active operation keeps it so.
Armed(r, expiry, refreshIfDue) ==
    LET free == r.proactive /\ ~r.op
        due == expiry - now <= Window
    IN [r EXCEPT !.timer = IF free /\ ~due THEN expiry - Window ELSE None,
                 !.op = @ \/ (free /\ due /\ refreshIfDue)]

ArmedByStored(r, expiry) ==
    IF expiry = None THEN [r EXCEPT !.timer = None] ELSE Armed(r, expiry, TRUE)

\* start, at the load of a page.
Started(expiry) == ArmedByStored([Stopped EXCEPT !.proactive = TRUE], expiry)

\* handleSessionChange: login, refresh ("cleared" is Stopped).
OnLogin(r, expiry) == Armed([r EXCEPT !.proactive = TRUE, !.op = FALSE], expiry, TRUE)
OnRefresh(r, expiry) == IF r.proactive /\ ~r.op THEN Armed(r, expiry, FALSE) ELSE r

\* Mutant: a token that is due already is refreshed again at once.
OnResult_Again(r, expiry) ==
    IF r.op /\ expiry # None THEN Armed([r EXCEPT !.op = FALSE], expiry, TRUE) ELSE r

\* handleRefreshResult: a token that cannot outlive the window ends it.
OnResult(r, expiry) ==
    IF ~r.op THEN r
    ELSE IF expiry = None \/ expiry - now <= Window THEN Stopped
    ELSE Armed([r EXCEPT !.op = FALSE], expiry, FALSE)

OnFailure(r) == IF r.op THEN Stopped ELSE r

\* refreshToken: the callers of a tab share one request.
Request(cookies) ==
    [NoFlight EXCEPT !.pc = "sent", !.access = cookies.access, !.refresh = cookies.refresh]
Asked(t, cookies) == IF flight[t].pc # "none" THEN flight[t] ELSE Request(cookies)

\* The tab's refresher becomes r; an operation it runs asks for a refresh, and
\* so do the callers that await one.
Becomes(t, r, callers, cookies) ==
    /\ refresher' = [refresher EXCEPT ![t] = r]
    /\ proc' = [proc EXCEPT ![t] = callers]
    /\ flight' = [flight EXCEPT ![t] =
          IF r.op \/ \E p \in Procs : callers[p].pc \in Waiting
          THEN Asked(t, cookies) ELSE @]
    /\ burst' = [burst EXCEPT ![t] = @ + (IF r.op /\ ~refresher[t].op THEN 1 ELSE 0)]

TimerFires(t) ==
    /\ page[t] = "open" /\ refresher[t].timer \in 0..now
    /\ Becomes(t, [refresher[t] EXCEPT !.timer = None, !.op = @ \/ refresher[t].proactive],
               proc[t], jar)
    /\ UNCHANGED <<now, jar, session, idpVars, rows, page, state, callback, leaving,
                   shown, signedOut, lost, boundVars>>

\* visibilitychange
Visible(t) ==
    /\ page[t] = "open" /\ refresher[t].proactive
    /\ Event
    /\ Becomes(t, ArmedByStored(refresher[t], session), proc[t], jar)
    /\ UNCHANGED <<now, jar, session, idpVars, rows, page, state, callback, leaving,
                   shown, signedOut, lost>>

-----------------------------------------------------------------------------
(* The callers *)

\* Mutant: the caller gets the token instead of its user.
Answer_Token(pc, cookies) ==
    [pc |-> pc, ans |-> IF cookies.access.exp > now THEN cookies.refresh ELSE NoUser]

\* AuthenticationMiddleware: a request passes while its access token is valid.
Answer(pc, cookies) ==
    [pc |-> pc, ans |-> IF cookies.access.exp > now THEN cookies.access.sub ELSE NoUser]

\* refreshUser: getAccessToken, then getCurrentUser.
Loading(expiry, cookies) ==
    IF expiry = None THEN Idle
    ELSE IF expiry - now < Soon THEN [Idle EXCEPT !.pc = "token"]
    ELSE Answer("me", cookies)

\* The refresh a page asks for as it loads: its refresher's, refreshUser's or
\* both.
LoadedFlight(expiry, cookies) ==
    IF Started(expiry).op \/ Loading(expiry, cookies).pc = "token"
    THEN Request(cookies) ELSE NoFlight

\* The tabs are opened in a browser that was never signed in, or that a user
\* left with a session and cookies of any age.
Init ==
    /\ now = 0 /\ rotates \in BOOLEAN
    /\ \E u \in Users \cup {NoUser}, age \in Lives \cup {0} :
          LET signedIn == u # NoUser
              access == IF signedIn THEN [sub |-> u, exp |-> age] ELSE NoAccess
              expiry == IF signedIn THEN age ELSE None
          IN /\ jar = [access |-> access, tx |-> NoTx,
                       refresh |-> IF signedIn THEN 1 ELSE NoToken]
             /\ session = expiry
             /\ owner = IF signedIn THEN <<u>> ELSE << >>
             /\ rows = IF signedIn THEN {u} ELSE {}
             /\ refresher = [t \in Tabs |-> Started(expiry)]
             /\ proc = [t \in Tabs |->
                   [NoProcs EXCEPT !["page"] = Loading(expiry, jar)]]
             /\ flight = [t \in Tabs |-> LoadedFlight(expiry, jar)]
             /\ burst = [t \in Tabs |-> IF Started(expiry).op THEN 1 ELSE 0]
    /\ live = DOMAIN owner
    /\ page = [t \in Tabs |-> "open"]
    /\ state = [t \in Tabs |-> 0]
    /\ callback = [t \in Tabs |-> NoCallback]
    /\ leaving = [t \in Tabs |-> FALSE]
    /\ shown = [t \in Tabs |-> NoUser]
    /\ signedOut = FALSE /\ lost = FALSE
    /\ logins = 0 /\ events = 0 /\ faults = 0

\* The page of a tab is loaded again: a rotation it was waiting for is lost.
Loaded(t, expiry, cookies) ==
    /\ refresher' = [refresher EXCEPT ![t] = Started(expiry)]
    /\ proc' = [proc EXCEPT ![t] = [NoProcs EXCEPT !["page"] = Loading(expiry, cookies)]]
    /\ flight' = [flight EXCEPT ![t] = LoadedFlight(expiry, cookies)]
    /\ burst' = [burst EXCEPT ![t] = IF Started(expiry).op THEN 1 ELSE 0]
    /\ shown' = [shown EXCEPT ![t] = NoUser]

Unloads(t) ==
    lost' = (lost \/ (flight[t].pc = "ok" /\ rotates))

Reload(t) ==
    /\ page[t] = "open" /\ callback[t].pc = "none" /\ ~leaving[t]
    /\ Event
    /\ Unloads(t) /\ Loaded(t, session, jar)
    /\ UNCHANGED <<now, jar, session, idpVars, rows, page, state, callback, leaving,
                   signedOut>>

\* authenticatedFetch
ApiCall(t) ==
    /\ page[t] = "open" /\ proc[t]["api"].pc = "idle"
    /\ Event
    /\ proc' = [proc EXCEPT ![t]["api"] = Answer("api", jar)]
    /\ UNCHANGED <<now, jar, session, idpVars, rows, page, state, refresher, flight,
                   callback, leaving, shown, signedOut, lost, burst>>

\* An answer of GET /me or of the API; 401 asks for a refresh, once.
Received(t, p) ==
    /\ page[t] = "open" /\ proc[t][p].pc \in {"me", "meRetry", "api", "apiRetry"}
    /\ LET caller == proc[t][p]
           refused == caller.ans = NoUser
           retry == IF caller.pc = "me" THEN "meRefresh" ELSE "apiRefresh"
           cleared == caller.pc = "meRetry" /\ refused
           again == refused /\ caller.pc \in {"me", "api"}
       IN /\ Becomes(t, IF cleared THEN Stopped ELSE refresher[t],
                     [proc[t] EXCEPT ![p] = IF again THEN [Idle EXCEPT !.pc = retry]
                                                    ELSE Idle], jar)
          /\ session' = IF cleared THEN None ELSE session
          /\ shown' = [shown EXCEPT ![t] =
                IF caller.pc \in {"me", "meRetry"} /\ ~again THEN caller.ans ELSE @]
    /\ UNCHANGED <<now, jar, idpVars, rows, page, state, callback, leaving, signedOut,
                   lost, boundVars>>

\* GET /me or the API fails otherwise, with an answer or without.
\* getCurrentUser clears the session when the second answer is a failure,
\* authenticatedFetch when there is none; the page then goes home.
Failed(t, p) ==
    /\ page[t] = "open" /\ proc[t][p].pc \in {"me", "meRetry", "api", "apiRetry"}
    /\ Fault
    /\ \E answered \in BOOLEAN :
       LET pc == proc[t][p].pc
           home == pc = "apiRetry" /\ ~answered
           cleared == home \/ (pc = "meRetry" /\ answered)
       IN /\ session' = IF cleared THEN None ELSE session
          /\ IF home THEN Loaded(t, None, jar) /\ Unloads(t)
             ELSE /\ Becomes(t, IF cleared THEN Stopped ELSE refresher[t],
                             [proc[t] EXCEPT ![p] = Idle], jar)
                  /\ shown' = [shown EXCEPT ![t] = IF p = "api" THEN @ ELSE NoUser]
                  /\ lost' = lost
          /\ callback' = [callback EXCEPT ![t] = IF home THEN NoCallback ELSE @]
          /\ leaving' = [leaving EXCEPT ![t] = @ /\ ~home]
    /\ UNCHANGED <<now, jar, idpVars, rows, page, state, signedOut>>

-----------------------------------------------------------------------------
(* POST /auth/refresh *)

Grants(sub) ==
    /\ Len(owner) < MaxTokens
    /\ owner' = Append(owner, sub)
    /\ UNCHANGED rotates

\* Both cookies are needed, the access token signed and not too old; then the
\* identity provider exchanges the refresh token, for a new one if it rotates
\* them.
Accepted(f) ==
    /\ f.refresh # NoToken /\ f.access # NoAccess
    /\ now < f.access.exp + Tolerance
    /\ f.refresh \in live
    /\ rotates => Len(owner) < MaxTokens

Exchanged(token) ==
    IF rotates THEN /\ Grants(owner[token])
                    /\ live' = (live \ {token}) \cup {Len(owner')}
    ELSE UNCHANGED idpVars

\* Mutant: the subject of userinfo is not compared.
SubjectAgrees_Unchecked(f) == f.refresh \in live

\* fetchUserInfo for the subject of the access token.
SubjectAgrees(f) == owner[f.refresh] = f.access.sub

\* After the exchange: userinfo, the rights of the user, the internal token.  A
\* refusal there does not give the new refresh token to the browser.
ServerRefresh(t) ==
    /\ flight[t].pc = "sent"
    /\ LET f == flight[t]
       IN \/ /\ ~Accepted(f)
             /\ flight' = [flight EXCEPT ![t].pc = "refused"]
             /\ UNCHANGED <<idpVars, lost, boundVars>>
          \/ /\ Accepted(f) /\ Exchanged(f.refresh)
             /\ IF SubjectAgrees(f) THEN Fault ELSE UNCHANGED boundVars
             /\ flight' = [flight EXCEPT ![t].pc = "refused"]
             /\ lost' = (lost \/ rotates)
          \/ /\ Accepted(f) /\ Exchanged(f.refresh)
             /\ SubjectAgrees(f)
             /\ \E life \in Lives :
                   flight' = [flight EXCEPT ![t] =
                      [@ EXCEPT !.pc = "ok", !.life = life, !.exp = now + life,
                                !.token = IF rotates THEN Len(owner') ELSE f.refresh]]
             /\ UNCHANGED <<lost, boundVars>>
    /\ UNCHANGED <<now, jar, session, rows, page, state, refresher, proc, callback,
                   leaving, shown, signedOut, burst>>

\* The request, or its answer, does not arrive.
RefreshLost(t) ==
    /\ flight[t].pc \in {"sent", "ok"}
    /\ Fault /\ Unloads(t)
    /\ flight' = [flight EXCEPT ![t].pc = "refused"]
    /\ UNCHANGED <<now, jar, session, idpVars, rows, page, state, refresher, proc,
                   callback, leaving, shown, signedOut, burst>>

\* Mutant: the refresh token in the cookies is never replaced.
Cookies_OldToken(sub, answer) ==
    [jar EXCEPT !.access = [sub |-> sub, exp |-> answer.exp],
                !.refresh = IF @ = NoToken THEN answer.token ELSE @]

\* buildCookieResponse
Cookies(sub, answer) ==
    [jar EXCEPT !.access = [sub |-> sub, exp |-> answer.exp],
                !.refresh = IF answer.token = NoToken THEN @ ELSE answer.token]

\* The shared request is over; a refresher that still runs an operation has
\* begun another one.
Settled(t, r, cookies) ==
    /\ refresher' = [refresher EXCEPT ![t] = r]
    /\ flight' = [flight EXCEPT ![t] = IF r.op THEN Request(cookies) ELSE NoFlight]
    /\ burst' = [burst EXCEPT ![t] = @ + (IF r.op THEN 1 ELSE 0)]

\* doRefreshToken returns: the session is stored (or the storage refuses it),
\* the listeners are told, then the operation and the callers go on.
Refreshed(t) ==
    /\ page[t] = "open" /\ flight[t].pc = "ok"
    /\ \E stored \in BOOLEAN :
       LET f == flight[t]
           new == Cookies(f.access.sub, f)
           expiry == IF stored THEN now + f.life ELSE session
           told == IF stored THEN OnRefresh(refresher[t], expiry) ELSE refresher[t]
       IN /\ IF stored THEN UNCHANGED boundVars ELSE Fault
          /\ jar' = new
          /\ session' = expiry
          /\ Settled(t, OnResult(told, expiry), new)
          /\ proc' = [proc EXCEPT ![t] = [p \in Procs |->
                CASE @[p].pc = "token" -> Answer("me", new)
                  [] @[p].pc = "meRefresh" -> Answer("meRetry", new)
                  [] @[p].pc = "apiRefresh" -> Answer("apiRetry", new)
                  [] OTHER -> @[p]]]
    /\ UNCHANGED <<now, idpVars, rows, page, state, callback, leaving, shown,
                   signedOut, lost>>

\* Mutant: doRefreshToken stores the session without looking at response.ok.
RefreshFailed_Stored(t) ==
    /\ page[t] = "open" /\ flight[t].pc = "refused"
    /\ session' = now + 1
    /\ refresher' = [refresher EXCEPT ![t] = OnResult(OnRefresh(@, session'), session')]
    /\ flight' = [flight EXCEPT ![t] = NoFlight]
    /\ proc' = [proc EXCEPT ![t] = NoProcs]
    /\ UNCHANGED <<now, jar, idpVars, rows, page, state, callback, leaving, shown,
                   signedOut, lost, burst, boundVars>>

\* Mutant: the callers that share a failed refresh are not told.
RefreshFailed_Untold(t) ==
    /\ page[t] = "open" /\ flight[t].pc = "refused"
    /\ refresher' = [refresher EXCEPT ![t] = OnFailure(@)]
    /\ flight' = [flight EXCEPT ![t] = NoFlight]
    /\ UNCHANGED <<now, jar, session, idpVars, rows, page, state, proc, callback,
                   leaving, shown, signedOut, lost, burst, boundVars>>

\* doRefreshToken throws: the callers clear the session, a call of the API also
\* sends the page home.  Without a caller the session stays.
RefreshFailed(t) ==
    /\ page[t] = "open" /\ flight[t].pc = "refused"
    /\ LET waits == {p \in Procs : proc[t][p].pc \in Waiting}
           home == "api" \in waits
       IN /\ session' = IF waits = {} THEN session ELSE None
          /\ refresher' = [refresher EXCEPT ![t] =
                IF home THEN Started(None)
                ELSE IF waits = {} THEN OnFailure(@) ELSE Stopped]
          /\ proc' = [proc EXCEPT ![t] = [p \in Procs |->
                IF home \/ p \in waits THEN Idle ELSE @[p]]]
          /\ flight' = [flight EXCEPT ![t] = NoFlight]
          /\ shown' = [shown EXCEPT ![t] = IF waits = {} THEN @ ELSE NoUser]
          /\ callback' = [callback EXCEPT ![t] = IF home THEN NoCallback ELSE @]
          /\ leaving' = [leaving EXCEPT ![t] = @ /\ ~home]
    /\ UNCHANGED <<now, jar, idpVars, rows, page, state, signedOut, lost, burst,
                   boundVars>>

-----------------------------------------------------------------------------
(* Login, callback, logout *)

\* GET /auth/login, then the tab leaves for the identity provider.  One cookie
\* holds the attempt: a login of another tab replaces it.
Login(t) ==
    /\ page[t] = "open" /\ shown[t] = NoUser /\ callback[t].pc = "none" /\ ~leaving[t]
    /\ logins < MaxLogins /\ logins' = logins + 1
    /\ jar' = [jar EXCEPT !.tx = [attempt |-> logins', exp |-> now + TxLife]]
    /\ state' = [state EXCEPT ![t] = logins']
    /\ page' = [page EXCEPT ![t] = "idp"]
    /\ Unloads(t)
    /\ refresher' = [refresher EXCEPT ![t] = Stopped]
    /\ proc' = [proc EXCEPT ![t] = NoProcs]
    /\ flight' = [flight EXCEPT ![t] = NoFlight]
    /\ UNCHANGED <<now, session, idpVars, rows, callback, leaving, shown, signedOut,
                   burst, events, faults>>

\* The provider sends the browser to /callback?code&state of some attempt.
ComesBack(t, u, a) ==
    /\ page[t] = "idp" /\ a \in 1..logins
    /\ page' = [page EXCEPT ![t] = "open"]
    /\ callback' = [callback EXCEPT ![t] =
          [NoCallback EXCEPT !.pc = "returned", !.attempt = a, !.sub = u]]
    /\ Loaded(t, session, jar)
    /\ UNCHANGED <<now, jar, session, idpVars, rows, state, leaving, signedOut, lost,
                   boundVars>>

\* handleCallback: the state of this tab, used once.
SendCallback(t) ==
    /\ page[t] = "open" /\ callback[t].pc = "returned"
    /\ callback' = [callback EXCEPT ![t] =
          IF state[t] = @.attempt THEN [@ EXCEPT !.pc = "sent", !.tx = jar.tx]
                                  ELSE NoCallback]
    /\ state' = [state EXCEPT ![t] = 0]
    /\ UNCHANGED <<now, jar, session, idpVars, rows, page, refresher, flight, proc,
                   leaving, shown, signedOut, lost, burst, boundVars>>

\* A new refresh token for the user, if the provider gives one.
SignedIn(t, u) ==
    /\ \E life \in Lives, given \in BOOLEAN :
          /\ IF given THEN Grants(u) /\ live' = live \cup {Len(owner')}
                      ELSE UNCHANGED idpVars
          /\ callback' = [callback EXCEPT ![t].pc = "ok", ![t].life = life,
                             ![t].exp = now + life,
                             ![t].token = IF given THEN Len(owner') ELSE NoToken]

\* The signed cookie holds the attempt the code is for.
AttemptAgrees(c) == c.tx.attempt = c.attempt /\ now < c.tx.exp

\* POST /auth/callback, up to findOrCreateUser's find; "refused" leaves the
\* cookie of the attempt, "cleared" has removed it.
ServerCallback(t) ==
    /\ callback[t].pc = "sent"
    /\ LET c == callback[t]
       IN \/ /\ ~AttemptAgrees(c)
             /\ callback' = [callback EXCEPT ![t].pc = "refused"]
             /\ UNCHANGED <<idpVars, boundVars>>
          \/ /\ AttemptAgrees(c) /\ Fault
             /\ callback' = [callback EXCEPT ![t].pc = "cleared"]
             /\ UNCHANGED idpVars
          \/ /\ AttemptAgrees(c) /\ c.sub \in rows
             /\ SignedIn(t, c.sub) /\ UNCHANGED boundVars
          \/ /\ AttemptAgrees(c) /\ c.sub \notin rows
             /\ callback' = [callback EXCEPT ![t].pc = "creating"]
             /\ UNCHANGED <<idpVars, boundVars>>
    /\ UNCHANGED <<now, jar, session, rows, page, state, refresher, flight, proc,
                   leaving, shown, signedOut, lost, burst>>

\* createUser: sub is unique; it fails when the same user's first login from
\* another browser has created the row since.
ServerCreatesUser(t) ==
    /\ callback[t].pc = "creating"
    /\ rows' = rows \cup {callback[t].sub}
    /\ \/ SignedIn(t, callback[t].sub)
       \/ /\ callback' = [callback EXCEPT ![t].pc = "cleared"]
          /\ UNCHANGED idpVars
    /\ UNCHANGED <<now, jar, session, page, state, refresher, flight, proc, leaving,
                   shown, signedOut, lost, burst, boundVars>>

\* The answer: cookies, session (unless the storage refuses it), listeners, then
\* refreshUser, which shows nobody when no session is stored.
CallbackAnswered(t) ==
    /\ page[t] = "open" /\ callback[t].pc = "ok"
    /\ \E stored \in BOOLEAN :
       LET c == callback[t]
           new == [Cookies(c.sub, c) EXCEPT !.tx = NoTx]
           expiry == IF stored THEN now + c.life ELSE session
           told == IF stored THEN OnLogin(refresher[t], expiry) ELSE refresher[t]
       IN /\ IF stored THEN UNCHANGED boundVars ELSE Fault
          /\ jar' = new
          /\ session' = expiry
          /\ Becomes(t, told, [proc[t] EXCEPT !["callback"] = Loading(expiry, new)], new)
          /\ shown' = [shown EXCEPT ![t] = IF expiry = None THEN NoUser ELSE @]
    /\ callback' = [callback EXCEPT ![t] = NoCallback]
    /\ signedOut' = FALSE
    /\ UNCHANGED <<now, idpVars, rows, page, state, leaving, lost>>

CallbackRefused(t) ==
    /\ callback[t].pc \in {"refused", "cleared"}
    /\ jar' = IF callback[t].pc = "cleared" THEN [jar EXCEPT !.tx = NoTx] ELSE jar
    /\ callback' = [callback EXCEPT ![t] = NoCallback]
    /\ UNCHANGED <<now, session, idpVars, rows, page, state, refresher, flight, proc,
                   leaving, shown, signedOut, lost, burst, boundVars>>

Logout(t) ==
    /\ page[t] = "open" /\ shown[t] # NoUser /\ ~leaving[t]
    /\ Event
    /\ leaving' = [leaving EXCEPT ![t] = TRUE]
    /\ UNCHANGED <<now, jar, session, idpVars, rows, page, state, refresher, flight,
                   proc, callback, shown, signedOut, lost, burst>>

\* The answer clears the cookies; the local session goes, answer or not.
LoggedOut(t) ==
    /\ leaving[t]
    /\ \/ /\ jar' = [jar EXCEPT !.access = NoAccess, !.refresh = NoToken]
          /\ signedOut' = TRUE /\ UNCHANGED boundVars
       \/ UNCHANGED <<jar, signedOut>> /\ Fault
    /\ leaving' = [leaving EXCEPT ![t] = FALSE]
    /\ session' = None
    /\ refresher' = [refresher EXCEPT ![t] = Stopped]
    /\ shown' = [shown EXCEPT ![t] = NoUser]
    /\ UNCHANGED <<now, idpVars, rows, page, state, flight, proc, callback, lost, burst>>

Tick ==
    /\ now < MaxTime /\ now' = now + 1
    /\ burst' = [t \in Tabs |-> 0]
    /\ UNCHANGED <<jar, session, idpVars, rows, page, state, refresher, flight, proc,
                   callback, leaving, shown, signedOut, lost, boundVars>>

\* What the network, the API and the event loop do of a tab's requests.
Answers(t) ==
    \/ ServerRefresh(t) \/ Refreshed(t) \/ RefreshFailed(t)
    \/ SendCallback(t) \/ ServerCallback(t) \/ ServerCreatesUser(t)
    \/ CallbackAnswered(t) \/ CallbackRefused(t) \/ LoggedOut(t)
    \/ \E p \in Procs : Received(t, p)

UserDoes(t) ==
    \/ Visible(t) \/ Reload(t) \/ ApiCall(t) \/ Login(t) \/ Logout(t)
    \/ \E u \in Users, a \in 1..MaxLogins : ComesBack(t, u, a)

Next ==
    \/ Tick
    \/ \E t \in Tabs :
          \/ Answers(t) \/ UserDoes(t) \/ TimerFires(t) \/ RefreshLost(t)
          \/ \E p \in Procs : Failed(t, p)

Spec == Init /\ [][Next]_vars

\* Requests are answered or fail, and what awaits them goes on.
FairSpec == Spec /\ \A t \in Tabs : WF_vars(Answers(t))

-----------------------------------------------------------------------------
(* Properties *)

\* The variables keep their types, whatever fails or is dropped.
TypeOK ==
    /\ now \in 0..MaxTime /\ session \in Instants
    /\ jar \in [access : Access, refresh : Tokens, tx : Tx]
    /\ rotates \in BOOLEAN /\ owner \in Seq(Users) /\ Len(owner) <= MaxTokens
    /\ live \subseteq 1..Len(owner) /\ rows \subseteq Users
    /\ page \in [Tabs -> {"open", "idp"}] /\ state \in [Tabs -> 0..MaxLogins]
    /\ refresher \in [Tabs -> Refresher] /\ flight \in [Tabs -> Flight]
    /\ proc \in [Tabs -> [Procs -> Caller]] /\ callback \in [Tabs -> Callback]
    /\ leaving \in [Tabs -> BOOLEAN] /\ shown \in [Tabs -> Users \cup {NoUser}]
    /\ signedOut \in BOOLEAN /\ lost \in BOOLEAN /\ burst \in [Tabs -> Nat]
    /\ logins \in 0..MaxLogins /\ events \in 0..MaxEvents /\ faults \in 0..MaxFaults

\* A tab has one refresh ahead of it: the timer is off while an operation runs,
\* and whatever awaits a refresh has a request to wait for.  A timer beside an
\* operation would refresh twice; an operation without a request would never end,
\* and runProactiveRefresh would do nothing for the rest of the page's life.
OneRefreshAhead ==
    \A t \in Tabs :
        /\ ~(refresher[t].op /\ refresher[t].timer # None)
        /\ refresher[t].op \/ (\E p \in Procs : proc[t][p].pc \in Waiting)
              => flight[t].pc # "none"

\* The browser can always refresh again: the refresh token in the cookies is
\* accepted by the provider, or the answer with its successor is on its way,
\* unless a rotation was lost (its answer, or a refusal after the exchange).  Two
\* tabs that refresh together, a login or a logout meanwhile do not break this.
RefreshTokenUsable ==
    \/ lost
    \/ jar.refresh \in {NoToken} \cup live
    \/ \E t \in Tabs : flight[t].pc = "ok" /\ flight[t].refresh = jar.refresh

\* A refresh never hands the session to somebody else: the new access token is for
\* the owner of the refresh token, also when the two cookies of the request came
\* from the logins of two users (a callback that brought no refresh token).
SubjectKept ==
    \A t \in Tabs :
        flight[t].pc = "ok" => owner[flight[t].token] = flight[t].access.sub

\* "Do not immediately refresh again for a token that cannot outlive the refresh
\* window": at one instant a tab starts one refresh by itself, and one more for
\* each thing its user does.
NoRefreshLoop == \A t \in Tabs : burst[t] <= 1 + events + logins

\* After a logout that was answered, with no request under way that left before
\* it, only a callback signs the browser in again: no timer, tab or retried call
\* of another tab brings back the session or the cookies.  (A refresh that left
\* before the logout does bring them back.)
SignedOutStays ==
    [][ /\ signedOut /\ signedOut'
        /\ jar.access = NoAccess /\ session = None
        /\ \A t \in Tabs : flight[t].pc # "none" => flight[t].access = NoAccess
        => jar'.access = NoAccess /\ session' = None ]_vars

\* isLoading of AuthContext ends: refreshUser returns, whatever is refused, lost
\* or refreshed on its way.
LoadingEnds ==
    \A t \in Tabs :
        (\E p \in {"page", "callback"} : proc[t][p].pc # "idle")
            ~> (\A p \in {"page", "callback"} : proc[t][p].pc = "idle")

=============================================================================
