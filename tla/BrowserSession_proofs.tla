----------------------- MODULE BrowserSession_proofs -----------------------
(***************************************************************************)
(* Proofs about BrowserSession, for every set of tabs and users, every     *)
(* lifetime and window, and any number of logins, events and faults.       *)
(***************************************************************************)
EXTENDS BrowserSession, TLAPS

USE SessionAssumption

-----------------------------------------------------------------------------
(* What the helpers return *)

LEMMA Bounds ==
    /\ MaxTime \in Nat /\ MaxLogins \in Nat /\ MaxEvents \in Nat /\ MaxFaults \in Nat
    /\ TxLife \in Nat /\ \A life \in Lives : life \in Nat
OBVIOUS

LEMMA LifeNat == ASSUME NEW life \in Lives \cup {0} PROVE life \in Nat
BY Bounds

LEMMA Constants ==
    /\ NoAccess \in Access /\ NoTx \in Tx /\ Stopped \in Refresher
    /\ NoFlight \in Flight /\ NoCallback \in Callback /\ Idle \in Caller
    /\ NoProcs \in [Procs -> Caller]
<1>1. NoAccess \in Access BY DEF NoAccess, Access, Instants, None
<1>2. NoTx \in Tx BY DEF NoTx, Tx, Instants, None
<1>3. Stopped \in Refresher BY DEF Stopped, Refresher, Instants, None
<1>4. NoToken \in Tokens BY DEF NoToken, Tokens
<1>5. NoFlight \in Flight BY <1>1, <1>4 DEF NoFlight, Flight, Instants, None
<1>6. NoCallback \in Callback BY <1>2, <1>4 DEF NoCallback, Callback, Instants, None
<1>7. Idle \in Caller BY DEF Idle, Caller
<1>8. QED BY <1>1, <1>2, <1>3, <1>5, <1>6, <1>7 DEF NoProcs

LEMMA ArmedType ==
    ASSUME NEW r \in Refresher, NEW expiry \in Int, NEW due \in BOOLEAN, now \in Int
    PROVE  Armed(r, expiry, due) \in Refresher
<1>1. (r.op \/ ((r.proactive /\ ~r.op) /\ expiry - now <= Window /\ due)) \in BOOLEAN
  OBVIOUS
<1>2. (IF (r.proactive /\ ~r.op) /\ ~(expiry - now <= Window) THEN expiry - Window ELSE None) \in Int
  BY DEF None
<1>3. QED BY <1>1, <1>2 DEF Armed, Refresher, Instants

LEMMA FiredType ==
    ASSUME NEW r \in Refresher
    PROVE  [r EXCEPT !.timer = None, !.op = @ \/ r.proactive] \in Refresher
<1>1. (r.op \/ r.proactive) \in BOOLEAN OBVIOUS
<1>2. None \in Int BY DEF None
<1>3. QED BY <1>1, <1>2 DEF Refresher, Instants

LEMMA ArmedByStoredType ==
    ASSUME NEW r \in Refresher, NEW expiry \in Int, now \in Int
    PROVE  ArmedByStored(r, expiry) \in Refresher
<1>1. [r EXCEPT !.timer = None] \in Refresher BY DEF Refresher, Instants, None
<1>2. QED BY <1>1, ArmedType DEF ArmedByStored

LEMMA StartedType ==
    ASSUME NEW expiry \in Int, now \in Int
    PROVE  Started(expiry) \in Refresher
<1>1. [Stopped EXCEPT !.proactive = TRUE] \in Refresher BY Constants DEF Refresher
<1>2. QED BY <1>1, ArmedByStoredType DEF Started

LEMMA ResultsType ==
    ASSUME NEW r \in Refresher, NEW expiry \in Int, now \in Int
    PROVE  /\ OnLogin(r, expiry) \in Refresher
           /\ OnRefresh(r, expiry) \in Refresher
           /\ OnResult(r, expiry) \in Refresher
           /\ OnFailure(r) \in Refresher
<1>1. [r EXCEPT !.proactive = TRUE, !.op = FALSE] \in Refresher BY DEF Refresher
<1>2. [r EXCEPT !.op = FALSE] \in Refresher BY DEF Refresher
<1>3. OnLogin(r, expiry) \in Refresher BY <1>1, ArmedType DEF OnLogin
<1>4. OnRefresh(r, expiry) \in Refresher BY ArmedType DEF OnRefresh
<1>5. OnResult(r, expiry) \in Refresher BY <1>2, ArmedType, Constants DEF OnResult
<1>6. OnFailure(r) \in Refresher BY Constants DEF OnFailure
<1>7. QED BY <1>3, <1>4, <1>5, <1>6

Jar == [access : Access, refresh : Tokens, tx : Tx]

LEMMA RequestType ==
    ASSUME NEW cookies \in Jar
    PROVE  /\ Request(cookies) \in Flight
           /\ Request(cookies).pc = "sent"
           /\ Request(cookies).refresh = cookies.refresh
BY Constants DEF Request, Flight, Jar, NoFlight

LEMMA AnswerType ==
    ASSUME NEW cookies \in Jar, NEW pc \in {"me", "meRetry", "api", "apiRetry"}
    PROVE  Answer(pc, cookies) \in Caller /\ Answer(pc, cookies).pc = pc
BY DEF Answer, Caller, Jar, Access

LEMMA LoadingType ==
    ASSUME NEW cookies \in Jar, NEW expiry \in Int
    PROVE  /\ Loading(expiry, cookies) \in Caller
           /\ Loading(expiry, cookies).pc \in {"idle", "token", "me"}
<1>1. [Idle EXCEPT !.pc = "token"] \in Caller /\ [Idle EXCEPT !.pc = "token"].pc = "token"
  BY DEF Idle, Caller, Waiting
<1>2. Idle.pc = "idle" BY DEF Idle
<1>3. QED BY <1>1, <1>2, Constants, AnswerType DEF Loading

LEMMA LoadedFlightType ==
    ASSUME NEW cookies \in Jar, NEW expiry \in Int
    PROVE  LoadedFlight(expiry, cookies) \in Flight
BY Constants, RequestType DEF LoadedFlight

LEMMA AskedType ==
    ASSUME TypeOK, NEW t \in Tabs, NEW cookies \in Jar
    PROVE  Asked(t, cookies) \in Flight /\ Asked(t, cookies).pc # "none"
BY RequestType DEF Asked, TypeOK

\* What Becomes, Settled and Loaded leave in the variables of a tab.
TabTypes ==
    /\ refresher \in [Tabs -> Refresher] /\ flight \in [Tabs -> Flight]
    /\ proc \in [Tabs -> [Procs -> Caller]] /\ burst \in [Tabs -> Nat]

LEMMA BecomesType ==
    ASSUME TypeOK, NEW t \in Tabs, NEW r \in Refresher, NEW callers \in [Procs -> Caller],
           NEW cookies \in Jar, Becomes(t, r, callers, cookies)
    PROVE  TabTypes'
<1>1. Asked(t, cookies) \in Flight BY AskedType
<1>2. flight' \in [Tabs -> Flight] BY <1>1 DEF Becomes, TypeOK
<1>3. burst' \in [Tabs -> Nat] BY DEF Becomes, TypeOK
<1>4. QED BY <1>2, <1>3 DEF Becomes, TypeOK, TabTypes

LEMMA SettledType ==
    ASSUME TypeOK, NEW t \in Tabs, NEW r \in Refresher, NEW cookies \in Jar,
           Settled(t, r, cookies), proc' \in [Tabs -> [Procs -> Caller]]
    PROVE  TabTypes'
<1>1. flight' \in [Tabs -> Flight] BY RequestType, Constants DEF Settled, TypeOK
<1>a. burst[t] + (IF r.op THEN 1 ELSE 0) \in Nat BY DEF TypeOK
<1>2. burst' \in [Tabs -> Nat] BY <1>a DEF Settled, TypeOK
<1>3. QED BY <1>1, <1>2 DEF Settled, TypeOK, TabTypes

LEMMA LoadedType ==
    ASSUME TypeOK, NEW t \in Tabs, NEW expiry \in Int, NEW cookies \in Jar,
           Loaded(t, expiry, cookies)
    PROVE  TabTypes' /\ shown' \in [Tabs -> Users \cup {NoUser}]
<1>1. now \in Int BY DEF TypeOK
<1>2. Started(expiry) \in Refresher BY <1>1, StartedType
<1>3. Loading(expiry, cookies) \in Caller BY LoadingType
<1>4. [NoProcs EXCEPT !["page"] = Loading(expiry, cookies)] \in [Procs -> Caller]
  BY <1>3, Constants
<1>5. LoadedFlight(expiry, cookies) \in Flight BY LoadedFlightType
<1>6. burst' \in [Tabs -> Nat] BY DEF Loaded, TypeOK
<1>7. shown' \in [Tabs -> Users \cup {NoUser}] BY DEF Loaded, TypeOK
<1>8. QED BY <1>2, <1>4, <1>5, <1>6, <1>7 DEF Loaded, TypeOK, TabTypes

-----------------------------------------------------------------------------
(* Type correctness *)

\* What most steps leave alone, or need not say twice.
SharedTypes ==
    /\ now \in 0..MaxTime /\ session \in Instants /\ jar \in Jar
    /\ rotates \in BOOLEAN /\ owner \in Seq(Users) /\ Len(owner) <= MaxTokens
    /\ live \subseteq 1..Len(owner) /\ rows \subseteq Users
    /\ signedOut \in BOOLEAN /\ lost \in BOOLEAN
    /\ logins \in 0..MaxLogins /\ events \in 0..MaxEvents /\ faults \in 0..MaxFaults

OtherTabTypes ==
    /\ page \in [Tabs -> {"open", "idp"}] /\ state \in [Tabs -> 0..MaxLogins]
    /\ callback \in [Tabs -> Callback] /\ leaving \in [Tabs -> BOOLEAN]
    /\ shown \in [Tabs -> Users \cup {NoUser}]

LEMMA TypeParts == TypeOK <=> SharedTypes /\ TabTypes /\ OtherTabTypes
BY DEF TypeOK, SharedTypes, TabTypes, OtherTabTypes, Jar

LEMMA TypePartsNext == SharedTypes' /\ TabTypes' /\ OtherTabTypes' => TypeOK'
BY DEF TypeOK, SharedTypes, TabTypes, OtherTabTypes, Jar

LEMMA CountsType ==
    ASSUME TypeOK, Event \/ Fault
    PROVE  logins' \in 0..MaxLogins /\ events' \in 0..MaxEvents /\ faults' \in 0..MaxFaults
<1>1. CASE Event BY <1>1, Bounds DEF TypeOK, Event
<1>2. CASE Fault BY <1>2, Bounds DEF TypeOK, Fault
<1>3. QED BY <1>1, <1>2

LEMMA UnloadsType ==
    ASSUME TypeOK, NEW t \in Tabs, Unloads(t)
    PROVE  lost' \in BOOLEAN
BY DEF Unloads, TypeOK

LEMMA InitRotates == Init => rotates \in BOOLEAN
BY SMT DEF Init

LEMMA InitType == Init => TypeOK
<1> SUFFICES ASSUME Init PROVE TypeOK OBVIOUS
<1>1. PICK u \in Users \cup {NoUser}, age \in Lives \cup {0} :
        LET signedIn == u # NoUser
            access == IF signedIn THEN [sub |-> u, exp |-> age] ELSE NoAccess
            expiry == IF signedIn THEN age ELSE None
        IN /\ jar = [access |-> access, tx |-> NoTx,
                     refresh |-> IF signedIn THEN 1 ELSE NoToken]
           /\ session = expiry
           /\ owner = IF signedIn THEN <<u>> ELSE << >>
           /\ rows = IF signedIn THEN {u} ELSE {}
           /\ refresher = [t \in Tabs |-> Started(expiry)]
           /\ proc = [t \in Tabs |->
                 [NoProcs EXCEPT !["page"] = Loading(expiry, jar)]]
           /\ flight = [t \in Tabs |-> LoadedFlight(expiry, jar)]
           /\ burst = [t \in Tabs |-> IF Started(expiry).op THEN 1 ELSE 0]
  BY DEF Init
<1> DEFINE access == IF u # NoUser THEN [sub |-> u, exp |-> age] ELSE NoAccess
           expiry == IF u # NoUser THEN age ELSE None
<1>2. now = 0 /\ expiry \in Int BY DEF Init, None
<1>3. access \in Access BY Constants DEF Access, Instants
<1>4. jar \in Jar BY <1>1, <1>3, Constants DEF Jar, Tokens, NoToken
<1>5. Started(expiry) \in Refresher BY <1>2, StartedType
<1>6. [NoProcs EXCEPT !["page"] = Loading(expiry, jar)] \in [Procs -> Caller]
  BY <1>2, <1>4, LoadingType, Constants
<1>7. LoadedFlight(expiry, jar) \in Flight BY <1>2, <1>4, LoadedFlightType
<1>8. TabTypes BY <1>1, <1>5, <1>6, <1>7 DEF TabTypes
<1>9. owner \in Seq(Users) /\ Len(owner) <= MaxTokens /\ rows \subseteq Users
  BY <1>1
<1>10. live \subseteq 1..Len(owner) BY <1>9 DEF Init
<1>11. SharedTypes
  <2>1. now \in 0..MaxTime /\ session \in Instants /\ jar \in Jar
    BY <1>1, <1>2, <1>4, Bounds DEF Instants
  <2>2. /\ rotates \in BOOLEAN /\ signedOut \in BOOLEAN /\ lost \in BOOLEAN
        /\ logins \in 0..MaxLogins /\ events \in 0..MaxEvents /\ faults \in 0..MaxFaults
    <3>1. rotates \in BOOLEAN BY InitRotates
    <3>2. signedOut = FALSE /\ lost = FALSE BY DEF Init
    <3>3. logins = 0 /\ events = 0 /\ faults = 0 BY DEF Init
    <3>4. signedOut \in BOOLEAN /\ lost \in BOOLEAN BY <3>2
    <3>5. logins \in 0..MaxLogins /\ events \in 0..MaxEvents /\ faults \in 0..MaxFaults
      BY <3>3, Bounds
    <3>6. QED BY <3>1, <3>4, <3>5
  <2>3. QED BY <1>9, <1>10, <2>1, <2>2 DEF SharedTypes
<1>12. OtherTabTypes BY Constants DEF OtherTabTypes, Init
<1>13. QED BY <1>8, <1>11, <1>12, TypeParts

LEMMA JarType == TypeOK => jar \in Jar
BY DEF TypeOK, Jar

\* Sharpens TypeParts for a step that leaves some of the parts alone.
LEMMA SharedKept ==
    ASSUME TypeOK, UNCHANGED <<now, jar, idpVars, rows, signedOut>>, session' \in Instants,
           lost' \in BOOLEAN,
           logins' \in 0..MaxLogins /\ events' \in 0..MaxEvents /\ faults' \in 0..MaxFaults
    PROVE  SharedTypes'
BY DEF TypeOK, SharedTypes, idpVars, Jar

LEMMA CountsKept ==
    ASSUME TypeOK, UNCHANGED boundVars
    PROVE  logins' \in 0..MaxLogins /\ events' \in 0..MaxEvents /\ faults' \in 0..MaxFaults
BY DEF TypeOK, boundVars

LEMMA TimerFiresType == ASSUME TypeOK, NEW t \in Tabs, TimerFires(t) PROVE TypeOK'
<1> DEFINE r == [refresher[t] EXCEPT !.timer = None, !.op = @ \/ refresher[t].proactive]
<1>1. r \in Refresher BY FiredType DEF TypeOK
<1>2. proc[t] \in [Procs -> Caller] BY DEF TypeOK
<1>3. Becomes(t, r, proc[t], jar) BY DEF TimerFires
<1>4. TabTypes' BY <1>1, <1>2, <1>3, JarType, BecomesType
<1>5. SharedTypes' BY SharedKept, CountsKept DEF TimerFires, TypeOK
<1>6. OtherTabTypes' BY DEF TimerFires, TypeOK, OtherTabTypes
<1>7. QED BY <1>4, <1>5, <1>6, TypePartsNext

LEMMA VisibleType == ASSUME TypeOK, NEW t \in Tabs, Visible(t) PROVE TypeOK'
<1>1. ArmedByStored(refresher[t], session) \in Refresher
  BY ArmedByStoredType DEF TypeOK, Instants
<1>2. proc[t] \in [Procs -> Caller] BY DEF TypeOK
<1>3. TabTypes' BY <1>1, <1>2, JarType, BecomesType DEF Visible
<1>4. SharedTypes' BY SharedKept, CountsType DEF Visible, TypeOK
<1>5. OtherTabTypes' BY DEF Visible, TypeOK, OtherTabTypes
<1>6. QED BY <1>3, <1>4, <1>5, TypePartsNext

LEMMA ReloadType == ASSUME TypeOK, NEW t \in Tabs, Reload(t) PROVE TypeOK'
<1>1. TabTypes' /\ shown' \in [Tabs -> Users \cup {NoUser}]
  BY JarType, LoadedType DEF Reload, TypeOK, Instants
<1>2. SharedTypes' BY SharedKept, CountsType, UnloadsType DEF Reload, TypeOK
<1>3. OtherTabTypes' BY <1>1 DEF Reload, TypeOK, OtherTabTypes
<1>4. QED BY <1>1, <1>2, <1>3, TypePartsNext

LEMMA ApiCallType == ASSUME TypeOK, NEW t \in Tabs, ApiCall(t) PROVE TypeOK'
<1>1. Answer("api", jar) \in Caller BY JarType, AnswerType
<1>2. proc' \in [Tabs -> [Procs -> Caller]] BY <1>1 DEF ApiCall, TypeOK
<1>3. TabTypes' BY <1>2 DEF ApiCall, TypeOK, TabTypes
<1>4. SharedTypes' BY SharedKept, CountsType DEF ApiCall, TypeOK
<1>5. OtherTabTypes' BY DEF ApiCall, TypeOK, OtherTabTypes
<1>6. QED BY <1>3, <1>4, <1>5, TypePartsNext

LEMMA ReceivedType ==
    ASSUME TypeOK, NEW t \in Tabs, NEW p \in Procs, Received(t, p) PROVE TypeOK'
<1> DEFINE caller == proc[t][p]
           refused == caller.ans = NoUser
           retry == IF caller.pc = "me" THEN "meRefresh" ELSE "apiRefresh"
           cleared == caller.pc = "meRetry" /\ refused
           again == refused /\ caller.pc \in {"me", "api"}
           r == IF cleared THEN Stopped ELSE refresher[t]
           callers == [proc[t] EXCEPT ![p] = IF again THEN [Idle EXCEPT !.pc = retry]
                                                      ELSE Idle]
<1>1. /\ Becomes(t, r, callers, jar)
      /\ session' = IF cleared THEN None ELSE session
      /\ shown' = [shown EXCEPT ![t] =
            IF caller.pc \in {"me", "meRetry"} /\ ~again THEN caller.ans ELSE @]
  BY DEF Received
<1>2. caller \in Caller /\ proc[t] \in [Procs -> Caller] BY DEF TypeOK
<1>3. r \in Refresher BY Constants DEF TypeOK
<1>4. [Idle EXCEPT !.pc = retry] \in Caller BY DEF Idle, Caller, Waiting
<1>5. callers \in [Procs -> Caller] BY <1>2, <1>4, Constants
<1>6. TabTypes' BY <1>1, <1>3, <1>5, JarType, BecomesType
<1>7. session' \in Instants BY <1>1 DEF TypeOK, Instants, None
<1>8. SharedTypes' BY <1>7, SharedKept, CountsKept DEF Received, TypeOK
<1>9. caller.ans \in Users \cup {NoUser} BY <1>2 DEF Caller
<1>10. shown' \in [Tabs -> Users \cup {NoUser}] BY <1>1, <1>9 DEF TypeOK
<1>11. OtherTabTypes' BY <1>10 DEF Received, TypeOK, OtherTabTypes
<1>12. QED BY <1>6, <1>8, <1>11, TypePartsNext

LEMMA FailedType ==
    ASSUME TypeOK, NEW t \in Tabs, NEW p \in Procs, Failed(t, p) PROVE TypeOK'
<1>1. PICK answered \in BOOLEAN :
       LET pc == proc[t][p].pc
           home == pc = "apiRetry" /\ ~answered
           cleared == home \/ (pc = "meRetry" /\ answered)
       IN /\ session' = IF cleared THEN None ELSE session
          /\ IF home THEN Loaded(t, None, jar) /\ Unloads(t)
             ELSE /\ Becomes(t, IF cleared THEN Stopped ELSE refresher[t],
                             [proc[t] EXCEPT ![p] = Idle], jar)
                  /\ shown' = [shown EXCEPT ![t] = IF p = "api" THEN @ ELSE NoUser]
                  /\ lost' = lost
          /\ callback' = [callback EXCEPT ![t] = IF home THEN NoCallback ELSE @]
          /\ leaving' = [leaving EXCEPT ![t] = @ /\ ~home]
  BY DEF Failed
<1> DEFINE home == proc[t][p].pc = "apiRetry" /\ ~answered
           cleared == home \/ (proc[t][p].pc = "meRetry" /\ answered)
           r == IF cleared THEN Stopped ELSE refresher[t]
           callers == [proc[t] EXCEPT ![p] = Idle]
<1>2. TabTypes' /\ shown' \in [Tabs -> Users \cup {NoUser}] /\ lost' \in BOOLEAN
  <2>1. CASE home
    <3>1. Loaded(t, None, jar) /\ Unloads(t) BY <1>1, <2>1
    <3>2. QED BY <3>1, JarType, LoadedType, UnloadsType DEF None
  <2>2. CASE ~home
    <3>1. /\ Becomes(t, r, callers, jar)
          /\ shown' = [shown EXCEPT ![t] = IF p = "api" THEN @ ELSE NoUser]
          /\ lost' = lost
      BY <1>1, <2>2
    <3>2. r \in Refresher BY Constants DEF TypeOK
    <3>3. callers \in [Procs -> Caller] BY Constants DEF TypeOK
    <3>4. TabTypes' BY <3>1, <3>2, <3>3, JarType, BecomesType
    <3>5. QED BY <3>1, <3>4 DEF TypeOK
  <2>3. QED BY <2>1, <2>2
<1>3. session' \in Instants BY <1>1 DEF TypeOK, Instants, None
<1>4. SharedTypes' BY <1>2, <1>3, SharedKept, CountsType DEF Failed
<1>5. callback' \in [Tabs -> Callback] BY <1>1, Constants DEF TypeOK
<1>6. leaving' \in [Tabs -> BOOLEAN] BY <1>1 DEF TypeOK
<1>7. OtherTabTypes' BY <1>2, <1>5, <1>6 DEF Failed, TypeOK, OtherTabTypes
<1>8. QED BY <1>2, <1>4, <1>7, TypePartsNext

\* The identity provider's part.
IdpTypes ==
    /\ rotates \in BOOLEAN /\ owner \in Seq(Users) /\ Len(owner) <= MaxTokens
    /\ live \subseteq 1..Len(owner)

LEMMA GrantsType ==
    ASSUME TypeOK, NEW u \in Users, Grants(u)
    PROVE  /\ rotates' = rotates /\ owner' \in Seq(Users) /\ Len(owner') <= MaxTokens
           /\ Len(owner') = Len(owner) + 1 /\ owner'[Len(owner) + 1] = u
           /\ \A i \in 1..Len(owner) : owner'[i] = owner[i]
           /\ Len(owner) \in Nat /\ Len(owner') \in Tokens
BY DEF TypeOK, Grants, Tokens

LEMMA ExchangedType ==
    ASSUME TypeOK, NEW token \in live, Exchanged(token)
    PROVE  IdpTypes' /\ Len(owner') \in Tokens
<1>1. CASE rotates
  <2>1. Grants(owner[token]) /\ live' = (live \ {token}) \cup {Len(owner')}
    BY <1>1 DEF Exchanged
  <2>2. owner[token] \in Users BY DEF TypeOK
  <2>3. /\ rotates' = rotates /\ owner' \in Seq(Users) /\ Len(owner') <= MaxTokens
        /\ Len(owner') = Len(owner) + 1 /\ Len(owner) \in Nat /\ Len(owner') \in Tokens
    BY <2>1, <2>2, GrantsType
  <2>4. live \subseteq 1..Len(owner) /\ rotates \in BOOLEAN BY DEF TypeOK
  <2>5. live' \subseteq 1..Len(owner')
    <3>1. ASSUME NEW i \in live' PROVE i \in 1..Len(owner')
      <4>1. CASE i \in live BY <2>3, <2>4, <4>1
      <4>2. CASE i = Len(owner') BY <2>3, <4>2
      <4>3. QED BY <2>1, <4>1, <4>2
    <3>2. QED BY <3>1
  <2>6. rotates' \in BOOLEAN BY <2>3, <2>4
  <2>7. QED BY <2>3, <2>5, <2>6 DEF IdpTypes
<1>2. CASE ~rotates
  <2>1. UNCHANGED idpVars BY <1>2 DEF Exchanged
  <2>2. IdpTypes' BY <2>1 DEF IdpTypes, TypeOK, idpVars
  <2>3. Len(owner) \in Tokens
    <3>1. Len(owner) \in Nat /\ Len(owner) <= MaxTokens BY DEF TypeOK
    <3>2. QED BY <3>1 DEF Tokens
  <2>4. QED BY <2>1, <2>2, <2>3 DEF idpVars
<1>3. QED BY <1>1, <1>2

LEMMA IdpKept == TypeOK /\ UNCHANGED idpVars => IdpTypes'
BY DEF TypeOK, IdpTypes, idpVars

\* SharedTypes for a step in which the provider, the cookies or the rows change.
LEMMA SharedWith ==
    ASSUME TypeOK, UNCHANGED now, session' \in Instants, jar' \in Jar, IdpTypes',
           rows' \subseteq Users, signedOut' \in BOOLEAN, lost' \in BOOLEAN,
           logins' \in 0..MaxLogins /\ events' \in 0..MaxEvents /\ faults' \in 0..MaxFaults
    PROVE  SharedTypes'
BY DEF TypeOK, SharedTypes, IdpTypes

LEMMA FlightKept ==
    ASSUME TypeOK, flight' \in [Tabs -> Flight], UNCHANGED <<refresher, proc, burst>>
    PROVE  TabTypes'
BY DEF TypeOK, TabTypes

LEMMA RefusedType ==
    ASSUME NEW f \in Flight
    PROVE  [f EXCEPT !.pc = "refused"] \in Flight
BY DEF Flight

LEMMA GrantedType ==
    ASSUME NEW f \in Flight, NEW life \in Lives, NEW token \in Tokens, now \in Int
    PROVE  [f EXCEPT !.pc = "ok", !.life = life, !.exp = now + life, !.token = token] \in Flight
<1>1. now + life \in Int BY Bounds
<1>2. QED BY <1>1 DEF Flight, Instants

LEMMA ServerRefreshType == ASSUME TypeOK, NEW t \in Tabs, ServerRefresh(t) PROVE TypeOK'
<1> DEFINE f == flight[t]
<1>0. f \in Flight /\ now \in Int BY DEF TypeOK
<1>1. CASE /\ ~Accepted(f)
           /\ flight' = [flight EXCEPT ![t].pc = "refused"]
           /\ UNCHANGED <<idpVars, lost, boundVars>>
  <2>1. flight' \in [Tabs -> Flight] BY <1>0, <1>1, RefusedType DEF TypeOK
  <2>2. SharedTypes' BY <1>1, SharedKept, CountsKept DEF ServerRefresh, TypeOK
  <2>3. QED BY <2>1, <2>2, FlightKept, TypePartsNext DEF ServerRefresh, TypeOK, OtherTabTypes
<1>2. CASE /\ Accepted(f) /\ Exchanged(f.refresh)
           /\ IF SubjectAgrees(f) THEN Fault ELSE UNCHANGED boundVars
           /\ flight' = [flight EXCEPT ![t].pc = "refused"]
           /\ lost' = (lost \/ rotates)
  <2>1. flight' \in [Tabs -> Flight] BY <1>0, <1>2, RefusedType DEF TypeOK
  <2>2. IdpTypes' BY <1>2, ExchangedType DEF Accepted
  <2>3. logins' \in 0..MaxLogins /\ events' \in 0..MaxEvents /\ faults' \in 0..MaxFaults
    BY <1>2, CountsType, CountsKept
  <2>4. lost' \in BOOLEAN BY <1>2 DEF TypeOK
  <2>5. jar' \in Jar /\ session' \in Instants /\ rows' \subseteq Users /\ signedOut' \in BOOLEAN
    BY JarType DEF ServerRefresh, TypeOK
  <2>6. SharedTypes' BY <2>2, <2>3, <2>4, <2>5, SharedWith DEF ServerRefresh
  <2>7. QED BY <2>1, <2>6, FlightKept, TypePartsNext DEF ServerRefresh, TypeOK, OtherTabTypes
<1>3. CASE /\ Accepted(f) /\ Exchanged(f.refresh)
           /\ SubjectAgrees(f)
           /\ \E life \in Lives :
                 flight' = [flight EXCEPT ![t] =
                    [@ EXCEPT !.pc = "ok", !.life = life, !.exp = now + life,
                              !.token = IF rotates THEN Len(owner') ELSE f.refresh]]
           /\ UNCHANGED <<lost, boundVars>>
  <2>1. IdpTypes' /\ Len(owner') \in Tokens BY <1>3, ExchangedType DEF Accepted
  <2>2. (IF rotates THEN Len(owner') ELSE f.refresh) \in Tokens BY <1>0, <2>1 DEF Flight
  <2>3. flight' \in [Tabs -> Flight]
    <3>1. PICK life \in Lives :
            flight' = [flight EXCEPT ![t] =
                    [@ EXCEPT !.pc = "ok", !.life = life, !.exp = now + life,
                              !.token = IF rotates THEN Len(owner') ELSE f.refresh]]
      BY <1>3
    <3> DEFINE g == [f EXCEPT !.pc = "ok", !.life = life, !.exp = now + life,
                              !.token = IF rotates THEN Len(owner') ELSE f.refresh]
    <3>2. g \in Flight BY <1>0, <2>2, GrantedType
    <3>3. flight' = [flight EXCEPT ![t] = g] BY <3>1
    <3> HIDE DEF g
    <3>4. QED BY <3>2, <3>3 DEF TypeOK
  <2>4. jar' \in Jar /\ session' \in Instants /\ rows' \subseteq Users /\ signedOut' \in BOOLEAN
    BY JarType DEF ServerRefresh, TypeOK
  <2>5. lost' \in BOOLEAN BY <1>3 DEF TypeOK
  <2>6. SharedTypes' BY <1>3, <2>1, <2>4, <2>5, SharedWith, CountsKept DEF ServerRefresh
  <2>7. QED BY <2>3, <2>6, FlightKept, TypePartsNext DEF ServerRefresh, TypeOK, OtherTabTypes
<1>4. QED BY <1>1, <1>2, <1>3 DEF ServerRefresh

LEMMA RefreshLostType == ASSUME TypeOK, NEW t \in Tabs, RefreshLost(t) PROVE TypeOK'
<1>1. flight' \in [Tabs -> Flight] BY RefusedType DEF RefreshLost, TypeOK
<1>2. TabTypes' BY <1>1, FlightKept DEF RefreshLost
<1>3. SharedTypes' BY SharedKept, CountsType, UnloadsType DEF RefreshLost, TypeOK
<1>4. OtherTabTypes' BY DEF RefreshLost, TypeOK, OtherTabTypes
<1>5. QED BY <1>2, <1>3, <1>4, TypePartsNext

LEMMA CookiesType ==
    ASSUME TypeOK, NEW sub \in Users \cup {NoUser}, NEW answer,
           answer.exp \in Int, answer.token \in Tokens
    PROVE  /\ Cookies(sub, answer) \in Jar
           /\ Cookies(sub, answer).refresh =
                 IF answer.token = NoToken THEN jar.refresh ELSE answer.token
           /\ Cookies(sub, answer).access = [sub |-> sub, exp |-> answer.exp]
<1>1. [sub |-> sub, exp |-> answer.exp] \in Access BY DEF Access, Instants
<1>2. jar \in Jar BY JarType
<1>3. QED BY <1>1, <1>2 DEF Cookies, Jar

LEMMA RefreshedType == ASSUME TypeOK, NEW t \in Tabs, Refreshed(t) PROVE TypeOK'
<1> DEFINE f == flight[t]
           new == Cookies(f.access.sub, f)
<1>0. f \in Flight /\ now \in Int /\ session \in Int /\ refresher[t] \in Refresher
  BY DEF TypeOK, Instants
<1>1. PICK stored \in BOOLEAN :
        /\ IF stored THEN UNCHANGED boundVars ELSE Fault
        /\ jar' = new
        /\ session' = (IF stored THEN now + f.life ELSE session)
        /\ Settled(t, OnResult(IF stored THEN OnRefresh(refresher[t], IF stored THEN now + f.life ELSE session)
                                         ELSE refresher[t],
                               IF stored THEN now + f.life ELSE session), new)
        /\ proc' = [proc EXCEPT ![t] = [p \in Procs |->
              CASE @[p].pc = "token" -> Answer("me", new)
                [] @[p].pc = "meRefresh" -> Answer("meRetry", new)
                [] @[p].pc = "apiRefresh" -> Answer("apiRetry", new)
                [] OTHER -> @[p]]]
  BY DEF Refreshed
<1> DEFINE expiry == IF stored THEN now + f.life ELSE session
           told == IF stored THEN OnRefresh(refresher[t], expiry) ELSE refresher[t]
<1>2. f.exp \in Int /\ f.token \in Tokens /\ f.access.sub \in Users \cup {NoUser} /\ f.life \in Nat
  <2>1. /\ f.exp \in Int /\ f.token \in Tokens /\ f.access \in Access
        /\ f.life \in Lives \cup {0}
    BY <1>0 DEF Flight, Instants
  <2>2. f.access.sub \in Users \cup {NoUser} BY <2>1 DEF Access
  <2>3. f.life \in Nat BY <2>1, LifeNat
  <2>4. QED BY <2>1, <2>2, <2>3
<1>3. new \in Jar BY <1>2, CookiesType
<1>4. expiry \in Int BY <1>0, <1>2
<1>5. OnResult(told, expiry) \in Refresher BY <1>0, <1>4, ResultsType
<1>6. /\ Answer("me", new) \in Caller /\ Answer("meRetry", new) \in Caller
      /\ Answer("apiRetry", new) \in Caller
  BY <1>3, AnswerType
<1>7. proc' \in [Tabs -> [Procs -> Caller]] BY <1>1, <1>6 DEF TypeOK
<1>8. TabTypes' BY <1>1, <1>3, <1>5, <1>7, SettledType
<1>9. session' \in Instants /\ jar' \in Jar BY <1>1, <1>3, <1>4 DEF Instants
<1>10. logins' \in 0..MaxLogins /\ events' \in 0..MaxEvents /\ faults' \in 0..MaxFaults
  BY <1>1, CountsType, CountsKept
<1>11. rows' \subseteq Users /\ signedOut' \in BOOLEAN /\ lost' \in BOOLEAN /\ IdpTypes'
  BY IdpKept DEF Refreshed, TypeOK
<1>12. SharedTypes' BY <1>9, <1>10, <1>11, SharedWith DEF Refreshed
<1>13. OtherTabTypes' BY DEF Refreshed, TypeOK, OtherTabTypes
<1>14. QED BY <1>8, <1>12, <1>13, TypePartsNext

LEMMA RefreshFailedType == ASSUME TypeOK, NEW t \in Tabs, RefreshFailed(t) PROVE TypeOK'
<1> DEFINE waits == {p \in Procs : proc[t][p].pc \in Waiting}
           home == "api" \in waits
<1>1. /\ session' = IF waits = {} THEN session ELSE None
      /\ refresher' = [refresher EXCEPT ![t] =
            IF home THEN Started(None) ELSE IF waits = {} THEN OnFailure(@) ELSE Stopped]
      /\ proc' = [proc EXCEPT ![t] = [p \in Procs |-> IF home \/ p \in waits THEN Idle ELSE @[p]]]
      /\ flight' = [flight EXCEPT ![t] = NoFlight]
      /\ shown' = [shown EXCEPT ![t] = IF waits = {} THEN @ ELSE NoUser]
      /\ callback' = [callback EXCEPT ![t] = IF home THEN NoCallback ELSE @]
      /\ leaving' = [leaving EXCEPT ![t] = @ /\ ~home]
  BY DEF RefreshFailed
<1>2. Started(None) \in Refresher BY StartedType DEF None, TypeOK
<1>3. OnFailure(refresher[t]) \in Refresher BY Constants DEF OnFailure, TypeOK
<1>4. refresher' \in [Tabs -> Refresher] BY <1>1, <1>2, <1>3, Constants DEF TypeOK
<1>5. proc' \in [Tabs -> [Procs -> Caller]] BY <1>1, Constants DEF TypeOK
<1>6. flight' \in [Tabs -> Flight] BY <1>1, Constants DEF TypeOK
<1>7. TabTypes' BY <1>4, <1>5, <1>6 DEF RefreshFailed, TypeOK, TabTypes
<1>8. session' \in Instants BY <1>1 DEF TypeOK, Instants, None
<1>9. SharedTypes' BY <1>8, SharedKept, CountsKept DEF RefreshFailed, TypeOK
<1>10. callback' \in [Tabs -> Callback] BY <1>1, Constants DEF TypeOK
<1>11. leaving' \in [Tabs -> BOOLEAN] BY <1>1 DEF TypeOK
<1>12. shown' \in [Tabs -> Users \cup {NoUser}] BY <1>1 DEF TypeOK
<1>13. OtherTabTypes' BY <1>10, <1>11, <1>12 DEF RefreshFailed, TypeOK, OtherTabTypes
<1>14. QED BY <1>7, <1>9, <1>13, TypePartsNext

LEMMA JarParts ==
    ASSUME TypeOK, NEW access \in Access, NEW refresh \in Tokens, NEW tx \in Tx
    PROVE  /\ [jar EXCEPT !.tx = tx] \in Jar
           /\ [jar EXCEPT !.access = access, !.refresh = refresh] \in Jar
BY JarType DEF Jar

LEMMA LoginType == ASSUME TypeOK, NEW t \in Tabs, Login(t) PROVE TypeOK'
<1>1. logins' \in 0..MaxLogins /\ logins' = logins + 1
  <2>1. logins \in 0..MaxLogins BY DEF TypeOK
  <2>2. logins < MaxLogins /\ logins' = logins + 1 BY DEF Login
  <2>3. QED BY <2>1, <2>2, Bounds
<1>2. [attempt |-> logins', exp |-> now + TxLife] \in Tx
  <2>1. now + TxLife \in Int BY Bounds DEF TypeOK
  <2>2. QED BY <1>1, <2>1 DEF Tx, Instants
<1>3. jar' \in Jar BY <1>2, JarParts, Constants, JarType DEF Login, Jar
<1>4. TabTypes' BY Constants DEF Login, TypeOK, TabTypes
<1>5. events' \in 0..MaxEvents /\ faults' \in 0..MaxFaults BY DEF Login, TypeOK
<1>6. IdpTypes' /\ lost' \in BOOLEAN BY IdpKept, UnloadsType DEF Login
<1>7. session' \in Instants /\ rows' \subseteq Users /\ signedOut' \in BOOLEAN
  BY DEF Login, TypeOK
<1>8. SharedTypes' BY <1>1, <1>3, <1>5, <1>6, <1>7, SharedWith DEF Login
<1>9. state' \in [Tabs -> 0..MaxLogins] BY <1>1 DEF Login, TypeOK
<1>10. OtherTabTypes' BY <1>9 DEF Login, TypeOK, OtherTabTypes
<1>11. QED BY <1>4, <1>8, <1>10, TypePartsNext

LEMMA ComesBackType ==
    ASSUME TypeOK, NEW t \in Tabs, NEW u \in Users, NEW a \in 1..MaxLogins, ComesBack(t, u, a)
    PROVE  TypeOK'
<1>1. TabTypes' /\ shown' \in [Tabs -> Users \cup {NoUser}]
  BY JarType, LoadedType DEF ComesBack, TypeOK, Instants
<1>2. a \in 0..MaxLogins BY Bounds
<1>3. [NoCallback EXCEPT !.pc = "returned", !.attempt = a, !.sub = u] \in Callback
  BY <1>2, Constants DEF Callback
<1>4. callback' \in [Tabs -> Callback] BY <1>3 DEF ComesBack, TypeOK
<1>5. SharedTypes' BY SharedKept, CountsKept DEF ComesBack, TypeOK
<1>6. OtherTabTypes' BY <1>1, <1>4 DEF ComesBack, TypeOK, OtherTabTypes
<1>7. QED BY <1>1, <1>5, <1>6, TypePartsNext

LEMMA CallbackSteps ==
    ASSUME NEW c \in Callback, NEW tx \in Tx
    PROVE  /\ [c EXCEPT !.pc = "sent", !.tx = tx] \in Callback
           /\ [c EXCEPT !.pc = "refused"] \in Callback
           /\ [c EXCEPT !.pc = "cleared"] \in Callback
           /\ [c EXCEPT !.pc = "creating"] \in Callback
BY DEF Callback

LEMMA SendCallbackType == ASSUME TypeOK, NEW t \in Tabs, SendCallback(t) PROVE TypeOK'
<1>1. jar.tx \in Tx /\ callback[t] \in Callback BY JarType DEF Jar, TypeOK
<1>2. callback' \in [Tabs -> Callback]
  BY <1>1, CallbackSteps, Constants DEF SendCallback, TypeOK
<1>3. state' \in [Tabs -> 0..MaxLogins] BY Bounds DEF SendCallback, TypeOK
<1>4. TabTypes' BY DEF SendCallback, TypeOK, TabTypes
<1>5. SharedTypes' BY SharedKept, CountsKept DEF SendCallback, TypeOK
<1>6. OtherTabTypes' BY <1>2, <1>3 DEF SendCallback, TypeOK, OtherTabTypes
<1>7. QED BY <1>4, <1>5, <1>6, TypePartsNext

LEMMA SignedInCallback ==
    ASSUME NEW c \in Callback, NEW life \in Lives, NEW token \in Tokens, now \in Int
    PROVE  [c EXCEPT !.pc = "ok", !.life = life, !.exp = now + life, !.token = token] \in Callback
<1>1. now + life \in Int BY Bounds
<1>2. QED BY <1>1 DEF Callback, Instants

\* A login that succeeds, with or without a refresh token.
LEMMA SignedInType ==
    ASSUME TypeOK, NEW t \in Tabs, NEW u \in Users, SignedIn(t, u)
    PROVE  IdpTypes' /\ callback' \in [Tabs -> Callback]
<1>1. PICK life \in Lives, given \in BOOLEAN :
        /\ IF given THEN Grants(u) /\ live' = live \cup {Len(owner')}
                    ELSE UNCHANGED idpVars
        /\ callback' = [callback EXCEPT ![t].pc = "ok", ![t].life = life,
                           ![t].exp = now + life,
                           ![t].token = IF given THEN Len(owner') ELSE NoToken]
  BY DEF SignedIn
<1> DEFINE token == IF given THEN Len(owner') ELSE NoToken
           c == [callback[t] EXCEPT !.pc = "ok", !.life = life, !.exp = now + life,
                                    !.token = token]
<1>2. IdpTypes' /\ token \in Tokens
  <2>1. CASE given
    <3>1. /\ rotates' = rotates /\ owner' \in Seq(Users) /\ Len(owner') <= MaxTokens
          /\ Len(owner') = Len(owner) + 1 /\ Len(owner) \in Nat /\ Len(owner') \in Tokens
      BY <1>1, <2>1, GrantsType
    <3>2. live \subseteq 1..Len(owner) /\ rotates \in BOOLEAN BY DEF TypeOK
    <3>3. ASSUME NEW i \in live' PROVE i \in 1..Len(owner')
      <4>1. CASE i \in live BY <3>1, <3>2, <4>1
      <4>2. CASE i = Len(owner') BY <3>1, <4>2
      <4>3. QED BY <1>1, <2>1, <4>1, <4>2
    <3>4. rotates' \in BOOLEAN BY <3>1, <3>2
    <3>5. QED BY <2>1, <3>1, <3>3, <3>4 DEF IdpTypes
  <2>2. CASE ~given BY <1>1, <2>2, IdpKept DEF NoToken, Tokens
  <2>3. QED BY <2>1, <2>2
<1>3. callback[t] \in Callback /\ now \in Int BY DEF TypeOK
<1>4. c \in Callback BY <1>2, <1>3, SignedInCallback
<1>5. callback' = [callback EXCEPT ![t] = c] BY <1>1
<1> HIDE DEF c
<1>6. QED BY <1>2, <1>4, <1>5 DEF TypeOK

LEMMA SignedInResult ==
    ASSUME TypeOK, NEW t \in Tabs, NEW u, SignedIn(t, u)
    PROVE  /\ callback'[t].pc = "ok" /\ callback'[t].sub = callback[t].sub
           /\ \A s \in Tabs : s # t => callback'[s] = callback[s]
           /\ \/ UNCHANGED idpVars /\ callback'[t].token = NoToken
              \/ /\ Grants(u) /\ live' = live \cup {Len(owner')}
                 /\ callback'[t].token = Len(owner')
<1>1. PICK life \in Lives, given \in BOOLEAN :
        /\ IF given THEN Grants(u) /\ live' = live \cup {Len(owner')}
                    ELSE UNCHANGED idpVars
        /\ callback' = [callback EXCEPT ![t].pc = "ok", ![t].life = life,
                           ![t].exp = now + life,
                           ![t].token = IF given THEN Len(owner') ELSE NoToken]
  BY DEF SignedIn
<1> DEFINE c == [callback[t] EXCEPT !.pc = "ok", !.life = life, !.exp = now + life,
                    !.token = IF given THEN Len(owner') ELSE NoToken]
<1>2. callback[t] \in Callback /\ callback \in [Tabs -> Callback] BY DEF TypeOK
<1>3. c.pc = "ok" /\ c.sub = callback[t].sub
      /\ c.token = IF given THEN Len(owner') ELSE NoToken
  BY <1>2 DEF Callback
<1>4. callback' = [callback EXCEPT ![t] = c] BY <1>1
<1> HIDE DEF c
<1>5. callback'[t] = c /\ \A s \in Tabs : s # t => callback'[s] = callback[s] BY <1>2, <1>4
<1>6. QED BY <1>1, <1>3, <1>5

LEMMA ServerCallbackType == ASSUME TypeOK, NEW t \in Tabs, ServerCallback(t) PROVE TypeOK'
<1> DEFINE c == callback[t]
<1>1. c \in Callback BY DEF TypeOK
<1>2. [c EXCEPT !.pc = "refused"] \in Callback /\ [c EXCEPT !.pc = "cleared"] \in Callback
      /\ [c EXCEPT !.pc = "creating"] \in Callback
  BY <1>1, CallbackSteps, Constants
<1>3. IdpTypes' /\ callback' \in [Tabs -> Callback]
  <2>1. CASE c.sub \in rows /\ SignedIn(t, c.sub)
    BY <2>1, SignedInType DEF TypeOK
  <2>2. CASE UNCHANGED idpVars /\ callback' = [callback EXCEPT ![t].pc = "refused"]
    BY <1>2, <2>2, IdpKept DEF TypeOK
  <2>3. CASE UNCHANGED idpVars /\ callback' = [callback EXCEPT ![t].pc = "cleared"]
    BY <1>2, <2>3, IdpKept DEF TypeOK
  <2>4. CASE UNCHANGED idpVars /\ callback' = [callback EXCEPT ![t].pc = "creating"]
    BY <1>2, <2>4, IdpKept DEF TypeOK
  <2>5. QED BY <2>1, <2>2, <2>3, <2>4 DEF ServerCallback
<1>4. UNCHANGED boundVars \/ Fault BY DEF ServerCallback
<1>5. logins' \in 0..MaxLogins /\ events' \in 0..MaxEvents /\ faults' \in 0..MaxFaults
  BY <1>4, CountsType, CountsKept
<1>6. TabTypes' BY DEF ServerCallback, TypeOK, TabTypes
<1>7. /\ session' \in Instants /\ rows' \subseteq Users /\ signedOut' \in BOOLEAN
      /\ lost' \in BOOLEAN /\ jar' \in Jar /\ UNCHANGED now
  BY JarType DEF ServerCallback, TypeOK
<1>8. SharedTypes' BY <1>3, <1>5, <1>7, SharedWith
<1>9. OtherTabTypes' BY <1>3 DEF ServerCallback, TypeOK, OtherTabTypes
<1>10. QED BY <1>6, <1>8, <1>9, TypePartsNext

\* A callback under way is somebody's.
Subjects == \A t \in Tabs : callback[t].pc # "none" => callback[t].sub \in Users

LEMMA ServerCreatesUserType ==
    ASSUME TypeOK, Subjects, NEW t \in Tabs, ServerCreatesUser(t) PROVE TypeOK'
<1> DEFINE c == callback[t]
<1>1. c \in Callback BY DEF TypeOK
<1>2. [c EXCEPT !.pc = "cleared"] \in Callback BY <1>1, CallbackSteps, Constants
<1>3. c.sub \in Users BY DEF ServerCreatesUser, Subjects
<1>4. rows' \subseteq Users BY <1>3 DEF ServerCreatesUser, TypeOK
<1>5. IdpTypes' /\ callback' \in [Tabs -> Callback]
  <2>1. CASE SignedIn(t, c.sub) BY <1>3, <2>1, SignedInType
  <2>2. CASE UNCHANGED idpVars /\ callback' = [callback EXCEPT ![t].pc = "cleared"]
    BY <1>2, <2>2, IdpKept DEF TypeOK
  <2>3. QED BY <2>1, <2>2 DEF ServerCreatesUser
<1>6. TabTypes' BY DEF ServerCreatesUser, TypeOK, TabTypes
<1>7. logins' \in 0..MaxLogins /\ events' \in 0..MaxEvents /\ faults' \in 0..MaxFaults
  BY CountsKept DEF ServerCreatesUser
<1>8. /\ session' \in Instants /\ signedOut' \in BOOLEAN /\ lost' \in BOOLEAN
      /\ jar' \in Jar /\ UNCHANGED now
  BY JarType DEF ServerCreatesUser, TypeOK
<1>9. SharedTypes' BY <1>4, <1>5, <1>7, <1>8, SharedWith
<1>10. OtherTabTypes' BY <1>5 DEF ServerCreatesUser, TypeOK, OtherTabTypes
<1>11. QED BY <1>6, <1>9, <1>10, TypePartsNext

LEMMA CallbackAnsweredType == ASSUME TypeOK, NEW t \in Tabs, CallbackAnswered(t) PROVE TypeOK'
<1> DEFINE c == callback[t]
           new == [Cookies(c.sub, c) EXCEPT !.tx = NoTx]
<1>0. PICK stored \in BOOLEAN :
        LET expiry == IF stored THEN now + c.life ELSE session
            told == IF stored THEN OnLogin(refresher[t], expiry) ELSE refresher[t]
        IN /\ IF stored THEN UNCHANGED boundVars ELSE Fault
           /\ jar' = new /\ session' = expiry
           /\ Becomes(t, told, [proc[t] EXCEPT !["callback"] = Loading(expiry, new)], new)
           /\ shown' = [shown EXCEPT ![t] = IF expiry = None THEN NoUser ELSE @]
  BY DEF CallbackAnswered
<1> DEFINE expiry == IF stored THEN now + c.life ELSE session
           told == IF stored THEN OnLogin(refresher[t], expiry) ELSE refresher[t]
           callers == [proc[t] EXCEPT !["callback"] = Loading(expiry, new)]
<1>1. /\ jar' = new /\ session' = expiry
      /\ Becomes(t, told, callers, new)
  BY <1>0
<1>2. c \in Callback /\ now \in Int /\ session \in Int /\ refresher[t] \in Refresher
  BY DEF TypeOK, Instants
<1>3. /\ c.sub \in Users \cup {NoUser} /\ c.exp \in Int /\ c.token \in Tokens
      /\ c.life \in Lives \cup {0}
  BY <1>2 DEF Callback, Instants
<1>4. c.life \in Nat BY <1>3, LifeNat
<1>5. Cookies(c.sub, c) \in Jar BY <1>3, CookiesType
<1>6. new \in Jar BY <1>5, Constants DEF Jar
<1>7. expiry \in Int BY <1>2, <1>4
<1>8. told \in Refresher BY <1>2, <1>7, ResultsType
<1> HIDE DEF new, expiry, told
<1>9. callers \in [Procs -> Caller] BY <1>6, <1>7, LoadingType DEF TypeOK
<1>10. TabTypes' BY <1>1, <1>6, <1>8, <1>9, BecomesType
<1>11. session' \in Instants /\ jar' \in Jar BY <1>1, <1>6, <1>7 DEF Instants
<1>12. logins' \in 0..MaxLogins /\ events' \in 0..MaxEvents /\ faults' \in 0..MaxFaults
  BY <1>0, CountsType, CountsKept
<1>13. signedOut' \in BOOLEAN BY DEF CallbackAnswered
<1>14. rows' \subseteq Users /\ lost' \in BOOLEAN /\ IdpTypes' /\ UNCHANGED now
  BY IdpKept DEF CallbackAnswered, TypeOK
<1>15. SharedTypes' BY <1>11, <1>12, <1>13, <1>14, SharedWith
<1>16. callback' \in [Tabs -> Callback] BY Constants DEF CallbackAnswered, TypeOK
<1>17. OtherTabTypes'
  <2>1. shown' \in [Tabs -> Users \cup {NoUser}]
    <3>1. \E u \in Users \cup {NoUser} : shown' = [shown EXCEPT ![t] = u] BY <1>0 DEF TypeOK
    <3>2. QED BY <3>1 DEF TypeOK
  <2>2. QED BY <1>16, <2>1 DEF CallbackAnswered, TypeOK, OtherTabTypes
<1>18. QED BY <1>10, <1>15, <1>17, TypePartsNext

LEMMA CallbackRefusedType == ASSUME TypeOK, NEW t \in Tabs, CallbackRefused(t) PROVE TypeOK'
<1>1. jar' \in Jar BY JarType, JarParts, Constants DEF CallbackRefused, Jar
<1>2. TabTypes' BY DEF CallbackRefused, TypeOK, TabTypes
<1>3. callback' \in [Tabs -> Callback] BY Constants DEF CallbackRefused, TypeOK
<1>4. OtherTabTypes' BY <1>3 DEF CallbackRefused, TypeOK, OtherTabTypes
<1>5. /\ session' \in Instants /\ rows' \subseteq Users /\ signedOut' \in BOOLEAN
      /\ lost' \in BOOLEAN /\ IdpTypes' /\ UNCHANGED now
  BY IdpKept DEF CallbackRefused, TypeOK
<1>6. SharedTypes' BY <1>1, <1>5, SharedWith, CountsKept DEF CallbackRefused
<1>7. QED BY <1>2, <1>4, <1>6, TypePartsNext

LEMMA LogoutType == ASSUME TypeOK, NEW t \in Tabs, Logout(t) PROVE TypeOK'
<1>1. TabTypes' BY DEF Logout, TypeOK, TabTypes
<1>2. SharedTypes' BY SharedKept, CountsType DEF Logout, TypeOK
<1>3. OtherTabTypes' BY DEF Logout, TypeOK, OtherTabTypes
<1>4. QED BY <1>1, <1>2, <1>3, TypePartsNext

LEMMA LoggedOutType == ASSUME TypeOK, NEW t \in Tabs, LoggedOut(t) PROVE TypeOK'
<1>1. jar' \in Jar
  <2>1. NoToken \in Tokens BY DEF NoToken, Tokens
  <2>2. QED BY <2>1, JarType, JarParts, Constants DEF LoggedOut
<1>2. signedOut' \in BOOLEAN BY DEF LoggedOut, TypeOK
<1>3. logins' \in 0..MaxLogins /\ events' \in 0..MaxEvents /\ faults' \in 0..MaxFaults
  BY CountsType, CountsKept DEF LoggedOut
<1>4. TabTypes' BY Constants DEF LoggedOut, TypeOK, TabTypes
<1>5. session' \in Instants BY DEF LoggedOut, Instants, None
<1>6. rows' \subseteq Users /\ lost' \in BOOLEAN /\ IdpTypes' /\ UNCHANGED now
  BY IdpKept DEF LoggedOut, TypeOK
<1>7. SharedTypes' BY <1>1, <1>2, <1>3, <1>5, <1>6, SharedWith
<1>8. OtherTabTypes' BY DEF LoggedOut, TypeOK, OtherTabTypes
<1>9. QED BY <1>4, <1>7, <1>8, TypePartsNext

LEMMA TickType == ASSUME TypeOK, Tick PROVE TypeOK'
<1>1. now' \in 0..MaxTime BY Bounds DEF Tick, TypeOK
<1>2. TabTypes' BY DEF Tick, TypeOK, TabTypes
<1>3. SharedTypes' BY <1>1 DEF Tick, TypeOK, SharedTypes, Jar, idpVars, boundVars
<1>4. OtherTabTypes' BY DEF Tick, TypeOK, OtherTabTypes
<1>5. QED BY <1>2, <1>3, <1>4, TypePartsNext

LEMMA SubjectsInit == Init => Subjects
BY DEF Init, Subjects, NoCallback

LEMMA SubjectsStep ==
    ASSUME TypeOK, Subjects, [Next]_vars
    PROVE  Subjects'
<1>1. ASSUME NEW s \in Tabs, callback'[s].pc # "none", callback'[s] # callback[s]
      PROVE  callback'[s].sub \in Users
  <2>0. callback[s] \in Callback BY DEF TypeOK
  <2> DEFINE same == callback'[s].sub = callback[s].sub /\ callback[s].pc # "none"
  <2>1. ASSUME NEW t \in Tabs, Answers(t) PROVE same
    <3>1. CASE ServerRefresh(t) \/ Refreshed(t) BY <1>1, <3>1 DEF ServerRefresh, Refreshed
    <3>2. CASE RefreshFailed(t)
      BY <1>1, <3>2 DEF RefreshFailed, NoCallback, TypeOK
    <3>3. CASE SendCallback(t)
      BY <1>1, <3>3, <2>0 DEF SendCallback, NoCallback, TypeOK, Callback
    <3>4. CASE ServerCallback(t)
      <4>1. s = t /\ callback[t].pc = "sent"
        BY <1>1, <3>4, SignedInResult DEF ServerCallback, TypeOK
      <4>2. CASE SignedIn(t, callback[t].sub) BY <4>1, <4>2, SignedInResult
      <4>3. CASE \E pc \in {"refused", "cleared", "creating"} :
                   callback' = [callback EXCEPT ![t].pc = pc]
        BY <2>0, <4>1, <4>3 DEF TypeOK, Callback
      <4>4. QED BY <3>4, <4>1, <4>2, <4>3 DEF ServerCallback
    <3>5. CASE ServerCreatesUser(t)
      <4>1. s = t /\ callback[t].pc = "creating"
        BY <1>1, <3>5, SignedInResult DEF ServerCreatesUser, TypeOK
      <4>2. CASE SignedIn(t, callback[t].sub) BY <4>1, <4>2, SignedInResult
      <4>3. CASE \E pc \in {"cleared"} :
                   callback' = [callback EXCEPT ![t].pc = pc]
        BY <2>0, <4>1, <4>3 DEF TypeOK, Callback
      <4>4. QED BY <3>5, <4>1, <4>2, <4>3 DEF ServerCreatesUser
    <3>6. CASE CallbackAnswered(t) \/ CallbackRefused(t)
      BY <1>1, <3>6 DEF CallbackAnswered, CallbackRefused, NoCallback, TypeOK
    <3>7. CASE LoggedOut(t) BY <1>1, <3>7 DEF LoggedOut
    <3>8. CASE \E p \in Procs : Received(t, p) BY <1>1, <3>8 DEF Received
    <3>9. QED BY <2>1, <3>1, <3>2, <3>3, <3>4, <3>5, <3>6, <3>7, <3>8 DEF Answers
  <2>2. ASSUME NEW t \in Tabs, NEW u \in Users, NEW a \in 1..MaxLogins, ComesBack(t, u, a)
        PROVE  callback'[s].sub \in Users
    <3>1. CASE s = t
      <4>1. callback'[s] = [NoCallback EXCEPT !.pc = "returned", !.attempt = a, !.sub = u]
        BY <2>2, <3>1 DEF ComesBack, TypeOK
      <4>2. QED BY <4>1 DEF NoCallback
    <3>2. CASE s # t BY <1>1, <2>2, <3>2 DEF ComesBack, TypeOK
    <3>3. QED BY <3>1, <3>2
  <2>3. ASSUME NEW t \in Tabs,
               \/ Visible(t) \/ Reload(t) \/ ApiCall(t) \/ Login(t) \/ Logout(t)
               \/ TimerFires(t) \/ RefreshLost(t) \/ Tick
        PROVE  FALSE
    BY <1>1, <2>3 DEF Visible, Reload, ApiCall, Login, Logout, TimerFires, RefreshLost, Tick
  <2>4. ASSUME NEW t \in Tabs, NEW p \in Procs, Failed(t, p) PROVE FALSE
    BY <1>1, <2>4 DEF Failed, NoCallback, TypeOK
  <2>5. CASE UNCHANGED vars BY <1>1, <2>5 DEF vars
  <2>6. same => callback'[s].sub \in Users BY DEF Subjects
  <2>7. QED BY <2>1, <2>2, <2>3, <2>4, <2>5, <2>6 DEF Next, UserDoes
<1>2. ASSUME NEW s \in Tabs, callback'[s] = callback[s], callback'[s].pc # "none"
      PROVE  callback'[s].sub \in Users
  BY <1>2 DEF Subjects
<1>3. QED BY <1>1, <1>2 DEF Subjects

LEMMA TypeStep ==
    ASSUME TypeOK, Subjects, [Next]_vars
    PROVE  TypeOK'
<1>1. ASSUME NEW t \in Tabs, Answers(t) PROVE TypeOK'
  <2>1. ASSUME NEW p \in Procs, Received(t, p) PROVE TypeOK' BY <2>1, ReceivedType
  <2>2. QED
    BY <1>1, <2>1, ServerRefreshType, RefreshedType, RefreshFailedType, SendCallbackType,
       ServerCallbackType, ServerCreatesUserType, CallbackAnsweredType, CallbackRefusedType,
       LoggedOutType DEF Answers
<1>2. ASSUME NEW t \in Tabs, UserDoes(t) PROVE TypeOK'
  BY <1>2, VisibleType, ReloadType, ApiCallType, LoginType, LogoutType, ComesBackType
  DEF UserDoes
<1>3. ASSUME NEW t \in Tabs, NEW p \in Procs, Failed(t, p) PROVE TypeOK' BY <1>3, FailedType
<1>4. CASE UNCHANGED vars
  BY <1>4 DEF vars, TypeOK, idpVars, boundVars
<1>5. QED BY <1>1, <1>2, <1>3, <1>4, TickType, TimerFiresType, RefreshLostType DEF Next

\* The variables keep their types, whatever is refused, lost or dropped, for any
\* number of tabs and users.
THEOREM SessionTypeCorrect == Spec => []TypeOK
<1> DEFINE Inv == TypeOK /\ Subjects
<1>1. Init => Inv BY InitType, SubjectsInit
<1>2. Inv /\ [Next]_vars => Inv' BY TypeStep, SubjectsStep
<1>3. QED BY <1>1, <1>2, PTL DEF Spec

-----------------------------------------------------------------------------
(* One refresh ahead *)

\* A refresher has its timer or an operation, not both.
Sound(r) == ~(r.op /\ r.timer # None)

LEMMA SoundResults ==
    ASSUME NEW r \in Refresher, NEW expiry \in Int, NEW due \in BOOLEAN, now \in Int
    PROVE  /\ Sound(Armed(r, expiry, due)) /\ Sound(ArmedByStored(r, expiry))
           /\ Sound(Started(expiry)) /\ Sound(OnLogin(r, expiry))
           /\ Sound(OnResult(r, expiry)) /\ Sound(OnFailure(r)) /\ Sound(Stopped)
           /\ ~OnFailure(r).op /\ ~Started(None).op /\ ~Stopped.op
           /\ Sound(r) => Sound(OnRefresh(r, expiry))
<1>1. ASSUME NEW q \in Refresher, NEW d \in BOOLEAN PROVE Sound(Armed(q, expiry, d))
  <2> DEFINE free == q.proactive /\ ~q.op
             late == expiry - now <= Window
             armed == Armed(q, expiry, d)
  <2>1. /\ armed.timer = (IF free /\ ~late THEN expiry - Window ELSE None)
        /\ armed.op = (q.op \/ (free /\ late /\ d))
    <3>1. (q.op \/ (free /\ late /\ d)) \in BOOLEAN OBVIOUS
    <3>2. QED BY <3>1 DEF Armed, Refresher
  <2>2. armed.op => armed.timer = None BY <2>1
  <2>3. QED BY <2>2 DEF Sound
<1>2. ASSUME NEW q \in Refresher
      PROVE  [q EXCEPT !.timer = None].timer = None /\ [q EXCEPT !.op = FALSE] \in Refresher
             /\ [q EXCEPT !.proactive = TRUE] \in Refresher
             /\ [q EXCEPT !.proactive = TRUE, !.op = FALSE] \in Refresher
  BY DEF Refresher
<1>3. ASSUME NEW q \in Refresher PROVE Sound(ArmedByStored(q, expiry))
  BY <1>1, <1>2 DEF ArmedByStored, Sound
<1>4. Stopped \in Refresher BY Constants
<1>5. Sound(Started(expiry)) BY <1>2, <1>3, <1>4 DEF Started
<1>6. Sound(OnLogin(r, expiry)) BY <1>1, <1>2 DEF OnLogin
<1>7. Sound(Stopped) /\ ~Stopped.op BY DEF Stopped, Sound
<1>8. Sound(OnResult(r, expiry)) BY <1>1, <1>2, <1>7 DEF OnResult, Sound
<1>9. Sound(OnFailure(r)) /\ ~OnFailure(r).op BY <1>7 DEF OnFailure, Sound
<1>10. ~Started(None).op BY DEF Started, ArmedByStored, Stopped
<1>11. Sound(r) => Sound(OnRefresh(r, expiry)) BY <1>1 DEF OnRefresh
<1>12. QED BY <1>1, <1>3, <1>5, <1>6, <1>7, <1>8, <1>9, <1>10, <1>11

OneAhead(t) ==
    /\ Sound(refresher[t])
    /\ refresher[t].op \/ (\E p \in Procs : proc[t][p].pc \in Waiting) => flight[t].pc # "none"

LEMMA AheadParts == OneRefreshAhead <=> \A t \in Tabs : OneAhead(t)
BY DEF OneRefreshAhead, OneAhead, Sound

LEMMA AheadPartsNext == (\A t \in Tabs : OneAhead(t)') => OneRefreshAhead'
BY DEF OneRefreshAhead, OneAhead, Sound

\* A step of one tab.
LEMMA AheadOthers ==
    ASSUME OneRefreshAhead, NEW t \in Tabs, OneAhead(t)',
           \A s \in Tabs : s # t => /\ refresher'[s] = refresher[s]
                                    /\ proc'[s] = proc[s] /\ flight'[s] = flight[s]
    PROVE  OneRefreshAhead'
<1>1. ASSUME NEW s \in Tabs, s # t PROVE OneAhead(s)'
  BY <1>1, AheadParts DEF OneAhead
<1>2. QED BY <1>1, AheadPartsNext

LEMMA AheadBecomes ==
    ASSUME TypeOK, OneRefreshAhead, NEW t \in Tabs, NEW r \in Refresher, Sound(r),
           NEW callers, NEW cookies \in Jar, Becomes(t, r, callers, cookies)
    PROVE  OneRefreshAhead'
<1>1. Asked(t, cookies).pc # "none" BY AskedType
<1>2. /\ refresher'[t] = r /\ proc'[t] = callers
      /\ flight'[t] = IF r.op \/ \E p \in Procs : callers[p].pc \in Waiting
                      THEN Asked(t, cookies) ELSE flight[t]
  BY DEF Becomes, TypeOK
<1>3. OneAhead(t)' BY <1>1, <1>2 DEF OneAhead
<1>4. QED BY <1>3, AheadOthers DEF Becomes, TypeOK

LEMMA AheadLoaded ==
    ASSUME TypeOK, OneRefreshAhead, NEW t \in Tabs, NEW expiry \in Int, NEW cookies \in Jar,
           Loaded(t, expiry, cookies)
    PROVE  OneRefreshAhead'
<1> DEFINE loading == Loading(expiry, cookies)
<1>1. /\ refresher'[t] = Started(expiry)
      /\ proc'[t] = [NoProcs EXCEPT !["page"] = loading]
      /\ flight'[t] = LoadedFlight(expiry, cookies)
  BY DEF Loaded, TypeOK
<1>2. Sound(Started(expiry)) BY SoundResults, Constants DEF TypeOK
<1>3. loading.pc \in {"idle", "token", "me"} BY LoadingType
<1>4. ASSUME NEW p \in Procs, proc'[t][p].pc \in Waiting PROVE loading.pc = "token"
  <2>1. CASE p = "page"
    <3>1. proc'[t][p] = loading BY <1>1, <2>1 DEF NoProcs, Procs
    <3>2. QED BY <1>3, <1>4, <3>1 DEF Waiting
  <2>2. CASE p # "page"
    <3>1. proc'[t][p] = Idle BY <1>1, <2>2 DEF NoProcs
    <3>2. QED BY <1>4, <3>1 DEF Idle, Waiting
  <2>3. QED BY <2>1, <2>2
<1>5. Request(cookies).pc # "none" BY RequestType
<1>6. Started(expiry).op \/ loading.pc = "token" => flight'[t].pc # "none"
  BY <1>1, <1>5 DEF LoadedFlight
<1>7. OneAhead(t)' BY <1>1, <1>2, <1>4, <1>6 DEF OneAhead
<1>8. QED BY <1>7, AheadOthers DEF Loaded, TypeOK

LEMMA AheadInit == Init => OneRefreshAhead
<1> SUFFICES ASSUME Init, NEW t \in Tabs PROVE OneAhead(t) BY AheadParts
<1>1. PICK u \in Users \cup {NoUser}, age \in Lives \cup {0} :
        LET expiry == IF u # NoUser THEN age ELSE None
        IN /\ refresher = [s \in Tabs |-> Started(expiry)]
           /\ proc = [s \in Tabs |-> [NoProcs EXCEPT !["page"] = Loading(expiry, jar)]]
           /\ flight = [s \in Tabs |-> LoadedFlight(expiry, jar)]
  BY DEF Init
<1> DEFINE expiry == IF u # NoUser THEN age ELSE None
<1>a. TypeOK BY InitType
<1>2. now \in Int /\ jar \in Jar /\ expiry \in Int BY <1>a, JarType, Bounds DEF TypeOK, None
<1>3. Sound(Started(expiry)) BY <1>2, SoundResults, Constants
<1> DEFINE loading == Loading(expiry, jar)
<1>4. loading.pc \in {"idle", "token", "me"} BY <1>2, LoadingType
<1>5. ASSUME NEW p \in Procs, proc[t][p].pc \in Waiting PROVE loading.pc = "token"
  <2>1. CASE p = "page"
    <3>1. proc[t][p] = loading BY <1>1, <2>1 DEF NoProcs, Procs
    <3>2. QED BY <1>4, <1>5, <3>1 DEF Waiting
  <2>2. CASE p # "page"
    <3>1. proc[t][p] = Idle BY <1>1, <2>2 DEF NoProcs
    <3>2. QED BY <1>5, <3>1 DEF Idle, Waiting
  <2>3. QED BY <2>1, <2>2
<1>6. Request(jar).pc # "none" BY <1>2, RequestType
<1>7. Started(expiry).op \/ loading.pc = "token" => flight[t].pc # "none"
  BY <1>1, <1>6 DEF LoadedFlight
<1>8. QED BY <1>1, <1>3, <1>5, <1>7 DEF OneAhead

\* A step that touches neither refreshers, callers nor requests, or only ends them.
LEMMA AheadKept ==
    ASSUME TypeOK, OneRefreshAhead,
           \A s \in Tabs : /\ refresher'[s] = refresher[s] \/ refresher'[s] = Stopped
                           /\ proc'[s] = proc[s]
                           /\ flight[s].pc # "none" => flight'[s].pc # "none"
    PROVE  OneRefreshAhead'
<1>1. Sound(Stopped) /\ ~Stopped.op BY DEF Stopped, Sound
<1>2. ASSUME NEW s \in Tabs PROVE OneAhead(s)'
  BY <1>1, AheadParts DEF OneAhead
<1>3. QED BY <1>2, AheadPartsNext

LEMMA AheadRefreshed == ASSUME TypeOK, OneRefreshAhead, NEW t \in Tabs, Refreshed(t)
                        PROVE  OneRefreshAhead'
<1> DEFINE f == flight[t]
           new == Cookies(f.access.sub, f)
<1>1. PICK stored \in BOOLEAN :
        LET expiry == IF stored THEN now + f.life ELSE session
            told == IF stored THEN OnRefresh(refresher[t], expiry) ELSE refresher[t]
        IN /\ Settled(t, OnResult(told, expiry), new)
           /\ proc' = [proc EXCEPT ![t] = [p \in Procs |->
                 CASE @[p].pc = "token" -> Answer("me", new)
                   [] @[p].pc = "meRefresh" -> Answer("meRetry", new)
                   [] @[p].pc = "apiRefresh" -> Answer("apiRetry", new)
                   [] OTHER -> @[p]]]
  BY DEF Refreshed
<1> DEFINE expiry == IF stored THEN now + f.life ELSE session
           told == IF stored THEN OnRefresh(refresher[t], expiry) ELSE refresher[t]
           r == OnResult(told, expiry)
<1>2. f \in Flight /\ now \in Int /\ session \in Int /\ refresher[t] \in Refresher
  BY DEF TypeOK, Instants
<1>3. f.exp \in Int /\ f.token \in Tokens /\ f.access \in Access /\ f.life \in Lives \cup {0}
  BY <1>2 DEF Flight, Instants
<1>4. f.access.sub \in Users \cup {NoUser} BY <1>3 DEF Access
<1>5. f.life \in Nat BY <1>3, LifeNat
<1>6. expiry \in Int BY <1>2, <1>5
<1>7. new \in Jar BY <1>3, <1>4, CookiesType
<1>8. told \in Refresher BY <1>2, <1>6, ResultsType
<1>9. Sound(r) BY <1>2, <1>6, <1>8, SoundResults
<1> HIDE DEF new, r
<1>10. refresher'[t] = r /\ (r.op => flight'[t].pc # "none")
  BY <1>1, <1>7, RequestType DEF Settled, TypeOK, r
<1>11. ASSUME NEW p \in Procs PROVE proc'[t][p].pc \notin Waiting
  <2>1. proc'[t][p] = CASE proc[t][p].pc = "token" -> Answer("me", new)
                        [] proc[t][p].pc = "meRefresh" -> Answer("meRetry", new)
                        [] proc[t][p].pc = "apiRefresh" -> Answer("apiRetry", new)
                        [] OTHER -> proc[t][p]
    BY <1>1 DEF TypeOK
  <2>2. QED BY <2>1 DEF Answer, Waiting
<1>12. OneAhead(t)' BY <1>9, <1>10, <1>11 DEF OneAhead
<1>13. QED BY <1>1, <1>12, AheadOthers DEF Settled, TypeOK

LEMMA AheadRefreshFailed == ASSUME TypeOK, OneRefreshAhead, NEW t \in Tabs, RefreshFailed(t)
                            PROVE  OneRefreshAhead'
<1> DEFINE waits == {p \in Procs : proc[t][p].pc \in Waiting}
           home == "api" \in waits
<1>1. /\ refresher' = [refresher EXCEPT ![t] =
            IF home THEN Started(None) ELSE IF waits = {} THEN OnFailure(@) ELSE Stopped]
      /\ proc' = [proc EXCEPT ![t] = [p \in Procs |-> IF home \/ p \in waits THEN Idle ELSE @[p]]]
      /\ flight' = [flight EXCEPT ![t] = NoFlight]
  BY DEF RefreshFailed
<1>2. refresher[t] \in Refresher /\ now \in Int BY DEF TypeOK
<1>3. /\ Sound(Started(None)) /\ Sound(OnFailure(refresher[t])) /\ Sound(Stopped)
      /\ ~Started(None).op /\ ~OnFailure(refresher[t]).op /\ ~Stopped.op
  <2>1. None \in Int /\ FALSE \in BOOLEAN BY DEF None
  <2>2. QED BY <1>2, <2>1, SoundResults
<1>4. Sound(refresher'[t]) /\ ~refresher'[t].op BY <1>1, <1>3 DEF TypeOK
<1>5. ASSUME NEW p \in Procs PROVE proc'[t][p].pc \notin Waiting
  <2>1. proc'[t][p] = IF home \/ p \in waits THEN Idle ELSE proc[t][p] BY <1>1 DEF TypeOK
  <2>2. QED BY <2>1 DEF Idle, Waiting
<1>6. OneAhead(t)' BY <1>4, <1>5 DEF OneAhead
<1>7. QED BY <1>1, <1>6, AheadOthers DEF TypeOK

LEMMA AheadStep ==
    ASSUME TypeOK, OneRefreshAhead, [Next]_vars
    PROVE  OneRefreshAhead'
<1>0. now \in Int /\ session \in Int /\ jar \in Jar
  <2>1. now \in 0..MaxTime /\ session \in Int BY DEF TypeOK, Instants
  <2>2. now \in Int BY <2>1, Bounds
  <2>3. QED BY <2>1, <2>2, JarType
<1>a. ASSUME NEW t \in Tabs PROVE refresher[t] \in Refresher /\ Sound(refresher[t])
  BY AheadParts DEF TypeOK, OneAhead
<1>1. ASSUME NEW t \in Tabs, TimerFires(t) PROVE OneRefreshAhead'
  <2> DEFINE r == [refresher[t] EXCEPT !.timer = None, !.op = @ \/ refresher[t].proactive]
  <2>1. r \in Refresher BY <1>a, FiredType
  <2>2. r.timer = None
    <3>1. refresher[t] \in Refresher BY <1>a
    <3>2. QED BY <3>1 DEF Refresher
  <2>3. Becomes(t, r, proc[t], jar) BY <1>1 DEF TimerFires
  <2> HIDE DEF r
  <2>4. QED BY <1>0, <2>1, <2>2, <2>3, AheadBecomes DEF Sound
<1>2. ASSUME NEW t \in Tabs, Visible(t) PROVE OneRefreshAhead'
  <2>1. ArmedByStored(refresher[t], session) \in Refresher
        /\ Sound(ArmedByStored(refresher[t], session))
    BY <1>0, <1>a, ArmedByStoredType, SoundResults
  <2>2. QED BY <1>0, <1>2, <2>1, AheadBecomes DEF Visible
<1>3. ASSUME NEW t \in Tabs, Reload(t) PROVE OneRefreshAhead'
  BY <1>0, <1>3, AheadLoaded DEF Reload
<1>4. ASSUME NEW t \in Tabs, ApiCall(t) PROVE OneRefreshAhead'
  <2>1. proc'[t] = [proc[t] EXCEPT !["api"] = Answer("api", jar)] BY <1>4 DEF ApiCall, TypeOK
  <2>2. ASSUME NEW p \in Procs, proc'[t][p].pc \in Waiting PROVE proc[t][p].pc \in Waiting
    <3>1. Answer("api", jar).pc \notin Waiting BY DEF Answer, Waiting
    <3>2. QED BY <2>1, <2>2, <3>1 DEF TypeOK
  <2>3. OneAhead(t)' BY <1>4, <2>2, AheadParts DEF ApiCall, OneAhead
  <2>4. QED BY <1>4, <2>3, AheadOthers DEF ApiCall, TypeOK
<1>5. ASSUME NEW t \in Tabs, NEW p \in Procs, Received(t, p) PROVE OneRefreshAhead'
  <2>1. PICK r, callers : r \in {Stopped, refresher[t]} /\ Becomes(t, r, callers, jar)
    BY <1>5 DEF Received
  <2>2. r \in Refresher /\ Sound(r) BY <1>0, <1>a, <2>1, SoundResults, Constants
  <2>3. QED BY <1>0, <2>1, <2>2, AheadBecomes
<1>6. ASSUME NEW t \in Tabs, NEW p \in Procs, Failed(t, p) PROVE OneRefreshAhead'
  <2>1. \/ Loaded(t, None, jar)
        \/ \E r \in {Stopped, refresher[t]} : \E callers : Becomes(t, r, callers, jar)
    BY <1>6 DEF Failed
  <2>2. CASE Loaded(t, None, jar) BY <1>0, <2>2, AheadLoaded DEF None
  <2>3. CASE \E r \in {Stopped, refresher[t]} : \E callers : Becomes(t, r, callers, jar)
    <3>1. PICK r, callers : r \in {Stopped, refresher[t]} /\ Becomes(t, r, callers, jar)
      BY <2>3
    <3>2. r \in Refresher /\ Sound(r) BY <1>0, <1>a, <3>1, SoundResults, Constants
    <3>3. QED BY <1>0, <3>1, <3>2, AheadBecomes
  <2>4. QED BY <2>1, <2>2, <2>3
<1>7. ASSUME NEW t \in Tabs, ServerRefresh(t) \/ RefreshLost(t) PROVE OneRefreshAhead'
  <2>1. ASSUME NEW s \in Tabs, flight[s].pc # "none" PROVE flight'[s].pc # "none"
    <3>1. \E life, exp, token :
            \/ flight' = [flight EXCEPT ![t].pc = "refused"]
            \/ flight' = [flight EXCEPT ![t] = [@ EXCEPT !.pc = "ok", !.life = life,
                                                   !.exp = exp, !.token = token]]
      BY <1>7 DEF ServerRefresh, RefreshLost
    <3>2. flight \in [Tabs -> Flight] BY DEF TypeOK
    <3>3. CASE flight' = [flight EXCEPT ![t].pc = "refused"]
      BY <2>1, <3>2, <3>3 DEF Flight
    <3>4. ASSUME NEW life, NEW exp, NEW token,
                 flight' = [flight EXCEPT ![t] = [@ EXCEPT !.pc = "ok", !.life = life,
                                                   !.exp = exp, !.token = token]]
          PROVE  flight'[s].pc # "none"
      <4>1. flight[t] \in Flight BY <3>2
      <4>2. [flight[t] EXCEPT !.pc = "ok", !.life = life, !.exp = exp, !.token = token].pc = "ok"
        BY <4>1 DEF Flight
      <4>3. QED BY <2>1, <3>2, <3>4, <4>2
    <3>5. QED BY <3>1, <3>3, <3>4
  <2>2. QED BY <1>7, <2>1, AheadKept DEF ServerRefresh, RefreshLost
<1>8. ASSUME NEW t \in Tabs, Login(t) PROVE OneRefreshAhead'
  <2>1. refresher'[t] = Stopped /\ proc'[t] = NoProcs BY <1>8 DEF Login, TypeOK
  <2>2. \A p \in Procs : NoProcs[p].pc \notin Waiting BY DEF NoProcs, Idle, Waiting
  <2>3. OneAhead(t)' BY <2>1, <2>2 DEF OneAhead, Sound, Stopped
  <2>4. QED BY <1>8, <2>3, AheadOthers DEF Login, TypeOK
<1>9. ASSUME NEW t \in Tabs, NEW u \in Users, NEW a \in 1..MaxLogins, ComesBack(t, u, a)
      PROVE  OneRefreshAhead'
  BY <1>0, <1>9, AheadLoaded DEF ComesBack
<1>10. ASSUME NEW t \in Tabs, CallbackAnswered(t) PROVE OneRefreshAhead'
  <2> DEFINE c == callback[t]
             new == [Cookies(c.sub, c) EXCEPT !.tx = NoTx]
             expiry == now + c.life
             told == OnLogin(refresher[t], expiry)
  <2>1. PICK r, callers : r \in {told, refresher[t]} /\ Becomes(t, r, callers, new)
    BY <1>10 DEF CallbackAnswered
  <2>2. c \in Callback BY DEF TypeOK
  <2>3. /\ c.sub \in Users \cup {NoUser} /\ c.exp \in Int /\ c.token \in Tokens
        /\ c.life \in Lives \cup {0}
    BY <2>2 DEF Callback, Instants
  <2>4. c.life \in Nat BY <2>3, LifeNat
  <2>5. Cookies(c.sub, c) \in Jar BY <2>3, CookiesType
  <2>6. new \in Jar BY <2>5, Constants DEF Jar
  <2>7. expiry \in Int BY <1>0, <2>4
  <2>8. r \in Refresher /\ Sound(r)
    BY <1>0, <1>a, <2>1, <2>7, ResultsType, SoundResults
  <2> HIDE DEF new, expiry, told
  <2>9. QED BY <2>1, <2>6, <2>8, AheadBecomes
<1>11. ASSUME NEW t \in Tabs,
              \/ SendCallback(t) \/ ServerCallback(t) \/ ServerCreatesUser(t)
              \/ CallbackRefused(t) \/ Logout(t) \/ Tick \/ UNCHANGED vars
       PROVE  OneRefreshAhead'
  <2>1. UNCHANGED <<refresher, flight, proc>>
    BY <1>11 DEF SendCallback, ServerCallback, ServerCreatesUser, CallbackRefused, Logout,
                 Tick, vars
  <2>2. QED BY <2>1, AheadKept
<1>12. ASSUME NEW t \in Tabs, LoggedOut(t) PROVE OneRefreshAhead'
  BY <1>12, AheadKept DEF LoggedOut, TypeOK
<1>13. CASE Tick \/ UNCHANGED vars
  BY <1>13 DEF Tick, vars, OneRefreshAhead
<1>14. QED
  BY <1>1, <1>2, <1>3, <1>4, <1>5, <1>6, <1>7, <1>8, <1>9, <1>10, <1>11, <1>12, <1>13,
     AheadRefreshed, AheadRefreshFailed
  DEF Next, Answers, UserDoes

\* A tab has one refresh ahead of it, and whoever awaits a refresh has a request to wait
\* for, however many tabs share the cookies and whatever fails.
THEOREM OneRefreshAheadHolds == Spec => []OneRefreshAhead
<1> DEFINE Inv == TypeOK /\ Subjects /\ OneRefreshAhead
<1>1. Init => Inv BY InitType, SubjectsInit, AheadInit
<1>2. Inv /\ [Next]_vars => Inv' BY TypeStep, SubjectsStep, AheadStep
<1>3. QED BY <1>1, <1>2, PTL DEF Spec


-----------------------------------------------------------------------------
(* The refresh tokens *)

\* A token neither the cookies nor a request have seen: only the answer that
\* carries it can bring it.
Unseen(n) == n # jar.refresh /\ \A s \in Tabs : flight[s].refresh # n

\* The refresh tokens in use were issued.
Issued ==
    /\ jar.refresh \in 0..Len(owner)
    /\ \A s \in Tabs : flight[s].refresh \in 0..Len(owner)

\* The answers to a refresh carry a token the provider accepts, of the user of the
\* access token; a provider that rotates gave it to this answer alone.
Brings(s, n) == flight[s].pc = "ok" /\ flight[s].token = n

FlightsCarry ==
    \A s \in Tabs, n \in Tokens : Brings(s, n) =>
        /\ n \in live
        /\ owner[n] = flight[s].access.sub
        /\ rotates => Unseen(n)

\* So do the answers to a callback that carry one.
Carries(s, n) == callback[s].pc = "ok" /\ callback[s].token = n /\ n # NoToken

CallbacksCarry ==
    \A s \in Tabs, n \in Tokens : Carries(s, n) => n \in live /\ (rotates => Unseen(n))

\* No two answers carry the same token when the provider rotates them.
CarriedOnce ==
    rotates =>
        \A s, u \in Tabs, n \in Tokens :
            /\ Brings(s, n) /\ Brings(u, n) => s = u
            /\ Carries(s, n) /\ Carries(u, n) => s = u
            /\ ~(Brings(s, n) /\ Carries(u, n))

\* Without rotation the token of the cookies is accepted for good; and a tab that
\* went to the provider awaits no answer.
Usable == RefreshTokenUsable /\ (~rotates => jar.refresh \in {NoToken} \cup live)
AwayAwaitsNothing == \A s \in Tabs : page[s] = "idp" => flight[s].pc = "none"

TokensInv ==
    /\ Issued /\ FlightsCarry /\ CallbacksCarry /\ CarriedOnce /\ Usable
    /\ AwayAwaitsNothing

\* A step that issues nothing and answers no request: a tab may drop its answer, and
\* then remembers a rotation that goes with it, or ask again with the cookies.
QuietFlight(s) ==
    \/ flight'[s] = flight[s]
    \/ /\ flight'[s].pc # "ok"
       /\ flight'[s].refresh \in {flight[s].refresh, NoToken, jar.refresh}
       /\ flight[s].pc = "ok" /\ rotates => lost'

CallbacksQuiet ==
    \A s \in Tabs : \/ callback'[s] = callback[s] \/ callback'[s].pc # "ok"
                    \/ callback'[s].token = NoToken

Quiet ==
    /\ UNCHANGED idpVars
    /\ jar'.refresh \in {jar.refresh, NoToken}
    /\ \A s \in Tabs : QuietFlight(s)
    /\ CallbacksQuiet
    /\ lost => lost'

LEMMA LiveIssued ==
    ASSUME TypeOK
    PROVE  Len(owner) \in Nat /\ NoToken \notin live /\ live \subseteq 1..Len(owner)
<1>1. Len(owner) \in Nat /\ live \subseteq 1..Len(owner) BY DEF TypeOK
<1>2. QED BY <1>1 DEF NoToken

LEMMA UnseenKept ==
    ASSUME TypeOK, Quiet, NEW n \in live, Unseen(n)
    PROVE  Unseen(n)'
<1>1. n # NoToken BY LiveIssued
<1>2. n # jar'.refresh BY <1>1 DEF Quiet, Unseen
<1>3. ASSUME NEW s \in Tabs PROVE flight'[s].refresh # n
  <2>1. QuietFlight(s) BY DEF Quiet
  <2>2. QED BY <1>1, <2>1 DEF QuietFlight, Unseen
<1>4. QED BY <1>2, <1>3 DEF Unseen

LEMMA TokensKept ==
    ASSUME TypeOK, TokensInv, Quiet, AwayAwaitsNothing'
    PROVE  TokensInv'
<1>1. UNCHANGED <<rotates, owner, live>> BY DEF Quiet, idpVars
<1>2. ASSUME NEW s \in Tabs, NEW n, Brings(s, n)'
      PROVE  Brings(s, n) /\ flight'[s] = flight[s]
  <2>1. QuietFlight(s) BY DEF Quiet
  <2>2. QED BY <1>2, <2>1 DEF QuietFlight, Brings
<1>3. ASSUME NEW s \in Tabs, NEW n, Carries(s, n)' PROVE Carries(s, n)
  BY <1>3 DEF Quiet, CallbacksQuiet, Carries
<1>4. Issued'
  <2>1. Issued /\ NoToken \in 0..Len(owner) BY LiveIssued DEF TokensInv, NoToken
  <2>2. jar'.refresh \in 0..Len(owner) BY <2>1 DEF Quiet, Issued
  <2>3. ASSUME NEW s \in Tabs PROVE flight'[s].refresh \in 0..Len(owner)
    <3>1. QuietFlight(s) BY DEF Quiet
    <3>2. QED BY <2>1, <3>1 DEF QuietFlight, Issued
  <2>4. QED BY <1>1, <2>2, <2>3 DEF Issued
<1>5. FlightsCarry'
  <2>1. ASSUME NEW s \in Tabs, NEW n \in Tokens, Brings(s, n)'
        PROVE  n \in live' /\ owner'[n] = flight'[s].access.sub /\ (rotates' => Unseen(n)')
    <3>1. Brings(s, n) /\ flight'[s] = flight[s] BY <1>2, <2>1
    <3>2. n \in live /\ owner[n] = flight[s].access.sub /\ (rotates => Unseen(n))
      BY <3>1 DEF TokensInv, FlightsCarry
    <3>3. rotates => Unseen(n)' BY <3>2, UnseenKept
    <3>4. QED BY <1>1, <3>1, <3>2, <3>3
  <2>2. QED BY <2>1 DEF FlightsCarry
<1>6. CallbacksCarry'
  <2>1. ASSUME NEW s \in Tabs, NEW n \in Tokens, Carries(s, n)'
        PROVE  n \in live' /\ (rotates' => Unseen(n)')
    <3>1. Carries(s, n) BY <1>3, <2>1
    <3>2. n \in live /\ (rotates => Unseen(n)) BY <3>1 DEF TokensInv, CallbacksCarry
    <3>3. rotates => Unseen(n)' BY <3>2, UnseenKept
    <3>4. QED BY <1>1, <3>2, <3>3
  <2>2. QED BY <2>1 DEF CallbacksCarry
<1>7. CarriedOnce'
  <2>1. ASSUME NEW s \in Tabs, NEW u \in Tabs, NEW n \in Tokens, rotates
        PROVE  /\ Brings(s, n)' /\ Brings(u, n)' => s = u
               /\ Carries(s, n)' /\ Carries(u, n)' => s = u
               /\ ~(Brings(s, n)' /\ Carries(u, n)')
    BY <1>2, <1>3, <2>1 DEF TokensInv, CarriedOnce
  <2>2. QED BY <1>1, <2>1 DEF CarriedOnce
<1>8. Usable'
  <2>1. Usable /\ jar'.refresh \in {jar.refresh, NoToken} BY DEF TokensInv, Quiet
  <2>2. (~rotates => jar.refresh \in {NoToken} \cup live) BY <2>1 DEF Usable
  <2>3. (~rotates)' => jar'.refresh \in {NoToken} \cup live' BY <1>1, <2>1, <2>2
  <2>a. lost => lost' BY DEF Quiet
  <2>4. ASSUME lost PROVE RefreshTokenUsable' BY <2>4, <2>a DEF RefreshTokenUsable
  <2>5. ASSUME jar.refresh \in {NoToken} \cup live \/ jar'.refresh = NoToken
        PROVE  RefreshTokenUsable'
    <3>1. jar'.refresh \in {NoToken} \cup live' BY <1>1, <2>1, <2>5
    <3>2. QED BY <3>1 DEF RefreshTokenUsable
  <2>6. ASSUME NEW s \in Tabs, flight[s].pc = "ok", flight[s].refresh = jar.refresh,
               jar'.refresh = jar.refresh, jar.refresh \notin {NoToken} \cup live
        PROVE  RefreshTokenUsable'
    <3>1. rotates BY <2>2, <2>6
    <3>2. QuietFlight(s) BY DEF Quiet
    <3>3. CASE flight'[s] = flight[s] BY <2>6, <3>3 DEF RefreshTokenUsable
    <3>4. CASE lost' BY <3>4 DEF RefreshTokenUsable
    <3>5. QED BY <2>6, <3>1, <3>2, <3>3, <3>4 DEF QuietFlight
  <2>7. RefreshTokenUsable'
    BY <2>1, <2>4, <2>5, <2>6 DEF Usable, RefreshTokenUsable
  <2>8. QED BY <2>3, <2>7 DEF Usable
<1>9. QED BY <1>4, <1>5, <1>6, <1>7, <1>8 DEF TokensInv

LEMMA AwayKept ==
    ASSUME AwayAwaitsNothing, NEW t \in Tabs, page'[t] = "idp" => flight'[t].pc = "none",
           \A s \in Tabs : s # t => page'[s] = page[s] /\ flight'[s] = flight[s]
    PROVE  AwayAwaitsNothing'
BY DEF AwayAwaitsNothing

LEMMA TokensBecome ==
    ASSUME TypeOK, TokensInv, NEW t \in Tabs, NEW r, NEW callers, Becomes(t, r, callers, jar),
           page[t] = "open", UNCHANGED <<jar, idpVars, page, lost>>, CallbacksQuiet
    PROVE  TokensInv'
<1>1. /\ Request(jar).pc = "sent" /\ Request(jar).refresh = jar.refresh
  BY JarType, RequestType
<1>2. flight'[t] = flight[t] \/ flight'[t] = Asked(t, jar) BY DEF Becomes, TypeOK
<1>3. \A s \in Tabs : s # t => flight'[s] = flight[s] BY DEF Becomes, TypeOK
<1>4. flight'[t] = flight[t] \/ (flight[t].pc = "none" /\ flight'[t] = Request(jar))
  BY <1>2 DEF Asked
<1>5. QuietFlight(t) BY <1>1, <1>4 DEF QuietFlight
<1>6. Quiet BY <1>3, <1>5 DEF Quiet, QuietFlight, CallbacksQuiet
<1>7. AwayAwaitsNothing' BY <1>3, AwayKept DEF TokensInv
<1>8. QED BY <1>6, <1>7, TokensKept

\* A rotation that goes with the page is remembered.
Remembered(t) == (lost => lost') /\ (flight[t].pc = "ok" /\ rotates => lost')

LEMMA UnloadsRemembered == ASSUME NEW t \in Tabs, Unloads(t) PROVE Remembered(t)
BY DEF Unloads, Remembered

LEMMA TokensEnd ==
    ASSUME TypeOK, TokensInv, NEW t \in Tabs, Remembered(t), CallbacksQuiet,
           UNCHANGED idpVars, jar'.refresh \in {jar.refresh, NoToken},
           flight'[t].pc # "ok",
           flight'[t].refresh \in {flight[t].refresh, NoToken, jar.refresh},
           page'[t] = "idp" => flight'[t].pc = "none",
           \A s \in Tabs : s # t => page'[s] = page[s] /\ flight'[s] = flight[s]
    PROVE  TokensInv'
<1>1. QuietFlight(t) BY DEF QuietFlight, Remembered
<1>2. \A s \in Tabs : QuietFlight(s) BY <1>1 DEF QuietFlight
<1>3. lost => lost' BY DEF Remembered
<1>4. Quiet BY <1>2, <1>3 DEF Quiet, CallbacksQuiet
<1>5. AwayAwaitsNothing' BY AwayKept DEF TokensInv
<1>6. QED BY <1>4, <1>5, TokensKept

LEMMA TokensLoaded ==
    ASSUME TypeOK, TokensInv, NEW t \in Tabs, NEW expiry \in Int, Loaded(t, expiry, jar),
           Remembered(t), CallbacksQuiet, UNCHANGED <<idpVars, jar>>,
           page'[t] = "open", \A s \in Tabs : s # t => page'[s] = page[s]
    PROVE  TokensInv'
<1>1. flight'[t] = LoadedFlight(expiry, jar) BY DEF Loaded, TypeOK
<1>2. /\ Request(jar).pc = "sent" /\ Request(jar).refresh = jar.refresh
  BY JarType, RequestType
<1>3. NoFlight.pc = "none" /\ NoFlight.refresh = NoToken BY DEF NoFlight
<1>4. flight'[t].pc # "ok" /\ flight'[t].refresh \in {NoToken, jar.refresh}
  BY <1>1, <1>2, <1>3 DEF LoadedFlight
<1>5. \A s \in Tabs : s # t => flight'[s] = flight[s] BY DEF Loaded, TypeOK
<1>6. QED BY <1>4, <1>5, TokensEnd

\* A step that touches no request.
LEMMA TokensSame ==
    ASSUME TypeOK, TokensInv, UNCHANGED <<idpVars, flight, page, lost>>, CallbacksQuiet,
           jar'.refresh \in {jar.refresh, NoToken}
    PROVE  TokensInv'
<1>1. Quiet BY DEF Quiet, QuietFlight, CallbacksQuiet
<1>2. AwayAwaitsNothing' BY DEF TokensInv, AwayAwaitsNothing
<1>3. QED BY <1>1, <1>2, TokensKept

\* The steps that issue nothing and receive no token.
LEMMA TokensQuietStep ==
    ASSUME TypeOK, TokensInv, NEW t \in Tabs,
           \/ TimerFires(t) \/ Visible(t) \/ Reload(t) \/ ApiCall(t) \/ Login(t) \/ Logout(t)
           \/ RefreshLost(t) \/ RefreshFailed(t) \/ SendCallback(t) \/ CallbackRefused(t)
           \/ LoggedOut(t) \/ Tick \/ UNCHANGED vars
           \/ \E p \in Procs : Received(t, p) \/ Failed(t, p)
           \/ \E u \in Users, a \in 1..MaxLogins : ComesBack(t, u, a)
    PROVE  TokensInv'
<1>1. ASSUME TimerFires(t) PROVE TokensInv'
  <2>1. CallbacksQuiet BY <1>1 DEF TimerFires, CallbacksQuiet
  <2>2. QED BY <1>1, <2>1, TokensBecome DEF TimerFires
<1>2. ASSUME Visible(t) PROVE TokensInv'
  <2>1. CallbacksQuiet BY <1>2 DEF Visible, CallbacksQuiet
  <2>2. QED BY <1>2, <2>1, TokensBecome DEF Visible
<1>3. ASSUME Reload(t) PROVE TokensInv'
  <2>1. CallbacksQuiet BY <1>3 DEF Reload, CallbacksQuiet
  <2>2. session \in Int BY DEF TypeOK, Instants
  <2>3. Remembered(t) BY <1>3, UnloadsRemembered DEF Reload
  <2>4. QED BY <1>3, <2>1, <2>2, <2>3, TokensLoaded DEF Reload
<1>4. ASSUME \/ ApiCall(t) \/ Logout(t) \/ SendCallback(t) \/ CallbackRefused(t)
             \/ LoggedOut(t) \/ Tick \/ UNCHANGED vars
      PROVE  TokensInv'
  <2>1. CallbacksQuiet
    <3>1. NoCallback.pc # "ok" BY DEF NoCallback
    <3>2. CASE SendCallback(t)
      <4>1. callback[t] \in Callback BY DEF TypeOK
      <4>2. [callback[t] EXCEPT !.pc = "sent", !.tx = jar.tx].pc = "sent"
        BY <4>1 DEF Callback
      <4>3. QED BY <3>1, <3>2, <4>2 DEF SendCallback, TypeOK, CallbacksQuiet
    <3>3. CASE CallbackRefused(t)
      BY <3>1, <3>3 DEF CallbackRefused, TypeOK, CallbacksQuiet
    <3>4. CASE ApiCall(t) \/ Logout(t) \/ LoggedOut(t) \/ Tick \/ UNCHANGED vars
      BY <3>4 DEF ApiCall, Logout, LoggedOut, Tick, vars, CallbacksQuiet
    <3>5. QED BY <1>4, <3>2, <3>3, <3>4
  <2>2. UNCHANGED <<idpVars, flight, page, lost>>
    BY <1>4 DEF ApiCall, Logout, SendCallback, CallbackRefused, LoggedOut, Tick, vars, idpVars
  <2>3. jar'.refresh \in {jar.refresh, NoToken}
    <3>1. jar \in Jar BY JarType
    <3>2. CASE LoggedOut(t) BY <3>1, <3>2 DEF LoggedOut, Jar
    <3>3. CASE CallbackRefused(t) BY <3>1, <3>3 DEF CallbackRefused, Jar
    <3>4. CASE ApiCall(t) \/ Logout(t) \/ SendCallback(t) \/ Tick \/ UNCHANGED vars
      BY <3>4 DEF ApiCall, Logout, SendCallback, Tick, vars
    <3>5. QED BY <1>4, <3>2, <3>3, <3>4
  <2>4. QED BY <2>1, <2>2, <2>3, TokensSame
<1>5. ASSUME Login(t) PROVE TokensInv'
  <2>1. CallbacksQuiet BY <1>5 DEF Login, CallbacksQuiet
  <2>2. Remembered(t) BY <1>5, UnloadsRemembered DEF Login
  <2>3. NoFlight.pc = "none" /\ NoFlight.refresh = NoToken BY DEF NoFlight
  <2>4. flight'[t] = NoFlight
        /\ \A s \in Tabs : s # t => page'[s] = page[s] /\ flight'[s] = flight[s]
    BY <1>5 DEF Login, TypeOK
  <2>5. jar'.refresh = jar.refresh
    <3>1. jar \in Jar BY JarType
    <3>2. QED BY <1>5, <3>1 DEF Login, Jar
  <2>6. UNCHANGED idpVars BY <1>5 DEF Login
  <2>7. QED BY <2>1, <2>2, <2>3, <2>4, <2>5, <2>6, TokensEnd
<1>6. ASSUME RefreshLost(t) PROVE TokensInv'
  <2>1. CallbacksQuiet BY <1>6 DEF RefreshLost, CallbacksQuiet
  <2>2. Remembered(t) BY <1>6, UnloadsRemembered DEF RefreshLost
  <2>3. flight[t] \in Flight BY DEF TypeOK
  <2>4. flight'[t] = [flight[t] EXCEPT !.pc = "refused"]
        /\ \A s \in Tabs : s # t => page'[s] = page[s] /\ flight'[s] = flight[s]
    BY <1>6 DEF RefreshLost, TypeOK
  <2>5. flight'[t].pc = "refused" /\ flight'[t].refresh = flight[t].refresh
    BY <2>3, <2>4 DEF Flight
  <2>6. page'[t] # "idp" BY <1>6 DEF RefreshLost, TokensInv, AwayAwaitsNothing
  <2>7. UNCHANGED <<idpVars, jar>> BY <1>6 DEF RefreshLost
  <2>8. QED BY <2>1, <2>2, <2>4, <2>5, <2>6, <2>7, TokensEnd
<1>7. ASSUME RefreshFailed(t) PROVE TokensInv'
  <2>1. CallbacksQuiet
    <3>1. NoCallback.pc # "ok" BY DEF NoCallback
    <3>2. \A s \in Tabs : callback'[s] \in {callback[s], NoCallback}
      BY <1>7 DEF RefreshFailed, TypeOK
    <3>3. QED BY <3>1, <3>2 DEF CallbacksQuiet
  <2>2. Remembered(t) BY <1>7 DEF RefreshFailed, Remembered
  <2>3. NoFlight.pc = "none" /\ NoFlight.refresh = NoToken BY DEF NoFlight
  <2>4. flight'[t] = NoFlight
        /\ \A s \in Tabs : s # t => page'[s] = page[s] /\ flight'[s] = flight[s]
    BY <1>7 DEF RefreshFailed, TypeOK
  <2>5. UNCHANGED <<idpVars, jar>> BY <1>7 DEF RefreshFailed
  <2>6. QED BY <2>1, <2>2, <2>3, <2>4, <2>5, TokensEnd
<1>8. ASSUME NEW p \in Procs, Received(t, p) PROVE TokensInv'
  <2>1. CallbacksQuiet BY <1>8 DEF Received, CallbacksQuiet
  <2>2. PICK r, callers : Becomes(t, r, callers, jar) BY <1>8 DEF Received
  <2>3. page[t] = "open" /\ UNCHANGED <<jar, idpVars, page, lost>> BY <1>8 DEF Received
  <2>4. QED BY <2>1, <2>2, <2>3, TokensBecome
<1>9. ASSUME NEW p \in Procs, Failed(t, p) PROVE TokensInv'
  <2>1. CallbacksQuiet
    <3>1. NoCallback.pc # "ok" BY DEF NoCallback
    <3>2. \A s \in Tabs : callback'[s] \in {callback[s], NoCallback}
      BY <1>9 DEF Failed, TypeOK
    <3>3. QED BY <3>1, <3>2 DEF CallbacksQuiet
  <2>2. page[t] = "open" /\ UNCHANGED <<jar, idpVars, page>> BY <1>9 DEF Failed
  <2>3. \/ Loaded(t, None, jar) /\ Unloads(t)
        \/ lost' = lost /\ \E r, callers : Becomes(t, r, callers, jar)
    BY <1>9 DEF Failed
  <2>4. CASE Loaded(t, None, jar) /\ Unloads(t)
    <3>1. None \in Int BY DEF None
    <3>2. Remembered(t) BY <2>4, UnloadsRemembered
    <3>3. QED BY <2>1, <2>2, <2>4, <3>1, <3>2, TokensLoaded
  <2>5. ASSUME lost' = lost, NEW r, NEW callers, Becomes(t, r, callers, jar) PROVE TokensInv'
    BY <2>1, <2>2, <2>5, TokensBecome
  <2>6. QED BY <2>3, <2>4, <2>5
<1>10. ASSUME NEW u \in Users, NEW a \in 1..MaxLogins, ComesBack(t, u, a) PROVE TokensInv'
  <2>1. CallbacksQuiet
    <3>1. [NoCallback EXCEPT !.pc = "returned", !.attempt = a, !.sub = u].pc = "returned"
      BY DEF NoCallback
    <3>2. QED BY <1>10, <3>1 DEF ComesBack, TypeOK, CallbacksQuiet
  <2>2. session \in Int BY DEF TypeOK, Instants
  <2>3. Remembered(t) BY <1>10 DEF ComesBack, TokensInv, AwayAwaitsNothing, Remembered
  <2>4. page'[t] = "open" /\ \A s \in Tabs : s # t => page'[s] = page[s]
    BY <1>10 DEF ComesBack, TypeOK
  <2>5. Loaded(t, session, jar) /\ UNCHANGED <<idpVars, jar>> BY <1>10 DEF ComesBack
  <2>6. QED BY <2>1, <2>2, <2>3, <2>4, <2>5, TokensLoaded
<1>11. QED BY <1>1, <1>2, <1>3, <1>4, <1>5, <1>6, <1>7, <1>8, <1>9, <1>10

-----------------------------------------------------------------------------
(* The steps that issue a token *)

LEMMA RotationFacts ==
    ASSUME TypeOK, NEW token \in live, rotates, Exchanged(token)
    PROVE  /\ rotates' = rotates
           /\ Len(owner) \in Nat /\ Len(owner') = Len(owner) + 1
           /\ \A i \in 1..Len(owner) : owner'[i] = owner[i]
           /\ owner'[Len(owner')] = owner[token]
           /\ live' = (live \ {token}) \cup {Len(owner')}
           /\ live \subseteq 1..Len(owner) /\ Len(owner') \notin live
           /\ NoToken \notin live
<1>1. Grants(owner[token]) /\ live' = (live \ {token}) \cup {Len(owner')}
  BY DEF Exchanged
<1>2. live \subseteq 1..Len(owner) /\ NoToken \notin live BY LiveIssued
<1>3. owner[token] \in Users BY <1>2 DEF TypeOK
<1>4. /\ rotates' = rotates /\ Len(owner') = Len(owner) + 1 /\ Len(owner) \in Nat
      /\ owner'[Len(owner) + 1] = owner[token]
      /\ \A i \in 1..Len(owner) : owner'[i] = owner[i]
  BY <1>1, <1>3, GrantsType
<1>5. Len(owner') \notin live BY <1>2, <1>4
<1>6. owner'[Len(owner')] = owner[token] BY <1>4
<1>7. QED BY <1>1, <1>2, <1>4, <1>5, <1>6

\* A rotation: its answer carries the new token, or is a refusal that loses it.
LEMMA TokensRotated ==
    ASSUME TypeOK, TokensInv, NEW t \in Tabs, NEW token \in live, flight[t].pc = "sent",
           rotates, token = flight[t].refresh, Exchanged(token),
           UNCHANGED <<jar, page, callback>>,
           \A s \in Tabs : s # t => flight'[s] = flight[s],
           flight'[t].refresh = flight[t].refresh,
           \/ lost' /\ flight'[t].pc = "refused"
           \/ /\ lost' = lost /\ flight'[t].pc = "ok" /\ flight'[t].token = Len(owner')
              /\ flight'[t].access = flight[t].access
              /\ owner[token] = flight[t].access.sub
    PROVE  TokensInv'
<1> DEFINE fresh == Len(owner')
<1>1. /\ rotates' /\ Len(owner) \in Nat /\ fresh = Len(owner) + 1
      /\ \A i \in 1..Len(owner) : owner'[i] = owner[i]
      /\ owner'[fresh] = owner[token]
      /\ live' = (live \ {token}) \cup {fresh}
      /\ live \subseteq 1..Len(owner) /\ fresh \notin live /\ NoToken \notin live
  BY RotationFacts
<1> HIDE DEF fresh
<1>2. ASSUME NEW s \in Tabs PROVE flight'[s].refresh = flight[s].refresh
  OBVIOUS
<1>3. ASSUME NEW m, Unseen(m) PROVE Unseen(m)' BY <1>2, <1>3 DEF Unseen
<1>4. ASSUME NEW m, m = fresh PROVE Unseen(m)'
  <2>1. m # jar'.refresh BY <1>1, <1>4 DEF TokensInv, Issued
  <2>2. ASSUME NEW s \in Tabs PROVE flight'[s].refresh # m
    <3>1. flight[s].refresh \in 0..Len(owner) BY DEF TokensInv, Issued
    <3>2. QED BY <1>1, <1>2, <1>4, <3>1
  <2>3. QED BY <2>1, <2>2 DEF Unseen
<1>5. ASSUME NEW m \in live, Unseen(m) PROVE m \in live' /\ owner'[m] = owner[m] /\ m # fresh
  <2>1. m # token BY <1>5 DEF Unseen
  <2>2. QED BY <1>1, <2>1
<1>6. ASSUME NEW s \in Tabs, s # t, NEW m, Brings(s, m)' PROVE Brings(s, m)
  BY <1>6 DEF Brings
<1>7. ASSUME NEW m, Brings(t, m)'
      PROVE  m = fresh /\ flight'[t].access = flight[t].access /\ owner[token] = flight[t].access.sub
  BY <1>7 DEF Brings, fresh
<1>8. ASSUME NEW s \in Tabs, NEW m, Carries(s, m)' PROVE Carries(s, m)
  BY <1>8 DEF Carries
<1>9. ASSUME NEW s \in Tabs, NEW m \in Tokens, Brings(s, m) \/ Carries(s, m)
      PROVE  m \in live /\ Unseen(m)
  BY <1>9 DEF TokensInv, FlightsCarry, CallbacksCarry
<1>10. Issued'
  <2>1. jar'.refresh \in 0..Len(owner')
    <3>1. jar.refresh \in 0..Len(owner) BY DEF TokensInv, Issued
    <3>2. jar.refresh \in 0..fresh BY <1>1, <3>1
    <3>3. QED BY <3>2 DEF fresh
  <2>2. ASSUME NEW s \in Tabs PROVE flight'[s].refresh \in 0..Len(owner')
    <3>1. flight[s].refresh \in 0..Len(owner) BY DEF TokensInv, Issued
    <3>2. flight[s].refresh \in 0..fresh BY <1>1, <3>1
    <3>3. QED BY <1>2, <3>2 DEF fresh
  <2>3. QED BY <2>1, <2>2 DEF Issued
<1>11. FlightsCarry'
  <2>1. ASSUME NEW s \in Tabs, NEW m \in Tokens, Brings(s, m)'
        PROVE  m \in live' /\ owner'[m] = flight'[s].access.sub /\ Unseen(m)'
    <3>1. CASE s = t
      <4>1. m = fresh /\ flight'[s].access = flight[t].access
            /\ owner[token] = flight[t].access.sub
        BY <1>7, <2>1, <3>1
      <4>2. QED BY <1>1, <1>4, <4>1
    <3>2. CASE s # t
      <4>1. Brings(s, m) /\ flight'[s] = flight[s] BY <1>6, <2>1, <3>2
      <4>2. m \in live /\ Unseen(m) /\ owner[m] = flight[s].access.sub
        BY <4>1 DEF TokensInv, FlightsCarry
      <4>3. QED BY <1>3, <1>5, <4>1, <4>2
    <3>3. QED BY <3>1, <3>2
  <2>2. QED BY <2>1 DEF FlightsCarry
<1>12. CallbacksCarry'
  <2>1. ASSUME NEW s \in Tabs, NEW m \in Tokens, Carries(s, m)'
        PROVE  m \in live' /\ Unseen(m)'
    BY <1>3, <1>5, <1>8, <1>9, <2>1
  <2>2. QED BY <2>1 DEF CallbacksCarry
<1>13. CarriedOnce'
  <2>1. ASSUME NEW s \in Tabs, NEW m \in Tokens, Brings(s, m)', s # t
        PROVE  Brings(s, m) /\ m # fresh
    BY <1>5, <1>6, <1>9, <2>1
  <2>2. ASSUME NEW s \in Tabs, NEW m \in Tokens, Carries(s, m)'
        PROVE  Carries(s, m) /\ m # fresh
    BY <1>5, <1>8, <1>9, <2>2
  <2>3. ASSUME NEW s \in Tabs, NEW u \in Tabs, NEW m \in Tokens
        PROVE  /\ Brings(s, m)' /\ Brings(u, m)' => s = u
               /\ Carries(s, m)' /\ Carries(u, m)' => s = u
               /\ ~(Brings(s, m)' /\ Carries(u, m)')
    <3>1. /\ Brings(s, m) /\ Brings(u, m) => s = u
          /\ Carries(s, m) /\ Carries(u, m) => s = u
          /\ ~(Brings(s, m) /\ Carries(u, m))
      BY DEF TokensInv, CarriedOnce
    <3>2. QED BY <1>7, <2>1, <2>2, <3>1
  <2>4. QED BY <2>3 DEF CarriedOnce
<1>14. Usable'
  <2>1. RefreshTokenUsable BY DEF TokensInv, Usable
  <2>2. ASSUME lost' PROVE RefreshTokenUsable' BY <2>2 DEF RefreshTokenUsable
  <2>3. ASSUME flight'[t].pc = "ok", lost' = lost PROVE RefreshTokenUsable'
    <3>1. CASE jar.refresh = token BY <2>3, <3>1 DEF RefreshTokenUsable
    <3>2. CASE jar.refresh # token
      <4>1. ASSUME lost PROVE RefreshTokenUsable' BY <2>3, <4>1 DEF RefreshTokenUsable
      <4>2. ASSUME jar.refresh \in {NoToken} \cup live PROVE RefreshTokenUsable'
        <5>1. jar'.refresh \in {NoToken} \cup live' BY <1>1, <3>2, <4>2
        <5>2. QED BY <5>1 DEF RefreshTokenUsable
      <4>3. ASSUME NEW s \in Tabs, flight[s].pc = "ok", flight[s].refresh = jar.refresh
            PROVE  RefreshTokenUsable'
        <5>1. s # t BY <4>3
        <5>2. QED BY <4>3, <5>1 DEF RefreshTokenUsable
      <4>4. QED BY <2>1, <4>1, <4>2, <4>3 DEF RefreshTokenUsable
    <3>3. QED BY <3>1, <3>2
  <2>4. RefreshTokenUsable' BY <2>2, <2>3
  <2>5. QED BY <1>1, <2>4 DEF Usable
<1>15. AwayAwaitsNothing'
  <2>1. page[t] # "idp" BY DEF TokensInv, AwayAwaitsNothing
  <2>2. QED BY <2>1, AwayKept DEF TokensInv
<1>16. QED BY <1>10, <1>11, <1>12, <1>13, <1>14, <1>15 DEF TokensInv

\* Without rotation the answer carries the token of the request again.
LEMMA TokensReused ==
    ASSUME TypeOK, TokensInv, NEW t \in Tabs, NEW token \in live, flight[t].pc = "sent",
           ~rotates, token = flight[t].refresh,
           UNCHANGED <<idpVars, jar, page, callback, lost>>,
           \A s \in Tabs : s # t => flight'[s] = flight[s],
           flight'[t].refresh = flight[t].refresh, flight'[t].token = token,
           flight'[t].access = flight[t].access, owner[token] = flight[t].access.sub
    PROVE  TokensInv'
<1>1. UNCHANGED <<rotates, owner, live>> BY DEF idpVars
<1>2. \A s \in Tabs : flight'[s].refresh = flight[s].refresh OBVIOUS
<1>3. Issued' BY <1>1, <1>2 DEF TokensInv, Issued
<1>4. FlightsCarry'
  <2>1. ASSUME NEW s \in Tabs, NEW m \in Tokens, Brings(s, m)'
        PROVE  m \in live /\ owner[m] = flight'[s].access.sub
    <3>1. CASE s = t BY <2>1, <3>1 DEF Brings
    <3>2. CASE s # t
      <4>1. Brings(s, m) /\ flight'[s] = flight[s] BY <2>1, <3>2 DEF Brings
      <4>2. QED BY <4>1 DEF TokensInv, FlightsCarry
    <3>3. QED BY <3>1, <3>2
  <2>2. QED BY <1>1, <2>1 DEF FlightsCarry
<1>5. CallbacksCarry' BY <1>1 DEF TokensInv, CallbacksCarry, Carries
<1>6. CarriedOnce' BY <1>1 DEF CarriedOnce
<1>7. Usable'
  <2>1. jar'.refresh \in {NoToken} \cup live' BY <1>1 DEF TokensInv, Usable
  <2>2. QED BY <2>1 DEF Usable, RefreshTokenUsable
<1>8. AwayAwaitsNothing'
  <2>1. page[t] # "idp" BY DEF TokensInv, AwayAwaitsNothing
  <2>2. QED BY <2>1, AwayKept DEF TokensInv
<1>9. QED BY <1>3, <1>4, <1>5, <1>6, <1>7, <1>8 DEF TokensInv

LEMMA TokensServerRefresh ==
    ASSUME TypeOK, TokensInv, NEW t \in Tabs, ServerRefresh(t)
    PROVE  TokensInv'
<1> DEFINE f == flight[t]
<1>1. f \in Flight /\ f.pc = "sent" BY DEF ServerRefresh, TypeOK
<1>2. UNCHANGED <<jar, page, callback>> BY DEF ServerRefresh
<1>3. CallbacksQuiet BY <1>2 DEF CallbacksQuiet
<1>4. page[t] # "idp" BY <1>1 DEF TokensInv, AwayAwaitsNothing
<1>5. ASSUME flight' = [flight EXCEPT ![t].pc = "refused"]
      PROVE  /\ flight'[t].pc = "refused" /\ flight'[t].refresh = f.refresh
             /\ \A s \in Tabs : s # t => flight'[s] = flight[s]
  <2>1. flight'[t] = [f EXCEPT !.pc = "refused"] BY <1>5 DEF TypeOK
  <2>2. flight'[t].pc = "refused" /\ flight'[t].refresh = f.refresh BY <1>1, <2>1 DEF Flight
  <2>3. \A s \in Tabs : s # t => flight'[s] = flight[s] BY <1>5 DEF TypeOK
  <2>4. QED BY <2>2, <2>3
<1>6. ASSUME flight' = [flight EXCEPT ![t].pc = "refused"], UNCHANGED idpVars, lost => lost'
      PROVE  TokensInv'
  <2>1. Remembered(t) BY <1>1, <1>6 DEF Remembered
  <2>2. QED BY <1>2, <1>3, <1>4, <1>5, <1>6, <2>1, TokensEnd
<1>7. CASE /\ ~Accepted(f)
           /\ flight' = [flight EXCEPT ![t].pc = "refused"]
           /\ UNCHANGED <<idpVars, lost, boundVars>>
  BY <1>6, <1>7
<1>8. CASE /\ Accepted(f) /\ Exchanged(f.refresh)
           /\ flight' = [flight EXCEPT ![t].pc = "refused"]
           /\ lost' = (lost \/ rotates)
  <2>1. CASE ~rotates
    <3>1. UNCHANGED idpVars BY <1>8, <2>1 DEF Exchanged
    <3>2. lost => lost' BY <1>8
    <3>3. QED BY <1>6, <1>8, <3>1, <3>2
  <2>2. ASSUME rotates, NEW token, token = f.refresh PROVE TokensInv'
    <3>1. token \in live /\ Exchanged(token) BY <1>8, <2>2 DEF Accepted
    <3>2. lost' BY <1>8, <2>2
    <3>3. QED BY <1>1, <1>2, <1>5, <1>8, <2>2, <3>1, <3>2, TokensRotated
  <2>3. QED BY <2>1, <2>2
<1>9. ASSUME Accepted(f), Exchanged(f.refresh), SubjectAgrees(f), NEW life \in Lives,
             flight' = [flight EXCEPT ![t] =
                [@ EXCEPT !.pc = "ok", !.life = life, !.exp = now + life,
                          !.token = IF rotates THEN Len(owner') ELSE f.refresh]],
             UNCHANGED lost
      PROVE  TokensInv'
  <2> DEFINE fresh == IF rotates THEN Len(owner') ELSE f.refresh
             g == [f EXCEPT !.pc = "ok", !.life = life, !.exp = now + life, !.token = fresh]
  <2>1. flight'[t] = g /\ \A s \in Tabs : s # t => flight'[s] = flight[s]
    BY <1>9 DEF TypeOK
  <2>2. g.pc = "ok" /\ g.refresh = f.refresh /\ g.token = fresh /\ g.access = f.access
    BY <1>1 DEF Flight
  <2> HIDE DEF g
  <2>3. ASSUME NEW token, token = f.refresh PROVE TokensInv'
    <3>1. token \in live /\ Exchanged(token) /\ owner[token] = f.access.sub
      BY <1>9, <2>3 DEF Accepted, SubjectAgrees
    <3>2. CASE rotates
      <4>1. flight'[t].pc = "ok" /\ flight'[t].token = Len(owner')
            /\ flight'[t].access = f.access /\ flight'[t].refresh = f.refresh
        BY <2>1, <2>2, <3>2
      <4>2. QED BY <1>1, <1>2, <1>9, <2>1, <2>3, <3>1, <3>2, <4>1, TokensRotated
    <3>3. CASE ~rotates
      <4>1. flight'[t].token = token /\ flight'[t].access = f.access
            /\ flight'[t].refresh = f.refresh
        BY <2>1, <2>2, <2>3, <3>3
      <4>2. UNCHANGED idpVars BY <3>1, <3>3 DEF Exchanged
      <4>3. QED BY <1>1, <1>2, <1>9, <2>1, <2>3, <3>1, <3>3, <4>1, <4>2, TokensReused
    <3>4. QED BY <3>2, <3>3
  <2>4. QED BY <2>3
<1>10. QED BY <1>7, <1>8, <1>9 DEF ServerRefresh

\* A callback that is given a token.
LEMMA TokensGiven ==
    ASSUME TypeOK, TokensInv, NEW t \in Tabs, NEW u \in Users, Grants(u),
           live' = live \cup {Len(owner')}, UNCHANGED <<jar, flight, page, lost>>,
           callback[t].pc # "ok", callback'[t].token = Len(owner'),
           \A s \in Tabs : s # t => callback'[s] = callback[s]
    PROVE  TokensInv'
<1> DEFINE fresh == Len(owner')
<1>1. /\ rotates' = rotates /\ Len(owner) \in Nat /\ fresh = Len(owner) + 1
      /\ \A i \in 1..Len(owner) : owner'[i] = owner[i]
      /\ live' = live \cup {fresh} /\ live \subseteq 1..Len(owner) /\ fresh \notin live
  <2>1. live \subseteq 1..Len(owner) BY LiveIssued
  <2>2. /\ rotates' = rotates /\ Len(owner) \in Nat /\ fresh = Len(owner) + 1
        /\ \A i \in 1..Len(owner) : owner'[i] = owner[i]
    BY GrantsType
  <2>3. QED BY <2>1, <2>2
<1> HIDE DEF fresh
<1>2. ASSUME NEW m, Unseen(m) PROVE Unseen(m)' BY <1>2 DEF Unseen
<1>3. ASSUME NEW m, m = fresh PROVE Unseen(m)'
  <2>1. m # jar'.refresh BY <1>1, <1>3 DEF TokensInv, Issued
  <2>2. ASSUME NEW s \in Tabs PROVE flight'[s].refresh # m
    <3>1. flight[s].refresh \in 0..Len(owner) BY DEF TokensInv, Issued
    <3>2. QED BY <1>1, <1>3, <3>1
  <2>3. QED BY <2>1, <2>2 DEF Unseen
<1>4. ASSUME NEW m \in live PROVE m \in live' /\ owner'[m] = owner[m] /\ m # fresh
  BY <1>1
<1>5. ASSUME NEW s \in Tabs, s # t, NEW m, Carries(s, m)' PROVE Carries(s, m)
  BY <1>5 DEF Carries
<1>6. ASSUME NEW m, Carries(t, m)' PROVE m = fresh BY <1>6 DEF Carries, fresh
<1>7. ASSUME NEW s \in Tabs, NEW m, Brings(s, m)' PROVE Brings(s, m)
  BY <1>7 DEF Brings
<1>8. ASSUME NEW s \in Tabs, NEW m \in Tokens, Brings(s, m) \/ Carries(s, m)
      PROVE  m \in live /\ (rotates => Unseen(m))
  BY <1>8 DEF TokensInv, FlightsCarry, CallbacksCarry
<1>9. Issued'
  <2>1. jar.refresh \in 0..fresh /\ \A s \in Tabs : flight[s].refresh \in 0..fresh
    BY <1>1 DEF TokensInv, Issued
  <2>2. QED BY <2>1 DEF Issued, fresh
<1>10. FlightsCarry'
  <2>1. ASSUME NEW s \in Tabs, NEW m \in Tokens, Brings(s, m)'
        PROVE  m \in live' /\ owner'[m] = flight'[s].access.sub /\ (rotates' => Unseen(m)')
    <3>1. Brings(s, m) BY <1>7, <2>1
    <3>2. m \in live /\ owner[m] = flight[s].access.sub /\ (rotates => Unseen(m))
      BY <3>1 DEF TokensInv, FlightsCarry
    <3>3. QED BY <1>1, <1>2, <1>4, <3>2
  <2>2. QED BY <2>1 DEF FlightsCarry
<1>11. CallbacksCarry'
  <2>1. ASSUME NEW s \in Tabs, NEW m \in Tokens, Carries(s, m)'
        PROVE  m \in live' /\ (rotates' => Unseen(m)')
    <3>1. CASE s = t BY <1>1, <1>3, <1>6, <2>1, <3>1
    <3>2. CASE s # t
      <4>1. m \in live /\ (rotates => Unseen(m)) BY <1>5, <1>8, <2>1, <3>2
      <4>2. QED BY <1>1, <1>2, <1>4, <4>1
    <3>3. QED BY <3>1, <3>2
  <2>2. QED BY <2>1 DEF CallbacksCarry
<1>12. CarriedOnce'
  <2>1. ASSUME NEW s \in Tabs, NEW m \in Tokens, Brings(s, m)' \/ (s # t /\ Carries(s, m)')
        PROVE  (Brings(s, m) \/ Carries(s, m)) /\ m # fresh
    BY <1>4, <1>5, <1>7, <1>8, <2>1
  <2>2. ASSUME rotates, NEW s \in Tabs, NEW u1 \in Tabs, NEW m \in Tokens
        PROVE  /\ Brings(s, m)' /\ Brings(u1, m)' => s = u1
               /\ Carries(s, m)' /\ Carries(u1, m)' => s = u1
               /\ ~(Brings(s, m)' /\ Carries(u1, m)')
    <3>1. /\ Brings(s, m) /\ Brings(u1, m) => s = u1
          /\ Carries(s, m) /\ Carries(u1, m) => s = u1
          /\ ~(Brings(s, m) /\ Carries(u1, m))
      BY <2>2 DEF TokensInv, CarriedOnce
    <3>2. QED BY <1>5, <1>6, <1>7, <2>1, <3>1
  <2>3. QED BY <1>1, <2>2 DEF CarriedOnce
<1>13. Usable'
  <2>1. RefreshTokenUsable /\ (~rotates => jar.refresh \in {NoToken} \cup live)
    BY DEF TokensInv, Usable
  <2>2. (~rotates)' => jar'.refresh \in {NoToken} \cup live' BY <1>1, <2>1
  <2>3. ASSUME jar.refresh \in {NoToken} \cup live PROVE RefreshTokenUsable'
    <3>1. jar'.refresh \in {NoToken} \cup live' BY <1>1, <2>3
    <3>2. QED BY <3>1 DEF RefreshTokenUsable
  <2>4. ASSUME lost \/ \E s \in Tabs : flight[s].pc = "ok" /\ flight[s].refresh = jar.refresh
        PROVE  RefreshTokenUsable'
    BY <2>4 DEF RefreshTokenUsable
  <2>5. RefreshTokenUsable' BY <2>1, <2>3, <2>4 DEF RefreshTokenUsable
  <2>6. QED BY <2>2, <2>5 DEF Usable
<1>14. AwayAwaitsNothing' BY DEF TokensInv, AwayAwaitsNothing
<1>15. QED BY <1>9, <1>10, <1>11, <1>12, <1>13, <1>14 DEF TokensInv

LEMMA TokensSignedIn ==
    ASSUME TypeOK, TokensInv, NEW t \in Tabs, NEW u \in Users, SignedIn(t, u),
           callback[t].pc # "ok", UNCHANGED <<jar, flight, page, lost>>
    PROVE  TokensInv'
<1>1. /\ \A s \in Tabs : s # t => callback'[s] = callback[s]
      /\ \/ UNCHANGED idpVars /\ callback'[t].token = NoToken
         \/ /\ Grants(u) /\ live' = live \cup {Len(owner')}
            /\ callback'[t].token = Len(owner')
  BY SignedInResult
<1>2. ASSUME UNCHANGED idpVars, callback'[t].token = NoToken PROVE TokensInv'
  <2>1. CallbacksQuiet BY <1>1, <1>2 DEF CallbacksQuiet
  <2>2. QED BY <1>2, <2>1, TokensSame
<1>3. ASSUME Grants(u), live' = live \cup {Len(owner')}, callback'[t].token = Len(owner')
      PROVE  TokensInv'
  BY <1>1, <1>3, TokensGiven
<1>4. QED BY <1>1, <1>2, <1>3

LEMMA TokensServerCallback ==
    ASSUME TypeOK, TokensInv, Subjects, NEW t \in Tabs, ServerCallback(t) \/ ServerCreatesUser(t)
    PROVE  TokensInv'
<1>1. callback[t] \in Callback /\ callback[t].pc \in {"sent", "creating"}
  BY DEF ServerCallback, ServerCreatesUser, TypeOK
<1>2. callback[t].sub \in Users BY <1>1 DEF Subjects
<1>3. UNCHANGED <<jar, flight, page, lost>> BY DEF ServerCallback, ServerCreatesUser
<1>4. CASE SignedIn(t, callback[t].sub)
  <2>1. ASSUME NEW u, u = callback[t].sub PROVE TokensInv'
    BY <1>1, <1>2, <1>3, <1>4, <2>1, TokensSignedIn
  <2>2. QED BY <2>1
<1>5. ASSUME NEW pc \in {"refused", "cleared", "creating"}, UNCHANGED idpVars,
             callback' = [callback EXCEPT ![t].pc = pc]
      PROVE  TokensInv'
  <2>1. [callback[t] EXCEPT !.pc = pc].pc = pc BY <1>1 DEF Callback
  <2>2. CallbacksQuiet BY <1>5, <2>1 DEF CallbacksQuiet, TypeOK
  <2>3. QED BY <1>3, <1>5, <2>2, TokensSame
<1>6. QED BY <1>4, <1>5 DEF ServerCallback, ServerCreatesUser

-----------------------------------------------------------------------------
(* The steps that receive a token *)

LEMMA TokensReceived ==
    ASSUME TypeOK, TokensInv, NEW t \in Tabs, NEW m \in live, Brings(t, m) \/ Carries(t, m),
           UNCHANGED <<idpVars, page, lost>>, jar'.refresh = m, page[t] = "open",
           \A s \in Tabs : s # t => flight'[s] = flight[s] /\ callback'[s] = callback[s],
           flight'[t] = flight[t] \/ (flight'[t].pc # "ok" /\ flight'[t].refresh \in {NoToken, m}),
           callback'[t] = callback[t] \/ callback'[t].pc # "ok",
           rotates /\ Brings(t, m) => flight'[t].pc # "ok",
           rotates /\ Carries(t, m) => callback'[t].pc # "ok"
    PROVE  TokensInv'
<1>1. UNCHANGED <<rotates, owner, live>> BY DEF idpVars
<1>2. m \in Tokens /\ m \in 1..Len(owner) /\ m # NoToken
  <2>1. m \in 1..Len(owner) /\ m # NoToken /\ Len(owner) \in Nat BY LiveIssued
  <2>2. Len(owner) <= MaxTokens BY DEF TypeOK
  <2>3. QED BY <2>1, <2>2 DEF Tokens
<1>3. ASSUME NEW s \in Tabs, NEW k, Brings(s, k)'
      PROVE  Brings(s, k) /\ flight'[s] = flight[s] /\ flight'[s].pc = "ok"
  BY <1>3 DEF Brings
<1>4. ASSUME NEW s \in Tabs, NEW k, Carries(s, k)'
      PROVE  Carries(s, k) /\ callback'[s].pc = "ok"
  BY <1>4 DEF Carries
<1>5. ASSUME rotates, NEW s \in Tabs, NEW k \in Tokens, Brings(s, k)' \/ Carries(s, k)'
      PROVE  k # m
  BY <1>2, <1>3, <1>4, <1>5 DEF TokensInv, CarriedOnce
<1>6. ASSUME NEW s \in Tabs, NEW k \in Tokens, Brings(s, k) \/ Carries(s, k)
      PROVE  k \in live /\ (rotates => Unseen(k))
  BY <1>6 DEF TokensInv, FlightsCarry, CallbacksCarry
<1>7. ASSUME NEW k \in live, Unseen(k), k # m PROVE Unseen(k)'
  <2>1. k # NoToken BY LiveIssued
  <2>2. ASSUME NEW s \in Tabs PROVE flight'[s].refresh # k BY <1>7, <2>1 DEF Unseen
  <2>3. QED BY <1>7, <2>2 DEF Unseen
<1>8. Issued'
  <2>1. Len(owner) \in Nat BY LiveIssued
  <2>2. NoToken \in 0..Len(owner) /\ m \in 0..Len(owner) BY <1>2, <2>1 DEF NoToken
  <2>3. ASSUME NEW s \in Tabs PROVE flight'[s].refresh \in 0..Len(owner)
    BY <2>2 DEF TokensInv, Issued
  <2>4. QED BY <1>1, <2>2, <2>3 DEF Issued
<1>9. FlightsCarry'
  <2>1. ASSUME NEW s \in Tabs, NEW k \in Tokens, Brings(s, k)'
        PROVE  k \in live /\ owner[k] = flight'[s].access.sub /\ (rotates => Unseen(k)')
    <3>1. Brings(s, k) /\ flight'[s] = flight[s] BY <1>3, <2>1
    <3>2. k \in live /\ owner[k] = flight[s].access.sub /\ (rotates => Unseen(k))
      BY <3>1 DEF TokensInv, FlightsCarry
    <3>3. rotates => Unseen(k)' BY <1>5, <1>7, <2>1, <3>2
    <3>4. QED BY <3>1, <3>2, <3>3
  <2>2. QED BY <1>1, <2>1 DEF FlightsCarry
<1>10. CallbacksCarry'
  <2>1. ASSUME NEW s \in Tabs, NEW k \in Tokens, Carries(s, k)'
        PROVE  k \in live /\ (rotates => Unseen(k)')
    <3>1. k \in live /\ (rotates => Unseen(k)) BY <1>4, <1>6, <2>1
    <3>2. QED BY <1>5, <1>7, <2>1, <3>1
  <2>2. QED BY <1>1, <2>1 DEF CallbacksCarry
<1>11. CarriedOnce'
  <2>1. ASSUME rotates, NEW s \in Tabs, NEW u \in Tabs, NEW k \in Tokens
        PROVE  /\ Brings(s, k)' /\ Brings(u, k)' => s = u
               /\ Carries(s, k)' /\ Carries(u, k)' => s = u
               /\ ~(Brings(s, k)' /\ Carries(u, k)')
    BY <1>3, <1>4, <2>1 DEF TokensInv, CarriedOnce
  <2>2. QED BY <1>1, <2>1 DEF CarriedOnce
<1>12. Usable'
  <2>1. jar'.refresh \in {NoToken} \cup live' BY <1>1
  <2>2. QED BY <2>1 DEF Usable, RefreshTokenUsable
<1>13. AwayAwaitsNothing' BY AwayKept DEF TokensInv
<1>14. QED BY <1>8, <1>9, <1>10, <1>11, <1>12, <1>13 DEF TokensInv

LEMMA TokensRefreshed ==
    ASSUME TypeOK, TokensInv, NEW t \in Tabs, Refreshed(t)
    PROVE  TokensInv'
<1> DEFINE f == flight[t]
           new == Cookies(f.access.sub, f)
<1>1. PICK r : Settled(t, r, new) BY DEF Refreshed
<1>2. jar' = new /\ page[t] = "open" /\ f.pc = "ok"
      /\ UNCHANGED <<idpVars, page, lost, callback>>
  BY DEF Refreshed
<1>3. f \in Flight BY DEF TypeOK
<1>4. f.exp \in Int /\ f.token \in Tokens /\ f.access \in Access
  BY <1>3 DEF Flight, Instants
<1>5. f.access.sub \in Users \cup {NoUser} BY <1>4 DEF Access
<1>6. new \in Jar /\ new.refresh = IF f.token = NoToken THEN jar.refresh ELSE f.token
  BY <1>4, <1>5, CookiesType
<1>7. /\ Request(new).pc = "sent" /\ Request(new).refresh = new.refresh
  BY <1>6, RequestType
<1>8. NoFlight.pc = "none" /\ NoFlight.refresh = NoToken BY DEF NoFlight
<1> HIDE DEF new
<1>9. /\ flight'[t] \in {Request(new), NoFlight}
      /\ \A s \in Tabs : s # t => flight'[s] = flight[s]
  BY <1>1 DEF Settled, TypeOK
<1>10. ASSUME NEW m, m = f.token PROVE TokensInv'
  <2>1. m \in Tokens /\ Brings(t, m) BY <1>2, <1>4, <1>10 DEF Brings
  <2>2. m \in live BY <2>1 DEF TokensInv, FlightsCarry
  <2>3. m # NoToken BY <2>2, LiveIssued
  <2>4. jar'.refresh = m /\ new.refresh = m BY <1>2, <1>6, <1>10, <2>3
  <2>5. flight'[t].pc # "ok" /\ flight'[t].refresh \in {NoToken, m}
    BY <1>7, <1>8, <1>9, <2>4
  <2>6. ~(rotates /\ Carries(t, m)) BY <2>1 DEF TokensInv, CarriedOnce
  <2>7. QED BY <1>2, <1>9, <2>1, <2>2, <2>4, <2>5, <2>6, TokensReceived
<1>11. QED BY <1>10

LEMMA TokensCallbackAnswered ==
    ASSUME TypeOK, TokensInv, NEW t \in Tabs, CallbackAnswered(t)
    PROVE  TokensInv'
<1> DEFINE c == callback[t]
           new == [Cookies(c.sub, c) EXCEPT !.tx = NoTx]
<1>1. PICK r, callers : Becomes(t, r, callers, new) BY DEF CallbackAnswered
<1>2. /\ jar' = new /\ page[t] = "open" /\ c.pc = "ok"
      /\ UNCHANGED <<idpVars, page, lost>> /\ callback' = [callback EXCEPT ![t] = NoCallback]
  BY DEF CallbackAnswered
<1>3. c \in Callback BY DEF TypeOK
<1>4. c.sub \in Users \cup {NoUser} /\ c.exp \in Int /\ c.token \in Tokens
  BY <1>3 DEF Callback, Instants
<1>5. /\ Cookies(c.sub, c) \in Jar
      /\ Cookies(c.sub, c).refresh = IF c.token = NoToken THEN jar.refresh ELSE c.token
  BY <1>4, CookiesType
<1>6. new \in Jar /\ new.refresh = IF c.token = NoToken THEN jar.refresh ELSE c.token
  BY <1>5, Constants DEF Jar
<1>7. Request(new).pc = "sent" /\ Request(new).refresh = new.refresh BY <1>6, RequestType
<1> HIDE DEF new
<1>8. /\ flight'[t] = flight[t] \/ (flight[t].pc = "none" /\ flight'[t] = Request(new))
      /\ \A s \in Tabs : s # t => flight'[s] = flight[s]
  BY <1>1 DEF Becomes, Asked, TypeOK
<1>9. NoCallback.pc = "none" BY DEF NoCallback
<1>10. callback'[t].pc # "ok" /\ \A s \in Tabs : s # t => callback'[s] = callback[s]
  BY <1>2, <1>9 DEF TypeOK
<1>11. ASSUME c.token = NoToken PROVE TokensInv'
  <2>1. jar'.refresh = jar.refresh /\ new.refresh = jar.refresh BY <1>2, <1>6, <1>11
  <2>2. QuietFlight(t) BY <1>7, <1>8, <2>1 DEF QuietFlight
  <2>3. Quiet BY <1>2, <1>8, <1>10, <2>1, <2>2 DEF Quiet, QuietFlight, CallbacksQuiet
  <2>4. AwayAwaitsNothing' BY <1>2, <1>8, AwayKept DEF TokensInv
  <2>5. QED BY <2>3, <2>4, TokensKept
<1>12. ASSUME NEW m, m = c.token, m # NoToken PROVE TokensInv'
  <2>1. m \in Tokens /\ Carries(t, m) BY <1>2, <1>4, <1>12 DEF Carries
  <2>2. m \in live BY <2>1 DEF TokensInv, CallbacksCarry
  <2>3. jar'.refresh = m /\ new.refresh = m BY <1>2, <1>6, <1>12
  <2>4. flight'[t] = flight[t] \/ (flight'[t].pc # "ok" /\ flight'[t].refresh \in {NoToken, m})
    BY <1>7, <1>8, <2>3
  <2>5. ~(rotates /\ Brings(t, m)) BY <2>1 DEF TokensInv, CarriedOnce
  <2>6. QED BY <1>2, <1>8, <1>10, <2>1, <2>2, <2>3, <2>4, <2>5, TokensReceived
<1>13. QED BY <1>11, <1>12

LEMMA TokensInit == Init => TokensInv
<1> SUFFICES ASSUME Init PROVE TokensInv OBVIOUS
<1>1. PICK u \in Users \cup {NoUser}, age \in Lives \cup {0} :
        LET expiry == IF u # NoUser THEN age ELSE None
        IN /\ jar.refresh = IF u # NoUser THEN 1 ELSE NoToken
           /\ owner = IF u # NoUser THEN <<u>> ELSE << >>
           /\ flight = [s \in Tabs |-> LoadedFlight(expiry, jar)]
  BY DEF Init
<1> DEFINE expiry == IF u # NoUser THEN age ELSE None
<1>2. TypeOK BY InitType
<1>3. jar \in Jar BY <1>2, JarType
<1>4. live = DOMAIN owner BY DEF Init
<1>5. Len(owner) \in Nat /\ jar.refresh \in 0..Len(owner) /\ jar.refresh \in {NoToken} \cup live
  BY <1>1, <1>4 DEF NoToken
<1>6. /\ Request(jar).pc = "sent" /\ Request(jar).refresh = jar.refresh
      /\ NoFlight.pc = "none" /\ NoFlight.refresh = NoToken
  BY <1>3, RequestType DEF NoFlight
<1>7. ASSUME NEW s \in Tabs
      PROVE  flight[s].pc # "ok" /\ flight[s].refresh \in {jar.refresh, NoToken}
  <2>1. flight[s] \in {Request(jar), NoFlight} BY <1>1 DEF LoadedFlight
  <2>2. QED BY <1>6, <2>1
<1>8. Issued BY <1>5, <1>7 DEF Issued, NoToken
<1>9. FlightsCarry BY <1>7 DEF FlightsCarry, Brings
<1>10. \A s \in Tabs : callback[s].pc # "ok" BY DEF Init, NoCallback
<1>11. CallbacksCarry BY <1>10 DEF CallbacksCarry, Carries
<1>12. CarriedOnce BY <1>7, <1>10 DEF CarriedOnce, Brings, Carries
<1>13. Usable BY <1>5 DEF Usable, RefreshTokenUsable
<1>14. AwayAwaitsNothing BY DEF Init, AwayAwaitsNothing
<1>15. QED BY <1>8, <1>9, <1>11, <1>12, <1>13, <1>14 DEF TokensInv

LEMMA TokensStep ==
    ASSUME TypeOK, Subjects, TokensInv, [Next]_vars
    PROVE  TokensInv'
<1>1. ASSUME NEW t \in Tabs,
              Answers(t) \/ UserDoes(t) \/ TimerFires(t) \/ RefreshLost(t)
              \/ \E p \in Procs : Failed(t, p)
      PROVE  TokensInv'
  BY <1>1, TokensQuietStep, TokensServerRefresh, TokensServerCallback, TokensRefreshed,
     TokensCallbackAnswered
  DEF Answers, UserDoes
<1>2. CASE Tick \/ UNCHANGED vars
  <2>1. CallbacksQuiet /\ UNCHANGED <<idpVars, flight, page, lost, jar>>
    BY <1>2 DEF Tick, vars, idpVars, CallbacksQuiet
  <2>2. QED BY <2>1, TokensSame
<1>3. QED BY <1>1, <1>2 DEF Next

SessionInv == TypeOK /\ Subjects /\ TokensInv

LEMMA SessionInvariant == Spec => []SessionInv
<1>1. Init => SessionInv BY InitType, SubjectsInit, TokensInit DEF SessionInv
<1>2. SessionInv /\ [Next]_vars => SessionInv'
  BY TypeStep, SubjectsStep, TokensStep DEF SessionInv
<1>3. QED BY <1>1, <1>2, PTL DEF Spec

\* Whatever the tabs refresh, log in, log out or lose, the refresh token in the cookies is
\* accepted or its successor is on its way, as long as no rotation was lost.
THEOREM RefreshTokenUsableHolds == Spec => []RefreshTokenUsable
<1>1. SessionInv => RefreshTokenUsable BY DEF SessionInv, TokensInv, Usable
<1>2. QED BY <1>1, SessionInvariant, PTL

\* The answer to a refresh is for the owner of the refresh token it carries.
THEOREM SubjectKeptHolds == Spec => []SubjectKept
<1>1. SessionInv => SubjectKept
  <2> SUFFICES ASSUME TypeOK, FlightsCarry, NEW t \in Tabs, flight[t].pc = "ok"
               PROVE  owner[flight[t].token] = flight[t].access.sub
    BY DEF SessionInv, TokensInv, SubjectKept
  <2>1. flight[t] \in Flight BY DEF TypeOK
  <2>2. flight[t].token \in Tokens BY <2>1 DEF Flight
  <2>3. QED BY <2>2 DEF FlightsCarry, Brings
<1>2. QED BY <1>1, SessionInvariant, PTL

LEMMA AnsweredHasSubject ==
    ASSUME TypeOK, FlightsCarry, NEW t \in Tabs, flight[t].pc = "ok"
    PROVE  flight[t].access # NoAccess
<1>1. flight[t] \in Flight BY DEF TypeOK
<1>2. flight[t].token \in Tokens BY <1>1 DEF Flight
<1>3. /\ flight[t].token \in live
      /\ owner[flight[t].token] = flight[t].access.sub
  BY <1>2 DEF FlightsCarry, Brings
<1>4. flight[t].token \in 1..Len(owner) BY <1>3, LiveIssued
<1>5. owner \in Seq(Users) BY DEF TypeOK
<1>6. flight[t].access.sub \in Users BY <1>3, <1>4, <1>5
<1>7. QED BY <1>6 DEF NoAccess

SignedOutStep ==
    /\ signedOut /\ signedOut'
    /\ jar.access = NoAccess /\ session = None
    /\ \A t \in Tabs : flight[t].pc # "none" => flight[t].access = NoAccess

LEMMA SignedOutKept ==
    ASSUME SessionInv, [Next]_vars, SignedOutStep
    PROVE  jar'.access = NoAccess /\ session' = None
<1>0. TypeOK /\ FlightsCarry /\ jar \in Jar BY JarType DEF SessionInv, TokensInv
<1>1. ASSUME NEW t \in Tabs, Refreshed(t) PROVE FALSE
  <2>1. flight[t].pc = "ok" BY <1>1 DEF Refreshed
  <2>2. flight[t].access = NoAccess BY <2>1 DEF SignedOutStep
  <2>3. QED BY <1>0, <2>1, <2>2, AnsweredHasSubject
<1>2. ASSUME NEW t \in Tabs, CallbackAnswered(t) PROVE FALSE
  BY <1>2 DEF CallbackAnswered, SignedOutStep
<1>3. jar.access = NoAccess /\ session = None BY DEF SignedOutStep
<1>4. ASSUME NEW t \in Tabs, LoggedOut(t) PROVE jar'.access = NoAccess /\ session' = None
  BY <1>0, <1>3, <1>4 DEF LoggedOut, Jar
<1>5. ASSUME NEW t \in Tabs, Login(t) \/ CallbackRefused(t)
      PROVE  jar'.access = NoAccess /\ session' = None
  BY <1>0, <1>3, <1>5 DEF Login, CallbackRefused, Jar
<1>6. ASSUME NEW t \in Tabs, RefreshFailed(t) PROVE jar'.access = NoAccess /\ session' = None
  BY <1>3, <1>6 DEF RefreshFailed
<1>7. ASSUME NEW t \in Tabs, NEW p \in Procs, Received(t, p) \/ Failed(t, p)
      PROVE  jar'.access = NoAccess /\ session' = None
  BY <1>3, <1>7 DEF Received, Failed
<1>8. ASSUME NEW t \in Tabs,
              \/ ServerRefresh(t) \/ SendCallback(t) \/ ServerCallback(t) \/ ServerCreatesUser(t)
              \/ Visible(t) \/ Reload(t) \/ ApiCall(t) \/ Logout(t) \/ TimerFires(t)
              \/ RefreshLost(t) \/ \E u \in Users, a \in 1..MaxLogins : ComesBack(t, u, a)
      PROVE  UNCHANGED <<jar, session>>
  BY <1>8 DEF ServerRefresh, SendCallback, ServerCallback, ServerCreatesUser, Visible, Reload,
              ApiCall, Logout, TimerFires, RefreshLost, ComesBack
<1>9. CASE Tick \/ UNCHANGED vars BY <1>3, <1>9 DEF Tick, vars
<1>10. QED
  BY <1>1, <1>2, <1>3, <1>4, <1>5, <1>6, <1>7, <1>8, <1>9 DEF Next, Answers, UserDoes

\* After an answered logout, with no request that left before it, only a callback signs
\* the browser in again.
THEOREM SignedOutStaysHolds == Spec => SignedOutStays
<1>1. SessionInv /\ [Next]_vars
        => [SignedOutStep => jar'.access = NoAccess /\ session' = None]_vars
  BY SignedOutKept
<1>2. Spec => [][SignedOutStep => jar'.access = NoAccess /\ session' = None]_vars
  BY <1>1, SessionInvariant, PTL DEF Spec
<1>3. QED BY <1>2 DEF SignedOutStays, SignedOutStep

-----------------------------------------------------------------------------
(* No refresh loop *)

NotDue(r) == r.timer \notin 0..now

LEMMA Timers ==
    ASSUME NEW r \in Refresher, NEW expiry \in Int, NEW due \in BOOLEAN, now \in Int
    PROVE  /\ NotDue(Armed(r, expiry, due)) /\ NotDue(ArmedByStored(r, expiry))
           /\ NotDue(Started(expiry)) /\ NotDue(OnLogin(r, expiry)) /\ NotDue(Stopped)
           /\ NotDue(r) => NotDue(OnRefresh(r, expiry)) /\ NotDue(OnResult(r, expiry))
                           /\ NotDue(OnFailure(r))
           /\ ~OnResult(r, expiry).op /\ ~Started(None).op
<1>0. Window \in Nat /\ now \in Int OBVIOUS
<1>1. ASSUME NEW q \in Refresher, NEW d \in BOOLEAN
      PROVE  /\ NotDue(Armed(q, expiry, d))
             /\ ~q.op /\ ~d => ~Armed(q, expiry, d).op
  <2> DEFINE free == q.proactive /\ ~q.op
             late == expiry - now <= Window
             armed == Armed(q, expiry, d)
  <2>1. /\ armed.timer = (IF free /\ ~late THEN expiry - Window ELSE None)
        /\ armed.op = (q.op \/ (free /\ late /\ d))
    <3>1. (q.op \/ (free /\ late /\ d)) \in BOOLEAN OBVIOUS
    <3>2. QED BY <3>1 DEF Armed, Refresher
  <2>2. None \notin 0..now BY DEF None
  <2>3. ~late => expiry - Window \notin 0..now BY <1>0
  <2>4. armed.timer \notin 0..now BY <2>1, <2>2, <2>3
  <2>5. ~q.op /\ ~d => ~armed.op BY <2>1
  <2>6. QED BY <2>4, <2>5 DEF NotDue
<1>2. ASSUME NEW q \in Refresher
      PROVE  /\ [q EXCEPT !.timer = None].timer = None
             /\ [q EXCEPT !.op = FALSE] \in Refresher /\ ~[q EXCEPT !.op = FALSE].op
             /\ [q EXCEPT !.proactive = TRUE] \in Refresher
             /\ [q EXCEPT !.proactive = TRUE, !.op = FALSE] \in Refresher
  BY DEF Refresher
<1>3. ASSUME NEW q, q.timer = None PROVE NotDue(q)
  <2>1. None \notin 0..now BY DEF None
  <2>2. QED BY <1>3, <2>1 DEF NotDue
<1>4. ASSUME NEW q \in Refresher PROVE NotDue(ArmedByStored(q, expiry))
  BY <1>1, <1>2, <1>3 DEF ArmedByStored
<1>5. Stopped \in Refresher /\ ~Stopped.op BY Constants DEF Stopped
<1>6. NotDue(Stopped) BY <1>3 DEF Stopped
<1>7. NotDue(Started(expiry)) BY <1>2, <1>4, <1>5 DEF Started
<1>8. NotDue(OnLogin(r, expiry)) BY <1>1, <1>2 DEF OnLogin
<1>9. NotDue(r) => NotDue(OnRefresh(r, expiry)) BY <1>1 DEF OnRefresh
<1>10. NotDue(r) => NotDue(OnResult(r, expiry)) BY <1>1, <1>2, <1>6 DEF OnResult
<1>11. NotDue(r) => NotDue(OnFailure(r)) BY <1>6 DEF OnFailure
<1>12. ~OnResult(r, expiry).op BY <1>1, <1>2, <1>5 DEF OnResult
<1>13. ~Started(None).op BY DEF Started, ArmedByStored, Stopped
<1>14. QED BY <1>1, <1>4, <1>6, <1>7, <1>8, <1>9, <1>10, <1>11, <1>12, <1>13

\* A refresh that may start by itself, and a callback that is under way, are paid for.
Pending(t) == callback[t].pc # "none"

Budget(t) ==
    /\ burst[t] + (IF NotDue(refresher[t]) THEN 0 ELSE 1) + (IF Pending(t) THEN 1 ELSE 0)
          <= 1 + events + logins
    /\ Pending(t) => logins >= 1

Counts == events \in Nat /\ logins \in Nat /\ burst \in [Tabs -> Nat]

LEMMA CountsTyped == TypeOK => Counts
<1> SUFFICES ASSUME TypeOK PROVE Counts OBVIOUS
<1>1. events \in 0..MaxEvents /\ logins \in 0..MaxLogins /\ burst \in [Tabs -> Nat]
  BY DEF TypeOK
<1>2. QED BY <1>1, Bounds DEF Counts

LEMMA CountsTypedNext == TypeOK' => Counts'
<1> SUFFICES ASSUME TypeOK' PROVE Counts' OBVIOUS
<1>1. events' \in 0..MaxEvents /\ logins' \in 0..MaxLogins /\ burst' \in [Tabs -> Nat]
  BY DEF TypeOK
<1>2. QED BY <1>1, Bounds DEF Counts

Paid == Counts /\ Counts' /\ events' >= events /\ logins' >= logins

LEMMA BudgetKept ==
    ASSUME NEW s \in Tabs, Budget(s), Paid, burst'[s] <= burst[s],
           NotDue(refresher[s]) => NotDue(refresher[s])', Pending(s)' => Pending(s)
    PROVE  Budget(s)'
<1>1. /\ burst[s] \in Nat /\ burst'[s] \in Nat /\ events \in Nat /\ events' \in Nat
      /\ logins \in Nat /\ logins' \in Nat
  BY DEF Paid, Counts
<1>2. /\ burst[s] + (IF NotDue(refresher[s]) THEN 0 ELSE 1) + (IF Pending(s) THEN 1 ELSE 0)
            <= 1 + events + logins
      /\ Pending(s) => logins >= 1
  BY DEF Budget
<1>3. events' >= events /\ logins' >= logins BY DEF Paid
<1>4. burst'[s] + (IF NotDue(refresher[s])' THEN 0 ELSE 1) + (IF Pending(s)' THEN 1 ELSE 0)
        <= 1 + events' + logins'
  BY <1>1, <1>2, <1>3
<1>5. Pending(s)' => logins' >= 1 BY <1>1, <1>2, <1>3
<1>6. QED BY <1>4, <1>5 DEF Budget

LEMMA BudgetOthers ==
    ASSUME \A s \in Tabs : Budget(s), NEW t \in Tabs, Budget(t)', Paid, now' = now,
           \A s \in Tabs : s # t => /\ refresher'[s] = refresher[s] /\ burst'[s] = burst[s]
                                    /\ callback'[s] = callback[s]
    PROVE  \A s \in Tabs : Budget(s)'
<1>1. ASSUME NEW s \in Tabs, s # t PROVE Budget(s)'
  <2>1. burst'[s] <= burst[s] BY <1>1 DEF Paid, Counts
  <2>2. NotDue(refresher[s]) => NotDue(refresher[s])' BY <1>1 DEF NotDue
  <2>3. Pending(s)' => Pending(s) BY <1>1 DEF Pending
  <2>4. QED BY <2>1, <2>2, <2>3, BudgetKept
<1>2. QED BY <1>1

LEMMA BurstBecomes ==
    ASSUME TypeOK, NEW t \in Tabs, NEW r, NEW callers, NEW cookies,
           Becomes(t, r, callers, cookies)
    PROVE  /\ refresher'[t] = r
           /\ burst'[t] = burst[t] + (IF r.op /\ ~refresher[t].op THEN 1 ELSE 0)
           /\ \A s \in Tabs : s # t => refresher'[s] = refresher[s] /\ burst'[s] = burst[s]
BY DEF Becomes, TypeOK

\* The refresher of a tab starts no refresh; its timer stays or is put off.
LEMMA BudgetQuiet ==
    ASSUME \A s \in Tabs : Budget(s), NEW t \in Tabs, Paid, now' = now,
           burst'[t] = burst[t], NotDue(refresher[t]) => NotDue(refresher'[t]),
           Pending(t)' => Pending(t),
           \A s \in Tabs : s # t => /\ refresher'[s] = refresher[s] /\ burst'[s] = burst[s]
                                    /\ callback'[s] = callback[s]
    PROVE  \A s \in Tabs : Budget(s)'
<1>1. burst'[t] <= burst[t] BY DEF Paid, Counts
<1>2. NotDue(refresher[t]) => NotDue(refresher[t])' BY DEF NotDue
<1>3. Budget(t)' BY <1>1, <1>2, BudgetKept
<1>4. QED BY <1>3, BudgetOthers

\* It starts one that an event pays for.
LEMMA BudgetEvent ==
    ASSUME \A s \in Tabs : Budget(s), NEW t \in Tabs, Paid, now' = now,
           burst'[t] <= burst[t] + 1, events' = events + 1, NotDue(refresher'[t]),
           Pending(t)' => Pending(t),
           \A s \in Tabs : s # t => /\ refresher'[s] = refresher[s] /\ burst'[s] = burst[s]
                                    /\ callback'[s] = callback[s]
    PROVE  \A s \in Tabs : Budget(s)'
<1>1. /\ burst[t] \in Nat /\ burst'[t] \in Nat /\ events \in Nat /\ events' \in Nat
      /\ logins \in Nat /\ logins' \in Nat
  BY DEF Paid, Counts
<1>2. /\ burst[t] + (IF NotDue(refresher[t]) THEN 0 ELSE 1) + (IF Pending(t) THEN 1 ELSE 0)
            <= 1 + events + logins
      /\ Pending(t) => logins >= 1
  BY DEF Budget
<1>3. logins' >= logins BY DEF Paid
<1>4. NotDue(refresher[t])' BY DEF NotDue
<1>5. burst'[t] + (IF NotDue(refresher[t])' THEN 0 ELSE 1) + (IF Pending(t)' THEN 1 ELSE 0)
        <= 1 + events' + logins'
  BY <1>1, <1>2, <1>3, <1>4
<1>6. Pending(t)' => logins' >= 1 BY <1>1, <1>2, <1>3
<1>7. Budget(t)' BY <1>5, <1>6 DEF Budget
<1>8. QED BY <1>7, BudgetOthers

\* A page that loads starts one at most, whatever the tab did before.
LEMMA BudgetLoaded ==
    ASSUME TypeOK, \A s \in Tabs : Budget(s), NEW t \in Tabs, Paid, now' = now,
           NEW expiry \in Int, NEW cookies, Loaded(t, expiry, cookies),
           Pending(t)' => logins >= 1,
           \A s \in Tabs : s # t => callback'[s] = callback[s]
    PROVE  \A s \in Tabs : Budget(s)'
<1>1. now \in Int
  <2>1. now \in 0..MaxTime BY DEF TypeOK
  <2>2. QED BY <2>1, Bounds
<1>2. refresher'[t] = Started(expiry) /\ burst'[t] \in {0, 1} BY DEF Loaded, TypeOK
<1>3. \A s \in Tabs : s # t => refresher'[s] = refresher[s] /\ burst'[s] = burst[s]
  BY DEF Loaded, TypeOK
<1>4. NotDue(Started(expiry)) BY <1>1, Constants, Timers
<1>5. NotDue(refresher[t])' BY <1>2, <1>4 DEF NotDue
<1>6. /\ events \in Nat /\ events' \in Nat /\ logins \in Nat /\ logins' \in Nat
      /\ events' >= events /\ logins' >= logins
  BY DEF Paid, Counts
<1>7. burst'[t] + (IF NotDue(refresher[t])' THEN 0 ELSE 1) + (IF Pending(t)' THEN 1 ELSE 0)
        <= 1 + events' + logins'
  BY <1>2, <1>5, <1>6
<1>8. Pending(t)' => logins' >= 1 BY <1>6
<1>9. Budget(t)' BY <1>7, <1>8 DEF Budget
<1>10. QED BY <1>3, <1>9, BudgetOthers

\* What a step adds to the counts.
LEMMA PaidSteps ==
    ASSUME TypeOK, TypeOK', Event \/ Fault \/ UNCHANGED boundVars
    PROVE  Paid /\ (Event => events' = events + 1)
<1>1. Counts /\ Counts' BY CountsTyped, CountsTypedNext
<1>2. events' >= events /\ logins' >= logins BY <1>1 DEF Event, Fault, boundVars, Counts
<1>3. QED BY <1>1, <1>2 DEF Paid, Event

\* The refresher stays or stops.
LEMMA BudgetStops ==
    ASSUME TypeOK, \A s \in Tabs : Budget(s), NEW t \in Tabs, Paid, now' = now,
           NEW r \in {Stopped, refresher[t]}, NEW callers, NEW cookies,
           Becomes(t, r, callers, cookies), \A s \in Tabs : callback'[s] = callback[s]
    PROVE  \A s \in Tabs : Budget(s)'
<1>1. /\ refresher'[t] = r
      /\ burst'[t] = burst[t] + (IF r.op /\ ~refresher[t].op THEN 1 ELSE 0)
      /\ \A s \in Tabs : s # t => refresher'[s] = refresher[s] /\ burst'[s] = burst[s]
  BY BurstBecomes
<1>2. ~Stopped.op /\ NotDue(Stopped)
  <2>1. None \notin 0..now BY DEF None
  <2>2. QED BY <2>1 DEF Stopped, NotDue
<1>3. ~(r.op /\ ~refresher[t].op) BY <1>2
<1>4. burst[t] \in Nat BY DEF Paid, Counts
<1>5. burst'[t] = burst[t] BY <1>1, <1>3, <1>4
<1>6. NotDue(refresher[t]) => NotDue(refresher'[t]) BY <1>1, <1>2
<1>7. Pending(t)' => Pending(t) BY DEF Pending
<1>8. QED BY <1>1, <1>5, <1>6, <1>7, BudgetQuiet

LEMMA BudgetTab ==
    ASSUME TypeOK, TypeOK', \A s \in Tabs : Budget(s), NEW t \in Tabs,
           \/ Answers(t) \/ UserDoes(t) \/ TimerFires(t) \/ RefreshLost(t)
           \/ \E p \in Procs : Failed(t, p)
    PROVE  \A s \in Tabs : Budget(s)'
<1>0. now \in Int /\ session \in Int /\ refresher[t] \in Refresher /\ None \in Int
  <2>1. now \in 0..MaxTime /\ session \in Int /\ refresher[t] \in Refresher
    BY DEF TypeOK, Instants
  <2>2. None \in Int BY DEF None
  <2>3. QED BY <2>1, <2>2, Bounds
<1>a. NotDue(Stopped)
  <2>1. None \notin 0..now BY DEF None
  <2>2. QED BY <2>1 DEF Stopped, NotDue
<1>1. ASSUME TimerFires(t) PROVE \A s \in Tabs : Budget(s)'
  <2> DEFINE r == [refresher[t] EXCEPT !.timer = None, !.op = @ \/ refresher[t].proactive]
  <2>1. r.timer = None BY <1>0 DEF Refresher
  <2>2. Becomes(t, r, proc[t], jar) /\ now' = now /\ UNCHANGED boundVars
        /\ \A s \in Tabs : callback'[s] = callback[s]
    BY <1>1 DEF TimerFires
  <2> HIDE DEF r
  <2>3. /\ refresher'[t] = r
        /\ burst'[t] = burst[t] + (IF r.op /\ ~refresher[t].op THEN 1 ELSE 0)
        /\ \A s \in Tabs : s # t => refresher'[s] = refresher[s] /\ burst'[s] = burst[s]
    BY <2>2, BurstBecomes
  <2>4. ~NotDue(refresher[t]) BY <1>1 DEF TimerFires, NotDue
  <2>5. NotDue(refresher[t])'
    <3>1. None \notin 0..now BY DEF None
    <3>2. QED BY <2>1, <2>2, <2>3, <3>1 DEF NotDue
  <2>6. Pending(t)' <=> Pending(t) BY <2>2 DEF Pending
  <2>7. Paid BY <2>2, PaidSteps
  <2>8. /\ burst[t] \in Nat /\ burst'[t] \in Nat /\ events \in Nat /\ events' \in Nat
        /\ logins \in Nat /\ logins' \in Nat /\ events' >= events /\ logins' >= logins
    BY <2>7 DEF Paid, Counts
  <2>9. /\ burst[t] + (IF NotDue(refresher[t]) THEN 0 ELSE 1) + (IF Pending(t) THEN 1 ELSE 0)
              <= 1 + events + logins
        /\ Pending(t) => logins >= 1
    BY DEF Budget
  <2>10. burst'[t] <= burst[t] + 1 BY <2>3, <2>8
  <2>11. burst'[t] + (IF NotDue(refresher[t])' THEN 0 ELSE 1) + (IF Pending(t)' THEN 1 ELSE 0)
           <= 1 + events' + logins'
    BY <2>4, <2>5, <2>6, <2>8, <2>9, <2>10
  <2>12. Pending(t)' => logins' >= 1 BY <2>6, <2>8, <2>9
  <2>13. Budget(t)' BY <2>11, <2>12 DEF Budget
  <2>14. QED BY <2>2, <2>3, <2>7, <2>13, BudgetOthers
<1>2. ASSUME Visible(t) PROVE \A s \in Tabs : Budget(s)'
  <2> DEFINE r == ArmedByStored(refresher[t], session)
  <2>1. Becomes(t, r, proc[t], jar) /\ now' = now /\ Event
        /\ \A s \in Tabs : callback'[s] = callback[s]
    BY <1>2 DEF Visible
  <2>2. NotDue(r) BY <1>0, Timers
  <2> HIDE DEF r
  <2>3. /\ refresher'[t] = r
        /\ burst'[t] = burst[t] + (IF r.op /\ ~refresher[t].op THEN 1 ELSE 0)
        /\ \A s \in Tabs : s # t => refresher'[s] = refresher[s] /\ burst'[s] = burst[s]
    BY <2>1, BurstBecomes
  <2>4. Paid /\ events' = events + 1 BY <2>1, PaidSteps
  <2>5. burst'[t] <= burst[t] + 1
    <3>1. burst[t] \in Nat BY <2>4 DEF Paid, Counts
    <3>2. QED BY <2>3, <3>1
  <2>6. Pending(t)' => Pending(t) BY <2>1 DEF Pending
  <2>7. QED BY <2>1, <2>2, <2>3, <2>4, <2>5, <2>6, BudgetEvent
<1>3. ASSUME Reload(t) PROVE \A s \in Tabs : Budget(s)'
  <2>1. Loaded(t, session, jar) /\ now' = now /\ Event /\ ~Pending(t)'
        /\ \A s \in Tabs : callback'[s] = callback[s]
    BY <1>3 DEF Reload, Pending
  <2>2. Paid BY <2>1, PaidSteps
  <2>3. QED BY <1>0, <2>1, <2>2, BudgetLoaded
<1>4. ASSUME NEW u \in Users, NEW a \in 1..MaxLogins, ComesBack(t, u, a)
      PROVE  \A s \in Tabs : Budget(s)'
  <2>1. Loaded(t, session, jar) /\ now' = now /\ UNCHANGED boundVars
        /\ \A s \in Tabs : s # t => callback'[s] = callback[s]
    BY <1>4 DEF ComesBack, TypeOK
  <2>2. logins >= 1
    <3>1. a \in Nat /\ a \in 1..logins BY <1>4 DEF ComesBack
    <3>2. logins \in Nat BY CountsTyped DEF Counts
    <3>3. QED BY <3>1, <3>2
  <2>3. Paid BY <2>1, PaidSteps
  <2>4. QED BY <1>0, <2>1, <2>2, <2>3, BudgetLoaded
<1>5. ASSUME NEW p \in Procs, Received(t, p) PROVE \A s \in Tabs : Budget(s)'
  <2>1. PICK r, callers : r \in {Stopped, refresher[t]} /\ Becomes(t, r, callers, jar)
    BY <1>5 DEF Received
  <2>2. now' = now /\ UNCHANGED boundVars /\ \A s \in Tabs : callback'[s] = callback[s]
    BY <1>5 DEF Received
  <2>3. Paid BY <2>2, PaidSteps
  <2>4. QED BY <2>1, <2>2, <2>3, BudgetStops
<1>6. ASSUME NEW p \in Procs, Failed(t, p) PROVE \A s \in Tabs : Budget(s)'
  <2>1. \/ Loaded(t, None, jar) /\ callback' = [callback EXCEPT ![t] = NoCallback]
        \/ /\ \E r \in {Stopped, refresher[t]} : \E callers : Becomes(t, r, callers, jar)
           /\ callback' = [callback EXCEPT ![t] = @]
    BY <1>6 DEF Failed
  <2>2. now' = now /\ Fault BY <1>6 DEF Failed
  <2>3. Paid BY <2>2, PaidSteps
  <2>4. CASE Loaded(t, None, jar) /\ callback' = [callback EXCEPT ![t] = NoCallback]
    <3>1. \A s \in Tabs : s # t => callback'[s] = callback[s] BY <2>4 DEF TypeOK
    <3>2. ~Pending(t)' BY <2>4 DEF Pending, NoCallback, TypeOK
    <3>3. QED BY <1>0, <2>2, <2>3, <2>4, <3>1, <3>2, BudgetLoaded
  <2>5. CASE /\ \E r \in {Stopped, refresher[t]} : \E callers : Becomes(t, r, callers, jar)
             /\ callback' = [callback EXCEPT ![t] = @]
    <3>1. \A s \in Tabs : callback'[s] = callback[s] BY <2>5 DEF TypeOK
    <3>2. PICK r, callers : r \in {Stopped, refresher[t]} /\ Becomes(t, r, callers, jar) BY <2>5
    <3>3. QED BY <2>2, <2>3, <3>1, <3>2, BudgetStops
  <2>6. QED BY <2>1, <2>4, <2>5
<1>7. ASSUME CallbackAnswered(t) PROVE \A s \in Tabs : Budget(s)'
  <2> DEFINE expiry == now + callback[t].life
             told == OnLogin(refresher[t], expiry)
  <2>1. PICK r, callers, cookies : r \in {told, refresher[t]} /\ Becomes(t, r, callers, cookies)
    BY <1>7 DEF CallbackAnswered
  <2>2. now' = now /\ (Fault \/ UNCHANGED boundVars) /\ callback[t].pc = "ok"
        /\ callback' = [callback EXCEPT ![t] = NoCallback]
    BY <1>7 DEF CallbackAnswered
  <2>3. expiry \in Int
    <3>1. callback[t] \in Callback BY DEF TypeOK
    <3>2. callback[t].life \in Lives \cup {0} BY <3>1 DEF Callback
    <3>3. callback[t].life \in Nat BY <3>2, LifeNat
    <3>4. QED BY <1>0, <3>3
  <2>4. NotDue(told) BY <1>0, <2>3, Timers
  <2> HIDE DEF told
  <2>5. /\ refresher'[t] = r
        /\ burst'[t] = burst[t] + (IF r.op /\ ~refresher[t].op THEN 1 ELSE 0)
        /\ \A s \in Tabs : s # t => refresher'[s] = refresher[s] /\ burst'[s] = burst[s]
    BY <2>1, BurstBecomes
  <2>6. Paid BY <2>2, PaidSteps
  <2>7. \A s \in Tabs : s # t => callback'[s] = callback[s] BY <2>2 DEF TypeOK
  <2>8. Pending(t) /\ ~Pending(t)' BY <2>2 DEF Pending, NoCallback, TypeOK
  <2>9. /\ r = told => NotDue(refresher[t])'
        /\ r # told => NotDue(refresher[t])' = NotDue(refresher[t]) /\ burst'[t] = burst[t]
    <3>1. ASSUME r = told PROVE NotDue(refresher[t])' BY <2>2, <2>4, <2>5, <3>1 DEF NotDue
    <3>2. ASSUME r # told PROVE NotDue(refresher[t])' = NotDue(refresher[t]) /\ burst'[t] = burst[t]
      <4>1. r = refresher[t] BY <2>1, <3>2
      <4>2. burst[t] \in Nat BY CountsTyped DEF Counts
      <4>3. QED BY <2>2, <2>5, <4>1, <4>2 DEF NotDue
    <3>3. QED BY <3>1, <3>2
  <2>10. /\ burst[t] \in Nat /\ burst'[t] \in Nat /\ events \in Nat /\ events' \in Nat
         /\ logins \in Nat /\ logins' \in Nat /\ events' >= events /\ logins' >= logins
    BY <2>6 DEF Paid, Counts
  <2>11. burst[t] + (IF NotDue(refresher[t]) THEN 0 ELSE 1) + (IF Pending(t) THEN 1 ELSE 0)
           <= 1 + events + logins
    BY DEF Budget
  <2>12. burst'[t] <= burst[t] + 1 BY <2>5, <2>10
  <2>13. burst'[t] + (IF NotDue(refresher[t])' THEN 0 ELSE 1) + (IF Pending(t)' THEN 1 ELSE 0)
           <= 1 + events' + logins'
    BY <2>8, <2>9, <2>10, <2>11, <2>12
  <2>14. Budget(t)' BY <2>8, <2>13 DEF Budget
  <2>15. QED BY <2>2, <2>5, <2>6, <2>7, <2>14, BudgetOthers
<1>8. ASSUME \/ ApiCall(t) \/ Logout(t) \/ RefreshLost(t) \/ ServerRefresh(t) \/ SendCallback(t)
             \/ ServerCallback(t) \/ ServerCreatesUser(t) \/ CallbackRefused(t)
      PROVE  \A s \in Tabs : Budget(s)'
  <2>1. UNCHANGED <<now, refresher, burst>>
    BY <1>8 DEF ApiCall, Logout, RefreshLost, ServerRefresh, SendCallback, ServerCallback,
                ServerCreatesUser, CallbackRefused
  <2>2. Event \/ Fault \/ UNCHANGED boundVars
    BY <1>8 DEF ApiCall, Logout, RefreshLost, ServerRefresh, SendCallback, ServerCallback,
                ServerCreatesUser, CallbackRefused
  <2>3. Paid BY <2>2, PaidSteps
  <2>4. /\ Pending(t)' => Pending(t)
        /\ \A s \in Tabs : s # t => callback'[s] = callback[s]
    <3>1. CASE ApiCall(t) \/ Logout(t) \/ RefreshLost(t) \/ ServerRefresh(t)
      BY <3>1 DEF ApiCall, Logout, RefreshLost, ServerRefresh, Pending
    <3>2. CASE SendCallback(t) \/ CallbackRefused(t)
      BY <3>2 DEF SendCallback, CallbackRefused, Pending, TypeOK
    <3>3. CASE ServerCallback(t) \/ ServerCreatesUser(t)
      <4>1. Pending(t) BY <3>3 DEF ServerCallback, ServerCreatesUser, Pending
      <4>2. \/ SignedIn(t, callback[t].sub)
            \/ \E pc \in {"refused", "cleared", "creating"} :
                  callback' = [callback EXCEPT ![t].pc = pc]
        BY <3>3 DEF ServerCallback, ServerCreatesUser
      <4>3. \A s \in Tabs : s # t => callback'[s] = callback[s]
        BY <4>2, SignedInResult DEF TypeOK
      <4>4. QED BY <4>1, <4>3
    <3>4. QED BY <1>8, <3>1, <3>2, <3>3
  <2>5. QED BY <2>1, <2>3, <2>4, BudgetQuiet
<1>9. ASSUME LoggedOut(t) PROVE \A s \in Tabs : Budget(s)'
  <2>1. /\ refresher'[t] = Stopped /\ UNCHANGED <<now, burst, callback>>
        /\ \A s \in Tabs : s # t => refresher'[s] = refresher[s]
    BY <1>9 DEF LoggedOut, TypeOK
  <2>2. Paid BY <1>9, PaidSteps DEF LoggedOut
  <2>3. Pending(t)' => Pending(t) BY <2>1 DEF Pending
  <2>4. QED BY <1>a, <2>1, <2>2, <2>3, BudgetQuiet
<1>10. ASSUME Login(t) PROVE \A s \in Tabs : Budget(s)'
  <2>1. /\ refresher'[t] = Stopped /\ UNCHANGED <<now, burst, callback>>
        /\ \A s \in Tabs : s # t => refresher'[s] = refresher[s]
        /\ logins' = logins + 1 /\ events' = events
    BY <1>10 DEF Login, TypeOK
  <2>2. Paid BY <2>1, CountsTyped, CountsTypedNext DEF Paid, Counts
  <2>3. Pending(t)' => Pending(t) BY <2>1 DEF Pending
  <2>4. QED BY <1>a, <2>1, <2>2, <2>3, BudgetQuiet
<1>11. ASSUME Refreshed(t) PROVE \A s \in Tabs : Budget(s)'
  <2> DEFINE f == flight[t]
  <2>1. PICK stored, new :
          /\ stored \in BOOLEAN
          /\ LET expiry == IF stored THEN now + f.life ELSE session
                 told == IF stored THEN OnRefresh(refresher[t], expiry) ELSE refresher[t]
             IN Settled(t, OnResult(told, expiry), new)
    BY <1>11 DEF Refreshed
  <2> DEFINE expiry == IF stored THEN now + f.life ELSE session
             told == IF stored THEN OnRefresh(refresher[t], expiry) ELSE refresher[t]
             r == OnResult(told, expiry)
  <2>2. expiry \in Int
    <3>1. flight[t] \in Flight BY DEF TypeOK
    <3>2. flight[t].life \in Lives \cup {0} BY <3>1 DEF Flight
    <3>3. flight[t].life \in Nat BY <3>2, LifeNat
    <3>4. QED BY <1>0, <3>3
  <2> HIDE DEF expiry
  <2>3. told \in Refresher BY <1>0, <2>2, ResultsType
  <2>4. FALSE \in BOOLEAN OBVIOUS
  <2>5. NotDue(refresher[t]) => NotDue(told) BY <1>0, <2>2, <2>4, Timers
  <2>6. (NotDue(told) => NotDue(r)) /\ ~r.op BY <1>0, <2>2, <2>3, <2>4, Timers
  <2>7. Settled(t, r, new) BY <2>1 DEF expiry
  <2> HIDE DEF r
  <2>8. burst[t] \in Nat BY CountsTyped DEF Counts
  <2>9. /\ refresher'[t] = r /\ burst'[t] = burst[t]
        /\ \A s \in Tabs : s # t => refresher'[s] = refresher[s] /\ burst'[s] = burst[s]
    BY <2>6, <2>7, <2>8 DEF Settled, TypeOK
  <2>10. UNCHANGED <<now, callback>> BY <1>11 DEF Refreshed
  <2>11. Paid
    <3>1. Fault \/ UNCHANGED boundVars BY <1>11 DEF Refreshed
    <3>2. QED BY <3>1, PaidSteps
  <2>12. Pending(t)' => Pending(t) BY <2>10 DEF Pending
  <2>13. NotDue(refresher[t]) => NotDue(refresher'[t]) BY <2>5, <2>6, <2>9
  <2>14. QED BY <2>9, <2>10, <2>11, <2>12, <2>13, BudgetQuiet
<1>12. ASSUME RefreshFailed(t) PROVE \A s \in Tabs : Budget(s)'
  <2>1. refresher'[t] \in {Started(None), OnFailure(refresher[t]), Stopped}
    BY <1>12 DEF RefreshFailed, TypeOK
  <2>2. FALSE \in BOOLEAN OBVIOUS
  <2>3. NotDue(refresher[t]) => NotDue(refresher'[t]) BY <1>0, <2>1, <2>2, Timers
  <2>4. UNCHANGED <<now, burst, boundVars>> BY <1>12 DEF RefreshFailed
  <2>5. \A s \in Tabs : s # t => refresher'[s] = refresher[s] /\ callback'[s] = callback[s]
    BY <1>12 DEF RefreshFailed, TypeOK
  <2>6. Pending(t)' => Pending(t)
    BY <1>12 DEF RefreshFailed, TypeOK, Pending, NoCallback
  <2>7. Paid BY <2>4, PaidSteps
  <2>8. QED BY <2>3, <2>4, <2>5, <2>6, <2>7, BudgetQuiet
<1>13. QED
  BY <1>1, <1>2, <1>3, <1>4, <1>5, <1>6, <1>7, <1>8, <1>9, <1>10, <1>11, <1>12
  DEF Answers, UserDoes

LEMMA BudgetInit == Init => \A t \in Tabs : Budget(t)
<1> SUFFICES ASSUME Init, NEW t \in Tabs PROVE Budget(t) OBVIOUS
<1>1. PICK u \in Users \cup {NoUser}, age \in Lives \cup {0} :
        LET expiry == IF u # NoUser THEN age ELSE None
        IN /\ refresher = [s \in Tabs |-> Started(expiry)]
           /\ burst = [s \in Tabs |-> IF Started(expiry).op THEN 1 ELSE 0]
  BY DEF Init
<1> DEFINE expiry == IF u # NoUser THEN age ELSE None
<1>2. now = 0 /\ expiry \in Int BY LifeNat DEF Init, None
<1>3. NotDue(Started(expiry))
  <2>1. Stopped \in Refresher /\ FALSE \in BOOLEAN /\ now \in Int BY <1>2, Constants
  <2> HIDE DEF expiry
  <2>2. QED BY <1>2, <2>1, Timers
<1>4. NotDue(refresher[t]) /\ burst[t] \in {0, 1} BY <1>1, <1>3
<1>5. ~Pending(t) BY DEF Init, Pending, NoCallback
<1>6. events = 0 /\ logins = 0 BY DEF Init
<1>7. QED BY <1>4, <1>5, <1>6 DEF Budget

LEMMA BudgetStep ==
    ASSUME TypeOK, TypeOK', \A t \in Tabs : Budget(t), [Next]_vars
    PROVE  \A t \in Tabs : Budget(t)'
<1>1. CASE UNCHANGED vars
  BY <1>1 DEF vars, Budget, NotDue, Pending
<1>2. ASSUME Tick, NEW t \in Tabs PROVE Budget(t)'
  <2>1. burst'[t] = 0 /\ UNCHANGED <<callback, boundVars>> BY <1>2 DEF Tick
  <2>2. Pending(t)' <=> Pending(t) BY <2>1 DEF Pending
  <2>3. Pending(t) => logins >= 1 BY DEF Budget
  <2>4. events' = events /\ logins' = logins BY <2>1 DEF boundVars
  <2>5. events \in Nat /\ logins \in Nat BY CountsTyped DEF Counts
  <2>6. burst'[t] + (IF NotDue(refresher[t])' THEN 0 ELSE 1) + (IF Pending(t)' THEN 1 ELSE 0)
          <= 1 + events' + logins'
    BY <2>1, <2>2, <2>3, <2>4, <2>5
  <2>7. Pending(t)' => logins' >= 1 BY <2>2, <2>3, <2>4
  <2>8. QED BY <2>6, <2>7 DEF Budget
<1>3. QED BY <1>1, <1>2, BudgetTab DEF Next

\* At one instant a tab starts one refresh by itself, and one more at most for each thing
\* its user did: a token that cannot outlive the window is not refreshed in a loop.
THEOREM NoRefreshLoopHolds == Spec => []NoRefreshLoop
<1> DEFINE Inv == TypeOK /\ Subjects /\ \A t \in Tabs : Budget(t)
<1>1. Init => Inv BY InitType, SubjectsInit, BudgetInit
<1>2. Inv /\ [Next]_vars => Inv' BY TypeStep, SubjectsStep, BudgetStep
<1>3. Inv => NoRefreshLoop
  <2> SUFFICES ASSUME Inv, NEW t \in Tabs PROVE burst[t] <= 1 + events + logins
    BY DEF NoRefreshLoop
  <2>1. events \in Nat /\ logins \in Nat /\ burst[t] \in Nat BY CountsTyped DEF Counts
  <2>2. QED BY <2>1 DEF Budget
<1>4. QED BY <1>1, <1>2, <1>3, PTL DEF Spec
=============================================================================
