---- MODULE AccesDepot ----
(***************************************************************************)
(* Who may see a deposit.  A session holds what the reference data said of *)
(* its user when he signed in, or when the session was refreshed: his      *)
(* intervenant, and whether he is expert of the whole country.  The guards *)
(* believe the session; the deposit of a file and the list of one's own    *)
(* deposits ask the reference data again.  The restore replaces them       *)
(* meanwhile.                                                              *)
(* Abstracted: the session itself (BrowserSession); one deposit; the       *)
(* address of a user does not change.                                      *)
(***************************************************************************)
EXTENDS Droits

CONSTANT Sessions  \* users who sign in

EXPERT_CENTRAL_VERSEAU == 306
EXPERT_SERVICE_VERSEAU == 307

VERSEAU_AUTHORIZED_ROLES ==
    {DEPOSANT, EXPERT_BASSIN_VERSEAU, EXPERT_NATIONAL_VERSEAU, EXPERT_CENTRAL_VERSEAU,
     EXPERT_SERVICE_VERSEAU, DEPOSANT_SATESE}

VARIABLES
    claims,         \* users: of the session, and (ghost) the snapshot they come from; or Null
    agent,          \* users: the agent found by the request that resolves the claims
    depot,          \* intervenant of the deposit, Null before it
    last            \* ghost: what was asked of the deposit last, by whom, and the outcome;
                    \* whether the claims were current, and let its files be read

accesVars == <<claims, agent, depot, last>>

Nothing == [by |-> Absent, what |-> "nothing", outcome |-> "refused", fresh |-> FALSE, opens |-> FALSE]

AccesInit ==
    /\ claims = [e \in Sessions |-> Null]
    /\ agent = [e \in Sessions |-> Null]
    /\ depot = Null /\ last = Nothing

\* resolveVerseauAccess, at the login and at every refresh: the agent, then his roles.
FindAccess(e) ==
    /\ agent[e] = Null
    /\ \E a \in FindAgByEmail(Db, e) : agent' = [agent EXCEPT ![e] = [ag |-> a, at |-> live]]
    /\ UNCHANGED <<claims, depot, last>>

\* Mutant: a role in the table is enough.
ResolveVerseauAccess_AnyRole(e) ==
    /\ agent[e] # Null
    /\ LET roles == FindOrionRoles(Db, agent[e].ag.pr) IN
       IF roles = {} THEN claims' = claims
       ELSE claims' = [claims EXCEPT ![e] = [itvCdn |-> agent[e].ag.itv, at |-> agent[e].at,
                                             isExpertNational |-> EXPERT_NATIONAL_VERSEAU \in roles]]
    /\ agent' = [agent EXCEPT ![e] = Null]
    /\ UNCHANGED <<depot, last>>

\* Without an authorized role the request is refused, and an earlier session stays.
ResolveVerseauAccess(e) ==
    /\ agent[e] # Null
    /\ LET roles == FindOrionRoles(Db, agent[e].ag.pr) IN
       IF roles \cap VERSEAU_AUTHORIZED_ROLES = {} THEN claims' = claims
       ELSE claims' = [claims EXCEPT ![e] = [itvCdn |-> agent[e].ag.itv, at |-> agent[e].at,
                                             isExpertNational |-> EXPERT_NATIONAL_VERSEAU \in roles]]
    /\ agent' = [agent EXCEPT ![e] = Null]
    /\ UNCHANGED <<depot, last>>

\* The access token expires, or the user signs out.
SessionEnds(e) ==
    /\ claims[e] # Null
    /\ claims' = [claims EXCEPT ![e] = Null]
    /\ UNCHANGED <<agent, depot, last>>

----
(* Guards: "yes", "no", or what they throw *)

Me(c) == IF c = Null THEN "unauthorized" ELSE "yes"

IsAdmin(c) == IF c = Null THEN "refused" ELSE IF c.isExpertNational THEN "yes" ELSE "no"

CanConsultDepot(itvCdn, d) == itvCdn # Null /\ itvCdn = d

\* Mutant: every session sees the deposits.
HasUserAccessToDepot_Any(c, d) == IF c = Null THEN "refused" ELSE IF d = Null THEN "notFound" ELSE "yes"

HasUserAccessToDepot(c, d) ==
    IF c = Null THEN "refused" ELSE IF d = Null THEN "notFound"
    ELSE IF CanConsultDepot(c.itvCdn, d) THEN "yes" ELSE "refused"

\* The first guard that says yes lets the request in; else what was thrown last is thrown.
OrGuard(outcomes) ==
    LET thrown == {i \in 1 .. Len(outcomes) : outcomes[i] # "no"}
    IN IF \E i \in thrown : outcomes[i] = "yes" THEN "yes"
       ELSE IF thrown = {} THEN "no" ELSE outcomes[Max(thrown)]

ForControle(c, d) == OrGuard(<<HasUserAccessToDepot(c, d), IsAdmin(c)>>)
ForFiles(c, d) == HasUserAccessToDepot(c, d)

----
(* Requests of a session *)

ResolveItvCdn(e) == IF FindAgByEmail(Db, e) = {} THEN {Null} ELSE {a.itv : a \in FindAgByEmail(Db, e)}

Answered(e, what, outcome) ==
    last' = [by |-> e, what |-> what, outcome |-> outcome,
             fresh |-> claims[e].at = live, opens |-> ForFiles(claims[e], depot) = "yes"]

\* initializeUpload: the deposit is the intervenant's of now.
InitializeUpload(e) ==
    /\ Me(claims[e]) = "yes" /\ depot = Null
    /\ depot' \in ResolveItvCdn(e) \ {Null}
    /\ UNCHANGED <<claims, agent, last>>

\* listMyDepots: those of the intervenant of now.
ListMyDepots(e) ==
    /\ Me(claims[e]) = "yes"
    /\ \E itv \in ResolveItvCdn(e) : Answered(e, "list", IF CanConsultDepot(itv, depot) THEN "yes" ELSE "no")
    /\ UNCHANGED <<claims, agent, depot>>

\* getControle, getControleSandre and getMasa share a guard.
GetControle(e) ==
    /\ claims[e] # Null
    /\ Answered(e, "controle", ForControle(claims[e], depot))
    /\ UNCHANGED <<claims, agent, depot>>

DownloadFile(e, what) ==
    /\ claims[e] # Null /\ what \in {"rapport", "xml"}
    /\ Answered(e, what, ForFiles(claims[e], depot))
    /\ UNCHANGED <<claims, agent, depot>>

\* The deposits of everyone; the file of one that is not there is not found.
AdminDepot(e) ==
    /\ claims[e] # Null
    /\ LET may == IsAdmin(claims[e])
       IN Answered(e, "admin", IF may = "yes" /\ depot = Null THEN "notFound" ELSE may)
    /\ UNCHANGED <<claims, agent, depot>>

AccesNext ==
    \E e \in Sessions :
        \/ FindAccess(e) \/ ResolveVerseauAccess(e) \/ SessionEnds(e)
        \/ InitializeUpload(e) \/ ListMyDepots(e) \/ GetControle(e) \/ AdminDepot(e)
        \/ \E what \in {"rapport", "xml"} : DownloadFile(e, what)

----
\* Agents of an address in a snapshot, and what he was in a later one.
WasAgent(e, itv) == \E v \in seen : \E a \in FindAgByEmail(Databases[v], e) : a.itv = itv
HadRoleOf(e, roles) ==
    \E v, w \in seen : v <= w /\ \E a \in FindAgByEmail(Databases[v], e) :
        FindOrionRoles(Databases[w], a.pr) \cap roles # {}

\* A deposit is read only by a user with a role in Verseau who works, in some snapshot of
\* his session, for the intervenant of the deposit, or who is expert of the whole country
\* and does not ask for the file as its owner; a session left over from a former dump may
\* read what a new one may not, and never more than a former dump allowed
\* (hasUserAccessToDepot.guard.ts:36-47, droitsUser.service.ts:22-42).
ConsultationRights ==
    last.what # "list" /\ last.outcome = "yes" =>
        /\ HadRoleOf(last.by, VERSEAU_AUTHORIZED_ROLES)
        /\ \/ depot # Null /\ last.what # "admin" /\ WasAgent(last.by, depot)
           \/ last.what \in {"controle", "admin"} /\ HadRoleOf(last.by, {EXPERT_NATIONAL_VERSEAU})

\* What a user finds in his list he can open, unless his session is older than the
\* reference data: the list asks them, the guard asks the session (depot.controller.ts:80-85).
ListedOpens ==
    last.what = "list" /\ last.outcome = "yes" /\ last.fresh => last.opens

\* The rights to deposit and to read a deposit are those the reference data gave
\* (droitsDepot.service.ts:21-125, droitsUser.service.ts:22-95).
RightsExplained == DepotRightsExplained /\ ConsultationRights /\ ListedOpens
====
