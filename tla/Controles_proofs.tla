-------------------------- MODULE Controles_proofs -------------------------
(***************************************************************************)
(* Proofs about the parts that read the reference data, for every sequence *)
(* of snapshots and every file: the rights to deposit and to read a        *)
(* deposit, the verdict of the controls V1, the rules on PFAS and those on *)
(* volumes, and the name that is written into a file.  What the restore    *)
(* swaps is read again at every query, so each argument about it carries   *)
(* evidence: a snapshot that was live since the beginning and has said     *)
(* what the next step relies on.                                           *)
(***************************************************************************)
EXTENDS MCControles, SequenceTheorems, FiniteSetTheorems, WellFoundedInduction, TLAPS

----------------------------------------------------------------------------
(* Snapshots *)

\* What was seen is not younger than what is live.
Snapshots == live \in 1 .. Len(References) /\ 1 \in seen /\ live \in seen /\ \A v \in seen : v \in Nat /\ v <= live

\* What no step takes away.
Grows == seen \subseteq seen' /\ file' = file /\ doc' = doc /\ email' = email

LEMMA V1Grows == V1Next => seen \subseteq seen' /\ file' = file /\ doc' = doc
BY DEF V1Next, SwapReference, LoadLinks, StartLookups, Save, Load, Lookup

LEMMA SwapGrows == SwapReference => seen \subseteq seen' /\ file' = file /\ doc' = doc
BY DEF SwapReference

LEMMA ValidateKeepsEmail == ValidateDroits => email' = email
BY DEF ValidateDroits, Begin, ExpertAg, ExpertRole, UserAg, Roles, Intervenant, Matches,
       BassinAg, BassinRole, QueryFails, FindAg, Goto

\* What a step of the model is to the snapshots, to the rights and to the sessions.
LEMMA StepOfTheRights ==
    [Next]_vars =>
        /\ Grows
        /\ UNCHANGED <<live, seen>> \/ SwapReference
        /\ (ValidateDroits /\ UNCHANGED <<v1Vars, accesVars>>)
           \/ (UNCHANGED droitsVars /\ UNCHANGED accesVars)
           \/ (AccesNext /\ UNCHANGED v1Vars /\ UNCHANGED droitsVars)
<1> SUFFICES ASSUME [Next]_vars
             PROVE /\ Grows
                   /\ UNCHANGED <<live, seen>> \/ SwapReference
                   /\ (ValidateDroits /\ UNCHANGED <<v1Vars, accesVars>>)
                      \/ (UNCHANGED droitsVars /\ UNCHANGED accesVars)
                      \/ (AccesNext /\ UNCHANGED v1Vars /\ UNCHANGED droitsVars)
  OBVIOUS
<1>1. CASE DroitsStep BY <1>1, ValidateKeepsEmail DEF DroitsStep, Grows, v1Vars
<1>2. CASE DroitsSwap BY <1>2, SwapGrows DEF DroitsSwap, Grows, droitsVars
<1>3. CASE Controls
  <2>1. V1Next /\ UNCHANGED droitsVars /\ UNCHANGED accesVars BY <1>3 DEF Controls
  <2>2. UNCHANGED <<live, seen>> \/ SwapReference
    BY <2>1 DEF V1Next, LoadLinks, StartLookups, Save, Load, Lookup
  <2> QED BY <2>1, <2>2, V1Grows DEF Grows, droitsVars
<1>4. CASE Perimeter BY <1>4 DEF Perimeter, Grows, v1Vars, droitsVars
<1>5. CASE Dashboards BY <1>5 DEF Dashboards, Grows, v1Vars, droitsVars
<1>6. CASE Pages_ BY <1>6 DEF Pages_, Grows, v1Vars, droitsVars
<1>7. CASE Access BY <1>7 DEF Access, Grows, v1Vars, droitsVars
<1>8. CASE AccessSwap BY <1>8, SwapGrows DEF AccessSwap, Grows, droitsVars
<1>9. CASE UNCHANGED vars BY <1>9 DEF vars, Grows, v1Vars, droitsVars
<1> QED BY <1>1, <1>2, <1>3, <1>4, <1>5, <1>6, <1>7, <1>8, <1>9 DEF Next

LEMMA SnapshotsInit == Init => Snapshots
BY ReferencesAssumption DEF Init, V1InitFor, Snapshots

LEMMA SnapshotsStep == Snapshots /\ [Next]_vars => Snapshots'
<1> SUFFICES ASSUME Snapshots, [Next]_vars PROVE Snapshots' OBVIOUS
<1>1. UNCHANGED <<live, seen>> \/ SwapReference BY StepOfTheRights
<1>2. CASE UNCHANGED <<live, seen>> BY <1>2 DEF Snapshots
<1>3. CASE SwapReference
  <2>1. live < Len(References) /\ live' = live + 1 /\ seen' = seen \cup {live'} BY <1>3 DEF SwapReference
  <2> QED BY <2>1, ReferencesAssumption DEF Snapshots
<1> QED BY <1>1, <1>2, <1>3

----------------------------------------------------------------------------
(* The rights of a depositor *)

\* The agent at hand came from a snapshot.
AgentSeen == \E v \in seen : ag \in FindAgByEmail(Databases[v], email)

\* So did the agent whose intervenant is at hand, and the name of that one later.
SiretSeen ==
    \E u, w \in seen : u <= w /\ \E a \in FindAgByEmail(Databases[u], email) :
        siret = FindIntervenantById(Databases[w], a.itv)

\* The evidence gathered before each query.
DroitsEvidence ==
    /\ step \in {"expertRole", "roles", "intervenant", "bassinRole"} => AgentSeen
    /\ step \in {"intervenant", "matches", "bassinAg", "bassinRole"} => HadRole(Depositors)
    /\ step = "matches" => SiretSeen
    /\ step \in {"bassinAg", "bassinRole"} => \E v \in seen : AnsweredFor(v)
    /\ DepotRightsExplained

\* Evidence does not go away.
LEMMA AgentKept == AgentSeen /\ Grows /\ ag' = ag => AgentSeen'
BY DEF AgentSeen, Grows

LEMMA SiretKept == SiretSeen /\ Grows /\ siret' = siret => SiretSeen'
BY DEF SiretSeen, Grows

LEMMA HadRoleKept == ASSUME NEW roles, HadRole(roles), Grows PROVE HadRole(roles)'
BY DEF HadRole, Grows

LEMMA AnsweredForKept == ASSUME NEW v \in seen, AnsweredFor(v), Grows PROVE AnsweredFor(v)' /\ v \in seen'
BY DEF AnsweredFor, Grows

\* A role found now was had by an agent found before.
LEMMA RoleNow ==
    ASSUME Snapshots, AgentSeen, NEW roles, FindOrionRoles(Db, ag.pr) \cap roles # {}
    PROVE  HadRole(roles)
<1>1. PICK v \in seen : ag \in FindAgByEmail(Databases[v], email) BY DEF AgentSeen
<1>2. live \in seen /\ v <= live BY DEF Snapshots
<1> QED BY <1>1, <1>2 DEF HadRole, Db

LEMMA RoleFound ==
    ASSUME NEW db, NEW pr, NEW role, HasRole(db, pr, role) PROVE FindOrionRoles(db, pr) \cap {role} # {}
<1> DEFINE r == [pr |-> pr, role |-> role]
<1>1. r \in db.roles /\ r["pr"] = pr /\ r.role = role BY DEF HasRole
<1> HIDE DEF r
<1>2. r \in By(db.roles, "pr", pr) BY <1>1 DEF By
<1> QED BY <1>1, <1>2 DEF FindOrionRoles

LEMMA DroitsEvidenceInit == Init => DroitsEvidence
BY DEF Init, DroitsInit, DroitsEvidence, DepotRightsExplained

LEMMA DroitsEvidenceKept == ASSUME DroitsEvidence, Grows, UNCHANGED droitsVars PROVE DroitsEvidence'
<1>1. UNCHANGED <<step, ag, siret>> BY DEF droitsVars
<1>2. AgentSeen => AgentSeen' BY <1>1, AgentKept
<1>3. SiretSeen => SiretSeen' BY <1>1, SiretKept
<1>4. \A roles : HadRole(roles) => HadRole(roles)' BY HadRoleKept
<1>5. (\E v \in seen : AnsweredFor(v)) => (\E v \in seen : AnsweredFor(v))' BY AnsweredForKept
<1>6. FluxQualifie(file)' <=> FluxQualifie(file) BY DEF Grows
<1>7. DepotRightsExplained' BY <1>1, <1>4, <1>5, <1>6 DEF DroitsEvidence, DepotRightsExplained
<1> QED BY <1>1, <1>2, <1>3, <1>4, <1>5, <1>7 DEF DroitsEvidence

LEMMA DroitsEvidenceStep ==
    ASSUME Snapshots, DroitsEvidence, ValidateDroits, UNCHANGED v1Vars, Grows PROVE DroitsEvidence'
<1>0. UNCHANGED <<seen, live, file>> /\ seen' = seen /\ email' = email BY DEF v1Vars, Grows
<1>1. AgentSeen /\ ag' = ag => AgentSeen' BY AgentKept
<1>2. SiretSeen /\ siret' = siret => SiretSeen' BY SiretKept
<1>3. \A roles : HadRole(roles) => HadRole(roles)' BY HadRoleKept
<1>4. (\E v \in seen : AnsweredFor(v)) => (\E v \in seen : AnsweredFor(v))' BY AnsweredForKept
<1>5. FluxQualifie(file)' <=> FluxQualifie(file) BY <1>0
<1>6. live \in seen BY DEF Snapshots
\* A step that only goes on, or ends with a refusal or a failure.
<1>7. ASSUME NEW s, Goto(s), s \notin {"expertRole", "roles", "intervenant", "matches", "bassinAg", "bassinRole", "accepted"}
      PROVE  DroitsEvidence'
  BY <1>7 DEF Goto, DroitsEvidence, DepotRightsExplained
\* An agent is looked up.
<1>8. ASSUME NEW at, NEW found, NEW none, FindAg(at, found, none),
             found \in {"expertRole", "roles", "bassinRole"}, none \in {"userAg", "refused", "fluxQualifieInterdit"},
             found = "bassinRole" => HadRole(Depositors) /\ \E v \in seen : AnsweredFor(v)
      PROVE  DroitsEvidence'
  <2>1. CASE Goto(none) BY <2>1, <1>7, <1>8
  <2>2. ASSUME NEW a \in FindAgByEmail(Db, email), ag' = a, step' = found, UNCHANGED <<email, siret>>
        PROVE  DroitsEvidence'
    <3>1. AgentSeen' BY <1>0, <1>6, <2>2 DEF AgentSeen, Db
    <3>2. DepotRightsExplained' BY <1>8, <2>2 DEF DepotRightsExplained
    <3> QED BY <1>3, <1>4, <1>8, <2>2, <3>1, <3>2 DEF DroitsEvidence
  <2> QED BY <1>8, <2>1, <2>2 DEF FindAg
<1>9. CASE Begin BY <1>7, <1>9 DEF Begin, DroitsEvidence, Goto, DepotRightsExplained
<1>10. CASE ExpertAg BY <1>8, <1>10 DEF ExpertAg
<1>11. CASE ExpertRole
  <2>1. CASE HasRole(Db, ag.pr, EXPERT_NATIONAL_VERSEAU)
    <3>1. AgentSeen BY <1>11 DEF ExpertRole, DroitsEvidence
    <3>2. HadRole({EXPERT_NATIONAL_VERSEAU}) BY <2>1, <3>1, RoleFound, RoleNow
    <3>3. HadRole({EXPERT_NATIONAL_VERSEAU})' BY <1>3, <3>2
    <3>4. step' = "accepted" BY <1>11, <2>1 DEF ExpertRole, Goto
    <3> QED BY <3>3, <3>4 DEF DroitsEvidence, DepotRightsExplained
  <2>2. CASE ~HasRole(Db, ag.pr, EXPERT_NATIONAL_VERSEAU) BY <1>7, <1>11, <2>2 DEF ExpertRole
  <2> QED BY <2>1, <2>2
<1>12. CASE UserAg BY <1>8, <1>12 DEF UserAg
<1>13. CASE Roles
  <2>1. CASE FindOrionRoles(Db, ag.pr) \cap Depositors # {}
    <3>1. AgentSeen BY <1>13 DEF Roles, DroitsEvidence
    <3>2. HadRole(Depositors)' BY <1>3, <2>1, <3>1, RoleNow
    <3>3. step' = "intervenant" /\ ag' = ag BY <1>13, <2>1 DEF Roles, Goto
    <3>4. AgentSeen' BY <1>1, <3>1, <3>3
    <3> QED BY <3>2, <3>3, <3>4 DEF DroitsEvidence, DepotRightsExplained
  <2>2. CASE ~(FindOrionRoles(Db, ag.pr) \cap Depositors # {}) BY <1>7, <1>13, <2>2 DEF Roles
  <2> QED BY <2>1, <2>2
<1>14. CASE Intervenant
  <2>1. AgentSeen /\ HadRole(Depositors) BY <1>14 DEF Intervenant, DroitsEvidence
  <2>2. siret' = FindIntervenantById(Db, ag.itv) /\ step' \in {"refused", "matches"} BY <1>14 DEF Intervenant
  <2>3. SiretSeen'
    <3>1. PICK v \in seen : ag \in FindAgByEmail(Databases[v], email) BY <2>1 DEF AgentSeen
    <3>2. v <= live BY DEF Snapshots
    <3> QED BY <1>0, <1>6, <2>2, <3>1, <3>2 DEF SiretSeen, Db
  <2> QED BY <1>3, <2>1, <2>2, <2>3 DEF DroitsEvidence, DepotRightsExplained
<1>15. CASE Matches
  <2>1. HadRole(Depositors) /\ SiretSeen BY <1>15 DEF Matches, DroitsEvidence
  <2> DEFINE droits == FindDroitsByCodes(Db, CdOuvrages(file), CdSystemes(file))
             yes == /\ \A c \in CdOuvrages(file) : \E v \in droits : v.steu = c /\ AnswersFor(v, siret)
                    /\ \A c \in CdSystemes(file) : \E v \in droits : v.scl = c /\ AnswersFor(v, siret)
  <2>2. step' = (IF yes THEN (IF FluxQualifie(file) THEN "bassinAg" ELSE "accepted") ELSE "refused")
        /\ UNCHANGED <<email, ag, siret>>
    BY <1>15 DEF Matches
  <2>3. CASE yes
    <3>1. AnsweredFor(live)
      <4>1. PICK u \in seen, w \in seen : u <= w /\ \E a \in FindAgByEmail(Databases[u], email) :
                 siret = FindIntervenantById(Databases[w], a.itv)
        BY <2>1 DEF SiretSeen
      <4>2. PICK a \in FindAgByEmail(Databases[u], email) : siret = FindIntervenantById(Databases[w], a.itv)
        BY <4>1
      <4>3. w <= live BY DEF Snapshots
      <4>4. droits \subseteq Databases[live].droits BY DEF FindDroitsByCodes, Db
      <4>5. /\ \A c \in CdOuvrages(file) : \E r \in Databases[live].droits : r.steu = c /\ AnswersFor(r, siret)
            /\ \A c \in CdSystemes(file) : \E r \in Databases[live].droits : r.scl = c /\ AnswersFor(r, siret)
        <5> HIDE DEF droits
        <5> QED BY <2>3, <4>4
      <4> QED BY <4>1, <4>2, <4>3, <4>5 DEF AnsweredFor
    <3> HIDE DEF yes, droits
    <3>2. HadRole(Depositors)' /\ (\E v \in seen : AnsweredFor(v))' BY <1>3, <1>4, <1>6, <2>1, <3>1
    <3>3. step' = (IF FluxQualifie(file) THEN "bassinAg" ELSE "accepted") BY <2>2, <2>3
    <3> QED BY <1>5, <3>2, <3>3 DEF DroitsEvidence, DepotRightsExplained
  <2>4. CASE ~yes
    <3>1. Goto("refused") BY <2>2, <2>4 DEF Goto
    <3> QED BY <1>7, <3>1
  <2> QED BY <2>3, <2>4
<1>16. CASE BassinAg
  <2>1. step = "bassinAg" BY <1>16 DEF BassinAg, FindAg
  <2>2. HadRole(Depositors) /\ \E v \in seen : AnsweredFor(v) BY <2>1 DEF DroitsEvidence
  <2> QED BY <1>8, <1>16, <2>2 DEF BassinAg
<1>17. CASE BassinRole
  <2>1. AgentSeen /\ HadRole(Depositors) /\ \E v \in seen : AnsweredFor(v)
    BY <1>17 DEF BassinRole, DroitsEvidence
  <2>2. CASE HasRole(Db, ag.pr, EXPERT_BASSIN_VERSEAU)
    <3>1. HadRole({EXPERT_BASSIN_VERSEAU}) BY <2>1, <2>2, RoleFound, RoleNow
    <3>2. HadRole({EXPERT_BASSIN_VERSEAU})' /\ HadRole(Depositors)' /\ (\E v \in seen : AnsweredFor(v))'
      BY <1>3, <1>4, <2>1, <3>1
    <3>3. step' = "accepted" BY <1>17, <2>2 DEF BassinRole, Goto
    <3> QED BY <3>2, <3>3 DEF DroitsEvidence, DepotRightsExplained
  <2>3. CASE ~HasRole(Db, ag.pr, EXPERT_BASSIN_VERSEAU) BY <1>7, <1>17, <2>3 DEF BassinRole
  <2> QED BY <2>2, <2>3
<1>18. CASE QueryFails BY <1>7, <1>18 DEF QueryFails
<1> QED BY <1>9, <1>10, <1>11, <1>12, <1>13, <1>14, <1>15, <1>16, <1>17, <1>18 DEF ValidateDroits

----------------------------------------------------------------------------
(* The rights to read a deposit *)

\* What a request found of the user is what a snapshot said of him.
AgentOf(e) == agent[e] # Null =>
    agent[e].at \in seen /\ agent[e].ag \in FindAgByEmail(Databases[agent[e].at], e)

\* A session says of its user what a snapshot said, whose agent had a role of Verseau then
\* or in a later one.
Claimed(e, c) ==
    /\ c.at \in seen
    /\ \E a \in FindAgByEmail(Databases[c.at], e) :
        /\ a.itv = c.itvCdn
        /\ \E w \in seen :
            /\ c.at <= w
            /\ FindOrionRoles(Databases[w], a.pr) \cap VERSEAU_AUTHORIZED_ROLES # {}
            /\ c.isExpertNational => EXPERT_NATIONAL_VERSEAU \in FindOrionRoles(Databases[w], a.pr)

SessionEvidence ==
    /\ DOMAIN agent = Sessions /\ DOMAIN claims = Sessions
    /\ \A e \in Sessions : AgentOf(e) /\ (claims[e] # Null => Claimed(e, claims[e]))
    /\ ConsultationRights

LEMMA SessionEvidenceInit == Init => SessionEvidence
BY DEF Init, AccesInit, SessionEvidence, AgentOf, ConsultationRights, Nothing

LEMMA ClaimedKept == ASSUME NEW e, NEW c, Claimed(e, c), Grows PROVE Claimed(e, c)'
BY DEF Claimed, Grows

LEMMA HadRoleOfKept == ASSUME NEW e, NEW roles, HadRoleOf(e, roles), Grows PROVE HadRoleOf(e, roles)'
BY DEF HadRoleOf, Grows

LEMMA WasAgentKept == ASSUME NEW e, NEW itv, WasAgent(e, itv), Grows PROVE WasAgent(e, itv)'
BY DEF WasAgent, Grows

\* What the claims of a session entitle its user to.
LEMMA ClaimsGive ==
    ASSUME NEW e, NEW c, Claimed(e, c), Snapshots
    PROVE  /\ HadRoleOf(e, VERSEAU_AUTHORIZED_ROLES)
           /\ WasAgent(e, c.itvCdn)
           /\ c.isExpertNational => HadRoleOf(e, {EXPERT_NATIONAL_VERSEAU})
<1>1. PICK a \in FindAgByEmail(Databases[c.at], e) :
        /\ a.itv = c.itvCdn
        /\ \E w \in seen :
            /\ c.at <= w
            /\ FindOrionRoles(Databases[w], a.pr) \cap VERSEAU_AUTHORIZED_ROLES # {}
            /\ c.isExpertNational => EXPERT_NATIONAL_VERSEAU \in FindOrionRoles(Databases[w], a.pr)
  BY DEF Claimed
<1>2. PICK w \in seen :
            /\ c.at <= w
            /\ FindOrionRoles(Databases[w], a.pr) \cap VERSEAU_AUTHORIZED_ROLES # {}
            /\ c.isExpertNational => EXPERT_NATIONAL_VERSEAU \in FindOrionRoles(Databases[w], a.pr)
  BY <1>1
<1>3. c.at \in seen BY DEF Claimed
<1>4. HadRoleOf(e, VERSEAU_AUTHORIZED_ROLES) BY <1>1, <1>2, <1>3 DEF HadRoleOf
<1>5. c.isExpertNational => HadRoleOf(e, {EXPERT_NATIONAL_VERSEAU}) BY <1>1, <1>2, <1>3 DEF HadRoleOf
<1>6. WasAgent(e, c.itvCdn) BY <1>1, <1>3 DEF WasAgent
<1> QED BY <1>4, <1>5, <1>6

\* A guard says yes to the intervenant of the deposit, or to an expert of the whole country.
LEMMA GuardsSayYes ==
    ASSUME NEW c, NEW d
    PROVE  /\ ForFiles(c, d) = "yes" => c # Null /\ d # Null /\ c.itvCdn = d
           /\ IsAdmin(c) = "yes" => c # Null /\ c.isExpertNational
           /\ ForControle(c, d) = "yes" => ForFiles(c, d) = "yes" \/ IsAdmin(c) = "yes"
<1>1. ForFiles(c, d) = "yes" => c # Null /\ d # Null /\ c.itvCdn = d
  BY DEF ForFiles, HasUserAccessToDepot, CanConsultDepot
<1>2. IsAdmin(c) = "yes" => c # Null /\ c.isExpertNational BY DEF IsAdmin
<1>3. ASSUME NEW o, NEW p, OrGuard(<<o, p>>) = "yes" PROVE o = "yes" \/ p = "yes"
  <2> DEFINE thrown == {i \in 1 .. 2 : <<o, p>>[i] # "no"}
  <2>1. OrGuard(<<o, p>>) = IF \E i \in thrown : <<o, p>>[i] = "yes" THEN "yes"
                            ELSE IF thrown = {} THEN "no" ELSE <<o, p>>[Max(thrown)]
    BY DEF OrGuard
  <2>2. ASSUME thrown # {} PROVE Max(thrown) \in thrown
    <3>1. \E x \in thrown : \A y \in thrown : x >= y
      <4>1. CASE 2 \in thrown BY <4>1
      <4>2. CASE 2 \notin thrown BY <2>2, <4>2
      <4> QED BY <4>1, <4>2
    <3> HIDE DEF thrown
    <3> QED BY <3>1 DEF Max
  <2>3. (\E i \in thrown : <<o, p>>[i] = "yes") \/ (thrown # {} /\ <<o, p>>[Max(thrown)] = "yes")
    <3> HIDE DEF thrown
    <3> QED BY <1>3, <2>1
  <2>4. \E i \in thrown : <<o, p>>[i] = "yes"
    <3> HIDE DEF thrown
    <3> QED BY <2>2, <2>3
  <2> QED BY <2>4
<1>4. ForControle(c, d) = "yes" => ForFiles(c, d) = "yes" \/ IsAdmin(c) = "yes"
  BY <1>3 DEF ForControle, ForFiles
<1> QED BY <1>1, <1>2, <1>4

\* An answer that a guard let through is explained by the session it came from.
LEMMA AnswerExplained ==
    ASSUME Snapshots, NEW e \in Sessions, NEW what, NEW outcome, Claimed(e, claims[e]), Answered(e, what, outcome),
           outcome = "yes" /\ what # "list" =>
               \/ what # "admin" /\ ForFiles(claims[e], depot) = "yes"
               \/ what \in {"controle", "admin"} /\ IsAdmin(claims[e]) = "yes",
           Grows, depot' = depot
    PROVE  ConsultationRights'
<1>1. last' = [by |-> e, what |-> what, outcome |-> outcome,
               fresh |-> claims[e].at = live, opens |-> ForFiles(claims[e], depot) = "yes"]
  BY DEF Answered
<1>2. last'.by = e /\ last'.what = what /\ last'.outcome = outcome BY <1>1
<1>3. SUFFICES ASSUME what # "list", outcome = "yes"
               PROVE  /\ HadRoleOf(e, VERSEAU_AUTHORIZED_ROLES)
                      /\ \/ depot # Null /\ what # "admin" /\ WasAgent(e, depot)
                         \/ what \in {"controle", "admin"} /\ HadRoleOf(e, {EXPERT_NATIONAL_VERSEAU})
  BY <1>2, HadRoleOfKept, WasAgentKept DEF ConsultationRights
<1>4. HadRoleOf(e, VERSEAU_AUTHORIZED_ROLES) BY ClaimsGive
<1>5. CASE what # "admin" /\ ForFiles(claims[e], depot) = "yes"
  <2>1. depot # Null /\ claims[e].itvCdn = depot BY <1>5, GuardsSayYes
  <2>2. WasAgent(e, claims[e].itvCdn) BY ClaimsGive
  <2> QED BY <1>4, <1>5, <2>1, <2>2
<1>6. CASE what \in {"controle", "admin"} /\ IsAdmin(claims[e]) = "yes"
  <2>1. claims[e].isExpertNational BY <1>6, GuardsSayYes
  <2> QED BY <1>4, <1>6, <2>1, ClaimsGive
<1> QED BY <1>3, <1>5, <1>6

LEMMA SessionEvidenceKept == ASSUME SessionEvidence, Grows, UNCHANGED accesVars PROVE SessionEvidence'
<1>0. UNCHANGED <<claims, agent, depot, last>> BY DEF accesVars
<1>1. ASSUME NEW e \in Sessions PROVE (AgentOf(e) /\ (claims[e] # Null => Claimed(e, claims[e])))'
  <2>1. AgentOf(e) /\ (claims[e] # Null => Claimed(e, claims[e])) BY DEF SessionEvidence
  <2>2. AgentOf(e)' BY <1>0, <2>1 DEF AgentOf, Grows
  <2>3. ASSUME claims[e] # Null PROVE Claimed(e, claims[e])'
    <3>1. Claimed(e, claims[e]) BY <2>1, <2>3
    <3> QED BY <1>0, <3>1 DEF Claimed, Grows
  <2> QED BY <1>0, <2>2, <2>3
<1>2. ConsultationRights'
  <2>1. ConsultationRights BY DEF SessionEvidence
  <2>2. \A e, roles : HadRoleOf(e, roles) => HadRoleOf(e, roles)' BY HadRoleOfKept
  <2>3. \A e, itv : WasAgent(e, itv) => WasAgent(e, itv)' BY WasAgentKept
  <2> QED BY <1>0, <2>1, <2>2, <2>3 DEF ConsultationRights
<1> QED BY <1>0, <1>1, <1>2 DEF SessionEvidence

LEMMA SessionEvidenceStep ==
    ASSUME Snapshots, SessionEvidence, AccesNext, UNCHANGED v1Vars, Grows PROVE SessionEvidence'
<1>0. /\ live' = live /\ seen' = seen /\ live \in seen
      /\ DOMAIN agent = Sessions /\ DOMAIN claims = Sessions
  BY DEF v1Vars, Snapshots, SessionEvidence
<1> DEFINE Of(e) == AgentOf(e) /\ (claims[e] # Null => Claimed(e, claims[e]))
\* Users whose claims and agent do not change.
<1>1. ASSUME NEW e \in Sessions, claims'[e] = claims[e], agent'[e] = agent[e] PROVE Of(e)'
  <2>1. Of(e) BY DEF SessionEvidence
  <2>2. AgentOf(e)' BY <1>0, <1>1, <2>1 DEF AgentOf
  <2>3. ASSUME claims[e] # Null PROVE Claimed(e, claims[e])'
    <3>1. Claimed(e, claims[e]) BY <2>1, <2>3
    <3> QED BY <1>0, <1>1, <3>1 DEF Claimed
  <2> QED BY <1>1, <2>2, <2>3 DEF Claimed
<1>2. ASSUME UNCHANGED last PROVE ConsultationRights'
  <2>1. ConsultationRights BY DEF SessionEvidence
  <2>2. \A e, roles : HadRoleOf(e, roles) => HadRoleOf(e, roles)' BY HadRoleOfKept
  <2>3. \A e, itv : WasAgent(e, itv) => WasAgent(e, itv)' BY WasAgentKept
  <2>4. UNCHANGED depot \/ depot = Null BY DEF AccesNext, FindAccess, ResolveVerseauAccess, SessionEnds,
             InitializeUpload, ListMyDepots, GetControle, AdminDepot, DownloadFile
  <2> QED BY <1>2, <2>1, <2>2, <2>3, <2>4 DEF ConsultationRights
<1>3. ASSUME UNCHANGED <<claims, agent>>, ConsultationRights' PROVE SessionEvidence'
  <2>1. \A e \in Sessions : Of(e)' BY <1>1, <1>3
  <2> QED BY <1>0, <1>3, <2>1 DEF SessionEvidence
<1>4. ASSUME NEW e \in Sessions, Of(e)', DOMAIN claims' = Sessions, DOMAIN agent' = Sessions, UNCHANGED last,
             \A f \in Sessions \ {e} : claims'[f] = claims[f] /\ agent'[f] = agent[f]
      PROVE  SessionEvidence'
  <2>1. \A f \in Sessions : Of(f)' BY <1>1, <1>4
  <2> QED BY <1>2, <1>4, <2>1 DEF SessionEvidence
<1>5. PICK e \in Sessions :
        \/ FindAccess(e) \/ ResolveVerseauAccess(e) \/ SessionEnds(e)
        \/ InitializeUpload(e) \/ ListMyDepots(e) \/ GetControle(e) \/ AdminDepot(e)
        \/ \E what \in {"rapport", "xml"} : DownloadFile(e, what)
  BY DEF AccesNext
<1>6. Of(e) BY DEF SessionEvidence
<1>7. CASE FindAccess(e)
  <2>1. PICK a \in FindAgByEmail(Db, e) : agent' = [agent EXCEPT ![e] = [ag |-> a, at |-> live]]
    BY <1>7 DEF FindAccess
  <2>2. UNCHANGED <<claims, last>> BY <1>7 DEF FindAccess
  <2>3. agent'[e] = [ag |-> a, at |-> live] BY <1>0, <2>1
  <2>4. AgentOf(e)' BY <1>0, <2>1, <2>3 DEF AgentOf, Db
  <2>5. ASSUME claims[e] # Null PROVE Claimed(e, claims[e])'
    <3>1. Claimed(e, claims[e]) BY <1>6, <2>5
    <3> QED BY <1>0, <2>2, <3>1 DEF Claimed
  <2>6. Of(e)' BY <2>2, <2>4, <2>5 DEF Claimed
  <2> QED BY <1>0, <1>4, <2>1, <2>2, <2>6
<1>8. CASE ResolveVerseauAccess(e)
  <2> DEFINE roles == FindOrionRoles(Db, agent[e].ag.pr)
             new == [itvCdn |-> agent[e].ag.itv, at |-> agent[e].at,
                     isExpertNational |-> EXPERT_NATIONAL_VERSEAU \in roles]
  <2>1. /\ agent[e] # Null /\ agent' = [agent EXCEPT ![e] = Null] /\ UNCHANGED last
        /\ IF roles \cap VERSEAU_AUTHORIZED_ROLES = {} THEN claims' = claims ELSE claims' = [claims EXCEPT ![e] = new]
    BY <1>8 DEF ResolveVerseauAccess
  <2>2. agent[e].at \in seen /\ agent[e].ag \in FindAgByEmail(Databases[agent[e].at], e)
    BY <1>6, <2>1 DEF AgentOf
  <2>3. AgentOf(e)' BY <1>0, <2>1 DEF AgentOf
  <2>4. CASE roles \cap VERSEAU_AUTHORIZED_ROLES = {}
    <3>1. ASSUME claims[e] # Null PROVE Claimed(e, claims[e])'
      <4>1. Claimed(e, claims[e]) BY <1>6, <3>1
      <4> QED BY <1>0, <2>1, <2>4, <4>1 DEF Claimed
    <3>2. Of(e)' BY <2>1, <2>3, <2>4, <3>1 DEF Claimed
    <3> QED BY <1>0, <1>4, <2>1, <2>4, <3>2
  <2>5. CASE roles \cap VERSEAU_AUTHORIZED_ROLES # {}
    <3>1. claims' = [claims EXCEPT ![e] = new] BY <2>1, <2>5
    <3>2. Claimed(e, new)
      <4>1. agent[e].at <= live BY <2>2 DEF Snapshots
      <4>2. new.itvCdn = agent[e].ag.itv /\ new.at = agent[e].at
            /\ (new.isExpertNational <=> EXPERT_NATIONAL_VERSEAU \in roles)
        OBVIOUS
      <4> HIDE DEF new
      <4> QED BY <1>0, <2>2, <2>5, <4>1, <4>2 DEF Claimed, Db
    <3>3. claims'[e] = new BY <1>0, <3>1
    <3> HIDE DEF new
    <3>4. Of(e)' BY <1>0, <2>3, <3>2, <3>3 DEF Claimed
    <3> QED BY <1>0, <1>4, <2>1, <3>1, <3>4
  <2> QED BY <2>4, <2>5
<1>9. CASE SessionEnds(e)
  <2>1. claims' = [claims EXCEPT ![e] = Null] /\ UNCHANGED <<agent, last>> BY <1>9 DEF SessionEnds
  <2>2. Of(e)' BY <1>0, <1>6, <2>1 DEF AgentOf
  <2> QED BY <1>0, <1>4, <2>1, <2>2
<1>10. CASE InitializeUpload(e) BY <1>2, <1>3, <1>10 DEF InitializeUpload
<1>11. CASE ListMyDepots(e)
  <2>1. PICK itv \in ResolveItvCdn(e) : Answered(e, "list", IF CanConsultDepot(itv, depot) THEN "yes" ELSE "no")
    BY <1>11 DEF ListMyDepots
  <2>2. last'.what = "list" BY <2>1 DEF Answered
  <2> QED BY <1>3, <1>11, <2>2 DEF ListMyDepots, ConsultationRights
<1>12. CASE GetControle(e)
  <2>1. claims[e] # Null /\ Answered(e, "controle", ForControle(claims[e], depot)) /\ UNCHANGED <<claims, agent, depot>>
    BY <1>12 DEF GetControle
  <2>2. ForControle(claims[e], depot) = "yes" => ForFiles(claims[e], depot) = "yes" \/ IsAdmin(claims[e]) = "yes"
    BY GuardsSayYes
  <2>3. ConsultationRights' BY <1>6, <2>1, <2>2, AnswerExplained
  <2> QED BY <1>3, <2>1, <2>3
<1>13. CASE AdminDepot(e)
  <2> DEFINE outcome == IF IsAdmin(claims[e]) = "yes" /\ depot = Null THEN "notFound" ELSE IsAdmin(claims[e])
  <2>1. claims[e] # Null /\ Answered(e, "admin", outcome) /\ UNCHANGED <<claims, agent, depot>>
    BY <1>13 DEF AdminDepot
  <2>2. outcome = "yes" => IsAdmin(claims[e]) = "yes" OBVIOUS
  <2> HIDE DEF outcome
  <2>3. ConsultationRights' BY <1>6, <2>1, <2>2, AnswerExplained
  <2> QED BY <1>3, <2>1, <2>3
<1>14. ASSUME NEW what \in {"rapport", "xml"}, DownloadFile(e, what) PROVE SessionEvidence'
  <2>1. claims[e] # Null /\ Answered(e, what, ForFiles(claims[e], depot)) /\ UNCHANGED <<claims, agent, depot>>
    BY <1>14 DEF DownloadFile
  <2>2. ConsultationRights' BY <1>6, <2>1, AnswerExplained
  <2> QED BY <1>3, <2>1, <2>2
<1> QED BY <1>5, <1>7, <1>8, <1>9, <1>10, <1>11, <1>12, <1>13, <1>14

----------------------------------------------------------------------------
(* What a user finds in his list *)

\* In no snapshot two agents of one address work for two intervenants.
OneIntervenant ==
    \A v \in 1 .. Len(References), e \in Sessions : \A a, b \in FindAgByEmail(Databases[v], e) : a.itv = b.itv

\* The list and the guard agree when the claims are of the snapshot that is live.
LEMMA ListedOpensStep ==
    ASSUME OneIntervenant, Snapshots, SessionEvidence, ListedOpens, AccesNext PROVE ListedOpens'
<1>1. PICK e \in Sessions :
        \/ FindAccess(e) \/ ResolveVerseauAccess(e) \/ SessionEnds(e)
        \/ InitializeUpload(e) \/ ListMyDepots(e) \/ GetControle(e) \/ AdminDepot(e)
        \/ \E what \in {"rapport", "xml"} : DownloadFile(e, what)
  BY DEF AccesNext
<1>2. CASE UNCHANGED last BY <1>2 DEF ListedOpens
<1>3. ASSUME NEW what, NEW outcome, Answered(e, what, outcome), what # "list" PROVE ListedOpens'
  <2>1. last'.what = what BY <1>3 DEF Answered
  <2> QED BY <1>3, <2>1 DEF ListedOpens
<1>4. CASE ListMyDepots(e)
  <2>1. PICK itv \in ResolveItvCdn(e) : Answered(e, "list", IF CanConsultDepot(itv, depot) THEN "yes" ELSE "no")
    BY <1>4 DEF ListMyDepots
  <2>2. claims[e] # Null BY <1>4 DEF ListMyDepots, Me
  <2>3. /\ last'.outcome = (IF CanConsultDepot(itv, depot) THEN "yes" ELSE "no")
        /\ last'.fresh <=> claims[e].at = live
        /\ last'.opens <=> ForFiles(claims[e], depot) = "yes"
    BY <2>1 DEF Answered
  <2>4. SUFFICES ASSUME CanConsultDepot(itv, depot), claims[e].at = live PROVE ForFiles(claims[e], depot) = "yes"
    BY <2>3 DEF ListedOpens
  <2>5. itv # Null /\ itv = depot BY <2>4 DEF CanConsultDepot
  <2>6. PICK a \in FindAgByEmail(Db, e) : itv = a.itv BY <2>1, <2>5 DEF ResolveItvCdn
  <2>7. PICK b \in FindAgByEmail(Databases[claims[e].at], e) : b.itv = claims[e].itvCdn
    BY <2>2 DEF SessionEvidence, Claimed
  <2>8. live \in 1 .. Len(References) BY DEF Snapshots
  <2>9. claims[e].itvCdn = itv BY <2>4, <2>6, <2>7, <2>8 DEF OneIntervenant, Db
  <2> QED BY <2>2, <2>5, <2>9 DEF ForFiles, HasUserAccessToDepot, CanConsultDepot
<1>5. CASE GetControle(e) BY <1>3, <1>5 DEF GetControle
<1>6. CASE AdminDepot(e) BY <1>3, <1>6 DEF AdminDepot
<1>7. ASSUME NEW what \in {"rapport", "xml"}, DownloadFile(e, what) PROVE ListedOpens'
  BY <1>3, <1>7 DEF DownloadFile
<1>8. CASE FindAccess(e) \/ ResolveVerseauAccess(e) \/ SessionEnds(e) \/ InitializeUpload(e)
  BY <1>2, <1>8 DEF FindAccess, ResolveVerseauAccess, SessionEnds, InitializeUpload
<1> QED BY <1>1, <1>4, <1>5, <1>6, <1>7, <1>8

----------------------------------------------------------------------------
(* Theorems on the rights *)

\* The inductive invariant: the snapshots, and the evidence behind each query and session.
RightsInv == Snapshots /\ DroitsEvidence /\ SessionEvidence

LEMMA RightsInvInit == Init => RightsInv
BY SnapshotsInit, DroitsEvidenceInit, SessionEvidenceInit DEF RightsInv

LEMMA RightsInvStep == RightsInv /\ [Next]_vars => RightsInv'
<1> SUFFICES ASSUME RightsInv, [Next]_vars PROVE RightsInv' OBVIOUS
<1>0. Snapshots /\ DroitsEvidence /\ SessionEvidence BY DEF RightsInv
<1>1. Snapshots' BY <1>0, SnapshotsStep
<1>2. Grows BY StepOfTheRights
<1>3. CASE ValidateDroits /\ UNCHANGED <<v1Vars, accesVars>>
  <2>1. DroitsEvidence' BY <1>0, <1>2, <1>3, DroitsEvidenceStep
  <2>2. SessionEvidence' BY <1>0, <1>2, <1>3, SessionEvidenceKept
  <2> QED BY <1>1, <2>1, <2>2 DEF RightsInv
<1>4. CASE UNCHANGED droitsVars /\ UNCHANGED accesVars
  <2>1. DroitsEvidence' BY <1>0, <1>2, <1>4, DroitsEvidenceKept
  <2>2. SessionEvidence' BY <1>0, <1>2, <1>4, SessionEvidenceKept
  <2> QED BY <1>1, <2>1, <2>2 DEF RightsInv
<1>5. CASE AccesNext /\ UNCHANGED v1Vars /\ UNCHANGED droitsVars
  <2>1. DroitsEvidence' BY <1>0, <1>2, <1>5, DroitsEvidenceKept
  <2>2. SessionEvidence' BY <1>0, <1>2, <1>5, SessionEvidenceStep
  <2> QED BY <1>1, <2>1, <2>2 DEF RightsInv
<1> QED BY <1>3, <1>4, <1>5, StepOfTheRights

LEMMA RightsInvariant == Spec => []RightsInv
<1> QED BY RightsInvInit, RightsInvStep, PTL DEF Spec

LEMMA ListedInit == Init => ListedOpens
BY DEF Init, AccesInit, Nothing, ListedOpens

LEMMA ListedStep ==
    ASSUME OneIntervenant PROVE RightsInv /\ ListedOpens /\ [Next]_vars => ListedOpens'
<1> SUFFICES ASSUME RightsInv, ListedOpens, [Next]_vars PROVE ListedOpens' OBVIOUS
<1>1. CASE UNCHANGED accesVars BY <1>1 DEF accesVars, ListedOpens
<1>2. CASE AccesNext BY <1>2, ListedOpensStep DEF RightsInv
<1> QED BY <1>1, <1>2, StepOfTheRights

\* Whatever the restore replaces between two queries, and whichever query fails, only an
\* expert of the country or a depositor whose intervenant answers for every code of the file
\* sends it (droitsDepot.service.ts:21-125), and only who had a right in a snapshot of his
\* session reads a deposit (hasUserAccessToDepot.guard.ts:36-47).
THEOREM DepositRights == Spec => [](DepotRightsExplained /\ ConsultationRights)
<1>1. RightsInv => DepotRightsExplained /\ ConsultationRights
  BY DEF RightsInv, DroitsEvidence, SessionEvidence
<1> QED BY <1>1, RightsInvariant, PTL

\* And what is in the list of a user he can open, when no address belongs to agents of two
\* intervenants: of several, any may be the one that is found (droitsUser.service.ts:22-42).
THEOREM RightsCorrect == ASSUME OneIntervenant PROVE Spec => []RightsExplained
<1>1. RightsInv /\ ListedOpens => RightsExplained
  BY DEF RightsInv, DroitsEvidence, SessionEvidence, RightsExplained
<1>2. RightsInv /\ ListedOpens /\ [Next]_vars => ListedOpens' BY ListedStep
<1> QED BY <1>1, <1>2, ListedInit, RightsInvariant, PTL DEF Spec

----------------------------------------------------------------------------
(* The verdict of the controls V1 *)

\* Each control looks codes up in one table.
TableOf(ctl) ==
    CASE ctl = "CTL006" -> "sup" [] ctl = "CTL007" -> "LREF_43" [] ctl = "CTL008" -> "LREF_20"
      [] ctl = "CTL009" -> "LREF_18" [] ctl = "CTL010" -> "fan" [] ctl = "CTL011" -> "LREF_45"
      [] ctl = "CTL012" -> "par" [] ctl = "CTL013" -> "urf" [] ctl = "CTL014" -> "itv"
      [] ctl = "CTL015" -> "LREF_17" [] ctl = "CTL016" -> "LREF_44" [] ctl = "CTL017" -> "LREF_61"
      [] ctl = "CTL018" -> "LREF_15" [] ctl = "CTL019" -> "steu" [] ctl = "CTL020" -> "LREF_46"
      [] ctl = "CTL021" -> "LREF_21" [] ctl = "CTL022" -> "scl" [] ctl = "CTL024" -> "LREF_01"
      [] ctl = "CTL025" -> "LREF_09" [] ctl = "CTL026" -> "itv" [] ctl = "CTL035" -> "LREF_92"
      [] ctl = "CTL036" -> "LREF_44" [] OTHER -> "none"

LEMMA LookupsByTable ==
    ASSUME NEW f, NEW l \in Lookups(f)
    PROVE  l.table = TableOf(l.ctl) /\ l.ctl \notin {"CTL002", "CTL004", "CTL005", "CTL023"}
<1>1. ASSUME NEW ctl, NEW table, NEW values, l \in Ask(ctl, table, values) PROVE l.ctl = ctl /\ l.table = table
  BY <1>1 DEF Ask
<1>2. CASE l \in VerifySup(f) \cup VerifyLieu(f) \cup VerifyStatut(f) \cup VerifyQual(f) \cup VerifyFan(f)
  BY <1>1, <1>2 DEF VerifySup, VerifyLieu, VerifyStatut, VerifyQual, VerifyFan, AskAnalyses, TableOf
<1>3. CASE l \in VerifyMethode(f) \cup VerifyParametre(f) \cup VerifyUnite(f) \cup VerifyIntervenant(f)
  BY <1>1, <1>3 DEF VerifyMethode, VerifyParametre, VerifyUnite, VerifyIntervenant, AskAnalyses, TableOf
<1>4. CASE l \in VerifyFinalite(f) \cup VerifyAccreAnalyse(f) \cup VerifyPeriode(f)
  BY <1>1, <1>4 DEF VerifyFinalite, VerifyAccreAnalyse, VerifyPeriode, AskAnalyses, TableOf
<1>5. CASE l \in VerifyTypeAval(f) \cup VerifyOuvrageAval(f) \cup VerifyTypeEvenement(f)
  BY <1>1, <1>5 DEF VerifyTypeAval, VerifyOuvrageAval, VerifyTypeEvenement, TableOf
<1>6. CASE l \in VerifyRemarque(f) \cup VerifyScl(f) \cup VerifyTypeOuvrage(f) \cup VerifyNature(f)
  BY <1>1, <1>6 DEF VerifyRemarque, VerifyScl, VerifyTypeOuvrage, VerifyNature, AskAnalyses, TableOf
<1>7. CASE l \in VerifyEmetteur(f) \cup VerifyConformite(f) \cup VerifyAccreditation(f)
  BY <1>1, <1>7 DEF VerifyEmetteur, VerifyConformite, VerifyAccreditation, TableOf
<1> QED BY <1>2, <1>3, <1>4, <1>5, <1>6, <1>7 DEF Lookups

\* What a row of one snapshot says of it: by one control, one thing.
LEMMA WrongLookup ==
    ASSUME NEW r, NEW l \in Lookups(file), Row(l.ctl, l.code) \in Wrong(r) PROVE ~Known(r, l.table, l.code)
<1>1. l.ctl \notin {"CTL002", "CTL005", "CTL023"} /\ l.table = TableOf(l.ctl) BY LookupsByTable
<1>2. PICK m \in Lookups(file) : ~Known(r, m.table, m.code) /\ Row(m.ctl, m.code) = Row(l.ctl, l.code)
  BY <1>1 DEF Wrong, Row
<1>3. m.ctl = l.ctl /\ m.code = l.code BY <1>2 DEF Row
<1>4. m.table = l.table BY <1>1, <1>3, LookupsByTable
<1> QED BY <1>2, <1>3, <1>4

LEMMA WrongBatch ==
    ASSUME NEW r, NEW x
    PROVE  /\ Row("CTL002", x) \in Wrong(r) => x \in CdOuvrages(file) \ DOMAIN r.steu
           /\ Row("CTL005", x) \in Wrong(r) => x \in PmoQueries(file) \ r.pmo
           /\ Row("CTL023", x) \in Wrong(r) => x \in SclLinks(file) \ r.aga
<1>1. \A l \in Lookups(file) : l.ctl \notin {"CTL002", "CTL005", "CTL023"} BY LookupsByTable
<1>2. Row("CTL002", x) \in Wrong(r) => x \in CdOuvrages(file) \ DOMAIN r.steu BY <1>1 DEF Wrong, Row
<1>3. Row("CTL005", x) \in Wrong(r) => x \in PmoQueries(file) \ r.pmo BY <1>1 DEF Wrong, Row
<1>4. Row("CTL023", x) \in Wrong(r) => x \in SclLinks(file) \ r.aga BY <1>1 DEF Wrong, Row
<1> QED BY <1>2, <1>3, <1>4

\* The parser gives no plant an operator, so the batch of the operators is empty.
LEMMA NoOperator == ASSUME NEW d PROVE ExpPairs(Parse(d)) = {}
<1>1. ASSUME NEW o \in Range(Parse(d).ouvrages) PROVE o.exploitant = Absent
  BY <1>1 DEF Parse, Liste, MapOuvrage, Range
<1> QED BY <1>1 DEF ExpPairs

----------------------------------------------------------------------------
(* The run *)

SteusRead == \E v \in seen : batch["steus"] = Restricted(References[v].steu, CdOuvrages(file))
PmosRead == \E v \in seen : batch["pmos"] = References[v].pmo \cap PmoQueries(file)
SclsRead == \E v \in seen : batch["scls"] = References[v].aga \cap SclLinks(file)

\* What is not among the errors was found in a snapshot.
Found_ ==
    /\ \A l \in Lookups(file) \ pending : Row(l.ctl, l.code) \in errors \/ \E v \in seen : Known(References[v], l.table, l.code)
    /\ \A c \in CdOuvrages(file) : Row("CTL002", c) \in errors \/ \E v \in seen : c \in DOMAIN References[v].steu
    /\ \A x \in PmoQueries(file) : Row("CTL005", x) \in errors \/ \E v \in seen : x \in References[v].pmo
    /\ \A x \in SclLinks(file) : Row("CTL023", x) \in errors \/ \E v \in seen : x \in References[v].aga

\* The inductive invariant: what each batch and each lookup read is of a snapshot.
V1Inv ==
    /\ file = Parse(doc)
    /\ phase \in {"load", "links", "lookups", "saved"}
    /\ DOMAIN batch = First \cup Second
    /\ phase \in {"load", "links"} => pending = {}
    /\ phase # "load" \/ "steus" \notin toLoad => SteusRead
    /\ phase = "links" /\ "pmos" \notin toLoad => PmosRead
    /\ phase = "links" /\ "scls" \notin toLoad => SclsRead
    /\ phase \in {"lookups", "saved"} => pending \subseteq Lookups(file) /\ ErrorsOfASnapshot /\ Found_
    /\ phase = "saved" => pending = {}

LEMMA V1InvInit == ASSUME NEW d, V1InitFor(d) PROVE V1Inv
<1> USE DEF V1InitFor, First, Second
<1>1. DOMAIN batch = First \cup Second OBVIOUS
<1> QED BY <1>1 DEF V1Inv

\* The errors on the batches are those of the snapshots the batches read.
LEMMA BatchErrorsOfASnapshot ==
    ASSUME V1Inv, SteusRead, PmosRead, SclsRead
    PROVE  BatchErrors(file) \subseteq UNION {Wrong(References[v]) : v \in seen}
<1>1. PICK a \in seen : batch["steus"] = Restricted(References[a].steu, CdOuvrages(file)) BY DEF SteusRead
<1>2. PICK b \in seen : batch["pmos"] = References[b].pmo \cap PmoQueries(file) BY DEF PmosRead
<1>3. PICK c \in seen : batch["scls"] = References[c].aga \cap SclLinks(file) BY DEF SclsRead
<1>4. DOMAIN batch["steus"] = DOMAIN References[a].steu \cap CdOuvrages(file) BY <1>1 DEF Restricted
<1>5. ASSUME NEW x \in CdOuvrages(file) \ DOMAIN batch["steus"] PROVE Row("CTL002", x) \in Wrong(References[a])
  BY <1>4, <1>5 DEF Wrong
<1>6. ASSUME NEW x \in PmoQueries(file) \ batch["pmos"] PROVE Row("CTL005", x) \in Wrong(References[b])
  BY <1>2, <1>6 DEF Wrong
<1>7. ASSUME NEW x \in SclLinks(file) \ batch["scls"] PROVE Row("CTL023", x) \in Wrong(References[c])
  BY <1>3, <1>7 DEF Wrong
<1>8. ExpPairs(file) = {} BY NoOperator DEF V1Inv
<1> QED BY <1>5, <1>6, <1>7, <1>8 DEF BatchErrors

LEMMA BatchesFound ==
    ASSUME SteusRead, PmosRead, SclsRead
    PROVE  /\ \A x \in CdOuvrages(file) : Row("CTL002", x) \in BatchErrors(file) \/ \E v \in seen : x \in DOMAIN References[v].steu
           /\ \A x \in PmoQueries(file) : Row("CTL005", x) \in BatchErrors(file) \/ \E v \in seen : x \in References[v].pmo
           /\ \A x \in SclLinks(file) : Row("CTL023", x) \in BatchErrors(file) \/ \E v \in seen : x \in References[v].aga
<1>1. PICK a \in seen : batch["steus"] = Restricted(References[a].steu, CdOuvrages(file)) BY DEF SteusRead
<1>2. PICK b \in seen : batch["pmos"] = References[b].pmo \cap PmoQueries(file) BY DEF PmosRead
<1>3. PICK c \in seen : batch["scls"] = References[c].aga \cap SclLinks(file) BY DEF SclsRead
<1>4. DOMAIN batch["steus"] = DOMAIN References[a].steu \cap CdOuvrages(file) BY <1>1 DEF Restricted
<1>5. ASSUME NEW x \in CdOuvrages(file), x \notin DOMAIN References[a].steu PROVE Row("CTL002", x) \in BatchErrors(file)
  BY <1>4, <1>5 DEF BatchErrors
<1>6. ASSUME NEW x \in PmoQueries(file), x \notin References[b].pmo PROVE Row("CTL005", x) \in BatchErrors(file)
  BY <1>2, <1>6 DEF BatchErrors
<1>7. ASSUME NEW x \in SclLinks(file), x \notin References[c].aga PROVE Row("CTL023", x) \in BatchErrors(file)
  BY <1>3, <1>7 DEF BatchErrors
<1> QED BY <1>5, <1>6, <1>7

LEMMA V1InvStep == ASSUME Snapshots, V1Inv, [V1Next]_v1Vars PROVE V1Inv'
<1> USE DEF First, Second
<1>1. CASE UNCHANGED v1Vars
  BY <1>1 DEF v1Vars, V1Inv, SteusRead, PmosRead, SclsRead, ErrorsOfASnapshot, Found_, Wrong
<1>2. CASE SwapReference
  <2>1. /\ seen \subseteq seen'
        /\ UNCHANGED <<doc, file, toLoad, batch, pending, errors, phase>>
    BY <1>2 DEF SwapReference
  <2>2. SteusRead => SteusRead' BY <2>1 DEF SteusRead
  <2>3. PmosRead => PmosRead' BY <2>1 DEF PmosRead
  <2>4. SclsRead => SclsRead' BY <2>1 DEF SclsRead
  <2>5. Found_ => Found_' BY <2>1 DEF Found_
  <2>6. \A r : Wrong(r)' = Wrong(r) BY <2>1 DEF Wrong
  <2>7. ErrorsOfASnapshot => ErrorsOfASnapshot' BY <2>1, <2>6 DEF ErrorsOfASnapshot
  <2> QED BY <2>1, <2>2, <2>3, <2>4, <2>5, <2>7 DEF V1Inv
<1>3. ASSUME NEW q \in toLoad, Load(q) PROVE V1Inv'
  <2>1. /\ phase \in {"load", "links"} /\ batch' = [batch EXCEPT ![q] = Answer(q)] /\ toLoad' = toLoad \ {q}
        /\ UNCHANGED <<doc, file, live, seen, pending, errors, phase>>
    BY <1>3 DEF Load
  <2>2. DOMAIN batch' = First \cup Second BY <2>1 DEF V1Inv
  <2>3. live \in seen BY DEF Snapshots
  <2>4. phase # "load" \/ "steus" \notin toLoad' => SteusRead'
    <3>1. CASE q = "steus"
      <4>1. batch'["steus"] = Restricted(Ref.steu, CdOuvrages(file)) BY <2>1, <3>1 DEF V1Inv, Answer
      <4> QED BY <2>1, <2>3, <4>1 DEF SteusRead, Ref
    <3>2. CASE q # "steus" BY <2>1, <3>2 DEF V1Inv, SteusRead
    <3> QED BY <3>1, <3>2
  <2>5. phase = "links" /\ "pmos" \notin toLoad' => PmosRead'
    <3>1. CASE q = "pmos"
      <4>1. batch'["pmos"] = Ref.pmo \cap PmoQueries(file) BY <2>1, <3>1 DEF V1Inv, Answer
      <4> QED BY <2>1, <2>3, <4>1 DEF PmosRead, Ref
    <3>2. CASE q # "pmos" BY <2>1, <3>2 DEF V1Inv, PmosRead
    <3> QED BY <3>1, <3>2
  <2>6. phase = "links" /\ "scls" \notin toLoad' => SclsRead'
    <3>1. CASE q = "scls"
      <4>1. batch'["scls"] = Ref.aga \cap SclLinks(file) BY <2>1, <3>1 DEF V1Inv, Answer
      <4> QED BY <2>1, <2>3, <4>1 DEF SclsRead, Ref
    <3>2. CASE q # "scls" BY <2>1, <3>2 DEF V1Inv, SclsRead
    <3> QED BY <3>1, <3>2
  <2> QED BY <2>1, <2>2, <2>4, <2>5, <2>6 DEF V1Inv
<1>4. CASE LoadLinks
  <2>1. /\ phase = "load" /\ toLoad = {} /\ phase' = "links" /\ toLoad' = Second
        /\ UNCHANGED <<doc, file, live, seen, batch, pending, errors>>
    BY <1>4 DEF LoadLinks
  <2>2. SteusRead' BY <2>1 DEF V1Inv, SteusRead
  <2> QED BY <2>1, <2>2 DEF V1Inv
<1>5. CASE StartLookups
  <2>1. /\ phase = "links" /\ toLoad = {} /\ phase' = "lookups"
        /\ pending' = Lookups(file) /\ errors' = BatchErrors(file)
        /\ UNCHANGED <<doc, file, live, seen, toLoad, batch>>
    BY <1>5 DEF StartLookups
  <2>2. SteusRead /\ PmosRead /\ SclsRead BY <2>1 DEF V1Inv
  <2>3. SteusRead' BY <2>1, <2>2 DEF SteusRead
  <2>4. \A r : Wrong(r)' = Wrong(r) BY <2>1 DEF Wrong
  <2>5. ErrorsOfASnapshot' BY <2>1, <2>2, <2>4, BatchErrorsOfASnapshot DEF ErrorsOfASnapshot
  <2>6. Found_'
    <3>1. Lookups(file)' \ pending' = {} BY <2>1
    <3> QED BY <2>1, <2>2, <3>1, BatchesFound DEF Found_
  <2> QED BY <2>1, <2>3, <2>5, <2>6 DEF V1Inv
<1>6. ASSUME NEW l \in pending, Lookup(l) PROVE V1Inv'
  <2>1. /\ pending' = pending \ {l}
        /\ errors' = IF Known(Ref, l.table, l.code) THEN errors ELSE errors \cup {Row(l.ctl, l.code)}
        /\ UNCHANGED <<doc, file, live, seen, toLoad, batch, phase>>
    BY <1>6 DEF Lookup
  <2>2. phase = "lookups" /\ pending \subseteq Lookups(file) /\ ErrorsOfASnapshot /\ Found_ BY DEF V1Inv
  <2>3. live \in seen BY DEF Snapshots
  <2>4. SteusRead' BY <2>1, <2>2 DEF V1Inv, SteusRead
  <2>5. \A r : Wrong(r)' = Wrong(r) BY <2>1 DEF Wrong
  <2>6. ~Known(Ref, l.table, l.code) => Row(l.ctl, l.code) \in Wrong(References[live])
    BY <2>2 DEF Wrong, Ref
  <2>7. ErrorsOfASnapshot' BY <2>1, <2>2, <2>3, <2>5, <2>6 DEF ErrorsOfASnapshot
  <2>8. Found_'
    <3>1. Row(l.ctl, l.code) \in errors' \/ \E v \in seen : Known(References[v], l.table, l.code)
      BY <2>1, <2>3 DEF Ref
    <3>2. errors \subseteq errors' BY <2>1
    <3> QED BY <2>1, <2>2, <3>1, <3>2 DEF Found_
  <2> QED BY <2>1, <2>2, <2>4, <2>7, <2>8 DEF V1Inv
<1>7. CASE Save
  <2>1. /\ phase = "lookups" /\ pending = {} /\ phase' = "saved"
        /\ UNCHANGED <<doc, file, live, seen, toLoad, batch, pending, errors>>
    BY <1>7 DEF Save
  <2>2. SteusRead' BY <2>1 DEF V1Inv, SteusRead
  <2>3. \A r : Wrong(r)' = Wrong(r) BY <2>1 DEF Wrong
  <2>4. ErrorsOfASnapshot' BY <2>1, <2>3 DEF V1Inv, ErrorsOfASnapshot
  <2>5. Found_' BY <2>1 DEF V1Inv, Found_
  <2> QED BY <2>1, <2>2, <2>4, <2>5 DEF V1Inv
<1> QED BY <1>1, <1>2, <1>3, <1>4, <1>5, <1>6, <1>7 DEF V1Next

\* When every code is looked up, an error of every snapshot is among the errors.
LEMMA NothingMissed == ASSUME Snapshots, V1Inv, phase = "saved" PROVE NoErrorMissed
<1>1. pending = {} /\ Found_ BY DEF V1Inv
<1> SUFFICES ASSUME NEW e \in Wrong(References[1]), \A v \in seen : e \in Wrong(References[v]) PROVE e \in errors
  BY DEF NoErrorMissed
<1>2. ASSUME NEW l \in Lookups(file), e = Row(l.ctl, l.code) PROVE e \in errors
  BY <1>1, <1>2, WrongLookup DEF Found_
<1>3. ASSUME NEW c \in CdOuvrages(file), e = Row("CTL002", c) PROVE e \in errors
  BY <1>1, <1>3, WrongBatch DEF Found_
<1>4. ASSUME NEW x \in PmoQueries(file), e = Row("CTL005", x) PROVE e \in errors
  BY <1>1, <1>4, WrongBatch DEF Found_
<1>5. ASSUME NEW x \in SclLinks(file), e = Row("CTL023", x) PROVE e \in errors
  BY <1>1, <1>5, WrongBatch DEF Found_
<1> QED BY <1>2, <1>3, <1>4, <1>5 DEF Wrong

\* The codes that the parser finds in a document are those that a reader finds in its plants.
NomenclatureRead(d) ==
    \A n \in Nomenclature : \A c \in Texts(Range(Named(d, "OuvrageDepollution")), n[1]) :
        (n[2] = "steu" /\ c \in CdOuvrages(Parse(d))) \/ \E l \in Lookups(Parse(d)) : l.table = n[2] /\ l.code = c

\* Of such a document, a clean verdict vouches for every code.
LEMMA CleanVouches == ASSUME V1Inv, phase = "saved", NomenclatureRead(doc) PROVE CleanIsKnown
<1>1. pending = {} /\ Found_ /\ file = Parse(doc) BY DEF V1Inv
<1> SUFFICES ASSUME errors = {}, NEW n \in Nomenclature,
                    NEW c \in Texts(Range(Named(doc, "OuvrageDepollution")), n[1])
             PROVE  \E v \in seen : Known(References[v], n[2], c)
  BY DEF CleanIsKnown
<1>2. CASE n[2] = "steu" /\ c \in CdOuvrages(file)
  <2>1. PICK v \in seen : c \in DOMAIN References[v].steu BY <1>1, <1>2 DEF Found_
  <2> QED BY <1>2, <2>1 DEF Known
<1>3. ASSUME NEW l \in Lookups(file), l.table = n[2], l.code = c PROVE \E v \in seen : Known(References[v], n[2], c)
  BY <1>1, <1>3 DEF Found_
<1> QED BY <1>1, <1>2, <1>3 DEF NomenclatureRead

----------------------------------------------------------------------------
(* Theorems on the verdict *)

\* Only a file of the deposits is controlled.
Controlled == (part # "rules" => doc \in Docs) /\ (part = "rules" => phase = "load" /\ toLoad = First)

VerdictInv == Snapshots /\ V1Inv /\ Controlled

LEMMA ControlsStep == [Next]_vars => [V1Next]_v1Vars /\ part' = part /\ (part = "rules" => UNCHANGED v1Vars)
<1> SUFFICES ASSUME [Next]_vars
             PROVE  [V1Next]_v1Vars /\ part' = part /\ (part = "rules" => UNCHANGED v1Vars)
  OBVIOUS
<1>1. CASE DroitsStep \/ DroitsSwap BY <1>1 DEF DroitsStep, DroitsSwap, V1Next, ValidateDroits
<1>2. CASE Controls BY <1>2 DEF Controls
<1>3. CASE Perimeter BY <1>3 DEF Perimeter
<1>4. CASE Dashboards BY <1>4 DEF Dashboards
<1>5. CASE Pages_ BY <1>5 DEF Pages_
<1>6. CASE Access \/ AccessSwap BY <1>6 DEF Access, AccessSwap, V1Next
<1>7. CASE UNCHANGED vars BY <1>7 DEF vars
<1> QED BY <1>1, <1>2, <1>3, <1>4, <1>5, <1>6, <1>7 DEF Next

LEMMA VerdictInvInit == Init => VerdictInv
<1> SUFFICES ASSUME Init PROVE VerdictInv OBVIOUS
<1>1. V1InitFor(doc) BY DEF Init
<1>2. V1Inv BY <1>1, V1InvInit
<1>3. Controlled BY <1>1 DEF Init, Controlled, V1InitFor
<1> QED BY <1>2, <1>3, SnapshotsInit DEF VerdictInv

LEMMA VerdictInvStep == VerdictInv /\ [Next]_vars => VerdictInv'
<1> SUFFICES ASSUME VerdictInv, [Next]_vars PROVE VerdictInv' OBVIOUS
<1>1. Snapshots' BY SnapshotsStep DEF VerdictInv
<1>2. [V1Next]_v1Vars /\ part' = part /\ (part = "rules" => UNCHANGED v1Vars) BY ControlsStep
<1>3. V1Inv' BY <1>2, V1InvStep DEF VerdictInv
<1>4. doc' = doc BY <1>2, V1Grows DEF v1Vars
<1>5. Controlled' BY <1>2, <1>4 DEF VerdictInv, Controlled, v1Vars
<1> QED BY <1>1, <1>3, <1>5 DEF VerdictInv

LEMMA VerdictInvariant == Spec => []VerdictInv
<1> QED BY VerdictInvInit, VerdictInvStep, PTL DEF Spec

\* Whatever the restore swaps in the middle of a run, an error row is one a snapshot gives,
\* and an error that all of them give is a row (controlev1.service.ts).
THEOREM ErrorsOfSnapshots == Spec => [](phase = "saved" => ErrorsOfASnapshot /\ NoErrorMissed)
<1>1. VerdictInv => (phase = "saved" => ErrorsOfASnapshot /\ NoErrorMissed)
  BY NothingMissed DEF VerdictInv, V1Inv
<1> QED BY <1>1, VerdictInvariant, PTL

\* And a clean verdict vouches for the codes of the plants, for the documents in which the
\* parser reads every code that is there: not one inside an element that is repeated, say.
THEOREM VerdictCorrect ==
    ASSUME \A d \in Docs : NomenclatureRead(d) PROVE Spec => []VerdictExplained
<1>1. VerdictInv => VerdictExplained
  <2> SUFFICES ASSUME VerdictInv, phase = "saved" PROVE ErrorsOfASnapshot /\ NoErrorMissed /\ CleanIsKnown
    BY DEF VerdictExplained
  <2>1. NomenclatureRead(doc) BY DEF VerdictInv, Controlled
  <2>2. CleanIsKnown BY <2>1, CleanVouches DEF VerdictInv
  <2> QED BY <2>2, NothingMissed DEF VerdictInv, V1Inv
<1> QED BY <1>1, VerdictInvariant, PTL

----------------------------------------------------------------------------
(* The rules on PFAS, for every file *)

\* The rows of each control bear its name.
LEMMA PfasRowsByControl ==
    ASSUME NEW f, ~NoContext(f)
    PROVE  /\ Leaves(VerifyPfasControls(f), "CTL201") = VerifyAofPresence(f)
           /\ Leaves(VerifyPfasControls(f), "CTL202") = VerifyFluorurePresence(f)
           /\ Leaves(VerifyPfasControls(f), "CTL203") = VerifyCarboneOrganiquePresence(f)
           /\ Leaves(VerifyPfasControls(f), "CTL208") = VerifyRegulatoryPfasCompleteness(f)
           /\ Leaves(VerifyPfasControls(f), "CTL209") = VerifyRegulatoryPfasExcludingTfa(f)
           /\ Leaves(VerifyPfasControls(f), "CTL210") = VerifyPfasCampaignParameters(f)
<1>1. ASSUME NEW ctl, NEW applicable, NEW faults, \A r \in faults : r.ctl = ctl
      PROVE  \A r \in Rows(ctl, applicable, faults) : r.ctl = ctl
  BY <1>1 DEF Rows, Succes, Fault
<1>2. \A r \in VerifyAofPresence(f) : r.ctl = "CTL201"
  BY <1>1 DEF VerifyAofPresence, VerifyParameterPresence, Fault
<1>3. \A r \in VerifyFluorurePresence(f) : r.ctl = "CTL202"
  BY <1>1 DEF VerifyFluorurePresence, VerifyParameterPresence, Fault
<1>4. \A r \in VerifyCarboneOrganiquePresence(f) : r.ctl = "CTL203"
  BY <1>1 DEF VerifyCarboneOrganiquePresence, VerifyParameterPresence, Fault
<1>5. \A r \in VerifyAofFluorureCoherence(f) : r.ctl = "CTL204"
  <2> DEFINE missing(s) == {"AOF", "Fluorure"} \ Measured(s)
             faults == {Fault("CTL204", "AVERTISSEMENT", <<missing(s), s.date>>) :
                            s \in {s \in Campaigns(f) : Cardinality(missing(s)) = 1}}
  <2>0. \A s : Fault("CTL204", "AVERTISSEMENT", <<missing(s), s.date>>).ctl = "CTL204" BY DEF Fault
  <2>1. \A r \in faults : r.ctl = "CTL204"
    <3> HIDE DEF missing
    <3> QED BY <2>0
  <2>2. VerifyAofFluorureCoherence(f) = Rows("CTL204", Campaigns(f) # {}, faults)
    BY DEF VerifyAofFluorureCoherence
  <2> HIDE DEF faults
  <2> QED BY <1>1, <2>1, <2>2
<1>6. \A r \in VerifyQuantificationLimits(f) : r.ctl = "CTL205"
  <2> DEFINE read(s) == {a \in Range(s.analyses) : DePfas(a, Reglementaires) /\ ToNumber[a.lq] # NaN}
             failing(s) == {a.parametre : a \in {a \in read(s) : LimiteNg(a) > SeuilLimite(s)}}
             faults == {Fault("CTL205", "AVERTISSEMENT", <<failing(s), s.date>>) :
                            s \in {s \in Campaigns(f) : failing(s) # {}}}
  <2>1. \A r \in faults : r.ctl = "CTL205" BY DEF Fault
  <2>2. VerifyQuantificationLimits(f) \in {{}, {Succes("CTL205")}, faults}
    BY DEF VerifyQuantificationLimits, Rows
  <2> HIDE DEF faults
  <2> QED BY <2>1, <2>2 DEF Succes, Fault
<1>7. \A r \in IdentifyQuantifiedPfas(f) : r.ctl = "CTL207" BY <1>1 DEF IdentifyQuantifiedPfas, Fault
<1>c. ASSUME NEW ctl, NEW required PROVE \A r \in VerifyPfasCompleteness(ctl, f, required) : r.ctl = ctl
  <2> DEFINE missing(s) == required \ OfSurveillance(s, required)
             faults == {Fault(ctl, "AVERTISSEMENT", <<s.date, missing(s)>>) : s \in {s \in Campaigns(f) : missing(s) # {}}}
  <2>1. \A r \in faults : r.ctl = ctl BY DEF Fault
  <2>2. VerifyPfasCompleteness(ctl, f, required) = Rows(ctl, Campaigns(f) # {}, faults)
    BY DEF VerifyPfasCompleteness
  <2> HIDE DEF faults
  <2> QED BY <1>1, <2>1, <2>2
<1>8. \A r \in VerifyRegulatoryPfasCompleteness(f) : r.ctl = "CTL208"
  BY <1>c DEF VerifyRegulatoryPfasCompleteness
<1>9. \A r \in VerifyRegulatoryPfasExcludingTfa(f) : r.ctl = "CTL209"
  BY <1>c DEF VerifyRegulatoryPfasExcludingTfa
<1>10. \A r \in VerifyPfasCampaignParameters(f) : r.ctl = "CTL210" BY <1>1 DEF VerifyPfasCampaignParameters, Fault
<1>11. VerifyPfasControls(f) =
         VerifyAofPresence(f) \cup VerifyFluorurePresence(f) \cup VerifyCarboneOrganiquePresence(f)
         \cup VerifyAofFluorureCoherence(f) \cup VerifyQuantificationLimits(f) \cup IdentifyQuantifiedPfas(f)
         \cup VerifyRegulatoryPfasCompleteness(f) \cup VerifyRegulatoryPfasExcludingTfa(f)
         \cup VerifyPfasCampaignParameters(f)
  BY DEF VerifyPfasControls
<1> QED BY <1>2, <1>3, <1>4, <1>5, <1>6, <1>7, <1>8, <1>9, <1>10, <1>11 DEF Leaves

\* A campaign has a PFAS of the surveillance; unless TFA is the only one, a regulatory one.
LEMMA BoundCampaigns ==
    ASSUME NEW f, NEW s \in Campaigns(f)
    PROVE  Surveyed(s) # {"TFA"} <=> OfSurveillance(s, Reglementaires) # {}
<1>1. \A x : x \in Surveyed(s) <=> \E a \in Range(s.analyses) : a.finalite = "11" /\ a.parametre = x
                                                              /\ (x \in Reglementaires \/ x = "TFA")
  BY DEF Surveyed, DePfas, Surveillance
<1>2. \A x : x \in OfSurveillance(s, Reglementaires) <=>
             \E a \in Range(s.analyses) : a.finalite = "11" /\ a.parametre = x /\ x \in Reglementaires
  BY DEF OfSurveillance, DePfas
<1>3. Surveyed(s) # {} BY DEF Campaigns, IsPfasCampaign, Surveyed
<1>4. \A x : x \in OfSurveillance(s, Reglementaires) <=> x \in Surveyed(s) /\ x # "TFA"
  BY <1>1, <1>2, PfasAssumption
<1> QED BY <1>3, <1>4

\* What the completeness of one list reports.
LEMMA CompletenessSuccess ==
    ASSUME NEW ctl, NEW f, NEW required, Succes(ctl) \in VerifyPfasCompleteness(ctl, f, required)
    PROVE  Campaigns(f) # {} /\ \A s \in Campaigns(f) : required \subseteq OfSurveillance(s, required)
<1> DEFINE missing(s) == required \ OfSurveillance(s, required)
           faults == {Fault(ctl, "AVERTISSEMENT", <<s.date, missing(s)>>) : s \in {s \in Campaigns(f) : missing(s) # {}}}
<1>1. VerifyPfasCompleteness(ctl, f, required) = Rows(ctl, Campaigns(f) # {}, faults)
  BY DEF VerifyPfasCompleteness
<1>2. Succes(ctl) \notin faults BY DEF Fault, Succes
<1>3. Campaigns(f) # {} /\ faults = {}
  <2> HIDE DEF faults
  <2> QED BY <1>1, <1>2 DEF Rows
<1>4. \A s \in Campaigns(f) : missing(s) = {} BY <1>3
<1> QED BY <1>3, <1>4

LEMMA CompletenessIsSuccess ==
    ASSUME NEW ctl, NEW f, NEW required, Campaigns(f) # {},
           \A s \in Campaigns(f) : required \subseteq OfSurveillance(s, required)
    PROVE  Succes(ctl) \in VerifyPfasCompleteness(ctl, f, required)
<1> DEFINE missing(s) == required \ OfSurveillance(s, required)
           faults == {Fault(ctl, "AVERTISSEMENT", <<s.date, missing(s)>>) : s \in {s \in Campaigns(f) : missing(s) # {}}}
<1>1. VerifyPfasCompleteness(ctl, f, required) = Rows(ctl, Campaigns(f) # {}, faults)
  BY DEF VerifyPfasCompleteness
<1>2. faults = {} OBVIOUS
<1> HIDE DEF faults
<1> QED BY <1>1, <1>2 DEF Rows

\* The date of a campaign without a parameter is what the control of this one reports.
LEMMA PresenceReports ==
    ASSUME NEW ctl, NEW f, NEW par, NEW locs, NEW s \in Campaigns(f), s.loc \in locs, par \notin Measured(s)
    PROVE  \E r \in VerifyParameterPresence(ctl, f, par, locs) : r.sev # "SUCCES" /\ r.params = s.date
<1> DEFINE campaigns == {c \in Campaigns(f) : c.loc \in locs}
           faults == {Fault(ctl, "AVERTISSEMENT", c.date) : c \in {c \in campaigns : par \notin Measured(c)}}
           row == Fault(ctl, "AVERTISSEMENT", s.date)
<1>1. VerifyParameterPresence(ctl, f, par, locs) = Rows(ctl, campaigns # {}, faults)
  BY DEF VerifyParameterPresence
<1>2. campaigns # {} /\ row \in faults OBVIOUS
<1>3. row.sev # "SUCCES" /\ row.params = s.date BY DEF Fault
<1> HIDE DEF row, faults, campaigns
<1> QED BY <1>1, <1>2, <1>3 DEF Rows

\* CTL210: its faults are the campaigns that lack a parameter of their location.
LacksOf(s) == (IF s.loc = "A4" THEN ParametresA4 ELSE ParametresA3) \ Measured(s)

LEMMA ParametersReport ==
    ASSUME NEW f, NEW bound, bound = {s \in Campaigns(f) : OfSurveillance(s, Reglementaires) # {}}
    PROVE  /\ VerifyPfasCampaignParameters(f) = {} <=> bound = {}
           /\ \A s \in bound : LacksOf(s) # {} =>
                 \E r \in VerifyPfasCampaignParameters(f) : r.sev # "SUCCES" /\ r.params = <<s.date, LacksOf(s)>>
           /\ \A r \in VerifyPfasCampaignParameters(f) : r.sev # "SUCCES" =>
                 \E s \in bound : LacksOf(s) # {} /\ r.params = <<s.date, LacksOf(s)>>
<1> DEFINE faults == {Fault("CTL210", "AVERTISSEMENT", <<s.date, LacksOf(s)>>) : s \in {s \in bound : LacksOf(s) # {}}}
<1>1. VerifyPfasCampaignParameters(f) = Rows("CTL210", bound # {}, faults)
  BY DEF VerifyPfasCampaignParameters, LacksOf
<1>2. bound = {} => faults = {} OBVIOUS
<1>3. \A r \in faults : \E s \in bound : LacksOf(s) # {} /\ r.params = <<s.date, LacksOf(s)>> BY DEF Fault
<1>4. \A s \in bound : LacksOf(s) # {} => Fault("CTL210", "AVERTISSEMENT", <<s.date, LacksOf(s)>>) \in faults OBVIOUS
<1>5. \A s : LET r == Fault("CTL210", "AVERTISSEMENT", <<s.date, LacksOf(s)>>)
             IN r.sev # "SUCCES" /\ r.params = <<s.date, LacksOf(s)>>
  BY DEF Fault
<1>6. Succes("CTL210").sev = "SUCCES" BY DEF Succes, Fault
<1> HIDE DEF faults
<1>7. VerifyPfasCampaignParameters(f) = {} <=> bound = {} BY <1>1, <1>2 DEF Rows
<1>8. \A s \in bound : LacksOf(s) # {} =>
         \E r \in VerifyPfasCampaignParameters(f) : r.sev # "SUCCES" /\ r.params = <<s.date, LacksOf(s)>>
  <2> SUFFICES ASSUME NEW s \in bound, LacksOf(s) # {}
               PROVE  \E r \in VerifyPfasCampaignParameters(f) : r.sev # "SUCCES" /\ r.params = <<s.date, LacksOf(s)>>
    OBVIOUS
  <2> DEFINE row == Fault("CTL210", "AVERTISSEMENT", <<s.date, LacksOf(s)>>)
  <2>1. row \in faults /\ bound # {} BY <1>4
  <2>2. row.sev # "SUCCES" /\ row.params = <<s.date, LacksOf(s)>> BY <1>5
  <2> HIDE DEF row
  <2>3. row \in VerifyPfasCampaignParameters(f) BY <1>1, <2>1 DEF Rows
  <2> QED BY <2>2, <2>3
<1>9. \A r \in VerifyPfasCampaignParameters(f) : r.sev # "SUCCES" => r \in faults
  BY <1>1, <1>6 DEF Rows
<1> QED BY <1>3, <1>7, <1>8, <1>9

LEMMA PfasAgree == ASSUME NEW f PROVE PfasCoherence(f)
<1> DEFINE rs == VerifyPfasControls(f)
           bound == {s \in Campaigns(f) : Surveyed(s) # {"TFA"}}
           missing(ctl) == {r.params : r \in {r \in Leaves(rs, ctl) : r.sev # "SUCCES"}}
<1> SUFFICES ASSUME ~NoContext(f)
    PROVE
        /\ Succes("CTL208") \in rs => Succes("CTL209") \in rs
        /\ Succes("CTL209") \in rs => \A s \in Campaigns(f) : s \in bound
        /\ Leaves(rs, "CTL210") = {} <=> bound = {}
        /\ \A s \in bound : \A c \in Complements(s) : c[1] \notin Measured(s) =>
               /\ s.date \in missing(c[2])
               /\ \E m \in missing("CTL210") : m[1] = s.date /\ c[1] \in m[2]
        /\ \A m \in missing("CTL210") : \E s \in bound :
               /\ m[1] = s.date /\ m[2] # {} /\ m[2] \cap Measured(s) = {}
               /\ m[2] \cap {"Fluorure", "CarboneOrganique", "AOF"} \subseteq {c[1] : c \in Complements(s)}
               /\ \A c \in Complements(s) : c[1] \in m[2] => s.date \in missing(c[2])
  BY DEF PfasCoherence
<1>1. \A ctl : Succes(ctl) \in rs <=> Succes(ctl) \in Leaves(rs, ctl) BY DEF Leaves, Succes, Fault
<1>2. bound = {s \in Campaigns(f) : OfSurveillance(s, Reglementaires) # {}} BY BoundCampaigns
<1>3. ASSUME NEW s \in Campaigns(f), NEW x \in Reglementaires, x \in OfSurveillance(s, Surveillance)
      PROVE  x \in OfSurveillance(s, Reglementaires)
  BY <1>3 DEF OfSurveillance, DePfas
<1>4. Succes("CTL208") \in rs => Succes("CTL209") \in rs
  <2> SUFFICES ASSUME Succes("CTL208") \in rs PROVE Succes("CTL209") \in rs OBVIOUS
  <2>1. Succes("CTL208") \in VerifyPfasCompleteness("CTL208", f, Surveillance)
    BY <1>1, PfasRowsByControl DEF VerifyRegulatoryPfasCompleteness
  <2>2. Campaigns(f) # {} /\ \A s \in Campaigns(f) : Surveillance \subseteq OfSurveillance(s, Surveillance)
    BY <2>1, CompletenessSuccess
  <2>3. \A s \in Campaigns(f) : Reglementaires \subseteq OfSurveillance(s, Reglementaires)
    BY <1>3, <2>2 DEF Surveillance
  <2>4. Succes("CTL209") \in VerifyPfasCompleteness("CTL209", f, Reglementaires)
    BY <2>2, <2>3, CompletenessIsSuccess
  <2> QED BY <1>1, <2>4, PfasRowsByControl DEF VerifyRegulatoryPfasExcludingTfa
<1>5. Succes("CTL209") \in rs => \A s \in Campaigns(f) : s \in bound
  <2> SUFFICES ASSUME Succes("CTL209") \in rs PROVE \A s \in Campaigns(f) : s \in bound OBVIOUS
  <2>1. Succes("CTL209") \in VerifyPfasCompleteness("CTL209", f, Reglementaires)
    BY <1>1, PfasRowsByControl DEF VerifyRegulatoryPfasExcludingTfa
  <2>2. \A s \in Campaigns(f) : Reglementaires \subseteq OfSurveillance(s, Reglementaires)
    BY <2>1, CompletenessSuccess
  <2> QED BY <1>2, <2>2, PfasAssumption
<1>6. Leaves(rs, "CTL210") = VerifyPfasCampaignParameters(f) BY PfasRowsByControl
<1>7. /\ VerifyPfasCampaignParameters(f) = {} <=> bound = {}
      /\ \A s \in bound : LacksOf(s) # {} =>
            \E r \in VerifyPfasCampaignParameters(f) : r.sev # "SUCCES" /\ r.params = <<s.date, LacksOf(s)>>
      /\ \A r \in VerifyPfasCampaignParameters(f) : r.sev # "SUCCES" =>
            \E s \in bound : LacksOf(s) # {} /\ r.params = <<s.date, LacksOf(s)>>
  BY <1>2, ParametersReport
<1>8. ASSUME NEW s \in bound, NEW c \in Complements(s), c[1] \notin Measured(s)
      PROVE  s.date \in missing(c[2]) /\ c[1] \in LacksOf(s)
  <2>1. s \in Campaigns(f) /\ s.loc \in {"A3", "A4"} BY DEF Campaigns, Samplings
  <2>2. CASE c = <<"Fluorure", "CTL202">>
    <3>1. \E r \in VerifyFluorurePresence(f) : r.sev # "SUCCES" /\ r.params = s.date
      BY <1>8, <2>1, <2>2, PresenceReports DEF VerifyFluorurePresence
    <3> QED BY <1>8, <2>2, <3>1, PfasRowsByControl DEF LacksOf, ParametresA3, ParametresA4, Complementaires
  <2>3. CASE c = <<"CarboneOrganique", "CTL203">>
    <3>1. \E r \in VerifyCarboneOrganiquePresence(f) : r.sev # "SUCCES" /\ r.params = s.date
      BY <1>8, <2>1, <2>3, PresenceReports DEF VerifyCarboneOrganiquePresence
    <3> QED BY <1>8, <2>3, <3>1, PfasRowsByControl DEF LacksOf, ParametresA3, ParametresA4, Complementaires
  <2>4. CASE s.loc = "A4" /\ c = <<"AOF", "CTL201">>
    <3>1. \E r \in VerifyAofPresence(f) : r.sev # "SUCCES" /\ r.params = s.date
      BY <1>8, <2>1, <2>4, PresenceReports DEF VerifyAofPresence
    <3> QED BY <1>8, <2>4, <3>1, PfasRowsByControl DEF LacksOf, ParametresA4
  <2> QED BY <2>2, <2>3, <2>4 DEF Complements
<1>9. ASSUME NEW s \in bound, NEW c \in Complements(s), c[1] \notin Measured(s)
      PROVE  \E m \in missing("CTL210") : m[1] = s.date /\ c[1] \in m[2]
  <2>1. c[1] \in LacksOf(s) BY <1>8, <1>9
  <2>2. PICK r \in Leaves(rs, "CTL210") : r.sev # "SUCCES" /\ r.params = <<s.date, LacksOf(s)>>
    BY <1>6, <1>7, <2>1
  <2> QED BY <2>1, <2>2
<1>10. ASSUME NEW m \in missing("CTL210")
       PROVE \E s \in bound :
               /\ m[1] = s.date /\ m[2] # {} /\ m[2] \cap Measured(s) = {}
               /\ m[2] \cap {"Fluorure", "CarboneOrganique", "AOF"} \subseteq {c[1] : c \in Complements(s)}
               /\ \A c \in Complements(s) : c[1] \in m[2] => s.date \in missing(c[2])
  <2>1. PICK r \in Leaves(rs, "CTL210") : r.sev # "SUCCES" /\ m = r.params OBVIOUS
  <2>2. PICK s \in bound : LacksOf(s) # {} /\ m = <<s.date, LacksOf(s)>> BY <1>6, <1>7, <2>1
  <2>3. m[1] = s.date /\ m[2] = LacksOf(s) /\ m[2] # {} BY <2>2
  <2>4. m[2] \cap Measured(s) = {} BY <2>3 DEF LacksOf
  <2>5. \A c \in Complements(s) : c[1] \in m[2] => s.date \in missing(c[2]) BY <1>8, <2>4
  <2>6. m[2] \cap {"Fluorure", "CarboneOrganique", "AOF"} \subseteq {c[1] : c \in Complements(s)}
    <3>1. s.loc # "A4" => "AOF" \notin m[2] BY <2>3 DEF LacksOf, ParametresA3, SuiviHabituel, Complementaires
    <3>2. {<<"Fluorure", "CTL202">>, <<"CarboneOrganique", "CTL203">>} \subseteq Complements(s)
          /\ (s.loc = "A4" => <<"AOF", "CTL201">> \in Complements(s))
      BY DEF Complements
    <3> QED BY <3>1, <3>2
  <2> QED BY <2>3, <2>4, <2>5, <2>6
<1> HIDE DEF bound, missing, rs
<1> QED BY <1>4, <1>5, <1>6, <1>7, <1>8, <1>9, <1>10

\* Of any file whatever, the rules on PFAS do not contradict each other
\* (controleMetierV2Pfas.ts:156-181, 320-413).
THEOREM PfasCorrect == Spec => []PfasCoherent
<1>1. PfasCoherent BY PfasAgree DEF PfasCoherent
<1> QED BY <1>1, PTL

----------------------------------------------------------------------------
(* Lists, and the controls on volumes *)

\* Natural numbers have a first one among them: what replaces induction below.
LEMMA FirstOfNat == ASSUME NEW W, W \subseteq Nat, W # {} PROVE \E x \in W : \A y \in W : x <= y
<1> DEFINE R == OpToRel(<, Nat)
<1>1. IsWellFoundedOn(R, Nat) BY NatLessThanWellFounded
<1>2. \A x, y \in Nat : x < y => <<x, y>> \in R BY DEF OpToRel
<1> HIDE DEF R
<1>3. PICK x \in W : \A y \in W : ~ (<<y, x>> \in R) BY <1>1, WFMin
<1>4. \A y \in W : y \in Nat /\ x \in Nat OBVIOUS
<1>5. \A y \in W : ~(y < x) BY <1>2, <1>3, <1>4
<1> QED BY <1>4, <1>5

\* Lists put end to end, one after the other.
LEMMA FlattenUnfold ==
    ASSUME NEW S, NEW ss \in Seq(Seq(S)), Len(ss) # 0
    PROVE  \E c : /\ \A i \in 1 .. Len(ss) : c[i] = IF i = 1 THEN ss[i] ELSE c[i - 1] \o ss[i]
                  /\ \A i \in 1 .. Len(ss) : c[i] \in Seq(S)
                  /\ FlattenSeq(ss) = c[Len(ss)]
<1> DEFINE n == Len(ss)
           Ends(h, m) == h = [i \in 1 .. m |-> IF i = 1 THEN ss[i] ELSE h[i - 1] \o ss[i]]
           Defined(m) == \E h : Ends(h, m)
<1>1. n \in Nat /\ \A i \in 1 .. n : ss[i] \in Seq(S) OBVIOUS
<1>2. n # 0 OBVIOUS
<1> HIDE DEF n
<1>3. \A m \in 1 .. n : Defined(m)
  <2> DEFINE W == {k \in 1 .. n : ~Defined(k)}
  <2> HIDE DEF Defined
  <2> SUFFICES ASSUME W # {} PROVE FALSE OBVIOUS
  <2>1. W \subseteq Nat BY <1>1
  <2> HIDE DEF W
  <2>2. PICK m \in W : \A k \in W : m <= k BY <2>1, FirstOfNat
  <2> USE DEF W
  <2>3. m \in 1 .. n /\ m \in Nat /\ ~Defined(m) BY <1>1, <2>1, <2>2
  <2> USE DEF Defined
  <2>4. CASE m = 1
    <3> DEFINE h == [i \in 1 .. m |-> ss[1]]
    <3>1. \A i \in 1 .. m : h[i] = IF i = 1 THEN ss[i] ELSE h[i - 1] \o ss[i] BY <2>4
    <3>2. Ends(h, m) BY <3>1
    <3> QED BY <2>3, <3>2
  <2>5. CASE m # 1
    <3>1. m - 1 \in 1 .. n /\ ~(m <= m - 1) BY <1>1, <2>3, <2>5
    <3>2. Defined(m - 1)
      <4> HIDE DEF Defined
      <4> QED BY <2>2, <3>1
    <3>3. PICK g : Ends(g, m - 1) BY <3>2
    <3> DEFINE h == [i \in 1 .. m |-> IF i = m THEN g[m - 1] \o ss[m] ELSE g[i]]
    <3>4. ASSUME NEW i \in 1 .. m PROVE h[i] = IF i = 1 THEN ss[i] ELSE h[i - 1] \o ss[i]
      <4>1. i \in Nat /\ i >= 1 /\ i <= m BY <2>3
      <4>2. CASE i = m
        <5>1. m - 1 \in 1 .. m /\ m - 1 # m BY <2>3, <2>5
        <5>2. h[m - 1] = g[m - 1] BY <5>1
        <5>3. h[m] = g[m - 1] \o ss[m] BY <4>1, <4>2
        <5> QED BY <2>5, <4>2, <5>2, <5>3
      <4>3. CASE i # m
        <5>1. i \in 1 .. m - 1 /\ (i # 1 => i - 1 \in 1 .. m /\ i - 1 # m) BY <2>3, <4>1, <4>3
        <5>2. g[i] = IF i = 1 THEN ss[i] ELSE g[i - 1] \o ss[i] BY <3>3, <5>1
        <5>3. h[i] = g[i] BY <4>3
        <5>4. i # 1 => h[i - 1] = g[i - 1] BY <5>1
        <5> QED BY <5>2, <5>3, <5>4
      <4> QED BY <4>2, <4>3
    <3>5. Ends(h, m) BY <3>4
    <3> QED BY <2>3, <3>5
  <2> QED BY <2>4, <2>5
<1> DEFINE c == CHOOSE h : Ends(h, n)
<1>4. Defined(n)
  <2> HIDE DEF Defined
  <2> QED BY <1>1, <1>2, <1>3
<1>5. Ends(c, n) BY <1>4
<1>6. FlattenSeq(ss) = c[n] BY <1>2 DEF FlattenSeq, n
<1>7. \A i \in 1 .. n : c[i] = IF i = 1 THEN ss[i] ELSE c[i - 1] \o ss[i] BY <1>5
<1> HIDE DEF c, Ends
<1>8. \A i \in 1 .. n : c[i] \in Seq(S)
  <2> DEFINE W == {i \in 1 .. n : c[i] \notin Seq(S)}
  <2> SUFFICES ASSUME W # {} PROVE FALSE OBVIOUS
  <2>1. W \subseteq Nat BY <1>1
  <2> HIDE DEF W
  <2>2. PICK i \in W : \A k \in W : i <= k BY <2>1, FirstOfNat
  <2> USE DEF W
  <2>3. i \in 1 .. n /\ i \in Nat /\ c[i] \notin Seq(S) BY <1>1, <2>2
  <2>4. i # 1 BY <1>1, <1>7, <2>3
  <2>5. i - 1 \in 1 .. n /\ ~(i <= i - 1) BY <1>1, <2>3, <2>4
  <2>6. c[i - 1] \in Seq(S) BY <2>2, <2>5
  <2>7. c[i] = c[i - 1] \o ss[i] BY <1>7, <2>3, <2>4
  <2>8. ss[i] \in Seq(S) BY <1>1, <2>3
  <2> QED BY <2>3, <2>6, <2>7, <2>8, ConcatProperties
<1> QED BY <1>6, <1>7, <1>8 DEF n

LEMMA FlattenIsSeq == ASSUME NEW S, NEW ss \in Seq(Seq(S)) PROVE FlattenSeq(ss) \in Seq(S)
<1>1. CASE Len(ss) = 0
  <2>1. ss = <<>> BY <1>1, EmptySeq
  <2> QED BY <1>1, <2>1 DEF FlattenSeq
<1>2. CASE Len(ss) # 0
  <2>1. Len(ss) \in 1 .. Len(ss) BY <1>2, LenProperties
  <2> QED BY <1>2, <2>1, FlattenUnfold
<1> QED BY <1>1, <1>2

LEMMA ConcatParts ==
    ASSUME NEW S, NEW a \in Seq(S), NEW b \in Seq(S)
    PROVE  /\ Len(a) \in Nat /\ Len(b) \in Nat /\ Len(a \o b) = Len(a) + Len(b)
           /\ \A j \in 1 .. Len(a) : j \in 1 .. Len(a \o b) /\ (a \o b)[j] = a[j]
           /\ \A j \in 1 .. Len(b) : Len(a) + j \in 1 .. Len(a \o b) /\ (a \o b)[Len(a) + j] = b[j]
<1>1. Len(a) \in Nat /\ Len(b) \in Nat BY LenProperties
<1>2. Len(a \o b) = Len(a) + Len(b) BY ConcatProperties
<1> DEFINE n == Len(a) m == Len(b) ab == a \o b
<1>3. \A i \in 1 .. n + m : ab[i] = IF i <= n THEN a[i] ELSE b[i - n] BY ConcatProperties
<1>4. n \in Nat /\ m \in Nat /\ Len(ab) = n + m BY <1>1, <1>2
<1> HIDE DEF n, m, ab
<1>5. ASSUME NEW j \in 1 .. n PROVE j \in 1 .. n + m /\ ab[j] = a[j]
  <2>1. j \in 1 .. n + m /\ j <= n BY <1>4
  <2> QED BY <1>3, <2>1
<1>6. ASSUME NEW j \in 1 .. m PROVE n + j \in 1 .. n + m /\ ab[n + j] = b[j]
  <2>1. n + j \in 1 .. n + m /\ ~(n + j <= n) /\ (n + j) - n = j BY <1>4
  <2> QED BY <1>3, <2>1
<1> QED BY <1>4, <1>5, <1>6 DEF n, m, ab

\* What is in a list, and lists alike one by one.
In_(x, a) == \E k \in 1 .. Len(a) : a[k] = x
Alike(R, a, b) == Len(a) = Len(b) /\ \A j \in 1 .. Len(a) : <<a[j], b[j]>> \in R

LEMMA InConcat ==
    ASSUME NEW S, NEW a \in Seq(S), NEW b \in Seq(S), NEW x, In_(x, a) \/ In_(x, b) PROVE In_(x, a \o b)
<1>1. ASSUME NEW k \in 1 .. Len(a), a[k] = x PROVE In_(x, a \o b)
  <2>1. k \in 1 .. Len(a \o b) /\ (a \o b)[k] = a[k] BY ConcatParts, Zenon
  <2> QED BY <1>1, <2>1 DEF In_
<1>2. ASSUME NEW k \in 1 .. Len(b), b[k] = x PROVE In_(x, a \o b)
  <2>1. Len(a) + k \in 1 .. Len(a \o b) /\ (a \o b)[Len(a) + k] = b[k] BY ConcatParts
  <2> QED BY <1>2, <2>1 DEF In_
<1> QED BY <1>1, <1>2 DEF In_

LEMMA AlikeConcat ==
    ASSUME NEW S, NEW R, NEW a \in Seq(S), NEW b \in Seq(S), NEW u \in Seq(S), NEW v \in Seq(S),
           Alike(R, a, b), Alike(R, u, v)
    PROVE  Alike(R, a \o u, b \o v)
<1>1. Len(a) \in Nat /\ Len(u) \in Nat /\ Len(b) = Len(a) /\ Len(v) = Len(u) BY LenProperties DEF Alike
<1>2. Len(a \o u) = Len(a) + Len(u) /\ Len(b \o v) = Len(a) + Len(u)
  <2>1. Len(a \o u) = Len(a) + Len(u) BY ConcatProperties, Zenon
  <2>2. Len(b \o v) = Len(b) + Len(v) BY ConcatProperties, Zenon
  <2> QED BY <1>1, <2>1, <2>2
<1>3. ASSUME NEW j \in 1 .. Len(a) + Len(u) PROVE <<(a \o u)[j], (b \o v)[j]>> \in R
  <2>1. CASE j \in 1 .. Len(a)
    <3>1. (a \o u)[j] = a[j] BY <2>1, ConcatParts, Zenon
    <3>2. j \in 1 .. Len(b) BY <1>1, <2>1
    <3>3. (b \o v)[j] = b[j] BY <3>2, ConcatParts, Zenon
    <3> QED BY <2>1, <3>1, <3>3 DEF Alike
  <2>2. CASE j \notin 1 .. Len(a)
    <3>1. PICK k \in 1 .. Len(u) : j = Len(a) + k
      <4>1. j - Len(a) \in 1 .. Len(u) /\ j = Len(a) + (j - Len(a)) BY <1>1, <2>2
      <4> QED BY <4>1
    <3>2. (a \o u)[Len(a) + k] = u[k] BY ConcatParts
    <3>3. k \in 1 .. Len(v) BY <1>1
    <3>4. (b \o v)[Len(b) + k] = v[k] BY <3>3, ConcatParts
    <3>5. <<u[k], v[k]>> \in R BY DEF Alike
    <3> QED BY <1>1, <3>1, <3>2, <3>4, <3>5
  <2> QED BY <2>1, <2>2
<1> QED BY <1>2, <1>3 DEF Alike

\* What is in one of the lists is in what they make.
LEMMA FlattenHolds ==
    ASSUME NEW S, NEW ss \in Seq(Seq(S)), NEW m \in 1 .. Len(ss), NEW x, In_(x, ss[m])
    PROVE  In_(x, FlattenSeq(ss))
<1>0. Len(ss) \in Nat /\ m \in Nat /\ m >= 1 /\ m <= Len(ss) /\ Len(ss) # 0 BY LenProperties
<1>1. PICK c : /\ \A i \in 1 .. Len(ss) : c[i] = IF i = 1 THEN ss[i] ELSE c[i - 1] \o ss[i]
               /\ \A i \in 1 .. Len(ss) : c[i] \in Seq(S)
               /\ FlattenSeq(ss) = c[Len(ss)]
  BY <1>0, FlattenUnfold
<1>2. \A i \in 1 .. Len(ss) : ss[i] \in Seq(S) OBVIOUS
<1> DEFINE W == {i \in m .. Len(ss) : ~In_(x, c[i])}
<1>3. In_(x, c[m])
  <2>1. CASE m = 1 BY <1>1, <2>1
  <2>2. CASE m # 1
    <3>1. m - 1 \in 1 .. Len(ss) BY <1>0, <2>2
    <3>2. c[m - 1] \in Seq(S) /\ c[m] = c[m - 1] \o ss[m] BY <1>1, <2>2, <3>1
    <3> QED BY <1>2, <3>2, InConcat
  <2> QED BY <2>1, <2>2
<1>4. W = {}
  <2> SUFFICES ASSUME W # {} PROVE FALSE OBVIOUS
  <2>1. W \subseteq Nat BY <1>0
  <2> HIDE DEF W
  <2>2. PICK i \in W : \A l \in W : i <= l BY <2>1, FirstOfNat
  <2> USE DEF W
  <2>3. i \in m .. Len(ss) /\ i \in Nat /\ ~In_(x, c[i]) BY <2>1, <2>2
  <2>4. i # m BY <1>3, <2>3
  <2>5. i - 1 \in m .. Len(ss) /\ i - 1 \in 1 .. Len(ss) /\ i \in 1 .. Len(ss) /\ ~(i <= i - 1) /\ i # 1
    BY <1>0, <2>3, <2>4
  <2>6. In_(x, c[i - 1]) BY <2>2, <2>5
  <2>7. c[i] = c[i - 1] \o ss[i] /\ c[i - 1] \in Seq(S) BY <1>1, <2>5
  <2> QED BY <1>2, <2>3, <2>5, <2>6, <2>7, InConcat
<1>5. Len(ss) \in m .. Len(ss) BY <1>0
<1> QED BY <1>1, <1>4, <1>5

\* Lists of lists that are alike make lists that are.
LEMMA FlattenAlike ==
    ASSUME NEW S, NEW p \in Seq(Seq(S)), NEW q \in Seq(Seq(S)), Len(p) = Len(q), NEW R,
           \A i \in 1 .. Len(p) : Alike(R, p[i], q[i])
    PROVE  Alike(R, FlattenSeq(p), FlattenSeq(q))
<1>1. CASE Len(p) = 0
  <2>1. p = <<>> /\ q = <<>> BY <1>1, EmptySeq
  <2>2. FlattenSeq(p) = <<>> /\ FlattenSeq(q) = <<>> BY <1>1, <2>1 DEF FlattenSeq
  <2> QED BY <2>2 DEF Alike
<1>2. CASE Len(p) # 0
  <2>0. Len(p) \in Nat BY LenProperties
  <2>1. PICK c : /\ \A i \in 1 .. Len(p) : c[i] = IF i = 1 THEN p[i] ELSE c[i - 1] \o p[i]
                 /\ \A i \in 1 .. Len(p) : c[i] \in Seq(S)
                 /\ FlattenSeq(p) = c[Len(p)]
    BY <1>2, FlattenUnfold
  <2>2. PICK g : /\ \A i \in 1 .. Len(q) : g[i] = IF i = 1 THEN q[i] ELSE g[i - 1] \o q[i]
                 /\ \A i \in 1 .. Len(q) : g[i] \in Seq(S)
                 /\ FlattenSeq(q) = g[Len(q)]
    BY <1>2, FlattenUnfold
  <2> DEFINE W == {i \in 1 .. Len(p) : ~Alike(R, c[i], g[i])}
  <2>3. W = {}
    <3> SUFFICES ASSUME W # {} PROVE FALSE OBVIOUS
    <3>1. W \subseteq Nat BY <2>0
    <3> HIDE DEF W
    <3>2. PICK i \in W : \A l \in W : i <= l BY <3>1, FirstOfNat
    <3> USE DEF W
    <3>3. i \in 1 .. Len(p) /\ i \in Nat /\ ~Alike(R, c[i], g[i]) BY <3>1, <3>2
    <3>4. p[i] \in Seq(S) /\ q[i] \in Seq(S) /\ Alike(R, p[i], q[i]) BY <3>3
    <3>5. CASE i = 1 BY <2>1, <2>2, <3>3, <3>4, <3>5
    <3>6. CASE i # 1
      <4>1. i - 1 \in 1 .. Len(p) /\ ~(i <= i - 1) BY <2>0, <3>3, <3>6
      <4>2. Alike(R, c[i - 1], g[i - 1]) BY <3>2, <4>1
      <4>3. c[i] = c[i - 1] \o p[i] /\ g[i] = g[i - 1] \o q[i] BY <2>1, <2>2, <3>3, <3>6
      <4>4. c[i - 1] \in Seq(S) /\ g[i - 1] \in Seq(S) BY <2>1, <2>2, <4>1
      <4>5. Alike(R, c[i - 1] \o p[i], g[i - 1] \o q[i]) BY <3>4, <4>2, <4>4, AlikeConcat
      <4> QED BY <3>3, <4>3, <4>5
    <3> QED BY <3>5, <3>6
  <2>4. Len(p) \in 1 .. Len(p) BY <1>2, <2>0
  <2> QED BY <2>1, <2>2, <2>3, <2>4
<1> QED BY <1>1, <1>2

\* An empty list at the end adds nothing.
LEMMA FlattenEmptyLast ==
    ASSUME NEW S, NEW ss \in Seq(Seq(S)) PROVE FlattenSeq(Append(ss, <<>>)) = FlattenSeq(ss)
<1> DEFINE tt == Append(ss, <<>>) n == Len(ss)
<1>1. <<>> \in Seq(S) OBVIOUS
<1>2. n \in Nat /\ tt \in Seq(Seq(S)) /\ Len(tt) = n + 1 /\ tt[n + 1] = <<>> /\ \A i \in 1 .. n : tt[i] = ss[i]
  BY <1>1, AppendProperties, LenProperties
<1> HIDE DEF tt, n
<1>3. PICK g : /\ \A i \in 1 .. Len(tt) : g[i] = IF i = 1 THEN tt[i] ELSE g[i - 1] \o tt[i]
               /\ \A i \in 1 .. Len(tt) : g[i] \in Seq(S)
               /\ FlattenSeq(tt) = g[Len(tt)]
  <2>1. tt \in Seq(Seq(S)) /\ Len(tt) # 0 BY <1>2
  <2> QED BY <2>1, FlattenUnfold
<1>4. CASE n = 0
  <2>1. ss = <<>> BY <1>4, EmptySeq DEF n
  <2>2. FlattenSeq(ss) = <<>> BY <2>1, <1>4 DEF FlattenSeq, n
  <2>3. g[1] = tt[1] BY <1>2, <1>3, <1>4
  <2> QED BY <1>2, <1>3, <1>4, <2>2, <2>3 DEF tt
<1>5. CASE n # 0
  <2>0. Len(ss) # 0 /\ n = Len(ss) BY <1>5 DEF n
  <2>1. PICK c : /\ \A i \in 1 .. Len(ss) : c[i] = IF i = 1 THEN ss[i] ELSE c[i - 1] \o ss[i]
                 /\ \A i \in 1 .. Len(ss) : c[i] \in Seq(S)
                 /\ FlattenSeq(ss) = c[Len(ss)]
    BY <2>0, FlattenUnfold
  <2> DEFINE W == {i \in 1 .. n : c[i] # g[i]}
  <2>2. W = {}
    <3> SUFFICES ASSUME W # {} PROVE FALSE OBVIOUS
    <3>1. W \subseteq Nat BY <1>2
    <3> HIDE DEF W
    <3>2. PICK i \in W : \A l \in W : i <= l BY <3>1, FirstOfNat
    <3> USE DEF W
    <3>3. i \in 1 .. n /\ i \in Nat /\ c[i] # g[i] /\ i \in 1 .. Len(tt) /\ tt[i] = ss[i] BY <1>2, <3>1, <3>2
    <3>4. i # 1 BY <1>3, <2>0, <2>1, <3>3
    <3>5. i - 1 \in 1 .. n /\ ~(i <= i - 1)
      <4>1. n \in Nat BY <1>2
      <4> QED BY <3>3, <3>4, <4>1
    <3>6. c[i - 1] = g[i - 1] BY <3>2, <3>5
    <3> QED BY <1>3, <2>0, <2>1, <3>3, <3>4, <3>6
  <2>3. n \in 1 .. n /\ n \in 1 .. Len(tt) /\ n + 1 \in 1 .. Len(tt) /\ n + 1 # 1 /\ (n + 1) - 1 = n BY <1>2, <1>5
  <2>4. g[n + 1] = g[n] \o <<>> /\ g[n] \in Seq(S) /\ g[n] = c[n] BY <1>2, <1>3, <2>2, <2>3
  <2>5. g[n] \o <<>> = g[n] BY <2>4, ConcatEmptySeq
  <2> QED BY <1>2, <1>3, <2>0, <2>1, <2>4, <2>5 DEF tt
<1> QED BY <1>4, <1>5

LEMMA MinOf == ASSUME NEW W, W \subseteq Nat, W # {} PROVE Min(W) \in W
<1>1. \E x \in W : \A y \in W : x <= y BY FirstOfNat
<1> QED BY <1>1 DEF Min

LEMMA MaxOf == ASSUME NEW n \in Nat, NEW W, W \subseteq 1 .. n, W # {} PROVE Max(W) \in W
<1> DEFINE U == {n - k : k \in W}
<1>0. \A k \in W : n - k \in Nat
  <2>1. \A k \in 1 .. n : n - k \in Nat BY SMT
  <2> QED BY <2>1
<1>1. U \subseteq Nat /\ U # {} BY <1>0
<1> HIDE DEF U
<1>2. PICK u \in U : \A v \in U : u <= v BY <1>1, FirstOfNat
<1>3. PICK x \in W : u = n - x BY <1>2 DEF U
<1>4. \A y \in W : x >= y
  <2>1. \A y \in W : u <= n - y BY <1>2 DEF U
  <2>2. x \in Nat /\ \A y \in W : y \in Nat OBVIOUS
  <2> QED BY <1>3, <2>1, <2>2
<1>5. \E z \in W : \A y \in W : z >= y BY <1>4
<1> QED BY <1>5 DEF Max

\* A value is that of one of the analyses of the parameter, and is there if one is.
LEMMA MesureOfAnalyses ==
    ASSUME NEW A, NEW xs \in Seq(A), NEW par
    PROVE  /\ Mesure(xs, par) # NaN =>
                  \E a \in Range(xs) : a.parametre = par /\ ParseFloat[a.rs] # NaN /\ Mesure(xs, par) = ParseFloat[a.rs]
           /\ (\E a \in Range(xs) : a.parametre = par /\ ParseFloat[a.rs] # NaN) => Mesure(xs, par) # NaN
<1> DEFINE I == {k \in 1 .. Len(xs) : xs[k].parametre = par /\ ParseFloat[xs[k].rs] # NaN}
           i == IF I # {} THEN Min(I) ELSE 0
<1>1. Mesure(xs, par) = IF i = 0 THEN NaN ELSE ParseFloat[xs[i].rs] BY DEF Mesure, SelectInSeq
<1>4. DOMAIN xs = 1 .. Len(xs) /\ Len(xs) \in Nat BY LenProperties
<1>2. I \subseteq Nat /\ 0 \notin I BY <1>4
<1>3. I # {} => Min(I) \in I
  <2> HIDE DEF I
  <2> QED BY <1>2, MinOf
<1>5. \A k \in I : xs[k] \in Range(xs) /\ xs[k].parametre = par /\ ParseFloat[xs[k].rs] # NaN BY <1>4 DEF Range
<1>6. (\E a \in Range(xs) : a.parametre = par /\ ParseFloat[a.rs] # NaN) => I # {} BY <1>4 DEF Range
<1> HIDE DEF I
<1>7. I = {} => Mesure(xs, par) = NaN BY <1>1
<1>8. I # {} => Min(I) \in I /\ Mesure(xs, par) = ParseFloat[xs[Min(I)].rs] BY <1>1, <1>2, <1>3
<1> QED BY <1>5, <1>6, <1>7, <1>8

\* A parsed file as the controls need it: lists, and texts and plants the constants tell of.
IsList(x) == x \in Seq(Range(x))
PlantRead(o) ==
    /\ IsList(o.points)
    /\ \A p \in Range(o.points) : IsList(p.prelevements)
    /\ \A p \in Range(o.points) : \A x \in Range(p.prelevements) :
           IsList(x.analyses) /\ \A a \in Range(x.analyses) : a.rs \in DOMAIN ParseFloat
    /\ o.steu # Absent => o.steu \in DOMAIN Reference.capacite
FileRead(f) == \A o \in Range(f.ouvrages) : PlantRead(o)

SamplesSet(o) == UNION {{Sample(o, o.steu, p, x) : x \in Range(p.prelevements)} : p \in Range(o.points)}

LEMMA SamplesAreListed == ASSUME NEW o, PlantRead(o) PROVE SamplesOf(o, o.steu) \in Seq(SamplesSet(o))
<1> DEFINE of(i) == [j \in 1 .. Len(o.points[i].prelevements) |-> Sample(o, o.steu, o.points[i], o.points[i].prelevements[j])]
           all == [i \in 1 .. Len(o.points) |-> of(i)]
<1>1. o.points \in Seq(Range(o.points)) /\ DOMAIN o.points = 1 .. Len(o.points) /\ Len(o.points) \in Nat
  BY DEF PlantRead, IsList
<1>2. ASSUME NEW i \in 1 .. Len(o.points) PROVE of(i) \in Seq(SamplesSet(o))
  <2>1. o.points[i] \in Range(o.points) BY <1>1 DEF Range
  <2> DEFINE l == o.points[i].prelevements
  <2>2. l \in Seq(Range(l)) /\ DOMAIN l = 1 .. Len(l) /\ Len(l) \in Nat BY <2>1 DEF PlantRead, IsList
  <2>3. \A j \in 1 .. Len(l) : l[j] \in Range(l) BY <2>2 DEF Range
  <2>4. \A j \in 1 .. Len(l) : Sample(o, o.steu, o.points[i], l[j]) \in SamplesSet(o) BY <2>1, <2>3 DEF SamplesSet
  <2> HIDE DEF l
  <2>5. [j \in 1 .. Len(l) |-> Sample(o, o.steu, o.points[i], l[j])] \in Seq(SamplesSet(o)) BY <2>2, <2>4
  <2> QED BY <2>5 DEF l
<1> HIDE DEF of
<1>3. all \in Seq(Seq(SamplesSet(o))) BY <1>1, <1>2
<1>4. FlattenSeq(all) \in Seq(SamplesSet(o))
  <2> HIDE DEF all
  <2> QED BY <1>3, FlattenIsSeq
<1> QED BY <1>4 DEF SamplesOf, of

\* A sampling that is read has analyses whose texts are known.
LEMMA SampleRead ==
    ASSUME NEW o, PlantRead(o), NEW s \in SamplesSet(o)
    PROVE  IsList(s.analyses) /\ \A a \in Range(s.analyses) : a.rs \in DOMAIN ParseFloat
BY DEF SamplesSet, Sample, PlantRead

\* A day has a volume when one of its samplings gives one, and then it is that of one.
LEMMA VolumeOfSample ==
    ASSUME NEW o, PlantRead(o), NEW loc, NEW d, d # Absent
    PROVE  /\ VolumeOf(o, loc, d) # NaN <=> d \in VolumeSampled(o, loc)
           /\ VolumeOf(o, loc, d) # NaN => VolumeOf(o, loc, d) \in Int /\ d \in Dates(o)
<1> DEFINE ss == SamplesOf(o, o.steu)
           of == {i \in DOMAIN ss : ss[i].loc = loc /\ ss[i].date = d /\ Mesure(ss[i].analyses, "Volume") # NaN}
<1>1. ss \in Seq(SamplesSet(o)) BY SamplesAreListed
<1>2. VolumeOf(o, loc, d) = IF of = {} THEN NaN ELSE Mesure(ss[Max(of)].analyses, "Volume") BY DEF VolumeOf
<1>3. VolumeSampled(o, loc) =
          {s.date : s \in {s \in Range(ss) : s.loc = loc /\ s.date # Absent
                              /\ \E a \in Range(s.analyses) : a.parametre = "Volume" /\ ParseFloat[a.rs] # NaN}}
  BY DEF VolumeSampled
<1>4. Dates(o) = {s.date : s \in Range(ss)} \ {Absent} BY DEF Dates
<1> HIDE DEF ss
<1>5. DOMAIN ss = 1 .. Len(ss) /\ Len(ss) \in Nat /\ \A i \in DOMAIN ss : ss[i] \in SamplesSet(o) /\ ss[i] \in Range(ss)
  BY <1>1 DEF Range
<1>6. \A i \in DOMAIN ss : ss[i].analyses \in Seq(Range(ss[i].analyses))
                           /\ \A a \in Range(ss[i].analyses) : a.rs \in DOMAIN ParseFloat
  BY <1>5, SampleRead DEF IsList
<1>7. of # {} => Max(of) \in of
  <2>1. of \subseteq 1 .. Len(ss) BY <1>5
  <2> HIDE DEF of
  <2> QED BY <1>5, <2>1, MaxOf
<1>8. ASSUME of # {} PROVE /\ VolumeOf(o, loc, d) # NaN /\ VolumeOf(o, loc, d) \in Int
                           /\ d \in Dates(o) /\ d \in VolumeSampled(o, loc)
  <2> DEFINE m == Max(of)
  <2>1. m \in of BY <1>7, <1>8
  <2> HIDE DEF m
  <2>2. /\ m \in DOMAIN ss /\ ss[m].loc = loc /\ ss[m].date = d
        /\ Mesure(ss[m].analyses, "Volume") # NaN
    BY <2>1
  <2>3. PICK a \in Range(ss[m].analyses) : a.parametre = "Volume" /\ ParseFloat[a.rs] # NaN
                                           /\ Mesure(ss[m].analyses, "Volume") = ParseFloat[a.rs]
    BY <1>6, <2>2, MesureOfAnalyses
  <2>4. ParseFloat[a.rs] \in Int BY <1>6, <2>2, <2>3, FiguresAssumption
  <2>5. VolumeOf(o, loc, d) = Mesure(ss[m].analyses, "Volume")
    <3> HIDE DEF of
    <3> QED BY <1>2, <1>8 DEF m
  <2>6. ss[m] \in Range(ss) BY <1>5, <2>2
  <2> HIDE DEF of
  <2>7. d \in Dates(o) BY <1>4, <2>2, <2>6
  <2>8. d \in VolumeSampled(o, loc) BY <1>3, <2>2, <2>3, <2>6
  <2> QED BY <2>2, <2>3, <2>4, <2>5, <2>7, <2>8
<1>9. ASSUME d \in VolumeSampled(o, loc) PROVE of # {}
  <2>1. PICK s \in Range(ss) : s.date = d /\ s.loc = loc
                               /\ \E a \in Range(s.analyses) : a.parametre = "Volume" /\ ParseFloat[a.rs] # NaN
    BY <1>3, <1>9
  <2>2. PICK i \in DOMAIN ss : ss[i] = s BY DEF Range
  <2>3. Mesure(s.analyses, "Volume") # NaN BY <1>6, <2>1, <2>2, MesureOfAnalyses
  <2> QED BY <2>1, <2>2, <2>3
<1>10. of = {} => VolumeOf(o, loc, d) = NaN
  <2> HIDE DEF of
  <2> QED BY <1>2
<1> HIDE DEF of
<1> QED BY <1>8, <1>9, <1>10

\* Of a day that has the two volumes there is a row, and a fault for one above the capacity.
LEMMA BothCompared ==
    ASSUME NEW f, ~Undated(f), NEW o \in Plants(f),
           Reference.capacite[o.steu] # NaN, Reference.capacite[o.steu] > 2000,
           NEW d \in Dates(o), VolumeOf(o, "A3", d) # NaN, VolumeOf(o, "A4", d) # NaN
    PROVE  /\ VerifyVolumeA3A4VsCapaciteEH(f) # {}
           /\ \A loc \in {"A3", "A4"} : ~(10 * VolumeOf(o, loc, d) < 12 * Reference.capacite[o.steu]) =>
                  Fault("CTL051", "AVERTISSEMENT", <<o.steu, d>>) \in VerifyVolumeA3A4VsCapaciteEH(f)
<1> DEFINE big == {p \in Plants(f) : Reference.capacite[p.steu] # NaN /\ Reference.capacite[p.steu] > 2000}
           ofPlant(p) == {<<p, e>> : e \in {e \in Dates(p) : NaN \notin {VolumeOf(p, "A3", e), VolumeOf(p, "A4", e)}}}
           days == UNION {ofPlant(p) : p \in big}
           below(p, loc, e) == 10 * VolumeOf(p, loc, e) < 12 * Reference.capacite[p.steu]
           faults == {Fault("CTL051", "AVERTISSEMENT", <<x[1].steu, x[2]>>) :
                         x \in {x \in days : ~below(x[1], "A3", x[2]) \/ ~below(x[1], "A4", x[2])}}
<1>1. VerifyVolumeA3A4VsCapaciteEH(f) = Rows("CTL051", days # {}, faults) BY DEF VerifyVolumeA3A4VsCapaciteEH
<1>2. o \in big OBVIOUS
<1>3. <<o, d>> \in ofPlant(o) OBVIOUS
<1> HIDE DEF big, ofPlant
<1>4. <<o, d>> \in days BY <1>2, <1>3
<1> HIDE DEF days
<1>5. ~below(o, "A3", d) \/ ~below(o, "A4", d) => Fault("CTL051", "AVERTISSEMENT", <<o.steu, d>>) \in faults
  <2> DEFINE bad == {x \in days : ~below(x[1], "A3", x[2]) \/ ~below(x[1], "A4", x[2])}
             row(x) == Fault("CTL051", "AVERTISSEMENT", <<x[1].steu, x[2]>>)
             x == <<o, d>>
  <2>1. x \in days /\ x[1] = o /\ x[2] = d BY <1>4
  <2>2. faults = {row(y) : y \in bad} OBVIOUS
  <2> HIDE DEF x, below
  <2>3. ~below(o, "A3", d) \/ ~below(o, "A4", d) => x \in bad BY <2>1
  <2>4. row(x) = Fault("CTL051", "AVERTISSEMENT", <<o.steu, d>>) BY <2>1
  <2> HIDE DEF bad, row, faults
  <2> QED BY <2>2, <2>3, <2>4
<1> HIDE DEF faults
<1>6. days # {} BY <1>4
<1>7. VerifyVolumeA3A4VsCapaciteEH(f) = IF faults = {} THEN {Succes("CTL051")} ELSE faults BY <1>1, <1>6 DEF Rows
<1>8. \A loc \in {"A3", "A4"} : ~below(o, loc, d) => ~below(o, "A3", d) \/ ~below(o, "A4", d)
  <2> HIDE DEF below
  <2> QED OBVIOUS
<1> QED BY <1>5, <1>7, <1>8

\* A day that has one volume only is reported.
LEMMA LoneReported ==
    ASSUME NEW f, NEW o \in Range(f.ouvrages), NEW x \in {<<"A3", "A4">>, <<"A4", "A3">>},
           NEW d \in VolumeDays(o, x[2]), d \notin VolumeDays(o, x[1])
    PROVE  Fault("CTL061", "AVERTISSEMENT", <<x[1], d>>) \in VerifyDebitA3A4SameDate(f)
<1> DEFINE sides == {<<"A3", "A4">>, <<"A4", "A3">>}
           ofSide(p, y) == {<<y[1], e>> : e \in VolumeDays(p, y[2]) \ VolumeDays(p, y[1])}
           ofPlant(p) == UNION {ofSide(p, y) : y \in sides}
           lone == UNION {ofPlant(p) : p \in Range(f.ouvrages)}
           some == \E p \in Range(f.ouvrages) : VolumeDays(p, "A3") \cup VolumeDays(p, "A4") # {}
           faults == {Fault("CTL061", "AVERTISSEMENT", y) : y \in lone}
<1>1. VerifyDebitA3A4SameDate(f) = Rows("CTL061", some, faults) BY DEF VerifyDebitA3A4SameDate
<1>2. <<x[1], d>> \in ofSide(o, x) OBVIOUS
<1>3. x \in sides OBVIOUS
<1>4. x[2] \in {"A3", "A4"} OBVIOUS
<1> HIDE DEF sides, ofSide
<1>5. <<x[1], d>> \in ofPlant(o) BY <1>2, <1>3
<1> HIDE DEF ofPlant
<1>6. <<x[1], d>> \in lone BY <1>5
<1>7. some BY <1>4
<1> HIDE DEF lone, some
<1>8. Fault("CTL061", "AVERTISSEMENT", <<x[1], d>>) \in faults BY <1>6
<1> HIDE DEF faults
<1>9. faults # {} BY <1>8
<1> QED BY <1>1, <1>7, <1>8, <1>9 DEF Rows

LEMMA ParamsOfAFault ==
    ASSUME NEW ctl, NEW sev, sev # "SUCCES", NEW params, NEW some, Fault(ctl, sev, params) \in some
    PROVE  params \in {r.params : r \in {r \in some : r.sev # "SUCCES"}}
<1> DEFINE r == Fault(ctl, sev, params)
<1>1. r.params = params /\ r.sev # "SUCCES" BY DEF Fault
<1> QED BY <1>1

LEMMA VolumesAgree == ASSUME NEW f, FileRead(f) PROVE VolumeAccount(f)
<1> DEFINE lone == {r.params : r \in {r \in VerifyDebitA3A4SameDate(f) : r.sev # "SUCCES"}}
           above == {r.params : r \in {r \in VerifyVolumeA3A4VsCapaciteEH(f) : r.sev # "SUCCES"}}
           other(loc) == IF loc = "A3" THEN "A4" ELSE "A3"
<1>1. ASSUME ~Undated(f), NEW o \in Plants(f), Reference.capacite[o.steu] # NaN, Reference.capacite[o.steu] > 2000,
             NEW loc \in {"A3", "A4"}, NEW d \in VolumeSampled(o, loc)
      PROVE  IF d \in VolumeSampled(o, other(loc))
             THEN /\ VerifyVolumeA3A4VsCapaciteEH(f) # {}
                  /\ 10 * VolumeOf(o, loc, d) >= 12 * Reference.capacite[o.steu] => <<o.steu, d>> \in above
             ELSE <<other(loc), d>> \in lone
  <2>1. o \in Range(f.ouvrages) /\ o.steu # Absent /\ PlantRead(o) BY DEF Plants, FileRead
  <2>2. d # Absent BY DEF VolumeSampled
  <2>3. VolumeOf(o, loc, d) # NaN /\ VolumeOf(o, loc, d) \in Int /\ d \in Dates(o) BY <2>1, <2>2, VolumeOfSample
  <2>4. VolumeOf(o, other(loc), d) # NaN <=> d \in VolumeSampled(o, other(loc)) BY <2>1, <2>2, VolumeOfSample
  <2>5. Reference.capacite[o.steu] \in Int BY <1>1, <2>1, FiguresAssumption DEF PlantRead
  <2> HIDE DEF above, lone
  <2>6. CASE d \in VolumeSampled(o, other(loc))
    <3>1. VolumeOf(o, "A3", d) # NaN /\ VolumeOf(o, "A4", d) # NaN BY <2>3, <2>4, <2>6
    <3> HIDE DEF other
    <3>2. /\ VerifyVolumeA3A4VsCapaciteEH(f) # {}
          /\ \A l \in {"A3", "A4"} : ~(10 * VolumeOf(o, l, d) < 12 * Reference.capacite[o.steu]) =>
                 Fault("CTL051", "AVERTISSEMENT", <<o.steu, d>>) \in VerifyVolumeA3A4VsCapaciteEH(f)
      <4>1. ~Undated(f) /\ o \in Plants(f) /\ Reference.capacite[o.steu] # NaN /\ Reference.capacite[o.steu] > 2000 BY <1>1
      <4>2. d \in Dates(o) BY <2>3
      <4> QED BY <4>1, <4>2, <3>1, BothCompared
    <3>3. ASSUME 10 * VolumeOf(o, loc, d) >= 12 * Reference.capacite[o.steu] PROVE <<o.steu, d>> \in above
      <4>1. ~(10 * VolumeOf(o, loc, d) < 12 * Reference.capacite[o.steu]) BY <2>3, <2>5, <3>3
      <4>2. Fault("CTL051", "AVERTISSEMENT", <<o.steu, d>>) \in VerifyVolumeA3A4VsCapaciteEH(f) BY <3>2, <4>1
      <4> QED BY <4>2, ParamsOfAFault DEF above
    <3> QED BY <2>6, <3>2, <3>3
  <2>7. CASE d \notin VolumeSampled(o, other(loc))
    <3> DEFINE x == <<other(loc), loc>>
    <3>1. x \in {<<"A3", "A4">>, <<"A4", "A3">>} /\ x[1] = other(loc) /\ x[2] = loc OBVIOUS
    <3>2. d \in VolumeDays(o, loc) BY <2>3 DEF VolumeDays
    <3>3. d \notin VolumeDays(o, other(loc)) BY <2>4, <2>7 DEF VolumeDays
    <3> HIDE DEF x, other
    <3>4. Fault("CTL061", "AVERTISSEMENT", <<x[1], d>>) \in VerifyDebitA3A4SameDate(f)
      BY <2>1, <3>1, <3>2, <3>3, LoneReported
    <3>5. <<x[1], d>> \in lone BY <3>4, ParamsOfAFault DEF lone
    <3> QED BY <2>7, <3>1, <3>5
  <2> QED BY <2>6, <2>7
<1> HIDE DEF lone, above, other
<1> DEFINE P(o, loc, d) ==
               IF d \in VolumeSampled(o, other(loc))
               THEN /\ VerifyVolumeA3A4VsCapaciteEH(f) # {}
                    /\ 10 * VolumeOf(o, loc, d) >= 12 * Reference.capacite[o.steu] => <<o.steu, d>> \in above
               ELSE <<other(loc), d>> \in lone
           big == {o \in Plants(f) : Reference.capacite[o.steu] # NaN /\ Reference.capacite[o.steu] > 2000}
<1>2. ASSUME ~Undated(f), NEW o \in big, NEW loc \in {"A3", "A4"}, NEW d \in VolumeSampled(o, loc) PROVE P(o, loc, d)
  BY <1>1, <1>2
<1> USE DEF lone, above, other
<1>3. VolumeAccount(f) <=> (~ExecuteFails(f) /\ ~Undated(f) =>
          \A o \in big : \A loc \in {"A3", "A4"} : \A d \in VolumeSampled(o, loc) : P(o, loc, d))
  BY Zenon DEF VolumeAccount
<1> HIDE DEF P, big
<1> QED BY <1>2, <1>3

----------------------------------------------------------------------------
(* The text of a file, and the name that is written into it *)

IsElement(x) == x = [tag |-> x.tag, ns |-> x.ns, text |-> x.text, kids |-> x.kids] /\ IsList(x.kids)

\* The elements of a text are elements, as deep as a name goes.
IsTree(x) ==
    /\ IsElement(x)
    /\ \A s \in Range(x.kids) : /\ IsElement(s)
                                /\ \A e \in Range(s.kids) : IsElement(e) /\ \A c \in Range(e.kids) : IsElement(c)

Pieces(x, tag) == [i \in DOMAIN x.kids |-> IF x.kids[i].tag = tag THEN <<x.kids[i]>> ELSE <<>>]

LEMMA KidsOf ==
    ASSUME NEW x, IsElement(x)
    PROVE  /\ x.kids \in Seq(Range(x.kids)) /\ Len(x.kids) \in Nat /\ DOMAIN x.kids = 1 .. Len(x.kids)
           /\ \A i \in DOMAIN x.kids : x.kids[i] \in Range(x.kids)
<1>1. x.kids \in Seq(Range(x.kids)) BY DEF IsElement, IsList
<1> DEFINE l == x.kids
<1>2. l \in Seq(Range(l)) BY <1>1
<1> HIDE DEF l
<1>3. Len(l) \in Nat /\ DOMAIN l = 1 .. Len(l) BY <1>2, LenProperties
<1>4. \A i \in DOMAIN l : l[i] \in Range(l) BY DEF Range
<1> QED BY <1>2, <1>3, <1>4 DEF l

LEMMA PiecesAre ==
    ASSUME NEW x, IsElement(x), NEW tag, NEW S, \A k \in Range(x.kids) : k.tag = tag => k \in S
    PROVE  Pieces(x, tag) \in Seq(Seq(S)) /\ Len(Pieces(x, tag)) = Len(x.kids) /\ Named(x, tag) = FlattenSeq(Pieces(x, tag))
<1> DEFINE l == x.kids n == Len(l)
<1>1. n \in Nat /\ DOMAIN l = 1 .. n /\ \A i \in 1 .. n : l[i] \in Range(l) BY KidsOf
<1>2. Pieces(x, tag) = [i \in 1 .. n |-> IF l[i].tag = tag THEN <<l[i]>> ELSE <<>>] BY <1>1 DEF Pieces
<1>3. Named(x, tag) = FlattenSeq(Pieces(x, tag)) BY DEF Named, Pieces
<1>4. \A i \in 1 .. n : l[i].tag = tag => l[i] \in S BY <1>1
<1> HIDE DEF l, n
<1>5. \A i \in 1 .. n : (IF l[i].tag = tag THEN <<l[i]>> ELSE <<>>) \in Seq(S)
  <2> SUFFICES ASSUME NEW i \in 1 .. n PROVE (IF l[i].tag = tag THEN <<l[i]>> ELSE <<>>) \in Seq(S) OBVIOUS
  <2>1. CASE l[i].tag = tag
    <3>1. l[i] \in S BY <1>4, <2>1
    <3> QED BY <2>1, <3>1
  <2>2. CASE l[i].tag # tag BY <2>2, EmptySeq
  <2> QED BY <2>1, <2>2
<1>6. [i \in 1 .. n |-> IF l[i].tag = tag THEN <<l[i]>> ELSE <<>>] \in Seq(Seq(S)) BY <1>1, <1>5
<1>7. Len([i \in 1 .. n |-> IF l[i].tag = tag THEN <<l[i]>> ELSE <<>>]) = n BY <1>1
<1> QED BY <1>2, <1>3, <1>6, <1>7 DEF n, l

\* The children of a name are all those that bear it, and no other.
LEMMA NamedAre ==
    ASSUME NEW x, IsElement(x), NEW tag
    PROVE  /\ Named(x, tag) \in Seq({k \in Range(x.kids) : k.tag = tag})
           /\ \A i \in DOMAIN x.kids : x.kids[i].tag = tag => In_(x.kids[i], Named(x, tag))
<1> DEFINE S == {k \in Range(x.kids) : k.tag = tag} ss == Pieces(x, tag)
<1>1. \A k \in Range(x.kids) : k.tag = tag => k \in S OBVIOUS
<1> HIDE DEF S, ss
<1>2. ss \in Seq(Seq(S)) /\ Len(ss) = Len(x.kids) /\ Named(x, tag) = FlattenSeq(ss) BY <1>1, PiecesAre DEF ss
<1>3. ASSUME NEW i \in DOMAIN x.kids, x.kids[i].tag = tag PROVE In_(x.kids[i], FlattenSeq(ss))
  <2>1. i \in 1 .. Len(ss) BY <1>2, KidsOf
  <2>2. ss[i] = <<x.kids[i]>> BY <1>3 DEF ss, Pieces
  <2>3. In_(x.kids[i], ss[i])
    <3> DEFINE k == x.kids[i]
    <3> HIDE DEF k
    <3>1. 1 \in 1 .. Len(<<k>>) /\ <<k>>[1] = k OBVIOUS
    <3>2. In_(k, <<k>>) BY <3>1 DEF In_
    <3> QED BY <2>2, <3>2 DEF k
  <2> QED BY <1>2, <2>1, <2>3, FlattenHolds
<1>4. FlattenSeq(ss) \in Seq(S) BY <1>2, FlattenIsSeq
<1> QED BY <1>2, <1>3, <1>4 DEF S

\* x, with k for its child at i.
WithChild(x, i, k) == [x EXCEPT !.kids = [x.kids EXCEPT ![i] = k]]

\* The pairs of what may be read in the same place before and after.
Pairs(x, i, k) == {<<a, a>> : a \in Range(x.kids)} \cup {<<x.kids[i], k>>}

\* An element in the place of another of its name changes no other name, and nothing but it.
LEMMA NamedReplaced ==
    ASSUME NEW x, IsElement(x), NEW i \in DOMAIN x.kids, NEW k, k.tag = x.kids[i].tag,
           NEW y, IsElement(y), y = WithChild(x, i, k), NEW tag
    PROVE  /\ tag # k.tag => Named(y, tag) = Named(x, tag)
           /\ Alike(Pairs(x, i, k), Named(x, tag), Named(y, tag))
<1> DEFINE R == {<<a, a>> : a \in Range(x.kids)} \cup {<<x.kids[i], k>>}
           S == Range(x.kids) \cup Range(y.kids)
           p == Pieces(x, tag) q == Pieces(y, tag)
<1>1. DOMAIN y.kids = DOMAIN x.kids /\ y.kids[i] = k /\ \A j \in DOMAIN x.kids : j # i => y.kids[j] = x.kids[j]
  <2>1. y.kids = [x.kids EXCEPT ![i] = k] BY DEF WithChild, IsElement
  <2> QED BY <2>1
<1>2. tag # k.tag => p = q BY <1>1 DEF Pieces
<1>3. p \in Seq(Seq(S)) /\ Len(p) = Len(x.kids) /\ Named(x, tag) = FlattenSeq(p) BY PiecesAre
<1>4. q \in Seq(Seq(S)) /\ Len(q) = Len(y.kids) /\ Named(y, tag) = FlattenSeq(q) BY PiecesAre
<1>5. Len(x.kids) \in Nat /\ Len(y.kids) \in Nat /\ DOMAIN x.kids = 1 .. Len(x.kids) /\ DOMAIN y.kids = 1 .. Len(y.kids)
  BY KidsOf
<1>6. Len(p) = Len(q) BY <1>1, <1>3, <1>4, <1>5
<1>7. ASSUME NEW j \in 1 .. Len(p) PROVE Alike(R, p[j], q[j])
  <2>1. j \in DOMAIN x.kids /\ j \in DOMAIN y.kids BY <1>1, <1>3, <1>5
  <2>2. /\ p[j] = IF x.kids[j].tag = tag THEN <<x.kids[j]>> ELSE <<>>
        /\ q[j] = IF y.kids[j].tag = tag THEN <<y.kids[j]>> ELSE <<>>
    BY <2>1 DEF Pieces
  <2>3. y.kids[j].tag = x.kids[j].tag BY <1>1, <2>1
  <2>4. <<x.kids[j], y.kids[j]>> \in R
    <3>1. x.kids[j] \in Range(x.kids) BY <2>1, KidsOf
    <3> QED BY <1>1, <2>1, <3>1
  <2> HIDE DEF R, p, q
  <2>5. ASSUME NEW a, NEW b, <<a, b>> \in R PROVE Alike(R, <<a>>, <<b>>) BY <2>5 DEF Alike
  <2>6. Alike(R, <<>>, <<>>) BY DEF Alike
  <2>7. CASE x.kids[j].tag = tag
    <3>1. p[j] = <<x.kids[j]>> /\ q[j] = <<y.kids[j]>> BY <2>2, <2>3, <2>7
    <3> QED BY <2>4, <2>5, <3>1
  <2>8. CASE x.kids[j].tag # tag BY <2>2, <2>3, <2>6, <2>8
  <2> QED BY <2>7, <2>8
<1> HIDE DEF R, S, p, q
<1>8. Alike(R, FlattenSeq(p), FlattenSeq(q)) BY <1>3, <1>4, <1>6, <1>7, FlattenAlike
<1> QED BY <1>2, <1>3, <1>4, <1>8 DEF R, Pairs

LEMMA NamedElsewhere ==
    ASSUME NEW x, IsElement(x), NEW i, i \in DOMAIN x.kids, NEW k, k.tag = x.kids[i].tag, NEW tag, tag # k.tag,
           IsElement(WithChild(x, i, k))
    PROVE  Named(WithChild(x, i, k), tag) = Named(x, tag)
<1> DEFINE y == WithChild(x, i, k)
<1>1. IsElement(y) /\ y = WithChild(x, i, k) OBVIOUS
<1> HIDE DEF y
<1>2. tag # k.tag => Named(y, tag) = Named(x, tag) BY <1>1, NamedReplaced
<1> QED BY <1>2 DEF y

\* Nor does an element at the end, of another name.
LEMMA NamedAppended ==
    ASSUME NEW x, IsElement(x), NEW k, NEW y, IsElement(y), y.kids = Append(x.kids, k), NEW tag, tag # k.tag
    PROVE  Named(y, tag) = Named(x, tag)
<1> DEFINE S == Range(x.kids) \cup Range(y.kids)
           p == Pieces(x, tag) q == Pieces(y, tag) n == Len(x.kids)
<1>1. p \in Seq(Seq(S)) /\ Len(p) = n /\ Named(x, tag) = FlattenSeq(p) BY PiecesAre
<1>2. q \in Seq(Seq(S)) /\ Len(q) = Len(y.kids) /\ Named(y, tag) = FlattenSeq(q) BY PiecesAre
<1>3. n \in Nat /\ DOMAIN x.kids = 1 .. n /\ x.kids \in Seq(Range(x.kids)) BY KidsOf
<1>4. DOMAIN y.kids = 1 .. Len(y.kids) BY KidsOf
<1>5. Len(y.kids) = n + 1 /\ y.kids[n + 1] = k /\ \A j \in 1 .. n : y.kids[j] = x.kids[j]
  <2> DEFINE l == x.kids
  <2>1. l \in Seq(Range(l) \cup {k}) /\ k \in Range(l) \cup {k} BY <1>3
  <2> HIDE DEF l
  <2>2. /\ Len(Append(l, k)) = Len(l) + 1 /\ Append(l, k)[Len(l) + 1] = k
        /\ \A j \in 1 .. Len(l) : Append(l, k)[j] = l[j]
    BY <2>1, AppendProperties
  <2> QED BY <2>2 DEF l
<1>6. \A j \in 1 .. n : q[j] = p[j] BY <1>3, <1>4, <1>5 DEF Pieces
<1>7. q[n + 1] = <<>> BY <1>3, <1>4, <1>5 DEF Pieces
<1> HIDE DEF S, p, q, n
<1>8. <<>> \in Seq(S) BY EmptySeq
<1>9. /\ Append(p, <<>>) \in Seq(Seq(S)) /\ Len(Append(p, <<>>)) = n + 1 /\ Append(p, <<>>)[n + 1] = <<>>
      /\ \A j \in 1 .. n : Append(p, <<>>)[j] = p[j]
  BY <1>1, <1>8, AppendProperties
<1>10. q = Append(p, <<>>)
  <2>1. Len(q) = Len(Append(p, <<>>)) BY <1>2, <1>5, <1>9
  <2>2. ASSUME NEW j \in 1 .. Len(q) PROVE q[j] = Append(p, <<>>)[j]
    <3>1. j \in 1 .. n \/ j = n + 1
      <4>1. j \in 1 .. n + 1 BY <1>2, <1>5
      <4> QED BY <1>3, <4>1
    <3> QED BY <1>6, <1>7, <1>9, <3>1
  <2> QED BY <1>2, <1>9, <2>1, <2>2, SeqEqual
<1>11. FlattenSeq(Append(p, <<>>)) = FlattenSeq(p) BY <1>1, FlattenEmptyLast
<1> QED BY <1>1, <1>2, <1>10, <1>11

----------------------------------------------------------------------------
(* What the parser makes of a tree of elements *)

LEMMA ListMade ==
    ASSUME NEW n \in Nat, NEW l, l = [i \in 1 .. n |-> l[i]]
    PROVE  IsList(l) /\ \A x \in Range(l) : \E i \in 1 .. n : x = l[i]
<1>1. \A i \in 1 .. n : l[i] \in Range(l) BY DEF Range
<1>2. [i \in 1 .. n |-> l[i]] \in Seq(Range(l)) BY <1>1
<1>3. IsList(l) BY <1>2 DEF IsList
<1>4. \A x \in Range(l) : \E i \in 1 .. n : x = l[i] BY DEF Range
<1> QED BY <1>3, <1>4

LEMMA NamedAreKids ==
    ASSUME NEW x, IsElement(x), NEW tag
    PROVE  Len(Named(x, tag)) \in Nat /\ \A i \in 1 .. Len(Named(x, tag)) : Named(x, tag)[i] \in Range(x.kids)
<1> DEFINE S == {k \in Range(x.kids) : k.tag = tag} l == Named(x, tag)
<1>1. l \in Seq(S) BY NamedAre
<1>2. \A k \in S : k \in Range(x.kids) OBVIOUS
<1> HIDE DEF S, l
<1>3. Len(l) \in Nat /\ \A i \in 1 .. Len(l) : l[i] \in S BY <1>1
<1> QED BY <1>2, <1>3 DEF l

LEMMA PrelevementIsRead == ASSUME NEW x, IsElement(x) PROVE IsList(MapPrelevement(x).analyses)
<1> DEFINE a == Named(x, "Analyse") l == MapPrelevement(x).analyses
<1>1. Len(a) \in Nat BY NamedAreKids
<1>2. l = [i \in 1 .. Len(a) |-> MapAnalyse(a[i])] BY DEF MapPrelevement, Liste
<1>3. l = [i \in 1 .. Len(a) |-> l[i]] BY <1>2
<1> HIDE DEF l, a
<1>4. IsList(l) BY <1>1, <1>3, ListMade
<1> QED BY <1>4 DEF l

LEMMA PointIsRead ==
    ASSUME NEW x, IsElement(x), \A k \in Range(x.kids) : IsElement(k)
    PROVE  /\ IsList(MapPointMesure(x).prelevements)
           /\ \A p \in Range(MapPointMesure(x).prelevements) : IsList(p.analyses)
<1> DEFINE a == Named(x, "Prlvt") l == MapPointMesure(x).prelevements
<1>1. Len(a) \in Nat /\ \A i \in 1 .. Len(a) : a[i] \in Range(x.kids) BY NamedAreKids
<1>2. l = [i \in 1 .. Len(a) |-> MapPrelevement(a[i])] BY DEF MapPointMesure, Liste
<1>3. l = [i \in 1 .. Len(a) |-> l[i]] /\ \A i \in 1 .. Len(a) : l[i] = MapPrelevement(a[i]) BY <1>2
<1> HIDE DEF l, a
<1>4. IsList(l) /\ \A p \in Range(l) : \E i \in 1 .. Len(a) : p = l[i] BY <1>1, <1>3, ListMade
<1>5. ASSUME NEW p \in Range(l) PROVE IsList(p.analyses)
  <2>1. PICK i \in 1 .. Len(a) : p = l[i] BY <1>4
  <2>2. IsElement(a[i]) BY <1>1
  <2>3. p = MapPrelevement(a[i]) BY <1>3, <2>1
  <2> QED BY <2>2, <2>3, PrelevementIsRead
<1> QED BY <1>4, <1>5 DEF l

LEMMA OuvrageIsRead ==
    ASSUME NEW x, IsElement(x), \A k \in Range(x.kids) : IsElement(k) /\ \A c \in Range(k.kids) : IsElement(c)
    PROVE  /\ IsList(MapOuvrage(x).points)
           /\ \A p \in Range(MapOuvrage(x).points) :
                  IsList(p.prelevements) /\ \A s \in Range(p.prelevements) : IsList(s.analyses)
<1> DEFINE a == Named(x, "PointMesure") l == MapOuvrage(x).points
<1>1. Len(a) \in Nat /\ \A i \in 1 .. Len(a) : a[i] \in Range(x.kids) BY NamedAreKids
<1>2. l = [i \in 1 .. Len(a) |-> MapPointMesure(a[i])] BY DEF MapOuvrage, Liste
<1>3. l = [i \in 1 .. Len(a) |-> l[i]] /\ \A i \in 1 .. Len(a) : l[i] = MapPointMesure(a[i]) BY <1>2
<1> HIDE DEF l, a
<1>4. IsList(l) /\ \A p \in Range(l) : \E i \in 1 .. Len(a) : p = l[i] BY <1>1, <1>3, ListMade
<1>5. ASSUME NEW p \in Range(l) PROVE IsList(p.prelevements) /\ \A s \in Range(p.prelevements) : IsList(s.analyses)
  <2>1. PICK i \in 1 .. Len(a) : p = l[i] BY <1>4
  <2>2. IsElement(a[i]) /\ \A c \in Range(a[i].kids) : IsElement(c) BY <1>1
  <2>3. p = MapPointMesure(a[i]) BY <1>3, <2>1
  <2> QED BY <2>2, <2>3, PointIsRead
<1> QED BY <1>4, <1>5 DEF l

\* The constants tell of the texts and of the plants of a file, and a text is a tree.
FiguresRead(f) ==
    \A o \in Range(f.ouvrages) :
        /\ o.steu # Absent => o.steu \in DOMAIN Reference.capacite
        /\ \A p \in Range(o.points) : \A x \in Range(p.prelevements) : \A a \in Range(x.analyses) :
               a.rs \in DOMAIN ParseFloat
FilesRead == \A d \in Docs \cup RuleDocs : ~ParseFails(d) => IsTree(d) /\ FiguresRead(Parse(d))

LEMMA FileIsRead == ASSUME NEW d, IsTree(d), FiguresRead(Parse(d)) PROVE FileRead(Parse(d))
<1> DEFINE a == Named(d, "OuvrageDepollution") l == Parse(d).ouvrages
<1>1. IsElement(d) BY DEF IsTree
<1>2. Len(a) \in Nat /\ \A i \in 1 .. Len(a) : a[i] \in Range(d.kids) BY <1>1, NamedAreKids
<1>3. l = [i \in 1 .. Len(a) |-> MapOuvrage(a[i])] BY DEF Parse, Liste
<1>4. l = [i \in 1 .. Len(a) |-> l[i]] /\ \A i \in 1 .. Len(a) : l[i] = MapOuvrage(a[i]) BY <1>3
<1>5. FileRead(Parse(d)) <=> \A o \in Range(l) : PlantRead(o) BY DEF FileRead
<1>6. FiguresRead(Parse(d)) <=>
          \A o \in Range(l) :
              /\ o.steu # Absent => o.steu \in DOMAIN Reference.capacite
              /\ \A p \in Range(o.points) : \A x \in Range(p.prelevements) : \A b \in Range(x.analyses) :
                     b.rs \in DOMAIN ParseFloat
  BY DEF FiguresRead
<1> HIDE DEF l, a
<1>7. \A o \in Range(l) : \E i \in 1 .. Len(a) : o = l[i] BY <1>2, <1>4, ListMade
<1>8. ASSUME NEW o \in Range(l) PROVE PlantRead(o)
  <2>1. PICK i \in 1 .. Len(a) : o = l[i] BY <1>7
  <2>2. IsElement(a[i]) /\ \A k \in Range(a[i].kids) : IsElement(k) /\ \A c \in Range(k.kids) : IsElement(c)
    BY <1>2 DEF IsTree
  <2>3. o = MapOuvrage(a[i]) BY <1>4, <2>1
  <2>4. /\ IsList(o.points)
        /\ \A p \in Range(o.points) : IsList(p.prelevements) /\ \A s \in Range(p.prelevements) : IsList(s.analyses)
    BY <2>2, <2>3, OuvrageIsRead
  <2> QED BY <1>6, <2>4 DEF PlantRead
<1> QED BY <1>5, <1>8

\* No volume at the inlet or the outlet of a plant of more than 2000 population equivalents
\* escapes both controls on volumes, whatever the file and the reference data, when the
\* constants tell of the texts and the plants of the files
\* (controleMetierV2.service.ts:357-461, 913-971).
THEOREM VolumesAccounted == ASSUME FilesRead PROVE Spec => []VolumeDaysAccounted
<1>1. Init => VolumeDaysAccounted
  <2> SUFFICES ASSUME Init PROVE VolumeDaysAccounted OBVIOUS
  <2>1. doc \in Docs \cup RuleDocs /\ ~ParseFails(doc) /\ file = Parse(doc) BY DEF Init, V1InitFor, RuleDocs
  <2>2. IsTree(doc) /\ FiguresRead(Parse(doc)) BY <2>1 DEF FilesRead
  <2>3. FileRead(file) BY <2>1, <2>2, FileIsRead
  <2> QED BY <2>3, VolumesAgree DEF VolumeDaysAccounted
<1>2. VolumeDaysAccounted /\ [Next]_vars => VolumeDaysAccounted'
  BY StepOfTheRights DEF Grows, VolumeDaysAccounted
<1> QED BY <1>1, <1>2, PTL DEF Spec

----------------------------------------------------------------------------
(* Places of children *)

\* The place of a child is the first of its name and namespace, and 0 when there is none.
LEMMA PlaceIs ==
    ASSUME NEW x, IsElement(x), NEW tag
    PROVE  /\ Place(x, tag) # 0 => /\ Place(x, tag) \in DOMAIN x.kids
                                   /\ x.kids[Place(x, tag)].tag = tag /\ x.kids[Place(x, tag)].ns = x.ns
           /\ (\E i \in DOMAIN x.kids : x.kids[i].tag = tag /\ x.kids[i].ns = x.ns) => Place(x, tag) # 0
<1> DEFINE I == {i \in 1 .. Len(x.kids) : x.kids[i].tag = tag /\ x.kids[i].ns = x.ns}
<1>1. Place(x, tag) = IF I # {} THEN Min(I) ELSE 0 BY DEF Place, SelectInSeq
<1>2. DOMAIN x.kids = 1 .. Len(x.kids) /\ Len(x.kids) \in Nat BY KidsOf
<1>3. I \subseteq Nat /\ 0 \notin I BY <1>2
<1>4. I # {} => Min(I) \in I
  <2> HIDE DEF I
  <2> QED BY <1>3, MinOf
<1>5. \A i \in I : i \in DOMAIN x.kids /\ x.kids[i].tag = tag /\ x.kids[i].ns = x.ns BY <1>2
<1>6. (\E i \in DOMAIN x.kids : x.kids[i].tag = tag /\ x.kids[i].ns = x.ns) => I # {} BY <1>2
<1> HIDE DEF I
<1>7. CASE I = {}
  <2>1. Place(x, tag) = 0 BY <1>1, <1>7
  <2> QED BY <1>6, <1>7, <2>1
<1>8. CASE I # {}
  <2>1. Place(x, tag) \in I BY <1>1, <1>4, <1>8
  <2> QED BY <1>3, <1>5, <2>1
<1> QED BY <1>7, <1>8

\* It depends on names and namespaces only.
LEMMA SamePlace ==
    ASSUME NEW x, NEW y, Len(y.kids) = Len(x.kids), y.ns = x.ns,
           \A i \in 1 .. Len(x.kids) : y.kids[i].tag = x.kids[i].tag /\ y.kids[i].ns = x.kids[i].ns,
           NEW tag
    PROVE  Place(y, tag) = Place(x, tag)
<1> DEFINE I == {i \in 1 .. Len(x.kids) : x.kids[i].tag = tag /\ x.kids[i].ns = x.ns}
           J == {i \in 1 .. Len(y.kids) : y.kids[i].tag = tag /\ y.kids[i].ns = y.ns}
<1>1. Place(x, tag) = IF I # {} THEN Min(I) ELSE 0 BY DEF Place, SelectInSeq
<1>2. Place(y, tag) = IF J # {} THEN Min(J) ELSE 0 BY DEF Place, SelectInSeq
<1>3. I = J OBVIOUS
<1> HIDE DEF I, J
<1> QED BY <1>1, <1>2, <1>3

\* A child of the same name and namespace put in the place of another.
LEMMA Replaced ==
    ASSUME NEW x, IsElement(x), NEW i \in DOMAIN x.kids, NEW k, k.tag = x.kids[i].tag, k.ns = x.kids[i].ns,
           NEW y, y = WithChild(x, i, k)
    PROVE  /\ IsElement(y) /\ y.tag = x.tag /\ y.ns = x.ns /\ y.kids = [x.kids EXCEPT ![i] = k]
           /\ DOMAIN y.kids = DOMAIN x.kids /\ Len(y.kids) = Len(x.kids)
           /\ y.kids[i] = k /\ \A j \in DOMAIN x.kids : j # i => y.kids[j] = x.kids[j]
           /\ Range(y.kids) \subseteq Range(x.kids) \cup {k}
           /\ \A tag : Place(y, tag) = Place(x, tag) /\ PlacesOf(y, tag) = PlacesOf(x, tag)
<1> DEFINE l == x.kids m == [l EXCEPT ![i] = k]
<1>1. x = [tag |-> x.tag, ns |-> x.ns, text |-> x.text, kids |-> x.kids] BY DEF IsElement
<1>2. y = [tag |-> x.tag, ns |-> x.ns, text |-> x.text, kids |-> m] BY <1>1 DEF WithChild
<1>3. y.tag = x.tag /\ y.ns = x.ns /\ y.text = x.text /\ y.kids = m BY <1>2
<1>4. l \in Seq(Range(l)) /\ Len(l) \in Nat /\ DOMAIN l = 1 .. Len(l) /\ i \in 1 .. Len(l) BY KidsOf
<1>5. DOMAIN m = DOMAIN l /\ m[i] = k /\ \A j \in DOMAIN l : j # i => m[j] = l[j] OBVIOUS
<1>6. k.tag = l[i].tag /\ k.ns = l[i].ns OBVIOUS
<1> HIDE DEF m, l
<1>7. \A j \in DOMAIN l : m[j] \in Range(m) BY <1>5 DEF Range
<1>8. m \in Seq(Range(m)) /\ Len(m) = Len(l)
  <2>1. m = [j \in 1 .. Len(l) |-> m[j]] BY <1>4, <1>5 DEF m
  <2>2. \A j \in 1 .. Len(l) : m[j] \in Range(m) BY <1>4, <1>7
  <2> QED BY <1>4, <2>1, <2>2
<1>9. IsElement(y) BY <1>2, <1>3, <1>8 DEF IsElement, IsList
<1>10. Range(m) \subseteq Range(l) \cup {k} BY <1>5 DEF Range
<1>11. \A j \in DOMAIN l : m[j].tag = l[j].tag /\ m[j].ns = l[j].ns BY <1>5, <1>6
<1>12. ASSUME NEW tag PROVE Place(y, tag) = Place(x, tag) /\ PlacesOf(y, tag) = PlacesOf(x, tag)
  <2>1. Len(y.kids) = Len(x.kids) BY <1>3, <1>8 DEF l
  <2>2. \A j \in 1 .. Len(x.kids) : y.kids[j].tag = x.kids[j].tag /\ y.kids[j].ns = x.kids[j].ns
    BY <1>3, <1>4, <1>11 DEF l
  <2>3. Place(y, tag) = Place(x, tag) BY <1>3, <2>1, <2>2, SamePlace
  <2>4. PlacesOf(y, tag) = {j \in DOMAIN m : m[j].tag = tag} BY <1>3 DEF PlacesOf
  <2>5. PlacesOf(x, tag) = {j \in DOMAIN l : l[j].tag = tag} BY DEF PlacesOf, l
  <2> QED BY <1>5, <1>11, <2>3, <2>4, <2>5
<1> QED BY <1>3, <1>5, <1>8, <1>9, <1>10, <1>12 DEF l, m

\* A child put at the end.
LEMMA AppendedIs ==
    ASSUME NEW x, IsElement(x), NEW k, NEW y, y = Appended(x, k)
    PROVE  /\ IsElement(y) /\ y.tag = x.tag /\ y.ns = x.ns /\ y.kids = Append(x.kids, k)
           /\ Len(x.kids) + 1 \in DOMAIN y.kids /\ y.kids[Len(x.kids) + 1] = k
           /\ \A j \in DOMAIN y.kids : j # Len(x.kids) + 1 => j \in DOMAIN x.kids /\ y.kids[j] = x.kids[j]
<1> DEFINE l == x.kids n == Len(l) m == Append(l, k)
<1>1. x = [tag |-> x.tag, ns |-> x.ns, text |-> x.text, kids |-> x.kids] BY DEF IsElement
<1>2. y = [tag |-> x.tag, ns |-> x.ns, text |-> x.text, kids |-> m] BY <1>1 DEF Appended
<1>3. y.tag = x.tag /\ y.ns = x.ns /\ y.text = x.text /\ y.kids = m BY <1>2
<1>4. l \in Seq(Range(l)) /\ n \in Nat /\ DOMAIN l = 1 .. n BY KidsOf
<1> HIDE DEF m, l, n
<1>5. l \in Seq(Range(l) \cup {k}) /\ k \in Range(l) \cup {k} BY <1>4
<1>6. /\ m \in Seq(Range(l) \cup {k}) /\ Len(m) = n + 1 /\ m[n + 1] = k
      /\ \A j \in 1 .. n : m[j] = l[j]
  BY <1>5, AppendProperties DEF m, n
<1>7. DOMAIN m = 1 .. n + 1 BY <1>6, LenProperties
<1>8. m \in Seq(Range(m))
  <2>1. m = [j \in 1 .. n + 1 |-> m[j]] BY <1>6, <1>7, LenProperties
  <2>2. \A j \in 1 .. n + 1 : m[j] \in Range(m) BY <1>7 DEF Range
  <2>3. n + 1 \in Nat BY <1>4
  <2> QED BY <2>1, <2>2, <2>3
<1>9. IsElement(y) BY <1>2, <1>3, <1>8 DEF IsElement, IsList
<1>10. n + 1 \in DOMAIN m BY <1>4, <1>7
<1>11. \A j \in DOMAIN m : j # n + 1 => j \in DOMAIN l /\ m[j] = l[j]
  <2>1. \A j \in 1 .. n + 1 : j # n + 1 => j \in 1 .. n BY <1>4
  <2> QED BY <1>4, <1>6, <1>7, <2>1
<1> QED BY <1>3, <1>6, <1>9, <1>10, <1>11 DEF l, m, n

----------------------------------------------------------------------------
(* The name, contact by contact *)

Made(tag, ns, text, kids) == [tag |-> tag, ns |-> ns, text |-> text, kids |-> kids]

LEMMA NewElement ==
    ASSUME NEW tag, NEW text, NEW kids, IsList(kids), NEW ns
    PROVE  /\ IsElement(Made(tag, ns, text, kids)) /\ Made(tag, ns, text, kids).tag = tag
           /\ Made(tag, ns, text, kids).ns = ns /\ Made(tag, ns, text, kids).kids = kids
<1> DEFINE w == Made(tag, ns, text, kids)
<1>1. w = [tag |-> tag, ns |-> ns, text |-> text, kids |-> kids] BY DEF Made
<1> HIDE DEF w
<1>2. w.tag = tag /\ w.ns = ns /\ w.text = text /\ w.kids = kids BY <1>1
<1>3. w = [tag |-> w.tag, ns |-> w.ns, text |-> w.text, kids |-> w.kids] BY <1>1, <1>2
<1>4. IsList(w.kids) BY <1>2, Zenon
<1>5. IsElement(w) BY <1>3, <1>4, Zenon DEF IsElement
<1> QED BY <1>2, <1>5 DEF w

LEMMA OneIsList == ASSUME NEW k PROVE IsList(<<k>>) /\ <<k>>[1] = k /\ DOMAIN <<k>> = {1}
<1>1. k \in Range(<<k>>) BY DEF Range
<1> QED BY <1>1 DEF IsList

LEMMA NomContactIs ==
    ASSUME NEW x, NEW nom
    PROVE  LET w == NomContact(x, nom) IN IsElement(w) /\ w.tag = "NomContact" /\ w.ns = x.ns
<1>1. IsList(<<>>) BY EmptySeq DEF IsList
<1> DEFINE w == NomContact(x, nom)
<1>2. w = Made("NomContact", x.ns, nom, <<>>) BY DEF NomContact, Element, Made
<1> HIDE DEF w
<1>3. IsElement(w) /\ w.tag = "NomContact" /\ w.ns = x.ns BY <1>1, <1>2, NewElement
<1> QED BY <1>3 DEF w

LEMMA SelfReplaced ==
    ASSUME NEW x, IsElement(x), NEW i \in DOMAIN x.kids
    PROVE  [x EXCEPT !.kids = [x.kids EXCEPT ![i] = x.kids[i]]] = x
<1>1. x = [tag |-> x.tag, ns |-> x.ns, text |-> x.text, kids |-> x.kids] BY DEF IsElement
<1>2. x.kids = [j \in 1 .. Len(x.kids) |-> x.kids[j]] BY KidsOf
<1>3. [x.kids EXCEPT ![i] = x.kids[i]] = x.kids BY <1>2
<1> QED BY <1>1, <1>3

LEMMA NameContactIs ==
    ASSUME NEW x, IsElement(x), NEW nom, NEW z, z = NameContact(x, nom)
    PROVE  /\ IsElement(z) /\ z.tag = x.tag /\ z.ns = x.ns
           /\ NameContact(z, nom) = z
           /\ PlacesOf(z, "NomContact") # {}
           /\ \E m : \A n \in PlacesOf(z, "NomContact") : n \in PlacesOf(x, "NomContact") \/ n = m
<1> DEFINE p == Place(x, "NomContact")
<1>1. CASE p # 0
  <2>1. z = x BY <1>1 DEF NameContact
  <2>2. p \in PlacesOf(x, "NomContact") BY <1>1, PlaceIs DEF PlacesOf
  <2> QED BY <2>1, <2>2
<1>2. CASE p = 0
  <2> DEFINE k == NomContact(x, nom) m == Len(x.kids) + 1
  <2>1. z = Appended(x, k) BY <1>2 DEF NameContact
  <2>2. k.tag = "NomContact" /\ k.ns = x.ns BY NomContactIs
  <2> HIDE DEF k
  <2>3. /\ IsElement(z) /\ z.tag = x.tag /\ z.ns = x.ns /\ m \in DOMAIN z.kids /\ z.kids[m] = k
        /\ \A j \in DOMAIN z.kids : j # m => j \in DOMAIN x.kids /\ z.kids[j] = x.kids[j]
    BY <2>1, AppendedIs
  <2> HIDE DEF m
  <2>4. Place(z, "NomContact") # 0 BY <2>2, <2>3, PlaceIs
  <2>5. NameContact(z, nom) = z BY <2>4 DEF NameContact
  <2>6. m \in PlacesOf(z, "NomContact") BY <2>2, <2>3 DEF PlacesOf
  <2>7. \A n \in PlacesOf(z, "NomContact") : n \in PlacesOf(x, "NomContact") \/ n = m BY <2>3 DEF PlacesOf
  <2> QED BY <2>3, <2>5, <2>6, <2>7
<1> QED BY <1>1, <1>2

\* A name of a sender is that of a contact of his.
NameAt(x, c, n) == c \in PlacesOf(x, "Contact") /\ n \in PlacesOf(x.kids[c], "NomContact")

LEMMA ContactIs ==
    ASSUME NEW x, NEW nom
    PROVE  LET w == Contact(x, nom) IN
           /\ IsElement(w) /\ w.tag = "Contact" /\ w.ns = x.ns
           /\ PlacesOf(w, "NomContact") = {1} /\ NameContact(w, nom) = w
<1> DEFINE w == Contact(x, nom) k == NomContact(x, nom)
<1>1. IsElement(k) /\ k.tag = "NomContact" /\ k.ns = x.ns BY NomContactIs
<1> HIDE DEF k
<1>2. IsList(<<k>>) /\ <<k>>[1] = k /\ DOMAIN <<k>> = {1} BY OneIsList
<1>3. w = Made("Contact", x.ns, Absent, <<k>>) BY DEF Contact, k, Element, Made
<1> HIDE DEF w
<1>4. IsElement(w) /\ w.tag = "Contact" /\ w.ns = x.ns /\ w.kids = <<k>> BY <1>2, <1>3, NewElement
<1>5. PlacesOf(w, "NomContact") = {1} BY <1>1, <1>2, <1>4 DEF PlacesOf
<1>6. Place(w, "NomContact") # 0 BY <1>1, <1>2, <1>4, PlaceIs
<1>7. NameContact(w, nom) = w BY <1>6 DEF NameContact
<1> QED BY <1>4, <1>5, <1>7 DEF w

\* Only the contacts of a sender change, and one name at most comes to them.
LEMMA NameEmetteurIs ==
    ASSUME NEW x, IsElement(x), \A k \in Range(x.kids) : IsElement(k), NEW nom, NEW z, z = NameEmetteur(x, nom)
    PROVE  /\ IsElement(z) /\ z.tag = x.tag /\ z.ns = x.ns
           /\ NameEmetteur(z, nom) = z
           /\ \A tag : tag # "Contact" => Named(z, tag) = Named(x, tag)
           /\ \E c, n : NameAt(z, c, n)
           /\ \E b, m : \A c, n : NameAt(z, c, n) => NameAt(x, c, n) \/ <<c, n>> = <<b, m>>
<1> DEFINE p == Place(x, "Contact")
<1>1. CASE p = 0
  <2> DEFINE k == Contact(x, nom) b == Len(x.kids) + 1
  <2>1. z = Appended(x, k) BY <1>1 DEF NameEmetteur
  <2>2. k.tag = "Contact" /\ k.ns = x.ns /\ IsElement(k) /\ PlacesOf(k, "NomContact") = {1} /\ NameContact(k, nom) = k
    BY ContactIs
  <2> HIDE DEF k
  <2>3. /\ IsElement(z) /\ z.tag = x.tag /\ z.ns = x.ns /\ z.kids = Append(x.kids, k)
        /\ b \in DOMAIN z.kids /\ z.kids[b] = k
        /\ \A j \in DOMAIN z.kids : j # b => j \in DOMAIN x.kids /\ z.kids[j] = x.kids[j]
    BY <2>1, AppendedIs
  <2> HIDE DEF b
  <2>4. Place(z, "Contact") = b
    <3> DEFINE q == Place(z, "Contact")
    <3>1. q # 0 BY <2>2, <2>3, PlaceIs
    <3>2. q \in DOMAIN z.kids /\ z.kids[q].tag = "Contact" /\ z.kids[q].ns = x.ns BY <2>3, <3>1, PlaceIs
    <3> HIDE DEF q
    <3>3. q # b => q \in DOMAIN x.kids /\ x.kids[q].tag = "Contact" /\ x.kids[q].ns = x.ns BY <2>3, <3>2
    <3>4. q = b BY <1>1, <3>3, PlaceIs
    <3> QED BY <3>4 DEF q
  <2>5. NameEmetteur(z, nom) = z
    <3>1. b # 0
      <4>1. Len(x.kids) \in Nat BY KidsOf
      <4> QED BY <4>1 DEF b
    <3>2. NameEmetteur(z, nom) = [z EXCEPT !.kids = [z.kids EXCEPT ![b] = NameContact(z.kids[b], nom)]]
      BY <2>4, <3>1 DEF NameEmetteur
    <3>3. NameEmetteur(z, nom) = [z EXCEPT !.kids = [z.kids EXCEPT ![b] = z.kids[b]]] BY <2>2, <2>3, <3>2
    <3> QED BY <2>3, <3>3, SelfReplaced
  <2>6. \A tag : tag # "Contact" => Named(z, tag) = Named(x, tag) BY <2>2, <2>3, NamedAppended
  <2>7. NameAt(z, b, 1) BY <2>2, <2>3 DEF NameAt, PlacesOf
  <2>8. \A c, n : NameAt(z, c, n) => NameAt(x, c, n) \/ <<c, n>> = <<b, 1>>
    <3> SUFFICES ASSUME NEW c, NEW n, NameAt(z, c, n) PROVE NameAt(x, c, n) \/ <<c, n>> = <<b, 1>> OBVIOUS
    <3>1. c \in DOMAIN z.kids /\ z.kids[c].tag = "Contact" /\ n \in PlacesOf(z.kids[c], "NomContact")
      BY DEF NameAt, PlacesOf
    <3>2. CASE c = b BY <2>2, <2>3, <3>1, <3>2
    <3>3. CASE c # b BY <2>3, <3>1, <3>3 DEF NameAt, PlacesOf
    <3> QED BY <3>2, <3>3
  <2> QED BY <2>3, <2>5, <2>6, <2>7, <2>8
<1>2. CASE p # 0
  <2> DEFINE c0 == x.kids[p] k == NameContact(c0, nom)
  <2>1. p \in DOMAIN x.kids /\ c0.tag = "Contact" /\ c0.ns = x.ns BY <1>2, PlaceIs
  <2>2. IsElement(c0) BY <2>1, KidsOf
  <2>3. z = [x EXCEPT !.kids = [x.kids EXCEPT ![p] = k]] BY <1>2 DEF NameEmetteur
  <2> HIDE DEF k, c0
  <2>4. /\ IsElement(k) /\ k.tag = "Contact" /\ k.ns = x.ns /\ NameContact(k, nom) = k
        /\ PlacesOf(k, "NomContact") # {}
    BY <2>1, <2>2, NameContactIs DEF k
  <2>5. PICK m : \A n \in PlacesOf(k, "NomContact") : n \in PlacesOf(c0, "NomContact") \/ n = m
    BY <2>2, NameContactIs DEF k
  <2>6. c0 = x.kids[p] BY DEF c0
  <2> HIDE DEF p
  <2>7. /\ IsElement(z) /\ z.tag = x.tag /\ z.ns = x.ns /\ z.kids = [x.kids EXCEPT ![p] = k]
        /\ DOMAIN z.kids = DOMAIN x.kids /\ z.kids[p] = k
        /\ \A j \in DOMAIN x.kids : j # p => z.kids[j] = x.kids[j]
        /\ \A tag : Place(z, tag) = Place(x, tag) /\ PlacesOf(z, tag) = PlacesOf(x, tag)
    <3>1. k.tag = x.kids[p].tag /\ k.ns = x.kids[p].ns BY <2>1, <2>4, <2>6
    <3>2. p \in DOMAIN x.kids BY <2>1
    <3>3. z = WithChild(x, p, k) BY <2>3 DEF WithChild
    <3> QED BY <3>1, <3>2, <3>3, Replaced
  <2>8. NameEmetteur(z, nom) = z
    <3>1. Place(z, "Contact") = p /\ p # 0 BY <1>2, <2>7 DEF p
    <3>2. NameEmetteur(z, nom) = [z EXCEPT !.kids = [z.kids EXCEPT ![p] = NameContact(z.kids[p], nom)]]
      BY <3>1 DEF NameEmetteur
    <3>3. NameEmetteur(z, nom) = [z EXCEPT !.kids = [z.kids EXCEPT ![p] = z.kids[p]]] BY <2>4, <2>7, <3>2
    <3> QED BY <2>1, <2>7, <3>3, SelfReplaced
  <2>9. \A tag : tag # "Contact" => Named(z, tag) = Named(x, tag)
    <3>1. k.tag = x.kids[p].tag /\ k.tag = "Contact" /\ p \in DOMAIN x.kids BY <2>1, <2>4, <2>6
    <3>2. IsElement(z) /\ z.kids = [x.kids EXCEPT ![p] = k] BY <2>7
    <3> SUFFICES ASSUME NEW tag, tag # "Contact" PROVE Named(z, tag) = Named(x, tag) OBVIOUS
    <3>3. tag # k.tag BY <3>1
    <3>4. z = WithChild(x, p, k) BY <2>3 DEF WithChild
    <3>5. IsElement(x) /\ p \in DOMAIN x.kids /\ k.tag = x.kids[p].tag /\ IsElement(z) BY <3>1, <3>2
    <3>6. IsElement(WithChild(x, p, k)) BY <3>4, <3>5, Zenon
    <3>7. Named(WithChild(x, p, k), tag) = Named(x, tag) BY <3>3, <3>5, <3>6, NamedElsewhere
    <3> QED BY <3>4, <3>7, Zenon
  <2>10. \E c, n : NameAt(z, c, n)
    <3>1. PICK n : n \in PlacesOf(k, "NomContact") BY <2>4
    <3>2. NameAt(z, p, n) BY <2>1, <2>4, <2>7, <3>1 DEF NameAt, PlacesOf
    <3> QED BY <3>2
  <2>11. \A c, n : NameAt(z, c, n) => NameAt(x, c, n) \/ <<c, n>> = <<p, m>>
    <3> SUFFICES ASSUME NEW c, NEW n, NameAt(z, c, n) PROVE NameAt(x, c, n) \/ <<c, n>> = <<p, m>> OBVIOUS
    <3>1. c \in PlacesOf(x, "Contact") /\ n \in PlacesOf(z.kids[c], "NomContact") /\ c \in DOMAIN x.kids
      BY <2>7 DEF NameAt, PlacesOf
    <3>2. CASE c = p BY <2>5, <2>6, <2>7, <3>1, <3>2 DEF NameAt
    <3>3. CASE c # p BY <2>7, <3>1, <3>3 DEF NameAt
    <3> QED BY <3>2, <3>3
  <2> QED BY <2>7, <2>8, <2>9, <2>10, <2>11
<1> QED BY <1>1, <1>2

----------------------------------------------------------------------------
(* The name, in the scenario *)

LEMMA PairsAre ==
    ASSUME NEW x, NEW i, NEW k, NEW a, NEW b, <<a, b>> \in Pairs(x, i, k)
    PROVE  a = b \/ (a = x.kids[i] /\ b = k)
<1>1. PICK q \in Pairs(x, i, k) : q = <<a, b>> OBVIOUS
<1>2. CASE q = <<x.kids[i], k>> BY <1>1, <1>2
<1>3. CASE \E c \in Range(x.kids) : q = <<c, c>> BY <1>1, <1>3
<1> QED BY <1>2, <1>3 DEF Pairs

\* A field of a field is read as before when the field of the child is.
LEMMA SousReplaced ==
    ASSUME NEW x, IsElement(x), NEW i, i \in DOMAIN x.kids, NEW k, k.tag = x.kids[i].tag,
           IsElement(WithChild(x, i, k)), NEW sub, Valeur(k, sub) = Valeur(x.kids[i], sub), NEW tag
    PROVE  Sous(WithChild(x, i, k), tag, sub) = Sous(x, tag, sub)
<1> DEFINE y == WithChild(x, i, k) a == Named(x, tag) b == Named(y, tag)
<1>1. IsElement(y) /\ y = WithChild(x, i, k) OBVIOUS
<1> HIDE DEF y
<1>2. Alike(Pairs(x, i, k), a, b) BY <1>1, NamedReplaced
<1> HIDE DEF a, b
<1>3. Len(a) = Len(b) /\ \A j \in 1 .. Len(a) : <<a[j], b[j]>> \in Pairs(x, i, k) BY <1>2 DEF Alike
<1>4. CASE Len(a) = 1
  <2>1. <<a[1], b[1]>> \in Pairs(x, i, k) BY <1>3, <1>4
  <2> DEFINE u == a[1] v == b[1]
  <2>2. <<u, v>> \in Pairs(x, i, k) BY <2>1
  <2> HIDE DEF u, v
  <2>3. u = v \/ (u = x.kids[i] /\ v = k) BY <2>2, PairsAre
  <2>4. Valeur(u, sub) = Valeur(v, sub) BY <2>3
  <2>5. Sous(x, tag, sub) = Valeur(u, sub) BY <1>4 DEF Sous, a, u
  <2>6. Sous(y, tag, sub) = Valeur(v, sub) BY <1>3, <1>4 DEF Sous, b, v
  <2> QED BY <2>4, <2>5, <2>6 DEF y
<1>5. CASE Len(a) # 1
  <2>1. Sous(x, tag, sub) = Absent BY <1>5 DEF Sous, a
  <2>2. Sous(y, tag, sub) = Absent BY <1>3, <1>5 DEF Sous, b
  <2> QED BY <2>1, <2>2 DEF y
<1> QED BY <1>4, <1>5

LEMMA ValeurReplaced ==
    ASSUME NEW x, NEW y, NEW tag, Named(x, tag) = Named(y, tag) PROVE Valeur(x, tag) = Valeur(y, tag)
BY DEF Valeur

\* A name is written in a scenario by the place of its sender, of its contact and its own.
Written(s, e, c, n) == e \in PlacesOf(s, "Emetteur") /\ NameAt(s.kids[e], c, n)

LEMMA NameScenarioIs ==
    ASSUME NEW x, IsElement(x),
           \A s \in Range(x.kids) : IsElement(s) /\ \A c \in Range(s.kids) : IsElement(c),
           Place(x, "Emetteur") # 0, NEW nom, NEW z, z = NameScenario(x, nom)
    PROVE  /\ IsElement(z) /\ z.tag = x.tag /\ z.ns = x.ns
           /\ NameScenario(z, nom) = z
           /\ MapScenario(z) = MapScenario(x)
           /\ \E e, c, n : Written(z, e, c, n)
           /\ \E t : \A e, c, n : Written(z, e, c, n) => Written(x, e, c, n) \/ <<e, c, n>> = t
<1> DEFINE p == Place(x, "Emetteur") s == x.kids[p] k == NameEmetteur(s, nom)
<1>1. p \in DOMAIN x.kids /\ s.tag = "Emetteur" /\ s.ns = x.ns /\ p # 0 BY PlaceIs
<1>2. IsElement(s) /\ \A c \in Range(s.kids) : IsElement(c) BY <1>1, KidsOf
<1>3. z = WithChild(x, p, k) BY <1>1 DEF NameScenario, WithChild
<1>4. p = Place(x, "Emetteur") /\ s = x.kids[p] OBVIOUS
<1> HIDE DEF p, s, k
<1>5. k = NameEmetteur(s, nom) BY DEF k
<1>6. /\ IsElement(k) /\ k.tag = s.tag /\ k.ns = s.ns
      /\ NameEmetteur(k, nom) = k
      /\ \A tag : tag # "Contact" => Named(k, tag) = Named(s, tag)
  BY <1>2, <1>5, NameEmetteurIs
<1>7. \E c, n : NameAt(k, c, n) BY <1>2, <1>5, NameEmetteurIs
<1>8. \E b, m : \A c, n : NameAt(k, c, n) => NameAt(s, c, n) \/ <<c, n>> = <<b, m>>
  BY <1>2, <1>5, NameEmetteurIs
<1>9. k.tag = x.kids[p].tag /\ k.ns = x.kids[p].ns /\ k.tag = "Emetteur" BY <1>1, <1>4, <1>6
<1>10. /\ IsElement(z) /\ z.tag = x.tag /\ z.ns = x.ns /\ z.kids = [x.kids EXCEPT ![p] = k]
       /\ DOMAIN z.kids = DOMAIN x.kids /\ z.kids[p] = k
       /\ \A j \in DOMAIN x.kids : j # p => z.kids[j] = x.kids[j]
       /\ \A tag : Place(z, tag) = Place(x, tag) /\ PlacesOf(z, tag) = PlacesOf(x, tag)
  <2>1. p \in DOMAIN x.kids BY <1>1
  <2>2. k.tag = x.kids[p].tag /\ k.ns = x.kids[p].ns BY <1>9
  <2> QED BY <1>3, <2>1, <2>2, Replaced
<1>11. NameScenario(z, nom) = z
  <2>1. Place(z, "Emetteur") = p /\ p # 0 BY <1>1, <1>4, <1>10
  <2>2. NameScenario(z, nom) = [z EXCEPT !.kids = [z.kids EXCEPT ![p] = NameEmetteur(z.kids[p], nom)]]
    BY <2>1 DEF NameScenario
  <2>3. NameScenario(z, nom) = [z EXCEPT !.kids = [z.kids EXCEPT ![p] = z.kids[p]]] BY <1>6, <1>10, <2>2
  <2> QED BY <1>1, <1>10, <2>3, SelfReplaced
<1>12. MapScenario(z) = MapScenario(x)
  <2>1. IsElement(WithChild(x, p, k)) BY <1>3, <1>10, Zenon
  <2>2. "DateDebutReference" # k.tag BY <1>9
  <2>9. p \in DOMAIN x.kids /\ k.tag = x.kids[p].tag BY <1>1, <1>9
  <2>3. Named(WithChild(x, p, k), "DateDebutReference") = Named(x, "DateDebutReference")
    BY <2>1, <2>2, <2>9, NamedElsewhere
  <2>4. Valeur(z, "DateDebutReference") = Valeur(x, "DateDebutReference") BY <1>3, <2>3, ValeurReplaced
  <2>5. Named(k, "CdIntervenant") = Named(x.kids[p], "CdIntervenant") BY <1>4, <1>6
  <2>6. Valeur(k, "CdIntervenant") = Valeur(x.kids[p], "CdIntervenant") BY <2>5, ValeurReplaced
  <2>7. Sous(WithChild(x, p, k), "Emetteur", "CdIntervenant") = Sous(x, "Emetteur", "CdIntervenant")
    BY <2>1, <2>6, <2>9, SousReplaced
  <2>8. Sous(z, "Emetteur", "CdIntervenant") = Sous(x, "Emetteur", "CdIntervenant") BY <1>3, <2>7
  <2> QED BY <2>4, <2>8 DEF MapScenario
<1>13. \E e, c, n : Written(z, e, c, n)
  <2>1. PICK c, n : NameAt(k, c, n) BY <1>7
  <2>2. p \in PlacesOf(z, "Emetteur") BY <1>1, <1>9, <1>10 DEF PlacesOf
  <2>3. Written(z, p, c, n) BY <1>10, <2>1, <2>2 DEF Written
  <2> QED BY <2>3
<1>14. \E t : \A e, c, n : Written(z, e, c, n) => Written(x, e, c, n) \/ <<e, c, n>> = t
  <2>1. PICK b, m : \A c, n : NameAt(k, c, n) => NameAt(s, c, n) \/ <<c, n>> = <<b, m>> BY <1>8
  <2>2. ASSUME NEW e, NEW c, NEW n, Written(z, e, c, n) PROVE Written(x, e, c, n) \/ <<e, c, n>> = <<p, b, m>>
    <3>1. e \in PlacesOf(x, "Emetteur") /\ e \in DOMAIN x.kids /\ NameAt(z.kids[e], c, n)
      BY <1>10, <2>2 DEF Written, PlacesOf
    <3>2. CASE e = p
      <4>1. NameAt(s, c, n) \/ <<c, n>> = <<b, m>> BY <1>10, <2>1, <3>1, <3>2
      <4> QED BY <1>4, <3>1, <3>2, <4>1 DEF Written
    <3>3. CASE e # p BY <1>10, <3>1, <3>3 DEF Written
    <3> QED BY <3>2, <3>3
  <2> QED BY <2>2
<1> QED BY <1>10, <1>11, <1>12, <1>13, <1>14

----------------------------------------------------------------------------
(* How many names there are *)

LEMMA ImageIsFinite == ASSUME NEW S, IsFiniteSet(S), NEW f, DOMAIN f = S PROVE IsFiniteSet({f[x] : x \in S})
<1> DEFINE Z == {f[x] : x \in S} g == [x \in S |-> f[x]]
<1>1. g \in Surjection(S, Z) BY DEF Surjection
<1> HIDE DEF g
<1> QED BY <1>1, FS_Surjection

LEMMA PlacesAreFinite == ASSUME NEW x, IsElement(x), NEW tag PROVE IsFiniteSet(PlacesOf(x, tag))
<1>1. DOMAIN x.kids = 1 .. Len(x.kids) /\ Len(x.kids) \in Nat BY KidsOf
<1> DEFINE m == Len(x.kids)
<1>4. 1 \in Int /\ m \in Int BY <1>1
<1>2. IsFiniteSet(1 .. m)
  <2> HIDE DEF m
  <2> QED BY <1>4, FS_Interval
<1>3. PlacesOf(x, tag) \in SUBSET (1 .. Len(x.kids)) BY <1>1 DEF PlacesOf
<1> QED BY <1>2, <1>3, FS_Subset

LEMMA NamesAreFinite ==
    ASSUME NEW s, IsElement(s),
           \A e \in Range(s.kids) : IsElement(e) /\ \A c \in Range(e.kids) : IsElement(c)
    PROVE  IsFiniteSet(NamesIn(s))
<1> DEFINE P == PlacesOf(s, "Emetteur")
           Q(e) == PlacesOf(s.kids[e], "Contact")
           R(e, c) == PlacesOf(s.kids[e].kids[c], "NomContact")
           V(e, c) == {<<e, c, n>> : n \in R(e, c)}
           U(e) == UNION {V(e, c) : c \in Q(e)}
<1>1. ASSUME NEW e \in P PROVE IsElement(s.kids[e]) /\ \A c \in Range(s.kids[e].kids) : IsElement(c)
  BY KidsOf DEF PlacesOf
<1>2. ASSUME NEW e \in P, NEW c \in Q(e) PROVE IsElement(s.kids[e].kids[c])
  <2> DEFINE x == s.kids[e]
  <2>1. IsElement(x) /\ (\A d \in Range(x.kids) : IsElement(d)) /\ c \in DOMAIN x.kids BY <1>1, <1>2 DEF PlacesOf
  <2> HIDE DEF x
  <2>2. IsElement(x.kids[c]) BY <2>1, KidsOf
  <2> QED BY <2>2 DEF x
<1>3. IsFiniteSet(P) BY PlacesAreFinite
<1>4. ASSUME NEW e \in P PROVE IsFiniteSet(Q(e)) BY <1>1, PlacesAreFinite
<1>5. ASSUME NEW e \in P, NEW c \in Q(e) PROVE IsFiniteSet(R(e, c)) BY <1>2, PlacesAreFinite
<1>6. NamesIn(s) = UNION {U(e) : e \in P} BY DEF NamesIn
<1> HIDE DEF P, Q, R
<1>7. ASSUME NEW e \in P, NEW c \in Q(e) PROVE IsFiniteSet(V(e, c))
  <2> DEFINE S == R(e, c) f == [n \in S |-> <<e, c, n>>]
  <2>1. V(e, c) = {f[n] : n \in S} OBVIOUS
  <2>2. IsFiniteSet(S) /\ DOMAIN f = S BY <1>5, <1>7
  <2> HIDE DEF S, f, V
  <2> QED BY <2>1, <2>2, ImageIsFinite
<1> HIDE DEF V
<1>8. ASSUME NEW e \in P PROVE IsFiniteSet(U(e))
  <2> DEFINE S == Q(e) f == [c \in S |-> V(e, c)]
  <2>1. U(e) = UNION {f[c] : c \in S} /\ DOMAIN f = S /\ \A c \in S : f[c] = V(e, c) OBVIOUS
  <2>2. IsFiniteSet(S) /\ \A c \in S : IsFiniteSet(V(e, c)) BY <1>4, <1>7, <1>8
  <2> HIDE DEF S, f, U
  <2>3. IsFiniteSet({f[c] : c \in S}) BY <2>1, <2>2, ImageIsFinite
  <2> DEFINE F == {f[c] : c \in S}
  <2>4. \A t \in F : IsFiniteSet(t) BY <2>1, <2>2
  <2>5. IsFiniteSet(F) /\ U(e) = UNION F BY <2>1, <2>3
  <2> HIDE DEF F
  <2> QED BY <2>4, <2>5, FS_UNION
<1> HIDE DEF U
<1> DEFINE f == [e \in P |-> U(e)] F == {f[e] : e \in P}
<1>9. NamesIn(s) = UNION F /\ (\A t \in F : IsFiniteSet(t)) /\ DOMAIN f = P BY <1>6, <1>8
<1> HIDE DEF f
<1>10. IsFiniteSet(F) BY <1>3, <1>9, ImageIsFinite
<1> HIDE DEF F
<1> QED BY <1>9, <1>10, FS_UNION

LEMMA NamesAreWritten == ASSUME NEW s, NEW e, NEW c, NEW n PROVE <<e, c, n>> \in NamesIn(s) <=> Written(s, e, c, n)
BY DEF NamesIn, Written, NameAt

LEMMA ANameIsATriple == ASSUME NEW s, NEW t \in NamesIn(s) PROVE \E e, c, n : t = <<e, c, n>>
BY DEF NamesIn

\* One name at least is written, and one at most is new.
LEMMA NamesCounted ==
    ASSUME NEW x, NEW z, IsFiniteSet(NamesIn(x)), \E e, c, n : Written(z, e, c, n),
           NEW t, \A e, c, n : Written(z, e, c, n) => Written(x, e, c, n) \/ <<e, c, n>> = t
    PROVE  Cardinality(NamesIn(z)) >= 1 /\ Cardinality(NamesIn(z)) <= Cardinality(NamesIn(x)) + 1
<1> DEFINE A == NamesIn(x) B == NamesIn(z)
<1>1. B # {} BY NamesAreWritten
<1>2. \A u \in B : u \in A \cup {t}
  <2> SUFFICES ASSUME NEW u \in B PROVE u \in A \cup {t} OBVIOUS
  <2>1. PICK e, c, n : u = <<e, c, n>> BY ANameIsATriple
  <2>2. Written(z, e, c, n) BY <2>1, NamesAreWritten
  <2>3. Written(x, e, c, n) \/ <<e, c, n>> = t BY <2>2
  <2> QED BY <2>1, <2>3, NamesAreWritten
<1> HIDE DEF A, B
<1>3. IsFiniteSet(A) BY DEF A
<1>4. /\ IsFiniteSet(A \cup {t}) /\ Cardinality(A) \in Nat
      /\ Cardinality(A \cup {t}) = IF t \in A THEN Cardinality(A) ELSE Cardinality(A) + 1
  BY <1>3, FS_AddElement, FS_CardinalityType
<1>5. B \in SUBSET (A \cup {t}) BY <1>2
<1>6. IsFiniteSet(B) /\ Cardinality(B) <= Cardinality(A \cup {t}) BY <1>4, <1>5, FS_Subset
<1>7. Cardinality(B) \in Nat BY <1>6, FS_CardinalityType
<1>8. Cardinality(B) # 0 BY <1>1, <1>6, FS_EmptySet
<1>9. Cardinality(B) >= 1 BY <1>7, <1>8
<1>10. Cardinality(A \cup {t}) <= Cardinality(A) + 1 BY <1>4
<1>11. Cardinality(A \cup {t}) \in Nat BY <1>4, FS_CardinalityType
<1>12. Cardinality(B) <= Cardinality(A) + 1 BY <1>4, <1>6, <1>7, <1>10, <1>11
<1> QED BY <1>9, <1>12 DEF A, B

----------------------------------------------------------------------------
(* The name, in the text *)

LEMMA FirstScenarioIs ==
    ASSUME NEW x, IsElement(x), FirstScenario(x) # 0
    PROVE  FirstScenario(x) \in DOMAIN x.kids /\ x.kids[FirstScenario(x)].tag = "Scenario"
<1> DEFINE I == {i \in 1 .. Len(x.kids) : x.kids[i].tag = "Scenario"}
<1>1. FirstScenario(x) = IF I # {} THEN Min(I) ELSE 0 BY DEF FirstScenario, SelectInSeq
<1>2. DOMAIN x.kids = 1 .. Len(x.kids) /\ Len(x.kids) \in Nat BY KidsOf
<1>3. I \subseteq Nat BY <1>2
<1>4. \A i \in I : i \in DOMAIN x.kids /\ x.kids[i].tag = "Scenario" BY <1>2
<1> HIDE DEF I
<1>5. I # {} BY <1>1
<1>6. FirstScenario(x) \in I BY <1>1, <1>3, <1>5, MinOf
<1> QED BY <1>4, <1>6

LEMMA SameFirst ==
    ASSUME NEW x, NEW y, Len(y.kids) = Len(x.kids),
           \A i \in 1 .. Len(x.kids) : y.kids[i].tag = x.kids[i].tag
    PROVE  FirstScenario(y) = FirstScenario(x)
<1> DEFINE I == {i \in 1 .. Len(x.kids) : x.kids[i].tag = "Scenario"}
           J == {i \in 1 .. Len(y.kids) : y.kids[i].tag = "Scenario"}
<1>1. FirstScenario(x) = IF I # {} THEN Min(I) ELSE 0 BY DEF FirstScenario, SelectInSeq
<1>2. FirstScenario(y) = IF J # {} THEN Min(J) ELSE 0 BY DEF FirstScenario, SelectInSeq
<1>3. I = J OBVIOUS
<1> HIDE DEF I, J
<1> QED BY <1>1, <1>2, <1>3

\* Of lists alike, the last ones are, and both are empty or none.
LEMMA LastsAreAlike ==
    ASSUME NEW S, NEW a \in Seq(S), NEW Z, NEW b \in Seq(Z), NEW R, Alike(R, a, b)
    PROVE  (a = <<>> <=> b = <<>>) /\ (a # <<>> => <<Last(a), Last(b)>> \in R)
<1>1. Len(a) = Len(b) /\ Len(a) \in Nat /\ \A j \in 1 .. Len(a) : <<a[j], b[j]>> \in R BY DEF Alike
<1>2. (a = <<>> <=> Len(a) = 0) /\ (b = <<>> <=> Len(b) = 0) BY EmptySeq
<1>3. a # <<>> => Len(a) \in 1 .. Len(a) BY <1>1, <1>2
<1> QED BY <1>1, <1>2, <1>3 DEF Last

LEMMA ScenarioRead ==
    ASSUME NEW x, IsElement(x), NEW i, i \in DOMAIN x.kids, x.kids[i].tag = "Scenario", NEW k, k.tag = "Scenario",
           IsElement(WithChild(x, i, k)), MapScenario(k) = MapScenario(x.kids[i])
    PROVE  Parse(WithChild(x, i, k)) = Parse(x)
<1> DEFINE y == WithChild(x, i, k)
<1>1. IsElement(y) /\ y = WithChild(x, i, k) /\ k.tag = x.kids[i].tag OBVIOUS
<1> HIDE DEF y
<1>2. "OuvrageDepollution" # k.tag /\ "SystemeCollecte" # k.tag OBVIOUS
<1>3. Named(y, "OuvrageDepollution") = Named(x, "OuvrageDepollution") BY <1>1, <1>2, NamedElsewhere
<1>4. Named(y, "SystemeCollecte") = Named(x, "SystemeCollecte") BY <1>1, <1>2, NamedElsewhere
<1> DEFINE a == Named(x, "Scenario") b == Named(y, "Scenario")
           Of(l) == IF l = <<>> THEN NoScenario ELSE MapScenario(Last(l))
<1>5. Alike(Pairs(x, i, k), a, b) BY <1>1, NamedReplaced
<1>6. a \in Seq({s \in Range(x.kids) : s.tag = "Scenario"}) BY NamedAre
<1>7. b \in Seq({s \in Range(y.kids) : s.tag = "Scenario"}) BY <1>1, NamedAre
<1>8. (a = <<>> <=> b = <<>>) /\ (a # <<>> => <<Last(a), Last(b)>> \in Pairs(x, i, k))
  <2> HIDE DEF a, b
  <2> QED BY <1>5, <1>6, <1>7, LastsAreAlike
<1>9. Of(a) = Of(b)
  <2> HIDE DEF a, b
  <2>1. CASE a = <<>> BY <1>8, <2>1
  <2>2. CASE a # <<>>
    <3> DEFINE u == Last(a) v == Last(b)
    <3>1. <<u, v>> \in Pairs(x, i, k) /\ b # <<>> BY <1>8, <2>2
    <3>2. Of(a) = MapScenario(u) /\ Of(b) = MapScenario(v) BY <2>2, <3>1
    <3> HIDE DEF u, v, Of
    <3>3. u = v \/ (u = x.kids[i] /\ v = k) BY <3>1, PairsAre
    <3>4. MapScenario(u) = MapScenario(v) BY <3>3
    <3> QED BY <3>2, <3>4
  <2> QED BY <2>1, <2>2
<1>10. Liste(y, "OuvrageDepollution", MapOuvrage) = Liste(x, "OuvrageDepollution", MapOuvrage) BY <1>3 DEF Liste
<1>11. Liste(y, "SystemeCollecte", MapSystemeCollecte) = Liste(x, "SystemeCollecte", MapSystemeCollecte)
  BY <1>4 DEF Liste
<1>12. Parse(x) = [scenario |-> Of(a), ouvrages |-> Liste(x, "OuvrageDepollution", MapOuvrage),
                   scls |-> Liste(x, "SystemeCollecte", MapSystemeCollecte)]
  BY DEF Parse
<1>13. Parse(y) = [scenario |-> Of(b), ouvrages |-> Liste(y, "OuvrageDepollution", MapOuvrage),
                   scls |-> Liste(y, "SystemeCollecte", MapSystemeCollecte)]
  BY DEF Parse
<1> QED BY <1>9, <1>10, <1>11, <1>12, <1>13 DEF y

\* A scenario of a file that is read has a sender.
LEMMA SenderIsThere ==
    ASSUME NEW x, IsElement(x), ~ParseFails(x), NEW i, i \in DOMAIN x.kids, x.kids[i].tag = "Scenario",
           IsElement(x.kids[i])
    PROVE  \E e \in DOMAIN x.kids[i].kids : x.kids[i].kids[e].tag = "Emetteur"
<1> DEFINE s == x.kids[i] l == Named(x, "Scenario")
<1>1. In_(s, l) /\ l \in Seq({k \in Range(x.kids) : k.tag = "Scenario"}) BY NamedAre
<1>2. s \in Range(l)
  <2> HIDE DEF s, l
  <2>1. PICK j \in 1 .. Len(l) : l[j] = s BY <1>1 DEF In_
  <2>2. j \in DOMAIN l BY <1>1, LenProperties
  <2> QED BY <2>1, <2>2 DEF Range
<1>3. Named(s, "Emetteur") # <<>> BY <1>2 DEF ParseFails
<1>4. IsElement(s) OBVIOUS
<1> HIDE DEF s
<1> DEFINE S == {k \in Range(s.kids) : k.tag = "Emetteur"} g == Named(s, "Emetteur")
<1>5. g \in Seq(S) BY <1>4, NamedAre
<1>6. g # <<>> BY <1>3
<1> HIDE DEF g, S
<1>7. Len(g) # 0 /\ Len(g) \in Nat BY <1>5, <1>6, EmptySeq
<1>8. 1 \in 1 .. Len(g) BY <1>7
<1>9. g[1] \in S BY <1>5, <1>8
<1>10. PICK k \in Range(s.kids) : k.tag = "Emetteur" BY <1>9 DEF S
<1>11. PICK e \in DOMAIN s.kids : s.kids[e] = k BY <1>10 DEF Range
<1> QED BY <1>10, <1>11 DEF s

\* The texts that are read are trees of elements, in one namespace where a sender is.
OneNamespace ==
    \A d \in Docs \cup RuleDocs :
        ~ParseFails(d) => IsTree(d) /\ \A s \in Range(d.kids) : \A e \in Range(s.kids) : e.ns = s.ns

LEMMA NameIsAdded ==
    ASSUME NEW d, IsTree(d), ~ParseFails(d), \A s \in Range(d.kids) : \A e \in Range(s.kids) : e.ns = s.ns,
           FirstScenario(d) # 0, NEW nom, NEW named, named = AddName(d, nom)
    PROVE  /\ Parse(named) = Parse(d)
           /\ AddName(named, nom) = named
           /\ Names(named) >= 1 /\ Names(named) <= Names(d) + 1
<1> DEFINE f == FirstScenario(d) s == d.kids[f] z == NameScenario(s, nom)
<1>1. IsElement(d) BY DEF IsTree
<1>2. f \in DOMAIN d.kids /\ s.tag = "Scenario" /\ f # 0 /\ f = FirstScenario(d) /\ s = d.kids[f]
  BY <1>1, FirstScenarioIs
<1>3. s \in Range(d.kids) BY <1>2 DEF Range
<1>4. IsElement(s) /\ (\A e \in Range(s.kids) : IsElement(e) /\ \A c \in Range(e.kids) : IsElement(c))
  BY <1>3 DEF IsTree
<1>5. \A e \in Range(s.kids) : e.ns = s.ns BY <1>3
<1>6. named = WithChild(d, f, z) BY <1>2 DEF AddName, WithChild
<1>7. z = NameScenario(s, nom) OBVIOUS
<1> HIDE DEF f, s, z
<1>8. Place(s, "Emetteur") # 0
  <2>1. \E e \in DOMAIN d.kids[f].kids : d.kids[f].kids[e].tag = "Emetteur"
    <3>1. f \in DOMAIN d.kids /\ d.kids[f].tag = "Scenario" /\ IsElement(d.kids[f]) BY <1>2, <1>4
    <3> QED BY <1>1, <3>1, SenderIsThere
  <2>2. PICK e \in DOMAIN s.kids : s.kids[e].tag = "Emetteur" BY <1>2, <2>1
  <2>3. s.kids[e] \in Range(s.kids) BY <2>2 DEF Range
  <2>4. s.kids[e].ns = s.ns BY <1>5, <2>3
  <2> QED BY <1>4, <2>2, <2>4, PlaceIs
<1>9. /\ IsElement(z) /\ z.tag = s.tag /\ z.ns = s.ns
      /\ NameScenario(z, nom) = z
      /\ MapScenario(z) = MapScenario(s)
  BY <1>4, <1>7, <1>8, NameScenarioIs
<1>10. \E e, c, n : Written(z, e, c, n) BY <1>4, <1>7, <1>8, NameScenarioIs
<1>11. \E t : \A e, c, n : Written(z, e, c, n) => Written(s, e, c, n) \/ <<e, c, n>> = t
  BY <1>4, <1>7, <1>8, NameScenarioIs
<1>12. /\ IsElement(named) /\ named.kids = [d.kids EXCEPT ![f] = z]
       /\ DOMAIN named.kids = DOMAIN d.kids /\ Len(named.kids) = Len(d.kids) /\ named.kids[f] = z
       /\ \A j \in DOMAIN d.kids : j # f => named.kids[j] = d.kids[j]
  <2>1. f \in DOMAIN d.kids BY <1>2
  <2>2. z.tag = d.kids[f].tag /\ z.ns = d.kids[f].ns BY <1>2, <1>9
  <2> QED BY <1>1, <1>6, <2>1, <2>2, Replaced
<1>13. Parse(named) = Parse(d)
  <2>1. f \in DOMAIN d.kids /\ d.kids[f].tag = "Scenario" BY <1>2
  <2>2. z.tag = "Scenario" /\ MapScenario(z) = MapScenario(d.kids[f]) BY <1>2, <1>9
  <2>3. IsElement(WithChild(d, f, z)) BY <1>6, <1>12, Zenon
  <2>4. Parse(WithChild(d, f, z)) = Parse(d) BY <1>1, <2>1, <2>2, <2>3, ScenarioRead
  <2> QED BY <1>6, <2>4, Zenon
<1>14. FirstScenario(named) = f
  <2>1. \A i \in 1 .. Len(d.kids) : named.kids[i].tag = d.kids[i].tag
    <3>1. DOMAIN d.kids = 1 .. Len(d.kids) BY <1>1, KidsOf
    <3>2. z.tag = d.kids[f].tag BY <1>2, <1>9
    <3> QED BY <1>12, <3>1, <3>2
  <2>2. Len(named.kids) = Len(d.kids) BY <1>12
  <2>3. FirstScenario(named) = FirstScenario(d) BY <2>1, <2>2, SameFirst
  <2> QED BY <1>2, <2>3
<1>15. AddName(named, nom) = named
  <2>1. AddName(named, nom) = [named EXCEPT !.kids = [named.kids EXCEPT ![f] = NameScenario(named.kids[f], nom)]]
    BY <1>2, <1>14 DEF AddName
  <2>2. NameScenario(named.kids[f], nom) = named.kids[f] BY <1>9, <1>12
  <2>3. AddName(named, nom) = [named EXCEPT !.kids = [named.kids EXCEPT ![f] = named.kids[f]]] BY <2>1, <2>2
  <2>4. f \in DOMAIN named.kids BY <1>2, <1>12
  <2> QED BY <1>12, <2>3, <2>4, SelfReplaced
<1>16. Names(d) = Cardinality(NamesIn(s)) /\ Names(named) = Cardinality(NamesIn(z))
  BY <1>2, <1>12, <1>14 DEF Names
<1>17. PICK t : \A e, c, n : Written(z, e, c, n) => Written(s, e, c, n) \/ <<e, c, n>> = t BY <1>11
<1>18. IsFiniteSet(NamesIn(s)) BY <1>4, NamesAreFinite
<1>19. Cardinality(NamesIn(z)) >= 1 /\ Cardinality(NamesIn(z)) <= Cardinality(NamesIn(s)) + 1
  BY <1>10, <1>17, <1>18, NamesCounted
<1> QED BY <1>13, <1>15, <1>16, <1>19

\* Where the texts that come are in one namespace, the name of the depositor is written once
\* into what is delivered, and the delivered file says otherwise what the controls have read
\* (scenarioAssainissement.parser.ts:178-288).
THEOREM DeliveredOnce == ASSUME OneNamespace PROVE Spec => []DeliveredAsControlled
<1> DEFINE Delivered == doc \in Docs \cup RuleDocs /\ ~ParseFails(doc) /\ file = Parse(doc)
<1>1. Init => Delivered BY DEF Init, RuleDocs, V1InitFor
<1>2. Delivered /\ [Next]_vars => Delivered' BY StepOfTheRights DEF Grows
<1>3. Delivered => DeliveredAsControlled
  <2> SUFFICES ASSUME Delivered, FirstScenario(doc) # 0, NEW named, named = AddName(doc, "n")
               PROVE /\ Parse(named) = file /\ AddName(named, "n") = named
                     /\ Names(named) >= 1 /\ Names(named) <= Names(doc) + 1
    BY DEF DeliveredAsControlled
  <2>1. IsTree(doc) /\ \A s \in Range(doc.kids) : \A e \in Range(s.kids) : e.ns = s.ns BY DEF OneNamespace
  <2>2. ~ParseFails(doc) /\ file = Parse(doc) OBVIOUS
  <2> HIDE DEF Delivered
  <2> QED BY <2>1, <2>2, NameIsAdded
<1> QED BY <1>1, <1>2, <1>3, PTL DEF Spec
============================================================================
