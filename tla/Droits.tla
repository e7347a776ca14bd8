---- MODULE Droits ----
(***************************************************************************)
(* DroitsDepotService.validateDroits: may this depositor send this file?   *)
(* One query of the reference data after another, while the restore may    *)
(* replace them.  The file and the snapshots are those of ControlesV1,     *)
(* which runs on the file next.                                            *)
(***************************************************************************)
EXTENDS ControlesV1, Referentiel

CONSTANTS
    Databases,      \* the reference data, by snapshot
    Emails          \* of depositors, Absent for a user without one

DEPOSANT == 301
EXPERT_BASSIN_VERSEAU == 303
EXPERT_NATIONAL_VERSEAU == 305
DEPOSANT_SATESE == 308

VARIABLES
    email,          \* of the depositor
    step,           \* the query that is next, or the outcome
    ag,             \* the agent the address gave, last time it was looked up
    siret           \* of his intervenant

droitsVars == <<email, step, ag, siret>>

Outcomes == {"accepted", "refused", "fluxQualifieInterdit", "failed"}
Db == Databases[live]

DroitsInit ==
    /\ email \in Emails
    /\ step = "start"
    /\ ag = Null /\ siret = Null

Goto(s) == step' = s /\ UNCHANGED <<email, ag, siret>>

\* A file without a code gives no right to check.
Begin ==
    /\ step = "start"
    /\ Goto(IF CdOuvrages(file) \cup CdSystemes(file) = {} THEN "refused" ELSE "expertAg")

\* The agent of an address: any of them when there are several.
FindAg(at, found, none) ==
    /\ step = at
    /\ \/ FindAgByEmail(Db, email) = {} /\ Goto(none)
       \/ \E a \in FindAgByEmail(Db, email) :
              ag' = a /\ step' = found /\ UNCHANGED <<email, siret>>

\* isExpertNationalVerseau and isExpertBassinVerseau look the agent up for themselves.
ExpertAg == FindAg("expertAg", "expertRole", "userAg")
ExpertRole ==
    /\ step = "expertRole"
    /\ Goto(IF HasRole(Db, ag.pr, EXPERT_NATIONAL_VERSEAU) THEN "accepted" ELSE "userAg")

UserAg == FindAg("userAg", "roles", "refused")

Depositors == {DEPOSANT, EXPERT_BASSIN_VERSEAU, DEPOSANT_SATESE}

Roles ==
    /\ step = "roles"
    /\ Goto(IF FindOrionRoles(Db, ag.pr) \cap Depositors # {} THEN "intervenant" ELSE "refused")

Intervenant ==
    /\ step = "intervenant"
    /\ siret' = FindIntervenantById(Db, ag.itv)
    /\ step' = IF siret' = Null THEN "refused" ELSE "matches"
    /\ UNCHANGED <<email, ag>>

AnswersFor(v, rfa) == rfa \in {v.mo, v.sat, v.ae}

\* Mutant: the systems of collection are looked for, and not checked.
Matches_Plants ==
    /\ step = "matches"
    /\ LET rows == FindDroitsByCodes(Db, CdOuvrages(file), CdSystemes(file))
       IN step' = IF \A c \in CdOuvrages(file) : \E v \in rows : v.steu = c /\ AnswersFor(v, siret)
                  THEN (IF FluxQualifie(file) THEN "bassinAg" ELSE "accepted") ELSE "refused"
    /\ UNCHANGED <<email, ag, siret>>

\* Every code of the file has a row in which the intervenant is owner, provider or agency.
Matches ==
    /\ step = "matches"
    /\ LET rows == FindDroitsByCodes(Db, CdOuvrages(file), CdSystemes(file))
       IN step' = IF /\ \A c \in CdOuvrages(file) : \E v \in rows : v.steu = c /\ AnswersFor(v, siret)
                     /\ \A c \in CdSystemes(file) : \E v \in rows : v.scl = c /\ AnswersFor(v, siret)
                  THEN (IF FluxQualifie(file) THEN "bassinAg" ELSE "accepted") ELSE "refused"
    /\ UNCHANGED <<email, ag, siret>>

\* A qualified flow is for the experts of a basin.
BassinAg == FindAg("bassinAg", "bassinRole", "fluxQualifieInterdit")
BassinRole ==
    /\ step = "bassinRole"
    /\ Goto(IF HasRole(Db, ag.pr, EXPERT_BASSIN_VERSEAU) THEN "accepted" ELSE "fluxQualifieInterdit")

\* A query fails: the two questions about experts answer no, the others throw.
QueryFails ==
    \/ step \in {"expertAg", "expertRole"} /\ Goto("userAg")
    \/ step \in {"bassinAg", "bassinRole"} /\ Goto("fluxQualifieInterdit")
    \/ step \in {"userAg", "roles", "intervenant", "matches"} /\ Goto("failed")

ValidateDroits ==
    Begin \/ ExpertAg \/ ExpertRole \/ UserAg \/ Roles \/ Intervenant \/ Matches
    \/ BassinAg \/ BassinRole \/ QueryFails

----
\* Some agent of the address has one of these roles, as one or two snapshots tell it.
HadRole(roles) ==
    \E v, w \in seen : v <= w /\ \E a \in FindAgByEmail(Databases[v], email) :
        FindOrionRoles(Databases[w], a.pr) \cap roles # {}

\* One snapshot has every code of the file answered for by one intervenant, to whom an
\* agent of the address was attached.
AnsweredFor(v) ==
    \E u, w \in seen : u <= w /\ w <= v /\ \E a \in FindAgByEmail(Databases[u], email) :
        LET rfa == FindIntervenantById(Databases[w], a.itv) IN
        /\ \A c \in CdOuvrages(file) : \E r \in Databases[v].droits : r.steu = c /\ AnswersFor(r, rfa)
        /\ \A c \in CdSystemes(file) : \E r \in Databases[v].droits : r.scl = c /\ AnswersFor(r, rfa)

\* A file is accepted only from an expert of the whole country, or from a depositor whose
\* intervenant answers, in one snapshot, for every plant and every system of collection of
\* the file, and who is expert of a basin when the flow is qualified; whatever the restore
\* replaces meanwhile and whichever query fails (droitsDepot.service.ts:21-125).
DepotRightsExplained ==
    step = "accepted" =>
        \/ HadRole({EXPERT_NATIONAL_VERSEAU})
        \/ /\ HadRole(Depositors)
           /\ \E v \in seen : AnsweredFor(v)
           /\ FluxQualifie(file) => HadRole({EXPERT_BASSIN_VERSEAU})
====
