---- MODULE Consultation ----
(***************************************************************************)
(* A dashboard is consulted or exported: the guard that finds the          *)
(* perimeter of the user, the service that keeps the request inside it,    *)
(* and the queries, of which a page takes two or three and an export as    *)
(* many pages as the first total says.  The restore of the reference       *)
(* schemas may come between any two of them.                               *)
(* Abstracted: formatting of the CSV; the perimeter is asked for each time *)
(* (what is kept of it: Perimetre).                                        *)
(***************************************************************************)
EXTENDS SuiviRegulier, SequencesExt

CONSTANTS
    Reference_,     \* the reference data, by snapshot
    Users,          \* [itv, email]: the intervenant of the session, and the address
    Requests_,      \* [dash, code, export]; code is None for "every site"
    Filters,        \* the other filters: year, now, tranche, impact, pars, types, pmo,
                    \* statut, qual, par, debut, fin, locs
    PageSize,       \* EXPORT_PAGE_SIZE, and the size of a page on the screen
    MaxRows         \* EXPORT_MAX_ROWS

VARIABLES
    current,        \* the snapshot in the database
    exposed,        \* ghost: the snapshots live since the request
    user, request,
    rfa,            \* the intervenant's SIRET
    auth,           \* the codes he may see: of plants, of systems of collection
    ids,            \* identifiers they resolve to
    total, counted, \* of the first page, of this page
    page,
    rows,           \* what has been collected
    stage           \* "guard", "perimeter", "resolve", "count", "data", or the outcome

consultationVars == <<current, exposed, user, request, rfa, auth, ids, total, counted, page, rows, stage>>

Live == Reference_[current]

DeConformite == {"conformiteSteu", "conformiteScl", "conformiteSteuDetail", "conformiteSclDetail"}
DeTransmission == {"transmissionSteu", "transmissionScl"}
DeBilan == {"bilanSteu", "bilanScl"}
DEvenement == {"evenementSteu", "evenementScl"}
DeMesures == {"mesuresSteu", "mesuresScl", "ouvrages", "systemesCollecte",
              "pointsSteu", "pointsScl", "parametresSteu", "parametresScl"}
DeReferentiel == {"referentielSteu", "referentielScl", "steuDetail", "sclDetail"}

OfScl(r) == r.dash \in {"conformiteScl", "transmissionScl", "bilanScl", "evenementScl", "mesuresScl", "systemesCollecte",
                        "pointsScl", "parametresScl", "referentielScl", "sclDetail", "conformiteSclDetail"}

\* The services of these ask for identifiers first, for every page anew.
ByIds == DeTransmission \cup DeBilan \cup DEvenement \cup {"conformiteSteuDetail", "conformiteSclDetail"}

\* These need one site, by its code or its identifier.
OneSite == {"mesuresSteu", "mesuresScl", "pointsSteu", "pointsScl", "parametresSteu", "parametresScl",
            "conformiteSteuDetail", "conformiteSclDetail"} \cup DeReferentiel

\* These are not cut into pages.
Details == (OneSite \ {"mesuresSteu", "mesuresScl"}) \cup {"ouvrages", "systemesCollecte"}

\* There is a first snapshot, and the exports are of what is cut into pages.
ASSUME ConsultationAssumption ==
    /\ Len(Reference_) \in Nat \ {0} /\ PageSize \in Nat \ {0} /\ MaxRows \in Nat
    /\ \A r \in Requests_ :
          /\ r.export \in BOOLEAN /\ r.export => r.dash \notin Details
          /\ r.dash \in DeConformite \cup DeTransmission \cup DeBilan \cup DEvenement \cup DeMesures
                         \cup DeReferentiel \cup {"indicateurs"}

\* Codes of the request inside the perimeter.
Cdas(r, steus, scls) ==
    LET all == IF OfScl(r) THEN scls ELSE steus
    IN IF r.code = None THEN (IF r.dash \in OneSite THEN {} ELSE all) ELSE all \cap {r.code}

Asked == Cdas(request, auth.steus, auth.scls)

Resolved(db, r, codes) ==
    {s.cdn : s \in IF OfScl(r) THEN FindSclsBySandreCdas(db, codes) ELSE FindSteusBySandreCdas(db, codes)}

Shown(site, value) == IF value = Null THEN {} ELSE {Row_(site, <<0>>, value)}
ShownAll(site, values) == {Row_(site, <<0>>, v) : v \in values}

\* Conformity: the rows of the perimeter, and the detail of one site.
ListConformite(db, r, codes, cdns) ==
    CASE r.dash = "conformiteSteu" -> FindConformiteSteu(db, codes, Filters.year, Filters.tranche, Filters.impact)
      [] r.dash = "conformiteScl" -> FindConformiteScl(db, codes, Filters.year, Filters.tranche, Filters.impact)
      [] r.dash = "conformiteSteuDetail" ->
             UNION {Shown(r.code, FindConformiteSteuDetail(db, i, Filters.year)) : i \in cdns}
      [] r.dash = "conformiteSclDetail" ->
             UNION {Shown(r.code, FindConformiteSclDetail(db, i, Filters.year)) : i \in cdns}

\* Late transmissions, of the identifiers and the current date.
ListTransmissionASRetard(db, r, cdns) ==
    CASE r.dash = "transmissionSteu" -> FindTransmissionASRetardSteu(db, cdns, Filters.year, Filters.now)
      [] r.dash = "transmissionScl" -> FindTransmissionASRetardScl(db, cdns, Filters.year, Filters.now)

\* Reports excluded: of a parameter or of the parameters of the regulation.
ListBilan(db, r, cdns) ==
    CASE r.dash = "bilanSteu" -> FindBilanSteu(db, cdns, Filters.year, Filters.pars)
      [] r.dash = "bilanScl" -> FindBilanScl(db, cdns, Filters.year, Filters.pmo, Filters.statutScl)

\* Events of the types asked for, by default of the nine.
ListEvenement(db, r, cdns) ==
    CASE r.dash = "evenementSteu" -> FindEvenementSteu(db, cdns, Filters.year, Filters.types)
      [] r.dash = "evenementScl" -> FindEvenementScl(db, cdns, Filters.year, Filters.types, Filters.pmo)

\* The measures of a site, and what the page offers to choose them by.
ListMesures(db, r, codes) ==
    CASE r.dash = "mesuresSteu" -> FindMesures(db, "steu", codes, Filters)
      [] r.dash = "mesuresScl" -> FindMesures(db, "scl", codes, Filters)
      [] r.dash = "ouvrages" -> {Row_(s.cda, <<0>>, s) : s \in FindSteusBySandreCdas(db, codes)}
      [] r.dash = "systemesCollecte" -> {Row_(s.cda, <<0>>, s) : s \in FindSclsBySandreCdas(db, codes)}
      [] r.dash = "pointsSteu" -> ShownAll(r.code, FindPointsMesureByOuvrage(db, "steu", r.code, Filters.locs))
      [] r.dash = "pointsScl" -> ShownAll(r.code, FindPointsMesureByOuvrage(db, "scl", r.code, Filters.locs))
      [] r.dash = "parametresSteu" -> ShownAll(r.code, FindParametresByOuvrageAndPmo(db, "steu", r.code, Filters.pmo))
      [] r.dash = "parametresScl" -> ShownAll(r.code, FindParametresByOuvrageAndPmo(db, "scl", r.code, Filters.pmo))

\* Points in service of a site, and its detail.
ListReferentiel(db, r) ==
    CASE r.dash = "referentielSteu" -> FindPointsMesureReferentiel(db, "steu", r.code, Filters)
      [] r.dash = "referentielScl" -> FindPointsMesureReferentiel(db, "scl", r.code, Filters)
      [] r.dash = "steuDetail" -> Shown(r.code, FindSteuDetail(db, r.code))
      [] r.dash = "sclDetail" -> Shown(r.code, FindSclDetail(db, r.code))

\* The query of a dashboard.
Query(db, r, codes, cdns) ==
    CASE r.dash \in DeConformite -> ListConformite(db, r, codes, cdns)
      [] r.dash \in DeTransmission -> ListTransmissionASRetard(db, r, cdns)
      [] r.dash \in DeBilan -> ListBilan(db, r, cdns)
      [] r.dash \in DEvenement -> ListEvenement(db, r, cdns)
      [] r.dash \in DeMesures -> ListMesures(db, r, codes)
      [] r.dash \in DeReferentiel -> ListReferentiel(db, r)
      [] r.dash = "indicateurs" -> FindIndicateursSteu(db, codes, Filters.year - 1)

----
ConsultationInit ==
    /\ current = 1 /\ exposed = {1}
    /\ user \in Users /\ request \in Requests_
    /\ rfa = Null /\ auth = [steus |-> {}, scls |-> {}] /\ ids = {}
    /\ total = 0 /\ counted = 0 /\ page = 1 /\ rows = <<>>
    /\ stage = "guard"

Ended == {"done", "forbidden", "tooMany"}

Swap ==
    /\ stage \notin Ended
    /\ current < Len(Reference_)
    /\ current' = current + 1 /\ exposed' = exposed \cup {current'}
    /\ UNCHANGED <<user, request, rfa, auth, ids, total, counted, page, rows, stage>>

\* HasUserAccessToOuvragesGuard takes the intervenant of the session, the indicators that
\* of the address; without one, nothing.
FindSiret ==
    /\ stage = "guard"
    /\ rfa' \in IF request.dash = "indicateurs"
                THEN (IF FindSiretByEmail(Live, user.email) = {} THEN {Null} ELSE FindSiretByEmail(Live, user.email))
                ELSE {IF user.itv = Null THEN Null ELSE FindIntervenantById(Live, user.itv)}
    /\ stage' = IF rfa' = Null THEN "forbidden" ELSE "perimeter"
    /\ UNCHANGED <<current, exposed, user, request, auth, ids, total, counted, page, rows>>

\* A page begins with the identifiers where they are needed.
FirstOf(r) == IF r.dash \in ByIds THEN "resolve" ELSE "count"

\* The codes the intervenant answers for; a request for another code has an empty answer.
FindPerimeter ==
    /\ stage = "perimeter"
    /\ LET droits == FindDroitsByItv(Live, rfa)
       IN auth' = [steus |-> {v.steu : v \in droits} \ {Null}, scls |-> {v.scl : v \in droits} \ {Null}]
    /\ stage' = IF auth'.steus \cup auth'.scls = {} THEN "forbidden"
                ELSE IF Cdas(request, auth'.steus, auth'.scls) = {} THEN "done" ELSE FirstOf(request)
    /\ UNCHANGED <<current, exposed, user, request, rfa, ids, total, counted, page, rows>>

\* Mutant: a last page that is not full is forgotten.
Pages_Floor(n) == n \div PageSize

\* The pages that follow the first are those of its total.
Pages(n) == (n + PageSize - 1) \div PageSize

\* Where the request goes once a page has brought "more" rows.
After(more, count) ==
    LET first == IF page = 1 THEN count ELSE total
    IN IF ~request.export THEN "done"
       ELSE IF page = 1 /\ count > MaxRows THEN "tooMany"
       ELSE IF page = 1 /\ count <= Len(more) THEN "done"
       ELSE IF page + 1 > Pages(first) THEN "done" ELSE FirstOf(request)

Collect(more, count) ==
    /\ rows' = IF After(more, count) = "tooMany" THEN <<>> ELSE rows \o more
    /\ total' = IF page = 1 THEN count ELSE total
    /\ stage' = After(more, count)
    /\ page' = IF stage' \in Ended THEN page ELSE page + 1

\* No identifier is an empty page, with a total of 0.
ResolveIds ==
    /\ stage = "resolve"
    /\ ids' = Resolved(Live, request, Asked)
    /\ IF ids' = {} THEN Collect(<<>>, 0)
       ELSE stage' = "count" /\ UNCHANGED <<total, page, rows>>
    /\ UNCHANGED <<current, exposed, user, request, rfa, auth, counted>>

Found == Query(Live, request, Asked, ids)

CountRows ==
    /\ stage = "count"
    /\ counted' = Cardinality(Found)
    /\ stage' = "data"
    /\ UNCHANGED <<current, exposed, user, request, rfa, auth, ids, total, page, rows>>

\* Before(k, l): the first of two sort keys, column by column.
Before(k, l) ==
    \E i \in DOMAIN k : k[i] < l[i] /\ \A j \in 1 .. i - 1 : k[j] = l[j]

\* An answer is in the order of its keys; rows of equal keys are in any order, and not in
\* the same one next time.
Orders(found) ==
    {s \in SetToSeqs(found) : \A i, j \in 1 .. Len(s) : i < j => ~Before(s[j].keys, s[i].keys)}

PageOf(s, n) == SubSeq(s, (n - 1) * PageSize + 1, IF n * PageSize < Len(s) THEN n * PageSize ELSE Len(s))

\* LIMIT and OFFSET; what is no list is read at once.
ReadPage ==
    /\ stage = "data"
    /\ IF request.dash \in Details
       THEN rows' = SetToSeq(Found) /\ stage' = "done" /\ UNCHANGED <<total, page>>
       ELSE \E s \in Orders(Found) : Collect(PageOf(s, page), counted)
    /\ UNCHANGED <<current, exposed, user, request, rfa, auth, ids, counted>>

ConsultationNext ==
    Swap \/ FindSiret \/ FindPerimeter \/ ResolveIds \/ CountRows \/ ReadPage

ConsultationSpec == ConsultationInit /\ [][ConsultationNext]_consultationVars

----
\* The codes an intervenant of the user answers for in a snapshot.
PerimeterIn(v) ==
    LET sirets == UNION {FindSiretByEmail(Reference_[w], user.email)
                         \cup ({FindIntervenantById(Reference_[w], user.itv)} \ {Null}) : w \in exposed}
        droits == UNION {FindDroitsByItv(Reference_[v], s) : s \in sirets}
    IN {r.steu : r \in droits} \cup {r.scl : r \in droits}

Whole(v) == IF Asked = {} THEN {} ELSE Query(Reference_[v], request, Asked, ids)
Untied(found) == \A x, y \in found : x.keys = y.keys => x = y

\* Every row is about a site the user's intervenant answers for in a snapshot the request
\* has seen, and is a row of the dashboard in one.
RowsOfUser == \A i \in 1 .. Len(rows) : \E v \in exposed : rows[i].site \in PerimeterIn(v)
RowsOfDashboard ==
    \A i \in 1 .. Len(rows) : \E v, w \in exposed :
        rows[i] \in Query(Reference_[v], request, Asked, Resolved(Reference_[w], request, Asked))

\* An export that nothing disturbed has as many rows as there are, and has them in order,
\* each of them once, when the sort leaves no tie.
Undisturbed == Cardinality(exposed) = 1 /\ stage = "done" /\ request.export
AllRows == Undisturbed => Len(rows) = Cardinality(Whole(1)) /\ Len(rows) <= MaxRows
RowsInOrder == Undisturbed /\ Untied(Whole(1)) => rows \in Orders(Whole(1))

\* Whatever the restore replaces meanwhile, an answer has only rows of the user and of the
\* dashboard; and when nothing is replaced, an export has every row
\* (paginatedExport.service.ts:11-32, hasUserAccessToOuvrages.guard.ts:18-48).
ExportFaithful == stage \in Ended => RowsOfUser /\ RowsOfDashboard /\ AllRows /\ RowsInOrder
====
