---- MODULE SuiviRegulier ----
(***************************************************************************)
(* The queries behind the dashboards: conformity, late transmissions,      *)
(* reports, events, measures, points, indicators of a year.                *)
(*                                                                         *)
(* A query is the set of the joined rows that pass its filters; a row of   *)
(* the answer is the code of its plant or system of collection ("site"),   *)
(* the values it is sorted by when nothing else is asked for, a text as    *)
(* its place among the texts, and the rows it is joined from ("of"), which *)
(* tell two rows of one site apart.  A date is a number of months.         *)
(***************************************************************************)
EXTENDS Referentiel, Integers

CONSTANT Rang   \* Rang[x]: the place of a text in the order of the database; NULL is the last

Year(date) == date \div 12
January(year) == 12 * year

\* <> and > of SQL are not true of NULL.
Differs(a, b) == Null \notin {a, b} /\ a # b

\* From a date, to the end of a year if there is one.
InForce(x, debut, fin, year) == Year(x[debut]) <= year /\ (x[fin] = Null \/ Year(x[fin]) >= year)

\* The rows a plant is joined with in a year: one for each agglomeration that flows into
\* it, and each tranche of its obligations.
Obligations(db, steu, year) ==
    {l \in db.cxntech \X db.aga \X db.trobl :
        LET x == l[1] a == l[2] o == l[3] IN
        /\ x.aval = steu.cdn /\ x.amont # Null /\ InForce(x, "creation", "retrait", year)
        /\ a.zgc = x.amont /\ o.aga = a.cdn /\ InForce(o, "deb", "fin", year)}

\* The row of the year, or of the last year the plant has been followed.
OfYear(table, steu, year) ==
    {c \in By(table, "steu", steu.cdn) : c.an = steu.encours /\ steu.encours <= year}

Row_(site, keys, of) == [site |-> site, keys |-> keys, of |-> of]

----
(* Conformity *)

ImpactSteu(cf, reg) == Differs(cf.eru, reg.nat) \/ Differs(cf.loc, reg.loc)

\* None for a filter that is not set.
Passes(filter, value) == filter \in {None, value}

FindConformiteSteu(db, codes, year, tranche, impact) ==
    LET joined == UNION {{s} \X Obligations(db, s, year) \X OfYear(db.cfprf, s, year)
                             \X OfYear(db.cpy, s, year) \X By(By(db.steureg, "steu", s.cdn), "an", year) :
                         s \in FindSteusBySandreCdas(db, codes)}
    IN {Row_(x[1].cda, <<Rang[x[1].cda]>>, x) :
        x \in {x \in joined : Passes(tranche, x[2][3].tranche) /\ Passes(impact, ImpactSteu(x[3], x[5]))}}

\* A system of collection has the obligations of its plant; one that is followed
\* regularly or has no type is left out, a plant is not.
FindConformiteScl(db, codes, year, tranche, impact) ==
    LET joined == UNION {UNION {{s} \X Obligations(db, p, year) \X By(By(db.bilanscl, "scl", s.cdn), "an", year)
                                    \X By(By(db.sclreg, "scl", s.cdn), "an", year) :
                                p \in By(db.steu, "cdn", s.steu)} :
                         s \in FindSclsBySandreCdas(db, codes)}
    IN {Row_(x[1].cda, <<Rang[x[1].cda]>>, x) :
        x \in {x \in joined : /\ ~x[4].regulier /\ By(db.tlref, "cdn", x[1].type) # {}
                              /\ Passes(tranche, x[2][3].tranche) /\ Passes(impact, Differs(x[3].eru, x[4].nat))}}

FindConformiteSteuDetail(db, steu, year) ==
    One({r \in By(db.steureg, "steu", steu) : r.an = year}, LAMBDA r : <<r.nat, r.loc>>)
FindConformiteSclDetail(db, scl, year) ==
    One({r \in By(db.sclreg, "scl", scl) : r.an = year}, LAMBDA r : r.nat)

----
(* Late transmissions *)

\* The month after what has been followed; without any, January, late from February on.
MesureSuivante(reg, year) == IF reg.suivi = Null THEN January(year) ELSE reg.suivi + 1
Retard(reg, year, now) == now - (IF reg.suivi = Null THEN January(year) + 1 ELSE reg.suivi + 1)

EnRetard(reg, year, now) == Retard(reg, year, now) > 0 /\ MesureSuivante(reg, year) < January(year + 1)

\* Operators of the plant during the whole year; none still gives a row.
Exploitants(db, steu, year) ==
    LET links == {c \in By(db.cxnadm, "expSteu", steu.cdn) :
                     /\ c.itv # Null
                     /\ c.creation = Null \/ c.creation <= January(year)
                     /\ c.retrait = Null \/ c.retrait >= January(year + 1)}
    IN IF links = {} THEN {Null} ELSE links

FindTransmissionASRetardSteu(db, ids, year, now) ==
    {Row_(x[1].cda, <<-Retard(x[2], year, now), Rang[x[1].cda]>>, x) : x \in
        UNION {{s} \X {r \in By(db.steureg, "steu", s.cdn) : r.an = year /\ EnRetard(r, year, now)}
                   \X Obligations(db, s, year) \X OfYear(db.cpy, s, year)
                   \X {q \in By(db.suivqual, "steu", s.cdn) : q.an = year} \X Exploitants(db, s, year) :
               s \in {s \in db.steu : s.cdn \in ids}}}

\* Operator, capacity and obligations are those of its plant.
FindTransmissionASRetardScl(db, ids, year, now) ==
    {Row_(x[1].cda, <<-Retard(x[2], year, now), Rang[x[1].cda]>>, x) : x \in
        UNION {UNION {{s} \X {r \in By(db.sclreg, "scl", s.cdn) : r.an = year /\ EnRetard(r, year, now)}
                          \X Obligations(db, p, year) \X OfYear(db.cpy, p, year)
                          \X {q \in By(db.suivqual, "scl", s.cdn) : q.an = year} \X Exploitants(db, p, year) :
                      p \in By(db.steu, "cdn", s.steu)} :
               s \in {s \in db.scl : s.cdn \in ids}}}

----
(* Reports and events *)

Within(date, year) == date >= January(year) /\ date < January(year + 1)

FindBilanSteu(db, ids, year, pars) ==
    {Row_(x[2].cda, <<x[1].date>>, x) : x \in
        {l \in db.resj \X db.steu :
            LET r == l[1] s == l[2] IN
            /\ r.steu = s.cdn /\ s.cdn \in ids /\ Within(r.date, year)
            /\ r.par \in pars \cap db.codes["par"]}}

\* The second statement of a discharge replaces the first when both are there and differ.
StatutDeversement(d) == IF Differs(d.statut, d.statutS) THEN d.statutS ELSE d.statut

\* The point belongs to a system of collection.
PointOfScl(db, pmo, ids) ==
    {l \in By(db.pmo, "cdn", pmo) \X db.scl : l[1].scl = l[2].cdn /\ l[2].cdn \in ids}

FindBilanScl(db, ids, year, pmo, statut) ==
    {Row_(x[3].cda, <<x[1].date>>, x) : x \in
        {l \in db.devers \X db.pmo \X db.scl :
            LET d == l[1] p == l[2] IN
            /\ <<p, l[3]>> \in PointOfScl(db, d.pmo, ids)
            /\ Within(d.date, year) /\ ~d.prisEnCompte
            /\ {d.statut, d.statutS} \cap {"TP", "TS"} # {}
            /\ Passes(pmo, p.cdn) /\ Passes(statut, StatutDeversement(d))}}

\* An event whose type is not in the nomenclature is in no answer.
OfType(db, e, types) == e.type \in types \cap {t.cda : t \in By(db.tlref, "list", "LREF_46")}

FindEvenementSteu(db, ids, year, types) ==
    {Row_(x[2].cda, <<x[1].date>>, x) : x \in
        {l \in db.evo \X db.steu :
            LET e == l[1] s == l[2] IN
            e.steu = s.cdn /\ s.cdn \in ids /\ Within(e.date, year) /\ OfType(db, e, types)}}

FindEvenementScl(db, ids, year, types, pmo) ==
    {Row_(x[3].cda, <<x[1].date>>, x) : x \in
        {l \in db.evo \X db.pmo \X db.scl :
            LET e == l[1] p == l[2] s == l[3] IN
            /\ <<p, s>> \in PointOfScl(db, e.pmo, ids)
            /\ \E steu \in db.steu : s.steu = steu.cdn
            /\ Within(e.date, year) /\ OfType(db, e, types) /\ Passes(pmo, p.cdn)}}

----
(* Measures, points and indicators *)

\* f: dates and five filters.  A query without any code would not be restricted to a site.
\* By default by the name of the site, the location and number of the point, the date and
\* the parameter.
FindMesures(db, type, codes, f) ==
    {Row_(x[3].cda, <<Rang[x[3].nom], Rang[Location(db, x[2])], Rang[x[2].no], x[1].date, Rang[x[1].par]>>, x) : x \in
        {l \in db.alr \X db.pmo \X (IF type = "scl" THEN db.scl ELSE db.steu) :
            LET a == l[1] p == l[2] s == l[3] IN
            /\ a.pmo = p.cdn /\ p[type] = s.cdn
            /\ type = "scl" => \E steu \in db.steu : s.steu = steu.cdn
            /\ Location(db, p) # Null
            /\ a.par \in db.codes["par"]
            /\ codes = {} \/ s.cda \in codes
            /\ a.date >= f.debut /\ a.date <= f.fin
            /\ Passes(f.pmo, p.cdn) /\ Passes(f.par, a.par)
            /\ Passes(f.statut, a.statut) /\ Passes(f.qual, a.qual) /\ Passes(f.finalite, a.finalite)}}

\* Only of plants in service or projected, and of points that have a location.
EnService == {40, 41}

FindPointsMesureReferentiel(db, type, code, f) ==
    {Row_(code, <<Rang[p.no]>>, p) : p \in
        {p \in PointsOf_(db, type, code) :
            /\ \E s \in db.steu : s.etat \in EnService
                   /\ (IF type = "scl" THEN \E c \in db.scl : c.cdn = p.scl /\ c.steu = s.cdn ELSE p.steu = s.cdn)
            /\ p.fin = Null \/ p.fin >= f.debut
            /\ p.deb = Null \/ p.deb <= f.fin
            /\ Location(db, p) # Null
            /\ f.locs = None \/ Location(db, p) \in f.locs}}

\* Of the year before; one row per agglomeration and per system of collection.  The
\* nomenclatures and the figures of an agglomeration it is joined with are taken as there.
FindIndicateursSteu(db, codes, year) ==
    {Row_(x[1].cda, <<Rang[x[1].nom], Rang[x[1].cda]>>, x) : x \in
        UNION {UNION {
            {s} \X {l \in By(db.cxntech, "aval", s.cdn) \X db.aga :
                        l[2].zgc = l[1].amont /\ InForce(l[1], "creation", "retrait", year)
                        /\ \E k \in db.agac : k.aga = l[2].cdn /\ k.an = year}
                \X {c \in By(db.cpy, "steu", s.cdn) : c.an = year}
                \X {t \in By(db.stchan, "steu", s.cdn) : t.an = year}
                \X {scl} : scl \in IF By(db.scl, "steu", s.cdn) = {} THEN {Null} ELSE By(db.scl, "steu", s.cdn)}
            : s \in FindSteusBySandreCdas(db, codes)}}
====
