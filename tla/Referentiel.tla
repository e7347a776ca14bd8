---- MODULE Referentiel ----
(***************************************************************************)
(* The queries on the reference data: the schemas roseau and lanceleau,    *)
(* behind MasaProvider.  A database is a record of tables, a table a set   *)
(* of rows, a query a set of rows; codes are trimmed.  "search" queries    *)
(* and the order of the rows are left out.                                 *)
(***************************************************************************)
EXTENDS Naturals, FiniteSets

CONSTANTS Null, None    \* NULL; "no filter"

\* The value of the only row a query is made for, or Null.
One(rows, Value(_)) == IF rows = {} THEN Null ELSE Value(CHOOSE r \in rows : TRUE)

By(table, key, value) == {r \in table : r[key] = value}

----
(* Existence and links: what the controls V1 ask *)

FindSteuBySandreCda(db, cda) == One(By(db.steu, "cda", cda), LAMBDA s : s.cdn)
FindSteusBySandreCdas(db, cdas) == {s \in db.steu : s.cda \in cdas}
FindSclsBySandreCdas(db, cdas) == {s \in db.scl : s.cda \in cdas}

FindItvByRfa(db, rfa) == One(By(db.itv, "rfa", rfa), LAMBDA i : i.cdn)
FindItvBatchByRfas(db, rfas) == {i \in db.itv : i.rfa \in rfas}
FindIntervenantById(db, cdn) == One(By(db.itv, "cdn", cdn), LAMBDA i : i.rfa)

\* sup, fan, par, urf: one table each.
FindCode(db, table, rfa) == table \in DOMAIN db.codes /\ rfa \in db.codes[table]

FindTlrefByRfaAndCda(db, list, cda) == \E t \in db.tlref : t.list = list /\ t.cda = cda
FindNomenclatureByRfa(db, list) == {t.cda : t \in By(db.tlref, "list", list)}

FindCxnAdmBySteuAndItv(db, steu, itv) == \E c \in db.cxnadm : c.moSteu = steu /\ c.itv = itv

\* A link that has been withdrawn still counts.
CheckExpSteuLinks(db, links) ==
    {l \in links : \E c \in db.cxnadm : c.expSteu = l[1] /\ c.itv = l[2]}

Location(db, pmo) == One(By(db.tlref, "cdn", pmo.loc), LAMBDA t : t.cda)

CheckPmoExistence(db, queries) ==
    {q \in queries : \E s \in db.steu, p \in db.pmo :
        s.cda = q[1] /\ p.steu = s.cdn /\ p.no = q[2] /\ Location(db, p) = q[3]}

\* Here a withdrawn link does not count.
CheckSclAgglomerationLinks(db, links) ==
    {l \in links : \E s \in db.scl, a \in db.aga, x \in db.cxntech :
        /\ s.cda = l[1] /\ a.cda = l[2]
        /\ x.aval = s.cdn /\ x.amont = a.zgc /\ x.retrait = Null}

----
(* Figures of a year: what the controls V2 ask *)

Plants_(db, cdas) == FindSteusBySandreCdas(db, cdas)

\* A row without capacity is no row.
FindCapaciteNominale(db, cdas, year) ==
    UNION {{[code |-> s.cda, eh |-> c.capacite] :
                c \in {c \in By(db.cpy, "steu", s.cdn) : c.an = year /\ c.capacite # Null}} :
           s \in Plants_(db, cdas)}

FindConcentrationsMoyennes(db, cdas, year, pars) ==
    UNION {{[code |-> s.cda, par |-> r.par, cma |-> r.cma] :
                r \in {r \in By(db.resa, "steu", s.cdn) : r.an = year /\ r.par \in pars}} :
           s \in Plants_(db, cdas)}

Larger(a, b) == IF a >= b THEN a ELSE b
OrZero(v) == IF v = Null THEN 0 ELSE v

\* Of the current year of the plant; nothing when both are missing.
FindMaxDebitsReference(db, cdas) ==
    {d \in UNION {{[code |-> s.cda, debit |-> Larger(OrZero(t.pc95), OrZero(c.dref))] :
                        t \in {t \in By(db.stchan, "steu", s.cdn) : t.an = s.encours},
                        c \in {c \in By(db.cpy, "steu", s.cdn) : c.an = s.encours}} :
                  s \in Plants_(db, cdas)} :
        d.debit > 0}

\* Both loads known, that of the year before not zero, and an agglomeration that has a
\* conformity of the year.
FindChargeEntranteMax(db, cdas, year) ==
    UNION {{[code |-> s.cda, n |-> c.charge, n1 |-> d.charge] :
                c \in {c \in By(db.stchan, "steu", s.cdn) : c.an = year /\ c.charge # Null},
                d \in {d \in By(db.stchan, "steu", s.cdn) : d.an = year - 1 /\ d.charge \notin {Null, 0}}} :
           s \in {s \in Plants_(db, cdas) :
                     \E a \in db.aga : a.zgc = s.zgc /\ \E k \in db.agac : k.aga = a.cdn /\ k.an = year}}

\* A plant with a stream of treatment without sludge is left out.
FindProductionBoueZero(db, cdas, year) ==
    {s.cda : s \in {s \in Plants_(db, cdas) :
        /\ \E p \in db.pab : p.steu = s.cdn /\ p.an = year /\ p.boue = 0
        /\ ~\E f \in db.filiere : f.steu = s.cdn /\ f.eau /\ f.extensive}}

\* The figures of a file: those of its year, and the means of the year before.
FiguresOf(db, cdas, year, NaN) ==
    LET cap(c) == {r \in FindCapaciteNominale(db, cdas, year) : r.code = c}
        cma(c, p) == {r \in FindConcentrationsMoyennes(db, cdas, year - 1, {"DBO5", "DCO"}) : r.code = c /\ r.par = p}
        chg(c) == {r \in FindChargeEntranteMax(db, cdas, year) : r.code = c}
        value(rows, Value(_)) == IF rows = {} THEN NaN ELSE One(rows, Value)
    IN [capacite |-> [c \in cdas |-> value(cap(c), LAMBDA r : r.eh)],
        cma |-> [c \in cdas |-> [p \in {"DBO5", "DCO"} |-> value(cma(c, p), LAMBDA r : r.cma)]],
        charge |-> [c \in cdas |-> value(chg(c), LAMBDA r : <<r.n, r.n1>>)],
        boueZero |-> FindProductionBoueZero(db, cdas, year)]

----
(* People and rights *)

FindAgByEmail(db, email) ==
    {a \in db.ag : \E o \in db.credentials : o.login = email /\ o.pr = a.pr}

FindSiretByEmail(db, email) ==
    {i.rfa : i \in {i \in db.itv : \E a \in FindAgByEmail(db, email) : a.itv = i.cdn}}

FindOrionContact(db, email) == One(By(db.credentials, "login", email), LAMBDA o : <<o.nom, o.prenom>>)

HasRole(db, pr, role) == [pr |-> pr, role |-> role] \in db.roles
FindOrionRoles(db, pr) == {r.role : r \in By(db.roles, "pr", pr)}

\* Rows of the materialized view: who answers for a plant or a system of collection.
FindDroitsByCodes(db, steus, scls) ==
    {v \in db.droits : v.steu \in steus \/ v.scl \in scls}

FindDroitsByItv(db, rfa) == {v \in db.droits : rfa \in {v.mo, v.sat, v.ae}}

----
(* Detail of a plant or of a system of collection *)

FindAgenceEauNom(db, cda) ==
    One(By(db.steu, "cda", cda), LAMBDA s : One(By(db.cdb, "rfa", s.cdb), LAMBDA c : c.nom))

\* The links in force, by role; an unnamed intervenant is left out.
Intervenants(db, role, site) ==
    {i \in db.itv : \E c \in db.cxnadm : c[role] = site /\ c.itv = i.cdn /\ c.retrait = Null}

FindSteuDetail(db, cda) ==
    One(By(db.steu, "cda", cda), LAMBDA s :
        [code |-> s.cda, exploitant |-> Intervenants(db, "expSteu", s.cdn),
         maitre_ouvrage |-> Intervenants(db, "moSteu", s.cdn)])

FindSclDetail(db, cda) ==
    One(By(db.scl, "cda", cda), LAMBDA s :
        [code |-> s.cda, exploitant |-> Intervenants(db, "expScl", s.cdn),
         maitre_ouvrage |-> Intervenants(db, "moScl", s.cdn)])

----
(* Measuring points and parameters *)

PointsOf_(db, type, cda) ==
    IF type = "scl" THEN {p \in db.pmo : \E s \in By(db.scl, "cda", cda) : p.scl = s.cdn}
                    ELSE {p \in db.pmo : \E s \in By(db.steu, "cda", cda) : p.steu = s.cdn}

FindPointsMesureByOuvrage(db, type, cda, locs) ==
    {p \in PointsOf_(db, type, cda) : locs = None \/ Location(db, p) \in locs}

FindParametresByOuvrageAndPmo(db, type, cda, pmo) ==
    {l.par : l \in {l \in db.alr : l.par \in db.codes["par"]
                        /\ \E p \in PointsOf_(db, type, cda) : l.pmo = p.cdn /\ pmo \in {None, p.cdn}}}

FindParametresByCodes(db, codes) == codes \cap db.codes["par"]

FindPointsMesureBySystemes(db, scls) ==
    [s \in {s \in scls : \E p \in db.pmo : p.scl = s} |-> By(db.pmo, "scl", s)]

\* The tables the controls look codes up in.
Tables == {"sup", "fan", "par", "urf", "scl"} \cup
    {"LREF_01", "LREF_09", "LREF_15", "LREF_17", "LREF_18", "LREF_20", "LREF_21", "LREF_43",
     "LREF_44", "LREF_45", "LREF_46", "LREF_61", "LREF_92"}

AllCodes(db) == {t.cda : t \in db.tlref} \cup UNION {db.codes[t] : t \in DOMAIN db.codes}

\* What the controls of one snapshot read.
Snapshot(db) ==
    [steu |-> [c \in {s.cda : s \in db.steu} |-> FindSteuBySandreCda(db, c)],
     itv |-> [c \in {i.rfa : i \in db.itv} |-> FindItvByRfa(db, c)],
     exp |-> CheckExpSteuLinks(db, {<<c.expSteu, c.itv>> : c \in db.cxnadm}),
     pmo |-> CheckPmoExistence(db, {s.cda : s \in db.steu} \X {p.no : p \in db.pmo} \X {t.cda : t \in db.tlref}),
     aga |-> CheckSclAgglomerationLinks(db, {s.cda : s \in db.scl} \X {a.cda : a \in db.aga}),
     lists |-> [t \in Tables |->
         IF t = "scl" THEN {s.cda : s \in db.scl}
         ELSE {c \in AllCodes(db) : FindCode(db, t, c) \/ FindTlrefByRfaAndCda(db, t, c)}]]
====
