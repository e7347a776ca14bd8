---- MODULE ControlesV1 ----
(***************************************************************************)
(* ControleV1Service: the codes of a file looked up in the reference data. *)
(*                                                                         *)
(* A run first loads in batches what four controls need, then looks up     *)
(* every other code by a query of its own.  The restore of the reference   *)
(* schemas may swap them between any two of these queries: "live" is the   *)
(* snapshot that is read, "seen" the snapshots the run has been exposed    *)
(* to.  Internal identifiers of one snapshot are used in queries on the    *)
(* next.  CTL003 (owner of a plant) and CTL004 (its operator) find nothing *)
(* to look up in a parsed file, because the parser reads neither; CTL003   *)
(* is left out, CTL004 shown as the batch it is part of.                   *)
(* Abstracted: the order of the error rows, and equal rows are one.        *)
(***************************************************************************)
EXTENDS Scenario, FiniteSets, TLC

CONSTANTS
    References,     \* the snapshots, in the order they go live
    Docs            \* files of depots, as XML

ASSUME ReferencesAssumption == Len(References) \in Nat \ {0}

VARIABLES
    doc,            \* the file that is controlled
    file,           \* what the parser makes of it
    live,           \* the snapshot in the database
    seen,           \* ghost: the snapshots live since the run started
    toLoad,         \* batches not read yet
    batch,          \* what each batch returned
    pending,        \* codes not looked up yet
    errors,         \* error rows: control and parameters
    phase           \* "load", "links", "lookups", "saved"

v1Vars == <<doc, file, live, seen, toLoad, batch, pending, errors, phase>>

Ref == References[live]

----
(* What each control looks up: a table and a code *)

Ask(ctl, table, values) ==
    {[ctl |-> ctl, table |-> table, code |-> c] : c \in Codes(values)}

\* The analyses of the collection systems are not looked at.
AskAnalyses(ctl, table, f, Field(_)) ==
    Ask(ctl, table, {Field(a) : a \in AnalysesOf(f.ouvrages)})

VerifySup(f) == Ask("CTL006", "sup", {p.support : p \in PrelevementsOf(f.ouvrages)})
VerifyLieu(f) == AskAnalyses("CTL007", "LREF_43", f, LAMBDA a : a.inSitu)
VerifyStatut(f) == AskAnalyses("CTL008", "LREF_20", f, LAMBDA a : a.statut)
VerifyQual(f) == AskAnalyses("CTL009", "LREF_18", f, LAMBDA a : a.qual)
VerifyFan(f) == AskAnalyses("CTL010", "fan", f, LAMBDA a : a.fraction)
VerifyMethode(f) == AskAnalyses("CTL011", "LREF_45", f, LAMBDA a : a.methode)
VerifyParametre(f) == AskAnalyses("CTL012", "par", f, LAMBDA a : a.parametre)
VerifyUnite(f) == AskAnalyses("CTL013", "urf", f, LAMBDA a : a.unite)
VerifyIntervenant(f) ==
    Ask("CTL014", "itv", {f.scenario.emetteur} \cup {o.maitreOuvrage : o \in Range(f.ouvrages)}
                                               \cup {o.exploitant : o \in Range(f.ouvrages)})
VerifyFinalite(f) == AskAnalyses("CTL015", "LREF_17", f, LAMBDA a : a.finalite)
VerifyAccreAnalyse(f) == AskAnalyses("CTL016", "LREF_44", f, LAMBDA a : a.accre)

Rejets(f) == UNION {Range(o.rejets) : o \in Range(f.ouvrages)}

VerifyPeriode(f) == Ask("CTL017", "LREF_61", {r.periode : r \in Rejets(f)})
VerifyTypeAval(f) == Ask("CTL018", "LREF_15", {r.typeAval : r \in Rejets(f)})
VerifyOuvrageAval(f) == Ask("CTL019", "steu", {r.cdAval : r \in Rejets(f)})
VerifyTypeEvenement(f) ==
    Ask("CTL020", "LREF_46", {e.type : e \in UNION {Range(o.evenements) : o \in Range(f.ouvrages)}})
VerifyRemarque(f) == AskAnalyses("CTL021", "LREF_21", f, LAMBDA a : a.remarque)
VerifyScl(f) == Ask("CTL022", "scl", {s.scl : s \in Range(f.scls)})
VerifyTypeOuvrage(f) == Ask("CTL024", "LREF_01", {o.type : o \in Range(f.ouvrages)})
VerifyNature(f) == Ask("CTL025", "LREF_09", {o.nature : o \in Range(f.ouvrages)})
VerifyEmetteur(f) == Ask("CTL026", "itv", {f.scenario.emetteur})

\* The conformity of a sampling is looked up in the collection systems only.
VerifyConformite(f) == Ask("CTL035", "LREF_92", {p.conformite : p \in PrelevementsOf(f.scls)})

VerifyAccreditation(f) ==
    Ask("CTL036", "LREF_44", {p.accre : p \in PrelevementsOf(f.ouvrages) \cup PrelevementsOf(f.scls)})

Lookups(f) ==
    VerifySup(f) \cup VerifyLieu(f) \cup VerifyStatut(f) \cup VerifyQual(f) \cup VerifyFan(f)
    \cup VerifyMethode(f) \cup VerifyParametre(f) \cup VerifyUnite(f) \cup VerifyIntervenant(f)
    \cup VerifyFinalite(f) \cup VerifyAccreAnalyse(f) \cup VerifyPeriode(f)
    \cup VerifyTypeAval(f) \cup VerifyOuvrageAval(f) \cup VerifyTypeEvenement(f)
    \cup VerifyRemarque(f) \cup VerifyScl(f) \cup VerifyTypeOuvrage(f) \cup VerifyNature(f)
    \cup VerifyEmetteur(f) \cup VerifyConformite(f) \cup VerifyAccreditation(f)

----
(* The batches *)

ExpPairs(f) == {<<o.steu, o.exploitant>> :
                o \in {o \in Range(f.ouvrages) : Absent \notin {o.steu, o.exploitant}}}
PmoQueries(f) ==
    UNION {{<<o.steu, p.num, p.loc>> : p \in {p \in Range(o.points) : p.loc # Absent}} :
           o \in {o \in Range(f.ouvrages) : o.steu # Absent}}
SclLinks(f) == {<<s.scl, s.agglomeration>> :
                s \in {s \in Range(f.scls) : Absent \notin {s.scl, s.agglomeration}}}

\* The links are asked for with the identifiers the first two batches returned.
ExpLinks(f) ==
    {<<batch["steus"][x[1]], batch["itvs"][x[2]]>> :
        x \in {x \in ExpPairs(f) : x[1] \in DOMAIN batch["steus"] /\ x[2] \in DOMAIN batch["itvs"]}}

\* Only what is asked for comes back.
Restricted(g, codes) == [c \in DOMAIN g \cap codes |-> g[c]]

Answer(q) ==
    CASE q = "steus" -> Restricted(Ref.steu, CdOuvrages(file))
      [] q = "itvs" -> Restricted(Ref.itv, {x[2] : x \in ExpPairs(file)})
      [] q = "pmos" -> Ref.pmo \cap PmoQueries(file)
      [] q = "scls" -> Ref.aga \cap SclLinks(file)
      [] q = "exps" -> Ref.exp \cap ExpLinks(file)

First == {"steus", "itvs"}
Second == {"pmos", "scls", "exps"}

ExpError(x) ==
    /\ x[1] \in DOMAIN batch["steus"]
    /\ \/ x[2] \notin DOMAIN batch["itvs"]
       \/ <<batch["steus"][x[1]], batch["itvs"][x[2]]>> \notin batch["exps"]

Row(ctl, params) == [ctl |-> ctl, params |-> params]

\* The four controls on the batches.
BatchErrors(f) ==
    {Row("CTL002", c) : c \in CdOuvrages(f) \ DOMAIN batch["steus"]}
    \cup {Row("CTL004", x) : x \in {x \in ExpPairs(f) : ExpError(x)}}
    \cup {Row("CTL005", x) : x \in PmoQueries(f) \ batch["pmos"]}
    \cup {Row("CTL023", x) : x \in SclLinks(f) \ batch["scls"]}

----
(* A run *)

V1InitFor(d) ==
    /\ doc = d /\ file = Parse(d)
    /\ live = 1 /\ seen = {1}
    /\ toLoad = First
    /\ batch = [q \in First \cup Second |-> IF q \in First THEN [c \in {} |-> 0] ELSE {}]
    /\ pending = {} /\ errors = {}
    /\ phase = "load"

\* Only a file that parses comes to the controls.
V1Init == \E d \in Docs : ~ParseFails(d) /\ V1InitFor(d)

\* The swap of the schemas, by another process.
SwapReference ==
    /\ phase # "saved"
    /\ live < Len(References)
    /\ live' = live + 1
    /\ seen' = seen \cup {live'}
    /\ UNCHANGED <<doc, file, toLoad, batch, pending, errors, phase>>

\* The queries of one Promise.all come back in any order.
Load(q) ==
    /\ phase \in {"load", "links"}
    /\ q \in toLoad
    /\ batch' = [batch EXCEPT ![q] = Answer(q)]
    /\ toLoad' = toLoad \ {q}
    /\ UNCHANGED <<doc, file, live, seen, pending, errors, phase>>

\* Mutant: the first two batches are not awaited.
LoadLinks_NoAwait ==
    /\ phase = "load"
    /\ phase' = "links" /\ toLoad' = Second
    /\ UNCHANGED <<doc, file, live, seen, batch, pending, errors>>

LoadLinks ==
    /\ phase = "load" /\ toLoad = {}
    /\ phase' = "links" /\ toLoad' = Second
    /\ UNCHANGED <<doc, file, live, seen, batch, pending, errors>>

\* Every control is started: those on the batches answer at once.
StartLookups ==
    /\ phase = "links" /\ toLoad = {}
    /\ phase' = "lookups"
    /\ pending' = Lookups(file)
    /\ errors' = BatchErrors(file)
    /\ UNCHANGED <<doc, file, live, seen, toLoad, batch>>

Known(r, table, code) ==
    CASE table = "steu" -> code \in DOMAIN r.steu
      [] table = "itv" -> code \in DOMAIN r.itv
      [] OTHER -> code \in r.lists[table]

Lookup(l) ==
    /\ l \in pending
    /\ pending' = pending \ {l}
    /\ errors' = IF Known(Ref, l.table, l.code) THEN errors
                 ELSE errors \cup {Row(l.ctl, l.code)}
    /\ UNCHANGED <<doc, file, live, seen, toLoad, batch, phase>>

Save ==
    /\ phase = "lookups" /\ pending = {}
    /\ phase' = "saved"
    /\ UNCHANGED <<doc, file, live, seen, toLoad, batch, pending, errors>>

V1Next ==
    \/ SwapReference \/ LoadLinks \/ StartLookups \/ Save
    \/ \E q \in toLoad : Load(q)
    \/ \E l \in pending : Lookup(l)

----
(* What a verdict is worth *)

\* Every element of a name below the plants of the file.
Below(xs) == UNION {Range(x.kids) : x \in xs}

Texts(xs, tag) ==
    LET all == Below(xs) \cup Below(Below(xs)) \cup Below(Below(Below(xs)))
               \cup Below(Below(Below(Below(xs))))
    IN {x.text : x \in {x \in all : x.tag = tag}} \ {Absent}

\* The tables the documentation of the controls names, by tag.
Nomenclature ==
    {<<"CdSupport", "sup">>, <<"InSituAnalyse", "LREF_43">>, <<"StatutRsAnalyse", "LREF_20">>,
     <<"QualRsAnalyse", "LREF_18">>, <<"CdParametre", "par">>, <<"CdUniteMesure", "urf">>,
     <<"CdMethode", "LREF_45">>, <<"CdFractionAnalysee", "fan">>, <<"FinaliteAnalyse", "LREF_17">>,
     <<"AccreAna", "LREF_44">>, <<"AccrePrlvt", "LREF_44">>, <<"CdRemAnalyse", "LREF_21">>,
     <<"PeriodeCalcul", "LREF_61">>, <<"TypeOuvrageAval", "LREF_15">>, <<"CdOuvrageAval", "steu">>,
     <<"TypeEvenOuvrageAssainissement", "LREF_46">>, <<"TypeOuvrageDepollution", "LREF_01">>,
     <<"NatureSystTraitementEauxUsees", "LREF_09">>, <<"CdOuvrageDepollution", "steu">>}

\* The rows one snapshot alone would give.
Wrong(r) ==
    {Row(l.ctl, l.code) : l \in {l \in Lookups(file) : ~Known(r, l.table, l.code)}}
    \cup {Row("CTL002", c) : c \in CdOuvrages(file) \ DOMAIN r.steu}
    \cup {Row("CTL005", x) : x \in PmoQueries(file) \ r.pmo}
    \cup {Row("CTL023", x) : x \in SclLinks(file) \ r.aga}

\* Every error row is one that a snapshot the run has seen gives.
ErrorsOfASnapshot == errors \subseteq UNION {Wrong(References[v]) : v \in seen}

\* No error that all of them give is missed.
NoErrorMissed ==
    \A e \in Wrong(References[1]) : (\A v \in seen : e \in Wrong(References[v])) => e \in errors

\* A file without error states, in its plants, no code unknown to all of them.
CleanIsKnown ==
    errors = {} =>
        \A n \in Nomenclature : \A c \in Texts(Range(Named(doc, "OuvrageDepollution")), n[1]) :
            \E v \in seen : Known(References[v], n[2], c)

\* Although the reference data may be swapped in the middle of a run, every error row is
\* one that a snapshot the run has seen gives, no error that all of them give is missed,
\* and a file without error states, in its plants, no code unknown to all of them
\* (controlev1.service.ts, controleV1DataFetcher.service.ts).
VerdictExplained == phase = "saved" => ErrorsOfASnapshot /\ NoErrorMissed /\ CleanIsKnown
====
