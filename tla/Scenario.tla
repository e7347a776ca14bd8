---- MODULE Scenario ----
(***************************************************************************)
(* The file of a depot: what the parser makes of its XML                   *)
(* (packages/parser), and the name the delivery writes into it.            *)
(*                                                                         *)
(* An element is its tag, its namespace, its text and its children.  The   *)
(* parser looks at local names only and keeps, of a field, its text; an    *)
(* empty element, an element with children and a repeated element are      *)
(* objects to it: they are not absent, and no code.                        *)
(***************************************************************************)
EXTENDS Naturals, Sequences, FiniteSets, SequencesExt

CONSTANTS
    Absent,     \* undefined
    Objet       \* a value that is not a text: {}, an object or a list

Element(tag, text, kids) == [tag |-> tag, ns |-> "sandre", text |-> text, kids |-> kids]

\* The children of a name, in their order.
Named(x, tag) == FlattenSeq([i \in DOMAIN x.kids |-> IF x.kids[i].tag = tag THEN <<x.kids[i]>> ELSE <<>>])

\* onclosetag: an element that has only a text is replaced by it.
Simplified(x) == IF x.kids = <<>> /\ x.text # Absent THEN x.text ELSE Objet

\* onopentag: a second element of a name turns the field into a list.
Valeur(x, tag) ==
    CASE Len(Named(x, tag)) = 0 -> Absent
      [] Len(Named(x, tag)) = 1 -> Simplified(Named(x, tag)[1])
      [] OTHER -> Objet

\* raw[tag]?.[sub]: a list has no such field.
Sous(x, tag, sub) ==
    IF Len(Named(x, tag)) = 1 THEN Valeur(Named(x, tag)[1], sub) ELSE Absent

\* One element or a list of them, mapped in the order of the file.
Liste(x, tag, Map(_)) ==
    [i \in 1 .. Len(Named(x, tag)) |-> Map(Named(x, tag)[i])]

MapAnalyse(x) ==
    [rs |-> Valeur(x, "RsAnalyse"), lq |-> Valeur(x, "LQAna"), accre |-> Valeur(x, "AccreAna"),
     inSitu |-> Valeur(x, "InSituAnalyse"), statut |-> Valeur(x, "StatutRsAnalyse"),
     qual |-> Valeur(x, "QualRsAnalyse"),
     fraction |-> Sous(x, "FractionAnalysee", "CdFractionAnalysee"),
     methode |-> Sous(x, "MethodeAna", "CdMethode"),
     parametre |-> Sous(x, "Parametre", "CdParametre"),
     unite |-> Sous(x, "UniteMesure", "CdUniteMesure"),
     finalite |-> Valeur(x, "FinaliteAnalyse"), remarque |-> Valeur(x, "CdRemAnalyse")]

MapPrelevement(x) ==
    [support |-> Sous(x, "Support", "CdSupport"), date |-> Valeur(x, "DatePrlvt"),
     conformite |-> Valeur(x, "ConformitePrlvt"), accre |-> Valeur(x, "AccrePrlvt"),
     analyses |-> Liste(x, "Analyse", MapAnalyse)]

MapPointMesure(x) ==
    [num |-> Valeur(x, "NumeroPointMesure"), loc |-> Valeur(x, "LocGlobalePointMesure"),
     prelevements |-> Liste(x, "Prlvt", MapPrelevement)]

MapRejet(x) ==
    [periode |-> Valeur(x, "PeriodeCalcul"),
     typeAval |-> Sous(x, "Destination", "TypeOuvrageAval"),
     cdAval |-> Sous(x, "Destination", "CdOuvrageAval")]

MapEvenement(x) == [type |-> Valeur(x, "TypeEvenOuvrageAssainissement")]

\* The operators and the owners of a plant are in the type of a parsed file, and the
\* parser never sets them.
MapOuvrage(x) ==
    [steu |-> Valeur(x, "CdOuvrageDepollution"), type |-> Valeur(x, "TypeOuvrageDepollution"),
     nature |-> Valeur(x, "NatureSystTraitementEauxUsees"),
     maitreOuvrage |-> Absent, exploitant |-> Absent,
     points |-> Liste(x, "PointMesure", MapPointMesure),
     evenements |-> Liste(x, "EvenOuvrageAssainissement", MapEvenement),
     rejets |-> Liste(x, "ValeurCaracteristiqueRejet", MapRejet)]

MapSystemeCollecte(x) ==
    [scl |-> Valeur(x, "CdSystemeCollecte"),
     agglomeration |-> Sous(x, "AgglomerationAssainissement", "CdAgglomerationAssainissement"),
     points |-> Liste(x, "PointMesure", MapPointMesure)]

MapScenario(x) ==
    [debut |-> Valeur(x, "DateDebutReference"),
     emetteur |-> Sous(x, "Emetteur", "CdIntervenant")]

\* Reading a field of undefined rejects the promise: a scenario without sender, a
\* discharge without destination.
ParseFails(doc) ==
    \/ \E s \in Range(Named(doc, "Scenario")) : Named(s, "Emetteur") = <<>>
    \/ \E o \in Range(Named(doc, "OuvrageDepollution")) :
           \E r \in Range(Named(o, "ValeurCaracteristiqueRejet")) : Named(r, "Destination") = <<>>

NoScenario == [debut |-> Absent, emetteur |-> Absent]

\* Every element of the three kinds is mapped when it closes; the last scenario wins.
Parse(doc) ==
    [scenario |-> IF Named(doc, "Scenario") = <<>> THEN NoScenario
                  ELSE MapScenario(Last(Named(doc, "Scenario"))),
     ouvrages |-> Liste(doc, "OuvrageDepollution", MapOuvrage),
     scls |-> Liste(doc, "SystemeCollecte", MapSystemeCollecte)]

----
(* Reading a parsed file *)

PointsOf(sites) == UNION {Range(s.points) : s \in Range(sites)}
PrelevementsOf(sites) == UNION {Range(p.prelevements) : p \in PointsOf(sites)}
AnalysesOf(sites) == UNION {Range(p.analyses) : p \in PrelevementsOf(sites)}

Codes(values) == values \ {Absent}

\* extractAllCodes: each code once.
CdOuvrages(f) == Codes({o.steu : o \in Range(f.ouvrages)})
CdSystemes(f) == Codes({s.scl : s \in Range(f.scls)})

\* An analysis that is not (A, 4) makes the whole file a qualified flow.
FluxQualifie(f) ==
    \E a \in AnalysesOf(f.ouvrages) \cup AnalysesOf(f.scls) :
        ~(a.statut = "A" /\ a.qual = "4")

----
(* addNameTagToXml: the name of the depositor, added to the original text *)

\* The first child of that name, in the namespace of its parent.
Place(x, tag) ==
    SelectInSeq(x.kids, LAMBDA k : k.tag = tag /\ k.ns = x.ns)

NomContact(x, nom) == [Element("NomContact", nom, <<>>) EXCEPT !.ns = x.ns]
Contact(x, nom) == [Element("Contact", Absent, <<NomContact(x, nom)>>) EXCEPT !.ns = x.ns]
Emetteur(x, nom) == [Element("Emetteur", Absent, <<Contact(x, nom)>>) EXCEPT !.ns = x.ns]

Appended(x, k) == [x EXCEPT !.kids = Append(@, k)]

NameContact(contact, nom) ==
    IF Place(contact, "NomContact") = 0
    THEN Appended(contact, NomContact(contact, nom)) ELSE contact

NameEmetteur(emetteur, nom) ==
    LET c == Place(emetteur, "Contact") IN
    IF c = 0 THEN Appended(emetteur, Contact(emetteur, nom))
    ELSE [emetteur EXCEPT !.kids[c] = NameContact(@, nom)]

\* Mutant: a name that is there already is written a second time, in a contact of its own.
NameScenario_Twice(s, nom) ==
    LET e == Place(s, "Emetteur") IN
    IF e = 0 THEN Appended(s, Emetteur(s, nom))
    ELSE [s EXCEPT !.kids = Append(@, Emetteur(s, nom))]

\* A sender that is not there goes before the addressee, else in front.
NameScenario(s, nom) ==
    LET e == Place(s, "Emetteur") d == Place(s, "Destinataire") IN
    IF e = 0 THEN [s EXCEPT !.kids = InsertAt(@, IF d = 0 THEN 1 ELSE d, Emetteur(s, nom))]
    ELSE [s EXCEPT !.kids[e] = NameEmetteur(@, nom)]

\* Only the first scenario is looked at; without one the text stays as it is.
FirstScenario(doc) == SelectInSeq(doc.kids, LAMBDA k : k.tag = "Scenario")

AddName(doc, nom) ==
    LET s == FirstScenario(doc) IN
    IF s = 0 THEN doc ELSE [doc EXCEPT !.kids[s] = NameScenario(@, nom)]

\* The names written in a scenario: the sender, the contact and the name, by their places.
PlacesOf(x, tag) == {i \in DOMAIN x.kids : x.kids[i].tag = tag}
NamesIn(s) ==
    UNION {UNION {{<<e, c, n>> : n \in PlacesOf(s.kids[e].kids[c], "NomContact")}
                  : c \in PlacesOf(s.kids[e], "Contact")} : e \in PlacesOf(s, "Emetteur")}
Names(doc) == Cardinality(NamesIn(doc.kids[FirstScenario(doc)]))
====
