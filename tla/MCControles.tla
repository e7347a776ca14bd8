---- MODULE MCControles ----
(* What reads the reference data: the rights of a depositor, the controls of a  *)
(* file, who may read a deposit, the dashboards with the perimeter they keep,   *)
(* and the pages that show them.  They share the data, and no variable but      *)
(* those of one file, so a behaviour follows one of them.                       *)
EXTENDS AccesDepot, ControlesPfas, Perimetre, Consultation, Tableau, MCReferentiel

VARIABLE part

----
(* Files *)

E(tag, kids) == Element(tag, Absent, kids)
T(tag, text) == Element(tag, text, <<>>)

Tete(emetteur) == E("Scenario", <<T("DateDebutReference", "2024"), E("Emetteur", emetteur)>>)
Analyse(par, rs, qual) == E("Analyse", <<E("Parametre", <<T("CdParametre", par)>>), T("RsAnalyse", rs),
                                         T("StatutRsAnalyse", "A"), T("QualRsAnalyse", qual)>>)
Prlvt(date, analyses) == E("Prlvt", <<E("Support", <<T("CdSupport", "3")>>), T("DatePrlvt", date)>> \o analyses)
Point(no, loc, prlvts) == E("PointMesure", <<T("NumeroPointMesure", no), T("LocGlobalePointMesure", loc)>> \o prlvts)
Ouvrage(code, kids) == E("OuvrageDepollution", <<T("CdOuvrageDepollution", code)>> \o kids)
Systeme(code, kids) == E("SystemeCollecte", <<T("CdSystemeCollecte", code)>> \o kids)
Doc(kids) == E("FctAssainissement", kids)

I1 == T("CdIntervenant", "I1")

SmallDocs ==
    {Doc(<<Tete(<<I1>>), Ouvrage("P1", <<Point("1", "A3", <<Prlvt("d1", <<Analyse("DCO", "400", "4")>>)>>)>>),
           Systeme("S1", <<>>)>>),
     Doc(<<Tete(<<I1, E("Contact", <<T("NomContact", "n")>>)>>),
           Ouvrage("P1", <<>>), Ouvrage("P2", <<Point("9", "A3", <<Prlvt("d1", <<Analyse("MES", "1", "2")>>)>>)>>)>>),
     Doc(<<E("Scenario", <<E("Destinataire", <<>>), E("Emetteur", <<E("Contact", <<>>)>>)>>),
           Systeme("S2", <<E("AgglomerationAssainissement", <<T("CdAgglomerationAssainissement", "A1")>>),
                           Point("3", "A1", <<E("Prlvt", <<T("AccrePrlvt", "9"), T("ConformitePrlvt", "O")>>)>>)>>)>>),
     Doc(<<Ouvrage("P2", <<E("ValeurCaracteristiqueRejet", <<E("Destination", <<T("TypeOuvrageAval", "2"), T("CdOuvrageAval", "P1")>>)>>),
                           E("EvenOuvrageAssainissement", <<T("TypeEvenOuvrageAssainissement", "7")>>)>>)>>),
     Doc(<<E("Scenario", <<>>)>>),
     Doc(<<Tete(<<>>), E("OuvrageDepollution", <<>>)>>)}

\* A plant whose inlet and outlet have, on two days, no sampling, one without volume, or
\* one with a volume below or above the capacity, or written with a comma.
VolumeDay(date, kind) ==
    CASE kind = "none" -> <<>>
      [] kind = "noVolume" -> <<Prlvt(date, <<Analyse("DCO", "400", "4")>>)>>
      [] kind = "below" -> <<Prlvt(date, <<Analyse("Volume", "2000", "4")>>)>>
      [] kind = "comma" -> <<Prlvt(date, <<Analyse("Volume", "1,5", "4")>>)>>
      [] kind = "above" -> <<Prlvt(date, <<Analyse("Volume", "x", "4"), Analyse("Volume", "9000", "4")>>)>>
VolumeDocs ==
    {Doc(<<Tete(<<I1>>), Ouvrage("P1", <<Point("1", "A3", VolumeDay("d1", k[1]) \o VolumeDay("d2", k[2])),
                                         Point("4", "A4", VolumeDay("d1", k[3]) \o VolumeDay("d2", k[4]))>>)>>) :
        k \in [1 .. 4 -> {"none", "noVolume", "below", "above", "comma"}]}

\* A campaign at the outlet, of every choice of analyses, next to one that is complete.
Pfas(par, finalite, lq) ==
    E("Analyse", <<E("Parametre", <<T("CdParametre", par)>>), T("FinaliteAnalyse", finalite), T("RsAnalyse", "2"), T("LQAna", lq)>>)
PfasChoice == {Pfas("PFOA", "11", "1"), Pfas("PFOA", "2", "1"), Pfas("PFOS", "11", "1,5"), Pfas("TFA", "11", "9000"),
               Pfas("AOF", "11", "1"), Analyse("Fluorure", "1", "4")}
Complete == SetToSeq(PfasChoice) \o <<Analyse("CarboneOrganique", "1", "4")>>
PfasDocs ==
    {Doc(<<Tete(<<I1>>), Ouvrage("P2", <<Point("1", loc, <<Prlvt("d1", SetToSeq(c))>>),
                                         Point("4", "A3", other)>>)>>) :
        c \in SUBSET PfasChoice, loc \in {"A3", "A4"}, other \in {<<>>, <<Prlvt("d1", Complete)>>, <<Prlvt("d2", Complete)>>}}

MCDocs == SmallDocs
RuleDocs == {d \in SmallDocs \cup VolumeDocs \cup PfasDocs : ~ParseFails(d)}

Numbers == [x \in {"0", "1", "2", "4", "9", "400", "2000", "9000"} |->
               CASE x = "0" -> 0 [] x = "1" -> 1 [] x = "2" -> 2 [] x = "4" -> 4 [] x = "9" -> 9
                 [] x = "400" -> 400 [] x = "2000" -> 2000 [] x = "9000" -> 9000]
Readable == DOMAIN Numbers

\* parseFloat reads "1,5" as 1, Number does not read it.
MCParseFloat == [x \in Readable \cup {"1,5", "x", Absent, Objet} |->
                    IF x \in Readable THEN Numbers[x] ELSE IF x = "1,5" THEN 1 ELSE NaN]
MCToNumber == [x \in Readable \cup {"1,5", "x", Absent, Objet} |->
                  IF x \in Readable THEN 1000 * Numbers[x] ELSE NaN]
MCAnnee == [x \in {"2024", Absent} |-> IF x = "2024" THEN An ELSE NaN]
MCReference == FiguresOf(Db1, {"P1", "P2", "P3", Objet}, An, NaN)
MCReglementaires == {"PFOA", "PFOS"}

MCFilters ==
    [year |-> An, now |-> Mois(6), tranche |-> None, impact |-> None, pars |-> {"DCO", "Volume"},
     types |-> {"1", "2"}, pmo |-> None, statutScl |-> None, statut |-> None, qual |-> None, par |-> None,
     finalite |-> None,
     debut |-> Mois(0), fin |-> Mois(11), locs |-> None]

MCUsers == {[itv |-> 1, email |-> "u1"], [itv |-> 2, email |-> "u2"], [itv |-> 3, email |-> "u3"], [itv |-> Null, email |-> "u9"]}

Lists == {"conformiteSteu", "conformiteScl", "transmissionSteu", "transmissionScl", "bilanSteu", "bilanScl",
          "evenementSteu", "evenementScl", "mesuresSteu", "mesuresScl"}
MCRequests ==
    {[dash |-> d, code |-> c, export |-> TRUE] : d \in Lists, c \in {None, "P1", "P2", "S1"}}
    \cup {[dash |-> d, code |-> None, export |-> FALSE] : d \in Lists \cup {"indicateurs", "ouvrages", "systemesCollecte"}}
    \cup {[dash |-> d, code |-> c, export |-> FALSE] : d \in OneSite, c \in {"P1", "S1"}}

\* A plant and a system of collection, whose answer has two pages, and one for a point alone.
MCOuvrages == [steu |-> {"P1"}, scl |-> {"S1"}]
MCPointsDe == [P1 |-> {"1"}, S1 |-> {"3"}]
MCNbPages == [P1 |-> 2, S1 |-> 2]

----
(* One part at a time *)

AtRest(p) ==
    /\ p \notin {"droits", "controls", "rules"} =>
           doc = (CHOOSE d \in SmallDocs : ~ParseFails(d)) /\ email = Absent
    /\ p \in {"controls", "rules"} => email = Absent
    /\ p # "consultation" =>
           user = (CHOOSE u \in Users : TRUE) /\ request = (CHOOSE r \in Requests_ : TRUE)

Init ==
    /\ part \in {"droits", "controls", "rules", "perimeter", "consultation", "tableau", "access"}
    /\ doc \in IF part = "rules" THEN RuleDocs ELSE {d \in Docs : ~ParseFails(d)}
    /\ user \in Users /\ request \in Requests_ /\ email \in Emails
    /\ AtRest(part)
    /\ V1InitFor(doc) /\ DroitsInit /\ PerimetreInit /\ ConsultationInit
    /\ dashboard \in IF part = "tableau" THEN Dashboards_ ELSE {"mesures"}
    /\ TableauInit /\ AccesInit

\* The rights of a depositor are asked for before the controls, of the same file.
DroitsStep == part = "droits" /\ ValidateDroits
              /\ UNCHANGED <<v1Vars, perimetreVars, consultationVars, tableauVars, accesVars, part>>
DroitsSwap == part = "droits" /\ step \notin Outcomes /\ SwapReference
              /\ UNCHANGED <<droitsVars, perimetreVars, consultationVars, tableauVars, accesVars, part>>
Controls == part = "controls" /\ V1Next
            /\ UNCHANGED <<droitsVars, perimetreVars, consultationVars, tableauVars, accesVars, part>>
Perimeter == part = "perimeter" /\ PerimetreNext
             /\ UNCHANGED <<v1Vars, droitsVars, consultationVars, tableauVars, accesVars, part>>
Dashboards == part = "consultation" /\ ConsultationNext
              /\ UNCHANGED <<v1Vars, droitsVars, perimetreVars, tableauVars, accesVars, part>>
Pages_ == part = "tableau" /\ TableauNext
          /\ UNCHANGED <<v1Vars, droitsVars, perimetreVars, consultationVars, accesVars, part>>
Access == part = "access" /\ AccesNext
          /\ UNCHANGED <<v1Vars, droitsVars, perimetreVars, consultationVars, tableauVars, part>>
AccessSwap == part = "access" /\ SwapReference
              /\ UNCHANGED <<droitsVars, perimetreVars, consultationVars, tableauVars, accesVars, part>>

Next == DroitsStep \/ DroitsSwap \/ Controls \/ Perimeter \/ Dashboards \/ Pages_ \/ Access \/ AccessSwap

vars == <<v1Vars, droitsVars, perimetreVars, consultationVars, tableauVars, accesVars, part>>

Spec == Init /\ [][Next]_vars

\* Requests and intervenants of the perimeter are interchangeable.
Interchangeable == Permutations(Requests) \cup Permutations(Sirets)

----
\* The name of the depositor is written once into the file that is delivered, which says
\* otherwise what the controls have read: parsed again it is the same, and writing the name
\* again changes nothing (scenarioAssainissement.parser.ts:178-288).
DeliveredAsControlled ==
    LET named == AddName(doc, "n") IN
    FirstScenario(doc) # 0 =>
        /\ Parse(named) = file
        /\ AddName(named, "n") = named
        /\ Names(named) >= 1 /\ Names(named) <= Names(doc) + 1

\* Every volume of a plant is accounted for (ControlesV2!VolumeAccount).
VolumeDaysAccounted == VolumeAccount(file)

\* The rules on PFAS agree with each other (ControlesPfas!PfasCoherence).
PfasCoherent == PfasCoherence(file)
====
