---- MODULE ControlesPfas ----
(***************************************************************************)
(* ControleMetierV2Pfas: the rules on the campaigns of PFAS of the plants  *)
(* of 10000 population equivalents and more, read at A3 and A4 whatever    *)
(* the support.  A campaign is a sampling with one PFAS of the             *)
(* surveillance.  Texts are read with Number, where the other rules read   *)
(* with parseFloat; numbers are in thousandths.                            *)
(***************************************************************************)
EXTENDS ControlesV2

CONSTANTS
    Reglementaires,     \* the 22 regulatory codes
    ToNumber,           \* what Number makes of a text: thousandths, or NaN
    QuatreChiffres      \* the dates that begin with four digits

ASSUME PfasAssumption == Reglementaires # {} /\ "TFA" \notin Reglementaires

Surveillance == Reglementaires \cup {"TFA"}
Quantifiables == Reglementaires \cup {"AOF"}

SuiviHabituel == {"DBO5", "MES", "DCO", "Volume"}
Complementaires == {"Fluorure", "CarboneOrganique"}
ParametresA3 == SuiviHabituel \cup Complementaires
ParametresA4 == ParametresA3 \cup {"AOF"}

DePfas(a, codes) == a.finalite = "11" /\ a.parametre \in codes

IsPfasCampaign(s) == \E a \in Range(s.analyses) : DePfas(a, Surveillance)

\* Plants listed twice are read twice, and a plant of the file without a row is out.
Eligibles(f) == {o \in Plants(f) : Reference.capacite[o.steu] # NaN /\ Reference.capacite[o.steu] >= 10000}

Samplings(f) ==
    {s \in UNION {Range(SamplesOf(o, o.steu)) : o \in Eligibles(f)} : s.loc \in {"A3", "A4"}}

Campaigns(f) == {s \in Samplings(f) : IsPfasCampaign(s)}

\* No control at all without a year or without a plant.
NoContext(f) == f.scenario.debut \notin QuatreChiffres \/ Plants(f) = {}

\* trim of an element that is not a text throws.
PfasFails(f) ==
    /\ ~NoContext(f)
    /\ \E s \in Samplings(f) : \E a \in Range(s.analyses) :
        \/ DePfas(a, Quantifiables) /\ a.rs = Objet
        \/ DePfas(a, Quantifiables) /\ a.rs \notin {Absent, "blank"} /\ a.lq = Objet
        \/ DePfas(a, Reglementaires) /\ IsPfasCampaign(s) /\ a.lq = Objet

Measured(s) == {a.parametre : a \in Range(s.analyses)}

VerifyParameterPresence(ctl, f, par, locs) ==
    LET campaigns == {s \in Campaigns(f) : s.loc \in locs}
    IN Rows(ctl, campaigns # {},
            {Fault(ctl, "AVERTISSEMENT", s.date) : s \in {s \in campaigns : par \notin Measured(s)}})

VerifyAofPresence(f) == VerifyParameterPresence("CTL201", f, "AOF", {"A4"})
VerifyFluorurePresence(f) == VerifyParameterPresence("CTL202", f, "Fluorure", {"A3", "A4"})
VerifyCarboneOrganiquePresence(f) == VerifyParameterPresence("CTL203", f, "CarboneOrganique", {"A3", "A4"})

\* The one that is missing when the other is there.
VerifyAofFluorureCoherence(f) ==
    LET missing(s) == {"AOF", "Fluorure"} \ Measured(s)
    IN Rows("CTL204", Campaigns(f) # {},
            {Fault("CTL204", "AVERTISSEMENT", <<missing(s), s.date>>) :
                s \in {s \in Campaigns(f) : Cardinality(missing(s)) = 1}})

\* In ng/L.
LimiteNg(a) == IF a.unite = "MicrogrammeParLitre" THEN 1000 * ToNumber[a.lq] ELSE ToNumber[a.lq]
SeuilLimite(s) == IF s.loc = "A3" THEN 50000 ELSE 20000

VerifyQuantificationLimits(f) ==
    LET read(s) == {a \in Range(s.analyses) : DePfas(a, Reglementaires) /\ ToNumber[a.lq] # NaN}
        failing(s) == {a.parametre : a \in {a \in read(s) : LimiteNg(a) > SeuilLimite(s)}}
    IN Rows("CTL205", \E s \in Campaigns(f) : read(s) # {},
            {Fault("CTL205", "AVERTISSEMENT", <<failing(s), s.date>>) :
                s \in {s \in Campaigns(f) : failing(s) # {}}})

\* One row of information for the whole file.
IdentifyQuantifiedPfas(f) ==
    LET read == {a \in UNION {Range(s.analyses) : s \in Samplings(f)} :
                     DePfas(a, Quantifiables) /\ NaN \notin {ToNumber[a.rs], ToNumber[a.lq]}}
        quantified == {a.parametre : a \in {a \in read : ToNumber[a.rs] > ToNumber[a.lq]}}
    IN Rows("CTL207", read # {},
            IF quantified = {} THEN {} ELSE {Fault("CTL207", "INFORMATION", quantified)})

\* Mutant: the purpose of an analysis is not looked at.
OfSurveillance_AnyPurpose(s, required) == Measured(s) \cap required

OfSurveillance(s, required) ==
    {a.parametre : a \in {a \in Range(s.analyses) : DePfas(a, required)}}

VerifyPfasCompleteness(ctl, f, required) ==
    LET missing(s) == required \ OfSurveillance(s, required)
    IN Rows(ctl, Campaigns(f) # {},
            {Fault(ctl, "AVERTISSEMENT", <<s.date, missing(s)>>) :
                s \in {s \in Campaigns(f) : missing(s) # {}}})

VerifyRegulatoryPfasCompleteness(f) == VerifyPfasCompleteness("CTL208", f, Surveillance)
VerifyRegulatoryPfasExcludingTfa(f) == VerifyPfasCompleteness("CTL209", f, Reglementaires)

\* Only a campaign with a regulatory PFAS must have the parameters of its location.
VerifyPfasCampaignParameters(f) ==
    LET bound == {s \in Campaigns(f) : OfSurveillance(s, Reglementaires) # {}}
        missing(s) == (IF s.loc = "A4" THEN ParametresA4 ELSE ParametresA3) \ Measured(s)
    IN Rows("CTL210", bound # {},
            {Fault("CTL210", "AVERTISSEMENT", <<s.date, missing(s)>>) :
                s \in {s \in bound : missing(s) # {}}})

VerifyPfasControls(f) ==
    IF NoContext(f) THEN {} ELSE
    VerifyAofPresence(f) \cup VerifyFluorurePresence(f) \cup VerifyCarboneOrganiquePresence(f)
    \cup VerifyAofFluorureCoherence(f) \cup VerifyQuantificationLimits(f) \cup IdentifyQuantifiedPfas(f)
    \cup VerifyRegulatoryPfasCompleteness(f) \cup VerifyRegulatoryPfasExcludingTfa(f)
    \cup VerifyPfasCampaignParameters(f)

\* execute of ControleMetierV2Service: both kinds of rules, or none when one throws.
Execute(f) == StandardRows(f) \cup VerifyPfasControls(f)

----
Leaves(rows, ctl) == {r \in rows : r.ctl = ctl}

\* The PFAS of the surveillance a campaign has measured.
Surveyed(s) == {a.parametre : a \in {a \in Range(s.analyses) : DePfas(a, Surveillance)}}

\* The complementary parameters a campaign must have, and the control on each of them.
Complements(s) ==
    {<<"Fluorure", "CTL202">>, <<"CarboneOrganique", "CTL203">>}
    \cup IF s.loc = "A4" THEN {<<"AOF", "CTL201">>} ELSE {}

\* The rules on PFAS do not contradict each other: a file complete with TFA is complete
\* without it; CTL210 is silent only when every campaign measured TFA and nothing else; a
\* complementary parameter that one of the others lacks is missing for CTL210 and for its
\* own control, and what CTL210 finds missing a campaign of that date lacks, and its own
\* control finds too (controleMetierV2Pfas.ts:156-181, 320-413).
PfasCoherence(f) ==
    LET rows == VerifyPfasControls(f)
        bound == {s \in Campaigns(f) : Surveyed(s) # {"TFA"}}
        missing(ctl) == {r.params : r \in {r \in Leaves(rows, ctl) : r.sev # "SUCCES"}}
    IN ~PfasFails(f) /\ ~NoContext(f) =>
        /\ Succes("CTL208") \in rows => Succes("CTL209") \in rows
        /\ Succes("CTL209") \in rows => \A s \in Campaigns(f) : s \in bound
        /\ Leaves(rows, "CTL210") = {} <=> bound = {}
        /\ \A s \in bound : \A c \in Complements(s) : c[1] \notin Measured(s) =>
               /\ s.date \in missing(c[2])
               /\ \E m \in missing("CTL210") : m[1] = s.date /\ c[1] \in m[2]
        /\ \A m \in missing("CTL210") : \E s \in bound :
               /\ m[1] = s.date /\ m[2] # {} /\ m[2] \cap Measured(s) = {}
               /\ m[2] \cap {"Fluorure", "CarboneOrganique", "AOF"} \subseteq {c[1] : c \in Complements(s)}
               /\ \A c \in Complements(s) : c[1] \in m[2] => s.date \in missing(c[2])
====
