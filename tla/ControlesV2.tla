---- MODULE ControlesV2 ----
(***************************************************************************)
(* ControleMetierV2Service: the rules on the values of a parsed file.      *)
(*                                                                         *)
(* A control that finds nothing to look at leaves no row, one that finds   *)
(* no fault leaves a row of success, any other a row per fault.  Values    *)
(* are integers: fractions of a unit are left out, and what parseFloat     *)
(* makes of a text is the constant ParseFloat.  Abstracted: wording, and   *)
(* equal rows are one.                                                     *)
(***************************************************************************)
EXTENDS Scenario, Integers, FiniteSetsExt

CONSTANTS
    NaN,
    ParseFloat,     \* what parseFloat makes of the texts of a file
    Annee,          \* the year of a date: its first four characters, an integer or NaN
    Reference       \* what the rules read in the reference data, by plant

\* Reference.capacite, .cma, .charge: functions of plant (NaN: no row), .boueZero: plants.

\* A text that is read and a capacity that is known are numbers.
ASSUME FiguresAssumption ==
    /\ \A x \in DOMAIN ParseFloat : ParseFloat[x] = NaN \/ ParseFloat[x] \in Int
    /\ \A p \in DOMAIN Reference.capacite : Reference.capacite[p] = NaN \/ Reference.capacite[p] \in Int

----
(* Samplings of a file, in its order *)

Sample(site, code, point, p) ==
    [site |-> code, num |-> point.num, loc |-> point.loc, date |-> p.date,
     support |-> p.support, analyses |-> p.analyses]

SamplesOf(site, code) ==
    FlattenSeq([i \in 1 .. Len(site.points) |->
        [j \in 1 .. Len(site.points[i].prelevements) |->
            Sample(site, code, site.points[i], site.points[i].prelevements[j])]])

OuvrageSamples(f) ==
    FlattenSeq([i \in 1 .. Len(f.ouvrages) |-> SamplesOf(f.ouvrages[i], f.ouvrages[i].steu)])
SclSamples(f) ==
    FlattenSeq([i \in 1 .. Len(f.scls) |-> SamplesOf(f.scls[i], f.scls[i].scl)])

\* filterFctAssainissementForMetierV2: points by location, samplings by support.
Filtered(samples, locs, supports) ==
    SelectSeq(samples, LAMBDA s : s.loc \in locs /\ s.support \in supports)

\* Of the locations of the model, those that start with S or A.
PrefixSA == {"A1", "A2", "A3", "A4", "S4", "S6"}

\* extractAnalyseValue: of the analyses of a parameter, the first that is a number.
Mesure(analyses, par) ==
    LET i == SelectInSeq(analyses, LAMBDA a : a.parametre = par /\ ParseFloat[a.rs] # NaN)
    IN IF i = 0 THEN NaN ELSE ParseFloat[analyses[i].rs]

\* The samplings that say something of a parameter.
With(samples, par) == {s \in Range(samples) : Mesure(s.analyses, par) # NaN}

----
(* What a control leaves *)

Fault(ctl, sev, params) == [ctl |-> ctl, sev |-> sev, params |-> params]
Succes(ctl) == Fault(ctl, "SUCCES", <<>>)

Rows(ctl, applicable, faults) ==
    IF ~applicable THEN {} ELSE IF faults = {} THEN {Succes(ctl)} ELSE faults

About(s, par) == <<s.site, s.loc, s.date, s.support, Mesure(s.analyses, par)>>

\* One fault per sampling whose value is bad.
RangeRows(ctl, samples, par, sev, Bad(_)) ==
    Rows(ctl, With(samples, par) # {},
         {Fault(ctl, sev, About(s, par)) : s \in {s \in With(samples, par) : Bad(Mesure(s.analyses, par))}})

VerifyDcoRange(f) ==
    RangeRows("CTL041", Filtered(OuvrageSamples(f), {"A3"}, {"3"}), "DCO", "AVERTISSEMENT",
              LAMBDA v : v <= 300 \/ v >= 1700)

VerifyDbo5Range(f) ==
    RangeRows("CTL042", Filtered(OuvrageSamples(f), {"A3"}, {"3"}), "DBO5", "AVERTISSEMENT",
              LAMBDA v : v <= 150 \/ v >= 800)

VerifyPhRange(f) ==
    LET a4 == Filtered(OuvrageSamples(f), {"A4"}, {"3"})
        refused(v) == v <= 2 \/ v >= 12
        warned(v) == ~refused(v) /\ (v <= 4 \/ v >= 10)
        faults(sev, Bad(_)) == {Fault("CTL046", sev, About(s, "pH")) :
                                s \in {s \in With(a4, "pH") : Bad(Mesure(s.analyses, "pH"))}}
    IN Rows("CTL046", With(a4, "pH") # {}, faults("ERREUR", refused) \cup faults("AVERTISSEMENT", warned))

\* groupAnalysesByTwoParams: the samplings of one place, day and support are one group,
\* whatever point they come from; the last value of a parameter stands for the group.
GroupKey(s) == <<s.site, s.loc, s.date, s.support>>

LastOf(samples, key, par) ==
    LET of == SelectSeq(samples, LAMBDA s : GroupKey(s) = key /\ Mesure(s.analyses, par) # NaN)
    IN IF of = <<>> THEN NaN ELSE Mesure(Last(of).analyses, par)

VerifyDcoGreaterThanDbo5(f) ==
    LET a3 == Filtered(OuvrageSamples(f), {"A3"}, {"3"})
        dco(k) == LastOf(a3, k, "DCO")
        dbo5(k) == LastOf(a3, k, "DBO5")
        groups == {k \in {GroupKey(s) : s \in Range(a3)} : NaN \notin {dco(k), dbo5(k)}}
    IN Rows("CTL047", groups # {},
            {Fault("CTL047", "AVERTISSEMENT", <<k, dco(k), dbo5(k)>>) : k \in {k \in groups : ~(dco(k) > dbo5(k))}})

----
(* Volumes and loads against the reference data *)

\* dateDebutReference is read by four controls: two warn when it is no date.
Undated(f) == f.scenario.debut = Absent \/ Annee[f.scenario.debut] = NaN
UndatedRow(ctl) == {Fault(ctl, "AVERTISSEMENT", <<"date">>)}

Plants(f) == {o \in Range(f.ouvrages) : o.steu # Absent}

\* volumesByDate: the last volume of a day at a location, any support.
VolumeOf(o, loc, date) ==
    LET samples == SamplesOf(o, o.steu)
        of == {i \in DOMAIN samples : samples[i].loc = loc /\ samples[i].date = date
                                      /\ Mesure(samples[i].analyses, "Volume") # NaN}
    IN IF of = {} THEN NaN ELSE Mesure(samples[Max(of)].analyses, "Volume")

Dates(o) == {s.date : s \in Range(SamplesOf(o, o.steu))} \ {Absent}

VerifyVolumeA3A4VsCapaciteEH(f) ==
    LET big == {o \in Plants(f) : Reference.capacite[o.steu] # NaN /\ Reference.capacite[o.steu] > 2000}
        days == UNION {{<<o, d>> : d \in {d \in Dates(o) :
                    NaN \notin {VolumeOf(o, "A3", d), VolumeOf(o, "A4", d)}}} : o \in big}
        below(o, loc, d) == 10 * VolumeOf(o, loc, d) < 12 * Reference.capacite[o.steu]
    IN IF Undated(f) THEN UndatedRow("CTL051")
       ELSE Rows("CTL051", days # {},
            {Fault("CTL051", "AVERTISSEMENT", <<x[1].steu, x[2]>>) :
                x \in {x \in days : ~below(x[1], "A3", x[2]) \/ ~below(x[1], "A4", x[2])}})

\* DBO5 may exceed the mean of the year before by a tenth, DCO by nothing.
VerifyCmaComparison(f) ==
    LET pairs == {x \in UNION {{o} \X Range(SamplesOf(o, o.steu)) \X {"DBO5", "DCO"} : o \in Plants(f)} :
                      x[2].loc = "A3" /\ x[2].support = "3"
                      /\ Mesure(x[2].analyses, x[3]) # NaN /\ Reference.cma[x[1].steu][x[3]] # NaN}
        above(x) == LET v == Mesure(x[2].analyses, x[3]) cma == Reference.cma[x[1].steu][x[3]]
                    IN IF x[3] = "DBO5" THEN 10 * v > 11 * cma ELSE v > cma
    IN IF Undated(f) THEN UndatedRow("CTL052")
       ELSE Rows("CTL052", pairs # {},
            {Fault("CTL052", "AVERTISSEMENT", <<x[3], x[1].steu, x[2].date, Mesure(x[2].analyses, x[3])>>) :
                x \in {x \in pairs : above(x)}})

\* The query gives no row when the load of the year before is zero.
VerifyChargeEntrante(f) ==
    LET compared == {o \in Plants(f) : Reference.charge[o.steu] # NaN}
        n(o) == Reference.charge[o.steu][1]
        n1(o) == Reference.charge[o.steu][2]
        gap(o) == IF n(o) >= n1(o) THEN n(o) - n1(o) ELSE n1(o) - n(o)
    IN IF Undated(f) THEN {}
       ELSE Rows("CTL054", compared # {},
            {Fault("CTL054", "AVERTISSEMENT", <<o.steu>>) : o \in {o \in compared : 5 * gap(o) > n1(o)}})

VerifyProductionBoue(f) ==
    Rows("CTL055", TRUE, IF Undated(f) THEN {} ELSE
         {Fault("CTL055", "AVERTISSEMENT", <<o.steu>>) : o \in {o \in Plants(f) : o.steu \in Reference.boueZero}})

VerifyTemperatureA4(f) ==
    RangeRows("CTL056", Filtered(OuvrageSamples(f), {"A4"}, {"3"}), "Temperature", "AVERTISSEMENT",
              LAMBDA v : v <= 0 \/ v > 35)

VerifyPluviometrie(f) ==
    LET scls == Filtered(SclSamples(f), {"A1", "R1"}, {"3"})
        faults(sev, Bad(_)) == {Fault("CTL057", sev, About(s, "Pluviometrie")) :
            s \in {s \in With(scls, "Pluviometrie") : Bad(Mesure(s.analyses, "Pluviometrie"))}}
    IN Rows("CTL057", With(scls, "Pluviometrie") # {},
            faults("ERREUR", LAMBDA v : v > 1000)
            \cup faults("AVERTISSEMENT", LAMBDA v : v <= 1000 /\ (v < 0 \/ v > 200)))

\* One fault per sampling and parameter.
SignRows(ctl, samples, pars, Bad(_)) ==
    LET values == {x \in Range(samples) \X pars : Mesure(x[1].analyses, x[2]) # NaN}
    IN Rows(ctl, values # {}, {Fault(ctl, "ERREUR", <<x[2], About(x[1], x[2])>>) :
                               x \in {x \in values : Bad(Mesure(x[1].analyses, x[2]))}})

VerifyVolumesNegatifs(f) ==
    SignRows("CTL058", OuvrageSamples(f) \o SclSamples(f), {"Volume", "VolumeRef", "Masse"}, LAMBDA v : v < 0)

VerifyConcentrations(f) ==
    SignRows("CTL059", Filtered(OuvrageSamples(f), PrefixSA, {"3", "4", "5"}),
             {"DBO5", "DCO", "MES", "N_NH4", "NTK", "NO2", "NO3", "Ptot", "NGL"}, LAMBDA v : v <= 0)

VerifyChargePollution(f) ==
    LET big == {o \in Plants(f) : Reference.capacite[o.steu] # NaN /\ Reference.capacite[o.steu] >= 2000}
        loads == UNION {{o} \X {s \in Range(SamplesOf(o, o.steu)) :
                      s.loc = "A3" /\ Mesure(s.analyses, "DBO5") # NaN
                      /\ Mesure(s.analyses, "Volume") # NaN /\ Mesure(s.analyses, "Volume") > 0} : o \in big}
        above(o, s) == 2 * Mesure(s.analyses, "Volume") * Mesure(s.analyses, "DBO5")
                       > 180 * Reference.capacite[o.steu]
    IN IF Undated(f) THEN {}
       ELSE Rows("CTL060", loads # {},
            {Fault("CTL060", "AVERTISSEMENT", <<x[1].steu, x[2].date>>) : x \in {x \in loads : above(x[1], x[2])}})

\* Mutant: a day of a location with any sampling is a day with a volume.
VolumeDays_Any(o, loc) == {s.date : s \in {s \in Range(SamplesOf(o, o.steu)) : s.loc = loc}} \ {Absent}

VolumeDays(o, loc) == {d \in Dates(o) : VolumeOf(o, loc, d) # NaN}

\* A day with a volume on one side only; the row does not say of which plant.
VerifyDebitA3A4SameDate(f) ==
    LET sides == {<<"A3", "A4">>, <<"A4", "A3">>}
        lone == UNION {UNION {{<<x[1], d>> : d \in VolumeDays(o, x[2]) \ VolumeDays(o, x[1])}
                              : x \in sides} : o \in Range(f.ouvrages)}
    IN Rows("CTL061", \E o \in Range(f.ouvrages) : VolumeDays(o, "A3") \cup VolumeDays(o, "A4") # {},
            {Fault("CTL061", "AVERTISSEMENT", x) : x \in lone})

----
(* execute *)

\* substring and startsWith of what is not a text throw: an empty date of reference, an
\* empty location.
ExecuteFails(f) ==
    \/ f.scenario.debut = Objet
    \/ \E p \in PointsOf(f.ouvrages) \cup PointsOf(f.scls) : p.loc = Objet

StandardRows(f) ==
    VerifyDcoRange(f) \cup VerifyDbo5Range(f) \cup VerifyDcoGreaterThanDbo5(f) \cup VerifyPhRange(f)
    \cup VerifyVolumeA3A4VsCapaciteEH(f) \cup VerifyCmaComparison(f) \cup VerifyChargeEntrante(f)
    \cup VerifyProductionBoue(f) \cup VerifyTemperatureA4(f) \cup VerifyPluviometrie(f)
    \cup VerifyVolumesNegatifs(f) \cup VerifyConcentrations(f) \cup VerifyChargePollution(f)
    \cup VerifyDebitA3A4SameDate(f)

----
\* The days of a location on which some sampling of a plant gives a volume.
VolumeSampled(o, loc) ==
    {s.date : s \in {s \in Range(SamplesOf(o, o.steu)) : s.loc = loc /\ s.date # Absent
                        /\ \E a \in Range(s.analyses) : a.parametre = "Volume" /\ ParseFloat[a.rs] # NaN}}

\* No volume at the inlet or the outlet of a plant of more than 2000 population equivalents
\* escapes both controls on volumes: CTL051 compares it with the capacity on a day that has
\* the two, CTL061 reports it on a day that has one, and a day is never both
\* (controleMetierV2.service.ts:357-461, 913-971).
VolumeAccount(f) ==
    LET lone == {r.params : r \in {r \in VerifyDebitA3A4SameDate(f) : r.sev # "SUCCES"}}
        above == {r.params : r \in {r \in VerifyVolumeA3A4VsCapaciteEH(f) : r.sev # "SUCCES"}}
        other(loc) == IF loc = "A3" THEN "A4" ELSE "A3"
    IN ~ExecuteFails(f) /\ ~Undated(f) =>
        \A o \in {o \in Plants(f) : Reference.capacite[o.steu] # NaN /\ Reference.capacite[o.steu] > 2000} :
            \A loc \in {"A3", "A4"} : \A d \in VolumeSampled(o, loc) :
                IF d \in VolumeSampled(o, other(loc))
                THEN /\ VerifyVolumeA3A4VsCapaciteEH(f) # {}
                     /\ 10 * VolumeOf(o, loc, d) >= 12 * Reference.capacite[o.steu] => <<o.steu, d>> \in above
                ELSE <<other(loc), d>> \in lone
====
