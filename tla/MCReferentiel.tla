---- MODULE MCReferentiel ----
(* A small reference data, and what the restore makes of it.                     *)
(* Plants P1 (capacity 2500, agglomeration A1) and P2 (10000, A2), systems of    *)
(* collection S1 and S2 that flow to them; the intervenants I1, who owns P1 and  *)
(* S1, and I2, who answers for the rest.  Months are counted from year 0.        *)
EXTENDS SuiviRegulier

\* The texts rows are sorted by, in their order.
MCTextes == <<"1", "2", "3", "4", "5", "A1", "A3", "A4", "DCO", "Est", "MES", "Nord", "Ouest",
              "P1", "P2", "S1", "S2", "Volume", Null>>
MCRang == [x \in {MCTextes[i] : i \in DOMAIN MCTextes} |-> CHOOSE i \in DOMAIN MCTextes : MCTextes[i] = x]

An == 2
Mois(n) == 12 * An + n

Db1 ==
    [steu |-> {[cdn |-> 1, cda |-> "P1", zgc |-> 11, cdb |-> "01", encours |-> An, etat |-> 41, nom |-> "Nord"],
               [cdn |-> 2, cda |-> "P2", zgc |-> 12, cdb |-> "02", encours |-> An - 1, etat |-> 41, nom |-> "Est"]},
     scl |-> {[cdn |-> 1, cda |-> "S1", steu |-> 1, nom |-> "Ouest", type |-> 9],
             [cdn |-> 2, cda |-> "S2", steu |-> 2, nom |-> Null, type |-> 9]},
     itv |-> {[cdn |-> 1, rfa |-> "I1"], [cdn |-> 2, rfa |-> "I2"], [cdn |-> 3, rfa |-> Null]},
     codes |-> [sup |-> {"3"}, fan |-> {"23"}, par |-> {"DCO", "Volume"}, urf |-> {"mg"}],
     tlref |-> {[cdn |-> 1, list |-> "LREF_16", cda |-> "A3"], [cdn |-> 2, list |-> "LREF_16", cda |-> "A1"],
                [cdn |-> 3, list |-> "LREF_20", cda |-> "A"], [cdn |-> 4, list |-> "LREF_18", cda |-> "4"],
                [cdn |-> 5, list |-> "LREF_46", cda |-> "1"], [cdn |-> 6, list |-> "LREF_44", cda |-> "1"],
                [cdn |-> 7, list |-> "LREF_15", cda |-> "2"], [cdn |-> 9, list |-> "LREF_05", cda |-> "1"],
                [cdn |-> 10, list |-> "LREF_16", cda |-> "A4"]},
     cxnadm |-> {[moSteu |-> 1, expSteu |-> Null, moScl |-> Null, expScl |-> Null, itv |-> 1, creation |-> Null, retrait |-> Null],
                 [moSteu |-> Null, expSteu |-> 1, moScl |-> Null, expScl |-> Null, itv |-> 2, creation |-> Mois(-12), retrait |-> Null],
                 [moSteu |-> Null, expSteu |-> Null, moScl |-> 1, expScl |-> Null, itv |-> 1, creation |-> Null, retrait |-> Null]},
     pmo |-> {[cdn |-> 1, steu |-> 1, scl |-> Null, no |-> "1", loc |-> 1, deb |-> Null, fin |-> Null],
              [cdn |-> 2, steu |-> Null, scl |-> 1, no |-> "2", loc |-> 2, deb |-> Mois(0), fin |-> Null],
              [cdn |-> 3, steu |-> Null, scl |-> 2, no |-> "3", loc |-> 2, deb |-> Null, fin |-> Null],
              [cdn |-> 4, steu |-> 1, scl |-> Null, no |-> "4", loc |-> 10, deb |-> Null, fin |-> Null],
              [cdn |-> 5, steu |-> 1, scl |-> Null, no |-> "5", loc |-> Null, deb |-> Null, fin |-> Null]},
     aga |-> {[cdn |-> 1, cda |-> "A1", zgc |-> 11], [cdn |-> 2, cda |-> "A2", zgc |-> 12]},
     cxntech |-> {[aval |-> 1, amont |-> 11, creation |-> Mois(-24), retrait |-> Null],
                  [aval |-> 2, amont |-> 12, creation |-> Mois(-24), retrait |-> Null],
                  [aval |-> 2, amont |-> 11, creation |-> Mois(-24), retrait |-> Mois(3)]},
     trobl |-> {[aga |-> 1, deb |-> Mois(-24), fin |-> Null, tranche |-> "t1"],
                [aga |-> 2, deb |-> Mois(-24), fin |-> Null, tranche |-> "t2"]},
     cpy |-> {[steu |-> 1, an |-> An, capacite |-> 2500, dref |-> 100],
              [steu |-> 2, an |-> An, capacite |-> 10000, dref |-> Null],
              [steu |-> 2, an |-> An - 1, capacite |-> 9000, dref |-> 90]},
     resa |-> {[steu |-> 1, an |-> An - 1, par |-> "DCO", cma |-> 300]},
     stchan |-> {[steu |-> 1, an |-> An, pc95 |-> 120, charge |-> 2000], [steu |-> 1, an |-> An - 1, pc95 |-> 110, charge |-> 1000],
                 [steu |-> 2, an |-> An - 1, pc95 |-> Null, charge |-> 8000]},
     agac |-> {[aga |-> 1, an |-> An], [aga |-> 1, an |-> An - 1], [aga |-> 2, an |-> An - 1]},
     pab |-> {[steu |-> 1, an |-> An, boue |-> 0]},
     filiere |-> {},
     cfprf |-> {[steu |-> 1, an |-> An, eru |-> "C", loc |-> "N"], [steu |-> 2, an |-> An - 1, eru |-> Null, loc |-> Null]},
     steureg |-> {[steu |-> 1, an |-> An, nat |-> "C", loc |-> "C", suivi |-> Mois(2)],
                  [steu |-> 2, an |-> An, nat |-> "C", loc |-> Null, suivi |-> Null]},
     sclreg |-> {[scl |-> 1, an |-> An, nat |-> "C", regulier |-> FALSE, suivi |-> Mois(1)],
                 [scl |-> 2, an |-> An, nat |-> "C", regulier |-> FALSE, suivi |-> Null]},
     bilanscl |-> {[scl |-> 1, an |-> An, eru |-> "N"], [scl |-> 2, an |-> An, eru |-> "N"]},
     suivqual |-> {[steu |-> 1, scl |-> Null, an |-> An], [steu |-> 2, scl |-> Null, an |-> An],
                   [steu |-> Null, scl |-> 1, an |-> An], [steu |-> Null, scl |-> 2, an |-> An]},
     resj |-> {[steu |-> 1, par |-> "DCO", date |-> Mois(1), aok |-> "1"], [steu |-> 1, par |-> "DCO", date |-> Mois(2), aok |-> "2"],
               [steu |-> 2, par |-> "DCO", date |-> Mois(1), aok |-> "1"], [steu |-> 1, par |-> "Volume", date |-> Mois(3), aok |-> "1"]},
     devers |-> {[pmo |-> 2, date |-> Mois(1), prisEnCompte |-> FALSE, statut |-> "TP", statutS |-> "TS"],
                 [pmo |-> 2, date |-> Mois(1), prisEnCompte |-> FALSE, statut |-> "TP", statutS |-> Null],
                 [pmo |-> 3, date |-> Mois(2), prisEnCompte |-> FALSE, statut |-> "TS", statutS |-> Null],
                 [pmo |-> 3, date |-> Mois(2), prisEnCompte |-> TRUE, statut |-> "TS", statutS |-> Null]},
     evo |-> {[steu |-> 1, pmo |-> Null, date |-> Mois(1), type |-> "1"], [steu |-> 2, pmo |-> Null, date |-> Mois(1), type |-> "1"],
              [steu |-> Null, pmo |-> 2, date |-> Mois(4), type |-> "1"], [steu |-> 1, pmo |-> Null, date |-> Mois(12), type |-> "1"]},
     alr |-> {[pmo |-> 1, par |-> "DCO", date |-> Mois(1), statut |-> "A", qual |-> "4", finalite |-> "3"],
              [pmo |-> 1, par |-> "DCO", date |-> Mois(2), statut |-> "A", qual |-> "4", finalite |-> "3"],
              [pmo |-> 4, par |-> "Volume", date |-> Mois(0), statut |-> "A", qual |-> "4", finalite |-> "3"],
              [pmo |-> 2, par |-> "Volume", date |-> Mois(1), statut |-> "A", qual |-> "4", finalite |-> "3"],
              [pmo |-> 1, par |-> "MES", date |-> Mois(1), statut |-> "A", qual |-> "4", finalite |-> "3"]},
     cdb |-> {[rfa |-> "01", nom |-> "Adour"]},
     ag |-> {[pr |-> 1, itv |-> 1], [pr |-> 2, itv |-> 2], [pr |-> 3, itv |-> 3]},
     credentials |-> {[login |-> "u1", pr |-> 1], [login |-> "u2", pr |-> 2], [login |-> "u3", pr |-> 3]},
     roles |-> {[pr |-> 1, role |-> 301], [pr |-> 2, role |-> 303], [pr |-> 3, role |-> 302]},
     droits |-> {[steu |-> "P1", scl |-> "S1", mo |-> "I1", sat |-> Null, ae |-> "I2"],
                 [steu |-> "P2", scl |-> "S2", mo |-> "I2", sat |-> Null, ae |-> Null]}]

\* The next dump: u1 works for I2, u3, who had a role of another application, is expert of
\* the whole country, P1 is gone and its system of collection is I2's and has no type, one code is
\* new and the measuring points are closed.
Db2 ==
    [Db1 EXCEPT
        !.steu = {[s EXCEPT !.etat = 40] : s \in {s \in @ : s.cdn = 2}},
        !.scl = {[s EXCEPT !.type = IF s.cdn = 1 THEN Null ELSE @] : s \in @},
        !.codes = [@ EXCEPT !["par"] = {"DCO"}],
        !.tlref = @ \cup {[cdn |-> 8, list |-> "LREF_20", cda |-> "B"]},
        !.pmo = {[p EXCEPT !.fin = Mois(1)] : p \in @},
        !.resj = {r \in @ : r.date # Mois(2)},
        !.ag = {[pr |-> 1, itv |-> 2], [pr |-> 2, itv |-> 2], [pr |-> 3, itv |-> 2]},
        !.roles = @ \cup {[pr |-> 3, role |-> 305]},
        !.droits = {[steu |-> "P2", scl |-> "S2", mo |-> "I2", sat |-> Null, ae |-> Null],
                    [steu |-> Null, scl |-> "S1", mo |-> "I2", sat |-> Null, ae |-> Null]}]

MCDatabases == <<Db1, Db2>>
MCReferences == <<Snapshot(Db1), Snapshot(Db2)>>
====
