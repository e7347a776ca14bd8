------------------------ MODULE Consultation_proofs ------------------------
(***************************************************************************)
(* Proofs about the dashboards and the perimeter they keep to: the cache   *)
(* of perimeters, for every set of requests and intervenants, every life   *)
(* of an entry and every duration of a query; then an answer and an        *)
(* export, for every sequence of snapshots of the reference data and every *)
(* request.                                                                *)
(***************************************************************************)
EXTENDS Consultation, Perimetre, FiniteSetTheorems, SequenceTheorems, WellFoundedInduction, TLAPS

----------------------------------------------------------------------------
(* The cache of perimeters *)

\* An entry does not outlive its rows by more than its life and a query.
Entry(s) ==
    /\ cache[s].until <= cache[s].at + MaxFlight + Ttl
    /\ cache[s].until >= 0 => cache[s].at >= 0

\* A query under way is not older than MaxFlight, and its rows not older than it.
InFlight(s) == Running(s) =>
    /\ 0 <= flight[s].since /\ flight[s].since <= clock
    /\ clock <= flight[s].since + MaxFlight
    /\ flight[s].phase \in {"set", "settled"} => flight[s].at >= flight[s].since

\* A request was made in the past, and one that waits has somebody to wait for.
Made(r) ==
    /\ ask[r].since <= clock
    /\ ask[r].phase = "waiting" => ask[r].siret \in Sirets /\ Running(ask[r].siret)

\* What was served had been read lately.
ServedFresh(r) == ask[r].phase = "served" =>
    /\ servedAt[r] >= 0
    /\ servedAt[r] >= ask[r].since - Ttl - MaxFlight

\* The inductive invariant.
PerimetreInv ==
    /\ PerimetreTypeOK
    /\ \A s \in Sirets : Entry(s) /\ InFlight(s)
    /\ \A r \in Requests : Made(r) /\ ServedFresh(r)

USE PerimetreAssumption

LEMMA PerimetreTypeInit == PerimetreInit => PerimetreTypeOK
BY DEF PerimetreInit, PerimetreTypeOK, NoEntry, NoFlight, NotYet

LEMMA PerimetreTypeStep == PerimetreTypeOK /\ [PerimetreNext]_perimetreVars => PerimetreTypeOK'
<1> SUFFICES ASSUME PerimetreTypeOK, [PerimetreNext]_perimetreVars PROVE PerimetreTypeOK'
  OBVIOUS
<1> USE DEF PerimetreTypeOK
<1>1. CASE Tick BY <1>1 DEF Tick
<1>2. ASSUME NEW r \in Requests, NEW s \in Sirets, Consult(r, s) PROVE PerimetreTypeOK'
  <2>1. ask' \in [Requests -> [siret : Sirets \cup {"none"},
                      phase : {"idle", "asking", "missed", "waiting", "served", "refused"}, since : Int]]
    BY <1>2 DEF Consult
  <2> QED BY <1>2, <2>1 DEF Consult
<1>3. ASSUME NEW r \in Requests, NEW s \in Sirets, Hit(r, s) PROVE PerimetreTypeOK'
  <2>1. ask' \in [Requests -> [siret : Sirets \cup {"none"},
                      phase : {"idle", "asking", "missed", "waiting", "served", "refused"}, since : Int]]
    BY <1>3 DEF Hit, Serve
  <2>2. servedAt' \in [Requests -> Int] BY <1>3 DEF Hit, Serve
  <2> QED BY <1>3, <2>1, <2>2 DEF Hit
<1>4. ASSUME NEW r \in Requests, NEW s \in Sirets, Miss(r, s) PROVE PerimetreTypeOK'
  <2>1. ask' \in [Requests -> [siret : Sirets \cup {"none"},
                      phase : {"idle", "asking", "missed", "waiting", "served", "refused"}, since : Int]]
    BY <1>4 DEF Miss
  <2> QED BY <1>4, <2>1 DEF Miss
<1>5. ASSUME NEW r \in Requests, NEW s \in Sirets, Join(r, s) PROVE PerimetreTypeOK'
  <2>1. flight' \in [Sirets -> [phase : {"none", "query", "set", "settled", "failed"}, since : Int, at : Int]]
    BY <1>5 DEF Join
  <2>2. ask' \in [Requests -> [siret : Sirets \cup {"none"},
                      phase : {"idle", "asking", "missed", "waiting", "served", "refused"}, since : Int]]
    BY <1>5 DEF Join
  <2> QED BY <1>5, <2>1, <2>2 DEF Join
<1>6. ASSUME NEW s \in Sirets, Read(s) PROVE PerimetreTypeOK'
  <2>1. flight' \in [Sirets -> [phase : {"none", "query", "set", "settled", "failed"}, since : Int, at : Int]]
    BY <1>6 DEF Read
  <2> QED BY <1>6, <2>1 DEF Read
<1>7. ASSUME NEW s \in Sirets, Fail(s) PROVE PerimetreTypeOK'
  <2>1. flight' \in [Sirets -> [phase : {"none", "query", "set", "settled", "failed"}, since : Int, at : Int]]
    BY <1>7 DEF Fail
  <2> QED BY <1>7, <2>1 DEF Fail
<1>8. ASSUME NEW s \in Sirets, Keep(s) PROVE PerimetreTypeOK'
  <2>1. flight' \in [Sirets -> [phase : {"none", "query", "set", "settled", "failed"}, since : Int, at : Int]]
    BY <1>8 DEF Keep
  <2> QED BY <1>8, <2>1 DEF Keep
<1>9. ASSUME NEW s \in Sirets, Settle(s) PROVE PerimetreTypeOK'
  <2> DEFINE Ask == [siret : Sirets \cup {"none"},
                    phase : {"idle", "asking", "missed", "waiting", "served", "refused"}, since : Int]
  <2>1. ask' \in [Requests -> Ask]
    <3>1. ASSUME NEW r \in Requests PROVE ask[r] \in Ask /\ [ask[r] EXCEPT !.phase = "refused"] \in Ask
                                           /\ [ask[r] EXCEPT !.phase = "served"] \in Ask
      OBVIOUS
    <3> HIDE DEF Ask
    <3> QED BY <1>9, <3>1 DEF Settle
  <2>2. servedAt' \in [Requests -> Int] BY <1>9 DEF Settle
  <2>3. flight' \in [Sirets -> [phase : {"none", "query", "set", "settled", "failed"}, since : Int, at : Int]]
    BY <1>9 DEF Settle, NoFlight
  <2> QED BY <1>9, <2>1, <2>2, <2>3 DEF Settle
<1>10. CASE UNCHANGED perimetreVars BY <1>10 DEF perimetreVars
<1> QED BY <1>1, <1>2, <1>3, <1>4, <1>5, <1>6, <1>7, <1>8, <1>9, <1>10 DEF PerimetreNext

\* The type invariant: no request, query or entry is in a state its code does not have.
THEOREM PerimetreTypeCorrect == PerimetreSpec => []PerimetreTypeOK
<1> QED BY PerimetreTypeInit, PerimetreTypeStep, PTL DEF PerimetreSpec

----------------------------------------------------------------------------
LEMMA PerimetreInvInit == PerimetreInit => PerimetreInv
<1> SUFFICES ASSUME PerimetreInit PROVE PerimetreInv OBVIOUS
<1>1. PerimetreTypeOK BY PerimetreTypeInit
<1>2. ASSUME NEW s \in Sirets PROVE Entry(s) /\ InFlight(s)
  BY <1>2 DEF PerimetreInit, Entry, InFlight, Running, NoEntry, NoFlight
<1>3. ASSUME NEW r \in Requests PROVE Made(r) /\ ServedFresh(r)
  BY <1>3 DEF PerimetreInit, Made, ServedFresh, NotYet
<1> QED BY <1>1, <1>2, <1>3 DEF PerimetreInv

\* Entries and queries that nobody touches keep what is known of them.
LEMMA DataKept ==
    ASSUME PerimetreInv, UNCHANGED <<clock, cache, flight>>
    PROVE  \A s \in Sirets : Entry(s)' /\ InFlight(s)'
BY DEF PerimetreInv, Entry, InFlight, Running

\* So does a request that stands where it stood while no query ends.
LEMMA RequestKept ==
    ASSUME NEW r \in Requests, Made(r), ServedFresh(r), UNCHANGED <<clock, flight>>,
           ask'[r] = ask[r], servedAt'[r] = servedAt[r]
    PROVE  Made(r)' /\ ServedFresh(r)'
BY DEF Made, ServedFresh, Running

LEMMA PerimetreInvStep == PerimetreInv /\ [PerimetreNext]_perimetreVars => PerimetreInv'
<1> SUFFICES ASSUME PerimetreInv, [PerimetreNext]_perimetreVars PROVE PerimetreInv'
  OBVIOUS
<1>0. PerimetreTypeOK /\ PerimetreTypeOK' BY PerimetreTypeStep DEF PerimetreInv
<1> DEFINE Kept == (\A s \in Sirets : Entry(s)' /\ InFlight(s)') /\ (\A r \in Requests : Made(r)' /\ ServedFresh(r)')
<1>1. ASSUME Tick PROVE Kept
  <2>1. ASSUME NEW s \in Sirets PROVE Entry(s)' /\ InFlight(s)'
    BY <1>0, <1>1, <2>1 DEF Tick, PerimetreInv, Entry, InFlight, Running, PerimetreTypeOK
  <2>2. ASSUME NEW r \in Requests PROVE Made(r)' /\ ServedFresh(r)'
    BY <1>0, <1>1, <2>2 DEF Tick, PerimetreInv, Made, ServedFresh, Running, PerimetreTypeOK
  <2> QED BY <2>1, <2>2
<1>2. ASSUME NEW q \in Requests, NEW o \in Sirets, Consult(q, o) \/ Miss(q, o) PROVE Kept
  <2>1. UNCHANGED <<clock, cache, flight, servedAt>> BY <1>2 DEF Consult, Miss
  <2>2. ASSUME NEW r \in Requests PROVE Made(r)' /\ ServedFresh(r)'
    <3>1. Made(r) /\ ServedFresh(r) BY DEF PerimetreInv
    <3>2. CASE r # q
      <4>1. ask'[r] = ask[r] BY <1>0, <1>2, <3>2 DEF Consult, Miss, PerimetreTypeOK
      <4> QED BY <2>1, <3>1, <4>1, RequestKept
    <3>3. CASE r = q
      <4>1. ask'[q].phase \in {"asking", "missed"} /\ ask'[q].since \in {clock, ask[q].since}
        BY <1>0, <1>2 DEF Consult, Miss, PerimetreTypeOK
      <4> QED BY <1>0, <2>1, <3>1, <3>3, <4>1 DEF Made, ServedFresh, PerimetreTypeOK
    <3> QED BY <3>2, <3>3
  <2> QED BY <2>1, <2>2, DataKept
<1>3. ASSUME NEW q \in Requests, NEW o \in Sirets, Hit(q, o) PROVE Kept
  <2>1. UNCHANGED <<clock, cache, flight>> BY <1>3 DEF Hit
  <2>2. ASSUME NEW r \in Requests PROVE Made(r)' /\ ServedFresh(r)'
    <3>1. Entry(o) /\ Made(r) /\ ServedFresh(r) BY DEF PerimetreInv
    <3>2. CASE r # q
      <4>1. ask'[r] = ask[r] /\ servedAt'[r] = servedAt[r]
        BY <1>0, <1>3, <3>2 DEF Hit, Serve, PerimetreTypeOK
      <4> QED BY <2>1, <3>1, <4>1, RequestKept
    <3>3. CASE r = q
      <4>1. cache[o].at >= 0 /\ cache[o].at >= ask[r].since - Ttl - MaxFlight
        BY <1>0, <1>3, <3>1, <3>3 DEF Hit, Entry, Made, PerimetreTypeOK
      <4>2. ask'[r].phase = "served" /\ ask'[r].since = ask[r].since /\ servedAt'[r] = cache[o].at
        BY <1>0, <1>3, <3>3 DEF Hit, Serve, PerimetreTypeOK
      <4> QED BY <2>1, <3>1, <4>1, <4>2 DEF Made, ServedFresh
    <3> QED BY <3>2, <3>3
  <2> QED BY <2>1, <2>2, DataKept
<1>4. ASSUME NEW q \in Requests, NEW o \in Sirets, Join(q, o) PROVE Kept
  <2>1. ASSUME NEW s \in Sirets PROVE Entry(s)' /\ InFlight(s)'
    BY <1>0, <1>4, <2>1 DEF Join, PerimetreInv, Entry, InFlight, Running, PerimetreTypeOK
  <2>2. ASSUME NEW s \in Sirets, Running(s) \/ s = o PROVE Running(s)'
    BY <1>0, <1>4, <2>2 DEF Join, Running, PerimetreTypeOK
  <2>3. ASSUME NEW r \in Requests PROVE Made(r)' /\ ServedFresh(r)'
    <3>1. Made(r) /\ ServedFresh(r) BY DEF PerimetreInv
    <3>2. ask'[r].siret = ask[r].siret /\ ask'[r].since = ask[r].since /\ clock' = clock
          /\ servedAt'[r] = servedAt[r]
      BY <1>0, <1>4 DEF Join, PerimetreTypeOK
    <3>3. ask'[r].phase = "waiting" => (r = q /\ ask[r].siret = o) \/ ask[r].phase = "waiting"
      BY <1>0, <1>4 DEF Join, PerimetreTypeOK
    <3>4. ask'[r].phase = "served" => ask[r].phase = "served"
      BY <1>0, <1>4 DEF Join, PerimetreTypeOK
    <3>5. ask'[r].phase = "waiting" => ask'[r].siret \in Sirets /\ Running(ask[r].siret)'
      <4>1. ASSUME ask'[r].phase = "waiting" PROVE ask'[r].siret \in Sirets
                                                  /\ (Running(ask'[r].siret) \/ ask'[r].siret = o)
        BY <1>4, <3>1, <3>2, <3>3, <4>1 DEF Made
      <4> QED BY <2>2, <4>1 DEF Running
    <3> QED BY <3>1, <3>2, <3>4, <3>5 DEF Made, ServedFresh
  <2> QED BY <2>1, <2>3
<1>5. ASSUME NEW o \in Sirets, Read(o) \/ Fail(o) \/ Keep(o) PROVE Kept
  <2>1. ASSUME NEW s \in Sirets PROVE Entry(s)' /\ InFlight(s)'
    <3>1. Entry(s) /\ InFlight(s) BY DEF PerimetreInv
    <3>2. CASE Read(o) BY <1>0, <3>1, <3>2 DEF Read, Entry, InFlight, Running, PerimetreTypeOK
    <3>3. CASE Fail(o) BY <1>0, <3>1, <3>3 DEF Fail, Entry, InFlight, Running, PerimetreTypeOK
    <3>4. CASE Keep(o) BY <1>0, <3>1, <3>4 DEF Keep, Entry, InFlight, Running, PerimetreTypeOK
    <3> QED BY <1>5, <3>2, <3>3, <3>4
  <2>2. ASSUME NEW s \in Sirets, Running(s) PROVE Running(s)'
    <3>1. CASE Read(o) BY <1>0, <2>2, <3>1 DEF Read, Running, PerimetreTypeOK
    <3>2. CASE Fail(o) BY <1>0, <2>2, <3>2 DEF Fail, Running, PerimetreTypeOK
    <3>3. CASE Keep(o) BY <1>0, <2>2, <3>3 DEF Keep, Running, PerimetreTypeOK
    <3> QED BY <1>5, <3>1, <3>2, <3>3
  <2>3. ASSUME NEW r \in Requests PROVE Made(r)' /\ ServedFresh(r)'
    BY <1>0, <1>5, <2>2 DEF Read, Fail, Keep, PerimetreInv, Made, ServedFresh
  <2> QED BY <2>1, <2>3
<1>6. ASSUME NEW o \in Sirets, Settle(o) PROVE Kept
  <2>1. ASSUME NEW s \in Sirets PROVE Entry(s)' /\ InFlight(s)'
    BY <1>0, <1>6, <2>1 DEF Settle, PerimetreInv, Entry, InFlight, Running, NoFlight, PerimetreTypeOK
  <2>2. ASSUME NEW s \in Sirets, s # o, Running(s) PROVE Running(s)'
    BY <1>0, <1>6, <2>2 DEF Settle, Running, PerimetreTypeOK
  <2>3. ASSUME NEW r \in Requests PROVE Made(r)' /\ ServedFresh(r)'
    <3>1. Made(r) /\ ServedFresh(r) /\ InFlight(o) BY DEF PerimetreInv
    <3>2. CASE ~Waits(r, o)
      <4>1. ask'[r] = ask[r] /\ servedAt'[r] = servedAt[r] /\ clock' = clock
        BY <1>6, <3>2 DEF Settle
      <4>2. ask[r].phase = "waiting" => ask[r].siret # o BY <3>2 DEF Waits
      <4> QED BY <2>2, <3>1, <4>1, <4>2 DEF Made, ServedFresh
    <3>3. CASE Waits(r, o)
      <4>1. /\ ask'[r].since = ask[r].since /\ clock' = clock
            /\ ask'[r].phase = IF flight[o].phase = "failed" THEN "refused" ELSE "served"
            /\ flight[o].phase = "settled" => servedAt'[r] = flight[o].at
        BY <1>0, <1>6, <3>3 DEF Settle, PerimetreTypeOK
      <4>2. flight[o].phase \in {"settled", "failed"} BY <1>6 DEF Settle
      <4>3. flight[o].phase = "settled" => flight[o].at >= 0 /\ flight[o].at >= ask[r].since - MaxFlight
        BY <1>0, <3>1 DEF InFlight, Running, Made, PerimetreTypeOK
      <4>4. Made(r)' BY <3>1, <4>1 DEF Made
      <4>5. ServedFresh(r)' BY <1>0, <4>1, <4>2, <4>3 DEF ServedFresh, PerimetreTypeOK
      <4> QED BY <4>4, <4>5
    <3> QED BY <3>2, <3>3
  <2> QED BY <2>1, <2>3
<1>7. ASSUME UNCHANGED perimetreVars PROVE Kept
  BY <1>7 DEF perimetreVars, PerimetreInv, Entry, InFlight, Running, Made, ServedFresh
<1>8. Kept BY <1>1, <1>2, <1>3, <1>4, <1>5, <1>6, <1>7 DEF PerimetreNext
<1> QED BY <1>0, <1>8 DEF PerimetreInv

LEMMA PerimetreInvariant == PerimetreSpec => []PerimetreInv
<1> QED BY PerimetreInvInit, PerimetreInvStep, PTL DEF PerimetreSpec

\* No request is served rows read more than the life of an entry and the time of a query
\* before it was made, however many requests share, miss or outlive an answer.
THEOREM PerimeterStaysFresh == PerimetreSpec => []PerimeterFresh
<1>1. PerimetreInv => PerimeterFresh BY DEF PerimetreInv, ServedFresh, PerimeterFresh
<1> QED BY PerimetreInvariant, <1>1, PTL

\* Nobody waits for a query that is not under way, and nothing is served that was not read.
THEOREM NobodyWaitsForNothing == PerimetreSpec => []WaitersAreServed
<1>1. PerimetreInv => WaitersAreServed BY DEF PerimetreInv, ServedFresh, Made, WaitersAreServed
<1> QED BY PerimetreInvariant, <1>1, PTL

HIDE PerimetreAssumption

----------------------------------------------------------------------------
(* The order of sort keys *)

\* Naturals have a least.
LEMMA FirstOfNat == ASSUME NEW T, T \subseteq Nat, T # {} PROVE \E x \in T : \A y \in T : x <= y
<1> DEFINE R == OpToRel(<, Nat)
<1>1. IsWellFoundedOn(R, Nat) BY NatLessThanWellFounded
<1>2. \A x, y \in Nat : x < y => <<x, y>> \in R BY DEF OpToRel
<1> HIDE DEF R
<1>3. PICK x \in T : \A y \in T : ~ (<<y, x>> \in R) BY <1>1, WFMin
<1>4. \A y \in T : y \in Nat /\ x \in Nat OBVIOUS
<1>5. \A y \in T : ~(y < x) BY <1>2, <1>3, <1>4
<1> QED BY <1>4, <1>5

\* Of two sort keys that differ one comes first, of two that are equal none.
LEMMA KeysAreCompared ==
    ASSUME NEW n \in Nat, NEW k \in [1 .. n -> Int], NEW l \in [1 .. n -> Int]
    PROVE  IF k = l THEN ~Before(k, l) ELSE Before(k, l) \/ Before(l, k)
<1>1. CASE k = l BY <1>1 DEF Before
<1>2. CASE k # l
  <2> DEFINE T == {i \in 1 .. n : k[i] # l[i]}
  <2>1. T \subseteq Nat /\ T # {} BY <1>2
  <2>2. PICK i \in T : \A j \in T : i <= j BY <2>1, FirstOfNat
  <2>3. i \in 1 .. n /\ k[i] # l[i] /\ \A j \in 1 .. i - 1 : k[j] = l[j] BY <2>2
  <2>4. k[i] \in Int /\ l[i] \in Int /\ DOMAIN k = 1 .. n /\ DOMAIN l = 1 .. n BY <2>3
  <2>5. k[i] < l[i] \/ l[i] < k[i] BY <2>3, <2>4
  <2> QED BY <1>2, <2>3, <2>4, <2>5 DEF Before
<1> QED BY <1>1, <1>2

----------------------------------------------------------------------------
(* What is asked of the data *)

Answers(v, r, codes, cdns) == Query(Reference_[v], r, codes, cdns)

\* An answer is finite.
FiniteAnswers ==
    \A v \in 1 .. Len(Reference_), r \in Requests_ : \A codes, cdns : IsFiniteSet(Answers(v, r, codes, cdns))

\* The restore gives a site the identifier it had.
StableIdentifiers ==
    \A v, w \in 1 .. Len(Reference_) :
        /\ \A s \in Reference_[v].steu, t \in Reference_[w].steu : s.cdn = t.cdn => s.cda = t.cda
        /\ \A s \in Reference_[v].scl, t \in Reference_[w].scl : s.cdn = t.cdn => s.cda = t.cda

\* The rows of an export are sorted by as many columns, of dates and numbers.
NumericKeys ==
    \A v \in 1 .. Len(Reference_), r \in Requests_ : \A codes, cdns : r.export =>
        \E n \in Nat : \A x \in Answers(v, r, codes, cdns) : x.keys \in [1 .. n -> Int]

----------------------------------------------------------------------------
(* The site of a row *)

LEMMA SiteOfRow == \A site, keys, of : Row_(site, keys, of).site = site
BY DEF Row_

LEMMA SiteConformiteSteu ==
    \A db, codes, year, tranche, impact : \A x \in FindConformiteSteu(db, codes, year, tranche, impact) : x.site \in codes
<1> SUFFICES ASSUME NEW db, NEW codes, NEW year, NEW tranche, NEW impact,
                    NEW x \in FindConformiteSteu(db, codes, year, tranche, impact)
             PROVE  x.site \in codes
  OBVIOUS
<1> DEFINE joined == UNION {{s} \X Obligations(db, s, year) \X OfYear(db.cfprf, s, year)
                             \X OfYear(db.cpy, s, year) \X By(By(db.steureg, "steu", s.cdn), "an", year) :
                         s \in FindSteusBySandreCdas(db, codes)}
<1>1. PICK l \in joined : x = Row_(l[1].cda, <<Rang[l[1].cda]>>, l) BY DEF FindConformiteSteu
<1>2. PICK s \in FindSteusBySandreCdas(db, codes) :
         l \in {s} \X Obligations(db, s, year) \X OfYear(db.cfprf, s, year)
                   \X OfYear(db.cpy, s, year) \X By(By(db.steureg, "steu", s.cdn), "an", year)
  BY <1>1
<1>3. l[1] = s BY <1>2
<1>4. s.cda \in codes BY DEF FindSteusBySandreCdas
<1> QED BY <1>1, <1>3, <1>4, SiteOfRow

LEMMA SiteConformiteScl ==
    \A db, codes, year, tranche, impact : \A x \in FindConformiteScl(db, codes, year, tranche, impact) : x.site \in codes
<1> SUFFICES ASSUME NEW db, NEW codes, NEW year, NEW tranche, NEW impact,
                    NEW x \in FindConformiteScl(db, codes, year, tranche, impact)
             PROVE  x.site \in codes
  OBVIOUS
<1> DEFINE joined == UNION {UNION {{s} \X Obligations(db, p, year) \X By(By(db.bilanscl, "scl", s.cdn), "an", year)
                                    \X By(By(db.sclreg, "scl", s.cdn), "an", year) :
                                p \in By(db.steu, "cdn", s.steu)} :
                         s \in FindSclsBySandreCdas(db, codes)}
<1>1. PICK l \in joined : x = Row_(l[1].cda, <<Rang[l[1].cda]>>, l) BY DEF FindConformiteScl
<1>2. PICK s \in FindSclsBySandreCdas(db, codes) : \E p :
         l \in {s} \X Obligations(db, p, year) \X By(By(db.bilanscl, "scl", s.cdn), "an", year)
                   \X By(By(db.sclreg, "scl", s.cdn), "an", year)
  BY <1>1
<1>3. l[1] = s BY <1>2
<1>4. s.cda \in codes BY DEF FindSclsBySandreCdas
<1> QED BY <1>1, <1>3, <1>4, SiteOfRow

\* A late plant is one of those whose identifiers were asked for.
LEMMA SiteTransmissionSteu ==
    \A db, cdns, year, now : \A x \in FindTransmissionASRetardSteu(db, cdns, year, now) :
        \E s \in db.steu : s.cdn \in cdns /\ x.site = s.cda
<1> SUFFICES ASSUME NEW db, NEW cdns, NEW year, NEW now, NEW x \in FindTransmissionASRetardSteu(db, cdns, year, now)
             PROVE  \E s \in db.steu : s.cdn \in cdns /\ x.site = s.cda
  OBVIOUS
<1> DEFINE joined ==
        UNION {{s} \X {r \in By(db.steureg, "steu", s.cdn) : r.an = year /\ EnRetard(r, year, now)}
                   \X Obligations(db, s, year) \X OfYear(db.cpy, s, year)
                   \X {q \in By(db.suivqual, "steu", s.cdn) : q.an = year} \X Exploitants(db, s, year) :
               s \in {s \in db.steu : s.cdn \in cdns}}
<1>1. PICK l \in joined : x = Row_(l[1].cda, <<-Retard(l[2], year, now), Rang[l[1].cda]>>, l)
  BY DEF FindTransmissionASRetardSteu
<1>2. PICK s \in {s \in db.steu : s.cdn \in cdns} :
         l \in {s} \X {r \in By(db.steureg, "steu", s.cdn) : r.an = year /\ EnRetard(r, year, now)}
                   \X Obligations(db, s, year) \X OfYear(db.cpy, s, year)
                   \X {q \in By(db.suivqual, "steu", s.cdn) : q.an = year} \X Exploitants(db, s, year)
  BY <1>1
<1>3. l[1] = s BY <1>2
<1> QED BY <1>1, <1>2, <1>3, SiteOfRow

LEMMA SiteTransmissionScl ==
    \A db, cdns, year, now : \A x \in FindTransmissionASRetardScl(db, cdns, year, now) :
        \E s \in db.scl : s.cdn \in cdns /\ x.site = s.cda
<1> SUFFICES ASSUME NEW db, NEW cdns, NEW year, NEW now, NEW x \in FindTransmissionASRetardScl(db, cdns, year, now)
             PROVE  \E s \in db.scl : s.cdn \in cdns /\ x.site = s.cda
  OBVIOUS
<1> DEFINE joined ==
        UNION {UNION {{s} \X {r \in By(db.sclreg, "scl", s.cdn) : r.an = year /\ EnRetard(r, year, now)}
                          \X Obligations(db, p, year) \X OfYear(db.cpy, p, year)
                          \X {q \in By(db.suivqual, "scl", s.cdn) : q.an = year} \X Exploitants(db, p, year) :
                      p \in By(db.steu, "cdn", s.steu)} :
               s \in {s \in db.scl : s.cdn \in cdns}}
<1>1. PICK l \in joined : x = Row_(l[1].cda, <<-Retard(l[2], year, now), Rang[l[1].cda]>>, l)
  BY DEF FindTransmissionASRetardScl
<1>2. PICK s \in {s \in db.scl : s.cdn \in cdns} : \E p :
         l \in {s} \X {r \in By(db.sclreg, "scl", s.cdn) : r.an = year /\ EnRetard(r, year, now)}
                   \X Obligations(db, p, year) \X OfYear(db.cpy, p, year)
                   \X {q \in By(db.suivqual, "scl", s.cdn) : q.an = year} \X Exploitants(db, p, year)
  BY <1>1
<1>3. l[1] = s BY <1>2
<1> QED BY <1>1, <1>2, <1>3, SiteOfRow

LEMMA SiteBilanSteu ==
    \A db, cdns, year, pars : \A x \in FindBilanSteu(db, cdns, year, pars) :
        \E s \in db.steu : s.cdn \in cdns /\ x.site = s.cda
<1> SUFFICES ASSUME NEW db, NEW cdns, NEW year, NEW pars, NEW x \in FindBilanSteu(db, cdns, year, pars)
             PROVE  \E s \in db.steu : s.cdn \in cdns /\ x.site = s.cda
  OBVIOUS
<1> DEFINE P(l) == /\ l[1].steu = l[2].cdn /\ l[2].cdn \in cdns /\ Within(l[1].date, year)
                   /\ l[1].par \in pars \cap db.codes["par"]
<1>1. FindBilanSteu(db, cdns, year, pars) = {Row_(l[2].cda, <<l[1].date>>, l) : l \in {l \in db.resj \X db.steu : P(l)}}
  BY DEF FindBilanSteu
<1>2. PICK l \in db.resj \X db.steu : P(l) /\ x = Row_(l[2].cda, <<l[1].date>>, l) BY <1>1
<1>3. l[2] \in db.steu /\ l[2].cdn \in cdns BY <1>2
<1> QED BY <1>2, <1>3, SiteOfRow

\* The point of a row is of a system of collection that was asked for.
LEMMA SclOfPoint ==
    \A db, pmo, cdns, p, s : <<p, s>> \in PointOfScl(db, pmo, cdns) => s \in db.scl /\ s.cdn \in cdns
BY DEF PointOfScl

LEMMA SiteBilanScl ==
    \A db, cdns, year, pmo, statut : \A x \in FindBilanScl(db, cdns, year, pmo, statut) :
        \E s \in db.scl : s.cdn \in cdns /\ x.site = s.cda
BY SiteOfRow, SclOfPoint DEF FindBilanScl

LEMMA SiteEvenementSteu ==
    \A db, cdns, year, types : \A x \in FindEvenementSteu(db, cdns, year, types) :
        \E s \in db.steu : s.cdn \in cdns /\ x.site = s.cda
<1> SUFFICES ASSUME NEW db, NEW cdns, NEW year, NEW types, NEW x \in FindEvenementSteu(db, cdns, year, types)
             PROVE  \E s \in db.steu : s.cdn \in cdns /\ x.site = s.cda
  OBVIOUS
<1> DEFINE P(l) == l[1].steu = l[2].cdn /\ l[2].cdn \in cdns /\ Within(l[1].date, year) /\ OfType(db, l[1], types)
<1>1. FindEvenementSteu(db, cdns, year, types) = {Row_(l[2].cda, <<l[1].date>>, l) : l \in {l \in db.evo \X db.steu : P(l)}}
  BY DEF FindEvenementSteu
<1>2. PICK l \in db.evo \X db.steu : P(l) /\ x = Row_(l[2].cda, <<l[1].date>>, l) BY <1>1
<1>3. l[2] \in db.steu /\ l[2].cdn \in cdns BY <1>2
<1> QED BY <1>2, <1>3, SiteOfRow

LEMMA SiteEvenementScl ==
    \A db, cdns, year, types, pmo : \A x \in FindEvenementScl(db, cdns, year, types, pmo) :
        \E s \in db.scl : s.cdn \in cdns /\ x.site = s.cda
<1> SUFFICES ASSUME NEW db, NEW cdns, NEW year, NEW types, NEW pmo,
                    NEW x \in FindEvenementScl(db, cdns, year, types, pmo)
             PROVE  \E s \in db.scl : s.cdn \in cdns /\ x.site = s.cda
  OBVIOUS
<1> DEFINE P(l) == /\ <<l[2], l[3]>> \in PointOfScl(db, l[1].pmo, cdns)
                   /\ \E steu \in db.steu : l[3].steu = steu.cdn
                   /\ Within(l[1].date, year) /\ OfType(db, l[1], types) /\ Passes(pmo, l[2].cdn)
<1>1. FindEvenementScl(db, cdns, year, types, pmo) =
        {Row_(l[3].cda, <<l[1].date>>, l) : l \in {l \in db.evo \X db.pmo \X db.scl : P(l)}}
  BY DEF FindEvenementScl
<1>2. PICK l \in db.evo \X db.pmo \X db.scl : P(l) /\ x = Row_(l[3].cda, <<l[1].date>>, l) BY <1>1
<1>3. l[3] \in db.scl /\ l[3].cdn \in cdns BY <1>2, SclOfPoint
<1> QED BY <1>2, <1>3, SiteOfRow

\* A query on measures is kept to the sites by their codes, if there are any.
LEMMA SiteMesures ==
    \A db, type, codes, f : \A x \in FindMesures(db, type, codes, f) : codes # {} => x.site \in codes
<1> SUFFICES ASSUME NEW db, NEW type, NEW codes, NEW f, NEW x \in FindMesures(db, type, codes, f), codes # {}
             PROVE  x.site \in codes
  OBVIOUS
<1> DEFINE P(l) ==
            LET a == l[1] p == l[2] s == l[3] IN
            /\ a.pmo = p.cdn /\ p[type] = s.cdn
            /\ type = "scl" => \E steu \in db.steu : s.steu = steu.cdn
            /\ Location(db, p) # Null
            /\ a.par \in db.codes["par"]
            /\ codes = {} \/ s.cda \in codes
            /\ a.date >= f.debut /\ a.date <= f.fin
            /\ Passes(f.pmo, p.cdn) /\ Passes(f.par, a.par)
            /\ Passes(f.statut, a.statut) /\ Passes(f.qual, a.qual) /\ Passes(f.finalite, a.finalite)
<1>1. FindMesures(db, type, codes, f) =
        {Row_(l[3].cda, <<Rang[l[3].nom], Rang[Location(db, l[2])], Rang[l[2].no], l[1].date, Rang[l[1].par]>>, l) : l \in
            {l \in db.alr \X db.pmo \X (IF type = "scl" THEN db.scl ELSE db.steu) : P(l)}}
  BY DEF FindMesures
<1>2. \A l : P(l) => l[3].cda \in codes OBVIOUS
<1> HIDE DEF P
<1>3. PICK l : P(l) /\ x = Row_(l[3].cda, <<Rang[l[3].nom], Rang[Location(db, l[2])], Rang[l[2].no], l[1].date, Rang[l[1].par]>>, l)
  BY <1>1
<1> QED BY <1>2, <1>3, SiteOfRow

LEMMA SiteIndicateurs ==
    \A db, codes, year : \A x \in FindIndicateursSteu(db, codes, year) : x.site \in codes
<1> SUFFICES ASSUME NEW db, NEW codes, NEW year, NEW x \in FindIndicateursSteu(db, codes, year)
             PROVE  x.site \in codes
  OBVIOUS
<1> DEFINE links(s) == {l \in By(db.cxntech, "aval", s.cdn) \X db.aga :
                        l[2].zgc = l[1].amont /\ InForce(l[1], "creation", "retrait", year)
                        /\ \E k \in db.agac : k.aga = l[2].cdn /\ k.an = year}
           capacities(s) == {c \in By(db.cpy, "steu", s.cdn) : c.an = year}
           loads(s) == {t \in By(db.stchan, "steu", s.cdn) : t.an = year}
           systems(s) == IF By(db.scl, "steu", s.cdn) = {} THEN {Null} ELSE By(db.scl, "steu", s.cdn)
           joined == UNION {UNION {{s} \X links(s) \X capacities(s) \X loads(s) \X {scl} : scl \in systems(s)} :
                            s \in FindSteusBySandreCdas(db, codes)}
<1>1. FindIndicateursSteu(db, codes, year) = {Row_(l[1].cda, <<Rang[l[1].nom], Rang[l[1].cda]>>, l) : l \in joined}
  BY DEF FindIndicateursSteu
<1> HIDE DEF links, capacities, loads, systems
<1>2. PICK l \in joined : x = Row_(l[1].cda, <<Rang[l[1].nom], Rang[l[1].cda]>>, l) BY <1>1
<1>3. PICK s \in FindSteusBySandreCdas(db, codes) : \E scl :
         l \in {s} \X links(s) \X capacities(s) \X loads(s) \X {scl}
  BY <1>2
<1>4. l[1] = s BY <1>3
<1>5. s.cda \in codes BY DEF FindSteusBySandreCdas
<1> QED BY <1>2, <1>4, <1>5, SiteOfRow

LEMMA SitePoints == \A db, type, code, f : \A x \in FindPointsMesureReferentiel(db, type, code, f) : x.site = code
<1> SUFFICES ASSUME NEW db, NEW type, NEW code, NEW f, NEW x \in FindPointsMesureReferentiel(db, type, code, f)
             PROVE  x.site = code
  OBVIOUS
<1>1. \E p : x = Row_(code, <<Rang[p.no]>>, p) BY ZenonT(60) DEF FindPointsMesureReferentiel
<1> QED BY <1>1, SiteOfRow

LEMMA SiteShown == \A site, value : \A x \in Shown(site, value) : x.site = site
BY SiteOfRow DEF Shown

LEMMA SiteShownAll == \A site, values : \A x \in ShownAll(site, values) : x.site = site
BY SiteOfRow DEF ShownAll

----------------------------------------------------------------------------
(* The rows of an answer are of the sites asked for *)

\* An identifier that was resolved is that of a site asked for, in any snapshot.
LEMMA ResolvedIsAsked ==
    ASSUME StableIdentifiers, NEW v \in 1 .. Len(Reference_), NEW w \in 1 .. Len(Reference_), NEW r, NEW codes
    PROVE  /\ ~OfScl(r) => \A s \in Reference_[v].steu : s.cdn \in Resolved(Reference_[w], r, codes) => s.cda \in codes
           /\ OfScl(r) => \A s \in Reference_[v].scl : s.cdn \in Resolved(Reference_[w], r, codes) => s.cda \in codes
BY DEF StableIdentifiers, Resolved, FindSteusBySandreCdas, FindSclsBySandreCdas

\* A request for one site has its code.
LEMMA OneSiteAsked ==
    ASSUME NEW r, NEW steus, NEW scls, Cdas(r, steus, scls) # {}, r.dash \in OneSite
    PROVE  r.code \in Cdas(r, steus, scls)
BY DEF Cdas

LEMMA WhichQuery ==
    \A db, r, codes, cdns :
        /\ r.dash \in DeConformite => Query(db, r, codes, cdns) = ListConformite(db, r, codes, cdns)
        /\ r.dash \in DeTransmission => Query(db, r, codes, cdns) = ListTransmissionASRetard(db, r, cdns)
        /\ r.dash \in DeBilan => Query(db, r, codes, cdns) = ListBilan(db, r, cdns)
        /\ r.dash \in DEvenement => Query(db, r, codes, cdns) = ListEvenement(db, r, cdns)
        /\ r.dash \in DeMesures => Query(db, r, codes, cdns) = ListMesures(db, r, codes)
        /\ r.dash \in DeReferentiel => Query(db, r, codes, cdns) = ListReferentiel(db, r)
        /\ r.dash = "indicateurs" => Query(db, r, codes, cdns) = FindIndicateursSteu(db, codes, Filters.year - 1)
<1> SUFFICES ASSUME NEW db, NEW r, NEW codes, NEW cdns
             PROVE  /\ r.dash \in DeConformite => Query(db, r, codes, cdns) = ListConformite(db, r, codes, cdns)
                    /\ r.dash \in DeTransmission => Query(db, r, codes, cdns) = ListTransmissionASRetard(db, r, cdns)
                    /\ r.dash \in DeBilan => Query(db, r, codes, cdns) = ListBilan(db, r, cdns)
                    /\ r.dash \in DEvenement => Query(db, r, codes, cdns) = ListEvenement(db, r, cdns)
                    /\ r.dash \in DeMesures => Query(db, r, codes, cdns) = ListMesures(db, r, codes)
                    /\ r.dash \in DeReferentiel => Query(db, r, codes, cdns) = ListReferentiel(db, r)
                    /\ r.dash = "indicateurs" => Query(db, r, codes, cdns) = FindIndicateursSteu(db, codes, Filters.year - 1)
  OBVIOUS
<1>1. /\ r.dash \in DeConformite => r.dash \notin DeTransmission \cup DeBilan \cup DEvenement \cup DeMesures \cup DeReferentiel \cup {"indicateurs"}
      /\ r.dash \in DeTransmission => r.dash \notin DeBilan \cup DEvenement \cup DeMesures \cup DeReferentiel \cup {"indicateurs"}
      /\ r.dash \in DeBilan => r.dash \notin DEvenement \cup DeMesures \cup DeReferentiel \cup {"indicateurs"}
      /\ r.dash \in DEvenement => r.dash \notin DeMesures \cup DeReferentiel \cup {"indicateurs"}
      /\ r.dash \in DeMesures => r.dash \notin DeReferentiel \cup {"indicateurs"}
      /\ r.dash \in DeReferentiel => r.dash # "indicateurs"
  BY DEF DeConformite, DeTransmission, DeBilan, DEvenement, DeMesures, DeReferentiel
<1> QED BY <1>1 DEF Query

LEMMA SitesOfAnswer ==
    ASSUME StableIdentifiers, NEW v \in 1 .. Len(Reference_), NEW w \in 1 .. Len(Reference_), NEW r \in Requests_,
           NEW steus, NEW scls, Cdas(r, steus, scls) # {},
           NEW x \in Query(Reference_[v], r, Cdas(r, steus, scls), Resolved(Reference_[w], r, Cdas(r, steus, scls)))
    PROVE  x.site \in Cdas(r, steus, scls)
<1> DEFINE codes == Cdas(r, steus, scls)
           cdns == Resolved(Reference_[w], r, codes)
           db == Reference_[v]
<1>1. x \in Query(db, r, codes, cdns) /\ codes # {} OBVIOUS
<1>2. /\ ~OfScl(r) => \A s \in db.steu : s.cdn \in cdns => s.cda \in codes
      /\ OfScl(r) => \A s \in db.scl : s.cdn \in cdns => s.cda \in codes
  BY ResolvedIsAsked
<1>3. r.dash \in OneSite => r.code \in codes BY OneSiteAsked
<1> HIDE DEF codes, cdns, db
<1>4. ASSUME r.dash \in DeConformite PROVE x.site \in codes
  <2>1. x \in ListConformite(db, r, codes, cdns) BY <1>1, <1>4, WhichQuery
  <2>2. CASE r.dash = "conformiteSteu" BY <2>1, <2>2, SiteConformiteSteu DEF ListConformite
  <2>3. CASE r.dash = "conformiteScl" BY <2>1, <2>3, SiteConformiteScl DEF ListConformite
  <2>4. CASE r.dash = "conformiteSteuDetail" BY <1>3, <2>1, <2>4, SiteShown DEF ListConformite, OneSite
  <2>5. CASE r.dash = "conformiteSclDetail" BY <1>3, <2>1, <2>5, SiteShown DEF ListConformite, OneSite
  <2> QED BY <1>4, <2>2, <2>3, <2>4, <2>5 DEF DeConformite
<1>5. ASSUME r.dash \in DeTransmission PROVE x.site \in codes
  <2>1. x \in ListTransmissionASRetard(db, r, cdns) BY <1>1, <1>5, WhichQuery
  <2>2. CASE r.dash = "transmissionSteu"
    BY <1>2, <2>1, <2>2, SiteTransmissionSteu DEF ListTransmissionASRetard, OfScl
  <2>3. CASE r.dash = "transmissionScl"
    BY <1>2, <2>1, <2>3, SiteTransmissionScl DEF ListTransmissionASRetard, OfScl
  <2> QED BY <1>5, <2>2, <2>3 DEF DeTransmission
<1>6. ASSUME r.dash \in DeBilan PROVE x.site \in codes
  <2>1. x \in ListBilan(db, r, cdns) BY <1>1, <1>6, WhichQuery
  <2>2. CASE r.dash = "bilanSteu" BY <1>2, <2>1, <2>2, SiteBilanSteu DEF ListBilan, OfScl
  <2>3. CASE r.dash = "bilanScl" BY <1>2, <2>1, <2>3, SiteBilanScl DEF ListBilan, OfScl
  <2> QED BY <1>6, <2>2, <2>3 DEF DeBilan
<1>7. ASSUME r.dash \in DEvenement PROVE x.site \in codes
  <2>1. x \in ListEvenement(db, r, cdns) BY <1>1, <1>7, WhichQuery
  <2>2. CASE r.dash = "evenementSteu" BY <1>2, <2>1, <2>2, SiteEvenementSteu DEF ListEvenement, OfScl
  <2>3. CASE r.dash = "evenementScl" BY <1>2, <2>1, <2>3, SiteEvenementScl DEF ListEvenement, OfScl
  <2> QED BY <1>7, <2>2, <2>3 DEF DEvenement
<1>8. ASSUME r.dash \in DeMesures PROVE x.site \in codes
  <2>1. x \in ListMesures(db, r, codes)
    BY <1>1, <1>8, WhichQuery
  <2>2. CASE r.dash = "mesuresSteu" BY <1>1, <2>1, <2>2, SiteMesures DEF ListMesures
  <2>3. CASE r.dash = "mesuresScl" BY <1>1, <2>1, <2>3, SiteMesures DEF ListMesures
  <2>4. CASE r.dash = "ouvrages" BY <2>1, <2>4, SiteOfRow DEF ListMesures, FindSteusBySandreCdas
  <2>5. CASE r.dash = "systemesCollecte" BY <2>1, <2>5, SiteOfRow DEF ListMesures, FindSclsBySandreCdas
  <2>6. CASE r.dash = "pointsSteu" BY <1>3, <2>1, <2>6, SiteShownAll DEF ListMesures, OneSite
  <2>7. CASE r.dash = "pointsScl" BY <1>3, <2>1, <2>7, SiteShownAll DEF ListMesures, OneSite
  <2>8. CASE r.dash = "parametresSteu" BY <1>3, <2>1, <2>8, SiteShownAll DEF ListMesures, OneSite
  <2>9. CASE r.dash = "parametresScl" BY <1>3, <2>1, <2>9, SiteShownAll DEF ListMesures, OneSite
  <2> QED BY <1>8, <2>2, <2>3, <2>4, <2>5, <2>6, <2>7, <2>8, <2>9 DEF DeMesures
<1>9. ASSUME r.dash \in DeReferentiel PROVE x.site \in codes
  <2>1. x \in ListReferentiel(db, r)
    BY <1>1, <1>9, WhichQuery
  <2>2. x.site = r.code
    <3>1. \A type : \A y \in FindPointsMesureReferentiel(db, type, r.code, Filters) : y.site = r.code
      BY SitePoints
    <3>2. CASE r.dash = "referentielSteu" BY <2>1, <3>1, <3>2 DEF ListReferentiel
    <3>3. CASE r.dash = "referentielScl" BY <2>1, <3>1, <3>3 DEF ListReferentiel
    <3>4. CASE r.dash = "steuDetail" BY <2>1, <3>4, SiteShown DEF ListReferentiel
    <3>5. CASE r.dash = "sclDetail" BY <2>1, <3>5, SiteShown DEF ListReferentiel
    <3> QED BY <1>9, <3>2, <3>3, <3>4, <3>5 DEF DeReferentiel
  <2> QED BY <1>3, <1>9, <2>2 DEF OneSite
<1>10. ASSUME r.dash = "indicateurs" PROVE x.site \in codes
  <2>1. x \in FindIndicateursSteu(db, codes, Filters.year - 1)
    BY <1>1, <1>10, WhichQuery
  <2> QED BY <2>1, SiteIndicateurs
<1>11. x.site \in codes BY <1>4, <1>5, <1>6, <1>7, <1>8, <1>9, <1>10, ConsultationAssumption
<1> QED BY <1>11 DEF codes

----------------------------------------------------------------------------
(* Sequences of rows *)

LEMMA SeqOfSet == ASSUME NEW S, IsFiniteSet(S) PROVE SetToSeq(S) \in Seq(S) /\ Len(SetToSeq(S)) = Cardinality(S)
<1>1. Cardinality(S) \in Nat /\ ExistsBijection(1 .. Cardinality(S), S) BY FS_CardinalityType
<1>2. \E f \in [1 .. Cardinality(S) -> S] : IsInjective(f)
  BY <1>1 DEF ExistsBijection, Bijection, Injection
<1>3. SetToSeq(S) \in [1 .. Cardinality(S) -> S] BY <1>2 DEF SetToSeq
<1> QED BY <1>1, <1>3

LEMMA SeqsOfSet ==
    ASSUME NEW S, IsFiniteSet(S), NEW s \in SetToSeqs(S)
    PROVE  /\ s \in Seq(S) /\ Len(s) = Cardinality(S) /\ Cardinality(S) \in Nat
           /\ s \in [1 .. Cardinality(S) -> S]
           /\ \A i, j \in 1 .. Len(s) : i # j => s[i] # s[j]
<1>1. Cardinality(S) \in Nat BY FS_CardinalityType
<1>2. s \in [1 .. Cardinality(S) -> S] /\ \A i, j \in 1 .. Cardinality(S) : i # j => s[i] # s[j] BY DEF SetToSeqs
<1> QED BY <1>1, <1>2

USE ConsultationAssumption

\* A page of a sequence: what comes after those before it, at most PageSize rows.
LEMMA PageOfSeq ==
    ASSUME NEW S, NEW s \in Seq(S), NEW n \in Nat \ {0}
    PROVE  /\ PageOf(s, n) \in Seq(S)
           /\ Len(PageOf(s, n)) = IF (n - 1) * PageSize >= Len(s) THEN 0
                                  ELSE IF n * PageSize < Len(s) THEN PageSize ELSE Len(s) - (n - 1) * PageSize
<1> DEFINE a == (n - 1) * PageSize
           b == n * PageSize
<1>1. a \in Nat /\ b \in Nat /\ b = a + PageSize OBVIOUS
<1>2. PageOf(s, n) = SubSeq(s, a + 1, IF b < Len(s) THEN b ELSE Len(s)) BY DEF PageOf
<1> HIDE DEF a, b
<1>3. Len(s) \in Nat OBVIOUS
<1>4. \A i \in (a + 1) .. (IF b < Len(s) THEN b ELSE Len(s)) : s[i] \in S
  <2> TAKE i \in (a + 1) .. (IF b < Len(s) THEN b ELSE Len(s))
  <2>1. i \in 1 .. Len(s) BY <1>1, <1>3
  <2> QED BY <2>1, ElementOfSeq
<1>5. /\ PageOf(s, n) \in Seq(S)
      /\ Len(PageOf(s, n)) = IF a + 1 <= (IF b < Len(s) THEN b ELSE Len(s))
                             THEN (IF b < Len(s) THEN b ELSE Len(s)) - (a + 1) + 1 ELSE 0
  <2> DEFINE e == IF b < Len(s) THEN b ELSE Len(s)
  <2>1. e \in Int /\ a + 1 \in Int BY <1>1, <1>3
  <2>2. \A i \in (a + 1) .. e : s[i] \in S BY <1>4
  <2> HIDE DEF e
  <2>3. /\ SubSeq(s, a + 1, e) \in Seq(S)
        /\ Len(SubSeq(s, a + 1, e)) = IF a + 1 <= e THEN e - (a + 1) + 1 ELSE 0
    BY <2>1, <2>2, SubSeqProperties
  <2> QED BY <1>2, <2>3 DEF e
<1>6. Len(PageOf(s, n)) = IF a >= Len(s) THEN 0 ELSE IF b < Len(s) THEN PageSize ELSE Len(s) - a
  BY <1>1, <1>3, <1>5
<1> QED BY <1>5, <1>6 DEF a, b

\* There is a page after this one exactly when there are rows after those of this one.
LEMMA PagesOf ==
    ASSUME NEW n \in Nat, NEW k \in Nat \ {0}
    PROVE  k + 1 > Pages(n) <=> n <= k * PageSize
<1> DEFINE q == Pages(n)
<1>1. q \in Nat /\ q * PageSize <= n + PageSize - 1 /\ n + PageSize - 1 < (q + 1) * PageSize
  BY DEF Pages
<1> HIDE DEF q
<1>2. ASSUME k + 1 > q PROVE n <= k * PageSize
  <2>1. q * PageSize <= k * PageSize BY <1>1, <1>2
  <2>2. (q + 1) * PageSize = q * PageSize + PageSize BY <1>1
  <2> QED BY <1>1, <2>1, <2>2
<1>3. ASSUME k + 1 <= q PROVE ~(n <= k * PageSize)
  <2>1. (k + 1) * PageSize <= q * PageSize BY <1>1, <1>3
  <2>2. (k + 1) * PageSize = k * PageSize + PageSize OBVIOUS
  <2> QED BY <1>1, <2>1, <2>2
<1> QED BY <1>1, <1>2, <1>3 DEF q

----------------------------------------------------------------------------
(* The inductive invariant of the rows *)

\* Intervenants the user may have been taken for.
SiretsIn(w) == FindSiretByEmail(Reference_[w], user.email) \cup ({FindIntervenantById(Reference_[w], user.itv)} \ {Null})

\* The rows of the dashboard, in a snapshot, of the identifiers of a snapshot.
RowsSeen == UNION {Query(Reference_[s[1]], request, Asked, Resolved(Reference_[s[2]], request, Asked)) : s \in exposed \X exposed}

Reading == stage \in {"resolve", "count", "data"}

RequestOK ==
    /\ current \in 1 .. Len(Reference_) /\ exposed = 1 .. current
    /\ user \in Users /\ request \in Requests_
    /\ stage \in {"guard", "perimeter", "resolve", "count", "data"} \cup Ended

\* What was found of the user was in a snapshot the request has seen.
RightsFound ==
    /\ stage \notin {"guard", "forbidden"} => \E w \in exposed : rfa \in SiretsIn(w)
    /\ Reading \/ stage \in {"done", "tooMany"} => \E v \in exposed : auth.steus \cup auth.scls \subseteq PerimeterIn(v)

IdsFound ==
    stage \in {"count", "data"} /\ request.dash \in ByIds => \E w \in exposed : ids = Resolved(Reference_[w], request, Asked)

RowsFound ==
    /\ rows \in Seq(RowsSeen)
    /\ stage \in {"guard", "perimeter", "forbidden"} => rows = <<>>
    /\ Reading \/ rows # <<>> => Asked # {}

RowsInv == RequestOK /\ RightsFound /\ IdsFound /\ RowsFound

\* A request that needs no identifiers has the same answer whatever they are.
LEMMA IdsNotNeeded ==
    ASSUME NEW v, NEW r \in Requests_, r.dash \notin ByIds, NEW codes, NEW a, NEW b
    PROVE  Query(Reference_[v], r, codes, a) = Query(Reference_[v], r, codes, b)
<1> DEFINE db == Reference_[v]
<1>1. r.dash \notin DeTransmission \cup DeBilan \cup DEvenement \cup {"conformiteSteuDetail", "conformiteSclDetail"}
  BY DEF ByIds
<1>2. CASE r.dash \in DeConformite
  <2>1. r.dash \in {"conformiteSteu", "conformiteScl"} BY <1>1, <1>2 DEF DeConformite
  <2>2. ListConformite(db, r, codes, a) = ListConformite(db, r, codes, b) BY <2>1 DEF ListConformite
  <2> QED BY <1>2, <2>2, WhichQuery
<1>3. CASE r.dash \in DeMesures BY <1>3, WhichQuery
<1>4. CASE r.dash \in DeReferentiel BY <1>4, WhichQuery
<1>5. CASE r.dash = "indicateurs" BY <1>5, WhichQuery
<1> QED BY <1>1, <1>2, <1>3, <1>4, <1>5, ConsultationAssumption

\* What is found now is among the rows of the dashboard.
LEMMA FoundIsSeen ==
    ASSUME RequestOK, IdsFound, stage \in {"count", "data"}
    PROVE  Found \subseteq RowsSeen
<1>1. current \in exposed BY DEF RequestOK
<1>2. CASE request.dash \in ByIds
  <2>1. PICK w \in exposed : ids = Resolved(Reference_[w], request, Asked) BY <1>2 DEF IdsFound
  <2>2. <<current, w>> \in exposed \X exposed BY <1>1
  <2>3. Found = Query(Reference_[current], request, Asked, Resolved(Reference_[w], request, Asked))
    BY <2>1 DEF Found, Live
  <2> QED BY <2>2, <2>3 DEF RowsSeen
<1>3. CASE request.dash \notin ByIds
  <2>1. Found = Query(Reference_[current], request, Asked, Resolved(Reference_[current], request, Asked))
    BY <1>3, IdsNotNeeded DEF Found, Live, RequestOK
  <2>2. <<current, current>> \in exposed \X exposed BY <1>1
  <2> QED BY <2>1, <2>2 DEF RowsSeen
<1> QED BY <1>2, <1>3

\* What was seen stays seen.
LEMMA SeenGrows ==
    ASSUME exposed \subseteq exposed', UNCHANGED <<user, request, auth>>
    PROVE  /\ RowsSeen \subseteq RowsSeen' /\ Asked' = Asked
           /\ \A v : PerimeterIn(v) \subseteq PerimeterIn(v)' /\ SiretsIn(v)' = SiretsIn(v)
<1>1. Asked' = Asked BY DEF Asked
<1>2. exposed \X exposed \subseteq exposed' \X exposed' OBVIOUS
<1>3. RowsSeen \subseteq RowsSeen' BY <1>1, <1>2 DEF RowsSeen
<1>4. \A v : SiretsIn(v)' = SiretsIn(v) BY DEF SiretsIn
<1>5. \A v : PerimeterIn(v) \subseteq PerimeterIn(v)' BY DEF PerimeterIn
<1> QED BY <1>1, <1>3, <1>4, <1>5

LEMMA RowsInit == ConsultationInit => RowsInv
<1> SUFFICES ASSUME ConsultationInit PROVE RowsInv OBVIOUS
<1>1. current = 1 /\ exposed = {1} /\ stage = "guard" /\ rows = <<>> /\ user \in Users /\ request \in Requests_
  BY DEF ConsultationInit
<1>2. RequestOK BY <1>1 DEF RequestOK
<1>3. rows \in Seq(RowsSeen) BY <1>1, EmptySeq
<1> QED BY <1>1, <1>2, <1>3 DEF RowsInv, RightsFound, IdsFound, RowsFound, Reading

LEMMA StepSwap == ASSUME RowsInv, Swap PROVE RowsInv'
<1>1. /\ current' = current + 1 /\ exposed' = exposed \cup {current + 1} /\ current < Len(Reference_)
      /\ UNCHANGED <<user, request, rfa, auth, ids, rows, stage>>
  BY DEF Swap
<1>2. RequestOK' BY <1>1 DEF RowsInv, RequestOK
<1>3. /\ RowsSeen \subseteq RowsSeen' /\ Asked' = Asked
      /\ \A v : PerimeterIn(v) \subseteq PerimeterIn(v)' /\ SiretsIn(v)' = SiretsIn(v)
  BY <1>1, SeenGrows
<1>4. RightsFound'
  <2>1. stage' \notin {"guard", "forbidden"} => \E w \in exposed' : rfa' \in SiretsIn(w)'
    BY <1>1, <1>3 DEF RowsInv, RightsFound
  <2>2. Reading' \/ stage' \in {"done", "tooMany"} =>
          \E v \in exposed' : auth'.steus \cup auth'.scls \subseteq PerimeterIn(v)'
    BY <1>1, <1>3 DEF RowsInv, RightsFound, Reading
  <2> QED BY <2>1, <2>2 DEF RightsFound
<1>5. IdsFound' BY <1>1, <1>3 DEF RowsInv, IdsFound
<1>6. RowsFound'
  <2>1. rows \in Seq(RowsSeen') BY <1>3, SeqMonotonic DEF RowsInv, RowsFound
  <2> QED BY <1>1, <1>3, <2>1 DEF RowsInv, RowsFound, Reading
<1> QED BY <1>2, <1>4, <1>5, <1>6 DEF RowsInv

LEMMA StepSiret == ASSUME RowsInv, FindSiret PROVE RowsInv'
<1>1. /\ stage = "guard" /\ stage' = (IF rfa' = Null THEN "forbidden" ELSE "perimeter")
      /\ UNCHANGED <<current, exposed, user, request, auth, ids, rows>>
  BY DEF FindSiret
<1>2. current \in exposed /\ rows = <<>> BY <1>1 DEF RowsInv, RequestOK, RowsFound
<1>3. RequestOK' BY <1>1 DEF RowsInv, RequestOK, Ended
<1>4. rfa' # Null => rfa' \in SiretsIn(current) BY DEF FindSiret, SiretsIn, Live
<1>5. SiretsIn(current)' = SiretsIn(current) BY <1>1 DEF SiretsIn
<1>6. RightsFound'
  <2>1. stage' \notin {"guard", "forbidden"} => \E w \in exposed' : rfa' \in SiretsIn(w)'
    <3>1. stage' \notin {"guard", "forbidden"} => rfa' \in SiretsIn(current)' BY <1>1, <1>4, <1>5
    <3>2. current \in exposed' BY <1>1, <1>2
    <3>3. SiretsIn(current)' = (FindSiretByEmail(Reference_[current'], user'.email)
                                \cup ({FindIntervenantById(Reference_[current'], user'.itv)} \ {Null}))
      BY DEF SiretsIn
    <3> QED BY <1>1, <3>1, <3>2, <3>3 DEF SiretsIn
  <2> QED BY <1>1, <2>1 DEF RightsFound, Reading
<1>7. IdsFound' BY <1>1 DEF IdsFound
<1>8. RowsFound' BY <1>1, <1>2, EmptySeq DEF RowsFound, Reading
<1> QED BY <1>3, <1>6, <1>7, <1>8 DEF RowsInv

\* The codes a user may see are those his intervenant answers for in the snapshot read.
LEMMA StepPerimeter == ASSUME RowsInv, FindPerimeter PROVE RowsInv'
<1> DEFINE droits == FindDroitsByItv(Live, rfa)
<1>1. /\ stage = "perimeter"
      /\ auth' = [steus |-> {v.steu : v \in droits} \ {Null}, scls |-> {v.scl : v \in droits} \ {Null}]
      /\ stage' = (IF auth'.steus \cup auth'.scls = {} THEN "forbidden"
                   ELSE IF Cdas(request, auth'.steus, auth'.scls) = {} THEN "done" ELSE FirstOf(request))
      /\ UNCHANGED <<current, exposed, user, request, rfa, ids, rows>>
  BY DEF FindPerimeter
<1>2. current \in exposed /\ rows = <<>> BY <1>1 DEF RowsInv, RequestOK, RowsFound
<1>3. PICK w \in exposed : rfa \in SiretsIn(w) BY <1>1 DEF RowsInv, RightsFound
<1>4. stage' \in {"forbidden", "done", "resolve", "count"} /\ (stage' = "count" => request.dash \notin ByIds)
      /\ (stage' \in {"resolve", "count"} => Asked' # {})
  BY <1>1 DEF FirstOf, Asked
<1>5. RequestOK' BY <1>1, <1>4 DEF RowsInv, RequestOK, Ended
<1>6. auth'.steus \cup auth'.scls \subseteq PerimeterIn(current)'
  <2> DEFINE sirets == UNION {SiretsIn(x) : x \in exposed}
             all == UNION {FindDroitsByItv(Reference_[current], x) : x \in sirets}
  <2>1. PerimeterIn(current)' = {r.steu : r \in all} \cup {r.scl : r \in all}
    BY <1>1 DEF PerimeterIn, SiretsIn
  <2>2. droits \subseteq all BY <1>3 DEF Live
  <2> HIDE DEF all, droits
  <2> QED BY <1>1, <2>1, <2>2
<1>7. RightsFound'
  <2>1. SiretsIn(w)' = SiretsIn(w) BY <1>1 DEF SiretsIn
  <2> QED BY <1>1, <1>2, <1>3, <1>6, <2>1 DEF RightsFound, SiretsIn
<1>8. IdsFound' BY <1>1, <1>4 DEF IdsFound
<1>9. RowsFound' BY <1>1, <1>2, <1>4, EmptySeq DEF RowsFound, Reading
<1> QED BY <1>5, <1>7, <1>8, <1>9 DEF RowsInv

\* Where a request goes after a page.
LEMMA AfterPage ==
    ASSUME NEW more, NEW count
    PROVE  /\ After(more, count) \in {"done", "tooMany", "resolve", "count"}
           /\ After(more, count) = "count" => request.dash \notin ByIds
BY DEF After, FirstOf

LEMMA CollectFound ==
    ASSUME RowsInv, NEW more \in Seq(RowsSeen), NEW count, Collect(more, count), Asked # {}, Reading,
           UNCHANGED <<current, exposed, user, request, rfa, auth>>
    PROVE  RowsInv'
<1>1. /\ rows' = (IF After(more, count) = "tooMany" THEN <<>> ELSE rows \o more)
      /\ stage' = After(more, count)
  BY DEF Collect
<1>2. stage' \in {"done", "tooMany", "resolve", "count"} /\ (stage' = "count" => request.dash \notin ByIds)
  BY <1>1, AfterPage
<1>3. /\ RowsSeen' = RowsSeen /\ Asked' = Asked
      /\ \A v : PerimeterIn(v)' = PerimeterIn(v) /\ SiretsIn(v)' = SiretsIn(v)
  BY DEF RowsSeen, Asked, PerimeterIn, SiretsIn
<1>4. RequestOK' BY <1>2 DEF RowsInv, RequestOK, Ended
<1>5. RightsFound'
  <2>1. PICK w \in exposed : rfa \in SiretsIn(w) BY DEF RowsInv, RightsFound, Reading
  <2>2. PICK v \in exposed : auth.steus \cup auth.scls \subseteq PerimeterIn(v) BY DEF RowsInv, RightsFound
  <2>3. w \in exposed' /\ rfa' \in SiretsIn(w)' BY <1>3, <2>1
  <2>4. v \in exposed' /\ auth'.steus \cup auth'.scls \subseteq PerimeterIn(v)' BY <1>3, <2>2
  <2> QED BY <2>3, <2>4 DEF RightsFound
<1>6. IdsFound' BY <1>2 DEF IdsFound
<1>7. RowsFound'
  <2>1. rows \o more \in Seq(RowsSeen) BY ConcatProperties DEF RowsInv, RowsFound
  <2>2. rows' \in Seq(RowsSeen') BY <1>1, <1>3, <2>1, EmptySeq
  <2> QED BY <1>2, <1>3, <2>2 DEF RowsFound
<1> QED BY <1>4, <1>5, <1>6, <1>7 DEF RowsInv

LEMMA StepIds == ASSUME RowsInv, ResolveIds PROVE RowsInv'
<1>1. /\ stage = "resolve" /\ ids' = Resolved(Live, request, Asked)
      /\ UNCHANGED <<current, exposed, user, request, rfa, auth>>
  BY DEF ResolveIds
<1>2. Reading /\ Asked # {} /\ current \in exposed BY <1>1 DEF Reading, RowsInv, RowsFound, RequestOK
<1>3. CASE Collect(<<>>, 0)
  <2>1. <<>> \in Seq(RowsSeen) BY EmptySeq
  <2> QED BY <1>1, <1>2, <1>3, <2>1, CollectFound
<1>4. CASE stage' = "count" /\ UNCHANGED <<total, page, rows>>
  <2>1. /\ RowsSeen' = RowsSeen /\ Asked' = Asked
        /\ \A v : PerimeterIn(v)' = PerimeterIn(v) /\ SiretsIn(v)' = SiretsIn(v)
    BY <1>1 DEF RowsSeen, Asked, PerimeterIn, SiretsIn
  <2>2. RequestOK' BY <1>1, <1>4 DEF RowsInv, RequestOK
  <2>3. RightsFound'
    <3>1. PICK w \in exposed : rfa \in SiretsIn(w) BY <1>1 DEF RowsInv, RightsFound
    <3>2. PICK v \in exposed : auth.steus \cup auth.scls \subseteq PerimeterIn(v) BY <1>2 DEF RowsInv, RightsFound
    <3>3. w \in exposed' /\ rfa' \in SiretsIn(w)' BY <1>1, <2>1, <3>1
    <3>4. v \in exposed' /\ auth'.steus \cup auth'.scls \subseteq PerimeterIn(v)' BY <1>1, <2>1, <3>2
    <3> QED BY <3>3, <3>4 DEF RightsFound
  <2>4. IdsFound' BY <1>1, <1>2, <2>1 DEF IdsFound, Live
  <2>5. RowsFound' BY <1>2, <1>4, <2>1 DEF RowsInv, RowsFound
  <2> QED BY <2>2, <2>3, <2>4, <2>5 DEF RowsInv
<1> QED BY <1>3, <1>4 DEF ResolveIds

LEMMA StepCount == ASSUME RowsInv, CountRows PROVE RowsInv'
<1>1. stage = "count" /\ stage' = "data" /\ UNCHANGED <<current, exposed, user, request, rfa, auth, ids, rows>>
  BY DEF CountRows
<1>2. /\ RowsSeen' = RowsSeen /\ Asked' = Asked
      /\ \A v : PerimeterIn(v)' = PerimeterIn(v) /\ SiretsIn(v)' = SiretsIn(v)
  BY <1>1 DEF RowsSeen, Asked, PerimeterIn, SiretsIn
<1>3. RequestOK' BY <1>1 DEF RowsInv, RequestOK
<1>4. RightsFound'
  <2>1. PICK w \in exposed : rfa \in SiretsIn(w) BY <1>1 DEF RowsInv, RightsFound
  <2>2. PICK v \in exposed : auth.steus \cup auth.scls \subseteq PerimeterIn(v)
    BY <1>1 DEF RowsInv, RightsFound, Reading
  <2>3. w \in exposed' /\ rfa' \in SiretsIn(w)' BY <1>1, <1>2, <2>1
  <2>4. v \in exposed' /\ auth'.steus \cup auth'.scls \subseteq PerimeterIn(v)' BY <1>1, <1>2, <2>2
  <2> QED BY <2>3, <2>4 DEF RightsFound
<1>5. IdsFound' BY <1>1, <1>2 DEF RowsInv, IdsFound
<1>6. RowsFound' BY <1>1, <1>2 DEF RowsInv, RowsFound, Reading
<1> QED BY <1>3, <1>4, <1>5, <1>6 DEF RowsInv

LEMMA StepRead == ASSUME FiniteAnswers, RowsInv, ReadPage, page \in Nat \ {0} PROVE RowsInv'
<1>1. stage = "data" /\ UNCHANGED <<current, exposed, user, request, rfa, auth, ids>> BY DEF ReadPage
<1>2. Reading /\ Asked # {} BY <1>1 DEF Reading, RowsInv, RowsFound
<1>3. Found \subseteq RowsSeen BY <1>1, FoundIsSeen DEF RowsInv
<1>4. IsFiniteSet(Found) BY DEF FiniteAnswers, Answers, Found, Live, RowsInv, RequestOK
<1>5. CASE rows' = SetToSeq(Found) /\ stage' = "done"
  <2>1. rows' \in Seq(RowsSeen) BY <1>3, <1>4, <1>5, SeqOfSet, SeqMonotonic
  <2>2. /\ RowsSeen' = RowsSeen /\ Asked' = Asked
        /\ \A v : PerimeterIn(v)' = PerimeterIn(v) /\ SiretsIn(v)' = SiretsIn(v)
    BY <1>1 DEF RowsSeen, Asked, PerimeterIn, SiretsIn
  <2>3. RequestOK' BY <1>1, <1>5 DEF RowsInv, RequestOK, Ended
  <2>4. RightsFound'
    <3>1. PICK w \in exposed : rfa \in SiretsIn(w) BY <1>1 DEF RowsInv, RightsFound
    <3>2. PICK v \in exposed : auth.steus \cup auth.scls \subseteq PerimeterIn(v) BY <1>2 DEF RowsInv, RightsFound
    <3>3. w \in exposed' /\ rfa' \in SiretsIn(w)' BY <1>1, <2>2, <3>1
    <3>4. v \in exposed' /\ auth'.steus \cup auth'.scls \subseteq PerimeterIn(v)' BY <1>1, <2>2, <3>2
    <3> QED BY <3>3, <3>4 DEF RightsFound
  <2>5. IdsFound' BY <1>5 DEF IdsFound
  <2>6. RowsFound' BY <1>2, <1>5, <2>1, <2>2 DEF RowsFound
  <2> QED BY <2>3, <2>4, <2>5, <2>6 DEF RowsInv
<1>6. CASE \E s \in Orders(Found) : Collect(PageOf(s, page), counted)
  <2>1. PICK s \in Orders(Found) : Collect(PageOf(s, page), counted) BY <1>6
  <2>2. s \in Seq(RowsSeen) BY <1>3, <1>4, SeqsOfSet, SeqMonotonic DEF Orders
  <2>3. PageOf(s, page) \in Seq(RowsSeen) BY <2>2, PageOfSeq
  <2> QED BY <1>1, <1>2, <2>1, <2>3, CollectFound
<1> QED BY <1>5, <1>6 DEF ReadPage

----------------------------------------------------------------------------
(* Exports that nothing disturbs *)

\* Without identifiers there are no rows.
LEMMA NoIdsNoRows ==
    ASSUME NEW v, NEW r \in Requests_, r.dash \in ByIds, NEW codes
    PROVE  Query(Reference_[v], r, codes, {}) = {}
<1> DEFINE db == Reference_[v]
<1>1. CASE r.dash \in DeTransmission
  <2>1. \A x \in ListTransmissionASRetard(db, r, {}) : FALSE
    <3>1. CASE r.dash = "transmissionSteu" BY <3>1, SiteTransmissionSteu DEF ListTransmissionASRetard
    <3>2. CASE r.dash = "transmissionScl" BY <3>2, SiteTransmissionScl DEF ListTransmissionASRetard
    <3> QED BY <1>1, <3>1, <3>2 DEF DeTransmission
  <2> QED BY <1>1, <2>1, WhichQuery
<1>2. CASE r.dash \in DeBilan
  <2>1. \A x \in ListBilan(db, r, {}) : FALSE
    <3>1. CASE r.dash = "bilanSteu" BY <3>1, SiteBilanSteu DEF ListBilan
    <3>2. CASE r.dash = "bilanScl" BY <3>2, SiteBilanScl DEF ListBilan
    <3> QED BY <1>2, <3>1, <3>2 DEF DeBilan
  <2> QED BY <1>2, <2>1, WhichQuery
<1>3. CASE r.dash \in DEvenement
  <2>1. \A x \in ListEvenement(db, r, {}) : FALSE
    <3>1. CASE r.dash = "evenementSteu" BY <3>1, SiteEvenementSteu DEF ListEvenement
    <3>2. CASE r.dash = "evenementScl" BY <3>2, SiteEvenementScl DEF ListEvenement
    <3> QED BY <1>3, <3>1, <3>2 DEF DEvenement
  <2> QED BY <1>3, <2>1, WhichQuery
<1>4. CASE r.dash \in {"conformiteSteuDetail", "conformiteSclDetail"}
  <2>1. r.dash \in DeConformite BY <1>4 DEF DeConformite
  <2>2. CASE r.dash = "conformiteSteuDetail"
    <3>1. ListConformite(db, r, codes, {}) = UNION {Shown(r.code, FindConformiteSteuDetail(db, i, Filters.year)) : i \in {}}
      BY <2>2 DEF ListConformite
    <3> QED BY <2>1, <3>1, WhichQuery
  <2>3. CASE r.dash = "conformiteSclDetail"
    <3>1. ListConformite(db, r, codes, {}) = UNION {Shown(r.code, FindConformiteSclDetail(db, i, Filters.year)) : i \in {}}
      BY <2>3 DEF ListConformite
    <3> QED BY <2>1, <3>1, WhichQuery
  <2> QED BY <1>4, <2>2, <2>3
<1> QED BY <1>1, <1>2, <1>3, <1>4 DEF ByIds

\* Of two rows of an export, the one comes first whose key does.
LEMMA RowsAreCompared ==
    ASSUME NumericKeys, NEW v \in 1 .. Len(Reference_), NEW r \in Requests_, r.export, NEW codes, NEW cdns,
           NEW x \in Answers(v, r, codes, cdns), NEW y \in Answers(v, r, codes, cdns)
    PROVE  IF x.keys = y.keys THEN ~Before(x.keys, y.keys)
           ELSE Before(x.keys, y.keys) \/ Before(y.keys, x.keys)
<1>1. PICK n \in Nat : x.keys \in [1 .. n -> Int] /\ y.keys \in [1 .. n -> Int] BY DEF NumericKeys
<1> QED BY <1>1, KeysAreCompared

\* Two orders of the same rows are one, if the sort leaves no tie: a row stands after
\* those that come before it, however they are listed.
LEMMA OneOrder ==
    ASSUME NEW F, IsFiniteSet(F), Untied(F),
           \A x, y \in F : IF x.keys = y.keys THEN ~Before(x.keys, y.keys)
                           ELSE Before(x.keys, y.keys) \/ Before(y.keys, x.keys),
           NEW s \in Orders(F), NEW t \in Orders(F)
    PROVE  s = t
<1> DEFINE n == Cardinality(F)
           Ahead(x) == {y \in F : Before(y.keys, x.keys)}
<1>1. ASSUME NEW u \in Orders(F)
      PROVE  /\ u \in [1 .. n -> F] /\ Len(u) = n /\ n \in Nat /\ u \in Seq(F)
             /\ \A i, j \in 1 .. n : i # j => u[i] # u[j]
             /\ \A i, j \in 1 .. n : i < j => ~Before(u[j].keys, u[i].keys)
             /\ \A x \in F : \E i \in 1 .. n : u[i] = x
  <2>1. u \in SetToSeqs(F) /\ \A i, j \in 1 .. Len(u) : i < j => ~Before(u[j].keys, u[i].keys) BY DEF Orders
  <2>2. /\ u \in [1 .. n -> F] /\ Len(u) = n /\ n \in Nat /\ u \in Seq(F)
        /\ \A i, j \in 1 .. n : i # j => u[i] # u[j]
    BY <2>1, SeqsOfSet
  <2>3. u \in Injection(1 .. n, F) BY <2>2 DEF Injection, IsInjective
  <2>4. Cardinality(1 .. n) = n /\ IsFiniteSet(1 .. n) BY <2>2, FS_Interval
  <2>5. u \in Surjection(1 .. n, F) BY <2>3, <2>4, FS_Injection
  <2> QED BY <2>1, <2>2, <2>5 DEF Surjection
<1>2. ASSUME NEW u \in Orders(F), NEW i \in 1 .. n PROVE Cardinality(Ahead(u[i])) = i - 1
  <2>0. /\ n \in Nat /\ u \in [1 .. n -> F]
        /\ \A j, k \in 1 .. n : j # k => u[j] # u[k]
        /\ \A j, k \in 1 .. n : j < k => ~Before(u[k].keys, u[j].keys)
        /\ \A x \in F : ~Before(x.keys, x.keys)
    BY <1>1
  <2> HIDE DEF n
  <2>9. i \in Int /\ 1 <= i /\ i <= n /\ u[i] \in F BY <2>0
  <2>1. Ahead(u[i]) = {u[j] : j \in 1 .. i - 1}
    <3>1. ASSUME NEW j \in 1 .. i - 1 PROVE u[j] \in Ahead(u[i])
      <4>1. j \in 1 .. n /\ j < i /\ u[j] \in F /\ u[i] \in F /\ u[j] # u[i] BY <2>0, <2>9
      <4>2. ~Before(u[i].keys, u[j].keys) BY <2>0, <4>1
      <4>3. u[j].keys # u[i].keys BY <4>1 DEF Untied
      <4> QED BY <4>1, <4>2, <4>3
    <3>2. ASSUME NEW y \in Ahead(u[i]) PROVE y \in {u[j] : j \in 1 .. i - 1}
      <4>1. PICK j \in 1 .. n : u[j] = y BY <1>1
      <4>2. Before(u[j].keys, u[i].keys) BY <4>1
      <4>3. ~(i < j) BY <2>0, <4>2
      <4>4. j # i BY <2>0, <2>9, <4>2
      <4>5. j \in 1 .. i - 1 BY <2>0, <2>9, <4>3, <4>4
      <4> QED BY <4>1, <4>5
    <3> QED BY <3>1, <3>2
  <2> DEFINE g == [j \in 1 .. i - 1 |-> u[j]]
             B == Ahead(u[i])
  <2>2. g \in [1 .. i - 1 -> B] BY <2>1
  <2>3. IsInjective(g)
    <3>1. \A j, k \in 1 .. i - 1 : u[j] = u[k] => j = k BY <2>0, <2>9
    <3> QED BY <3>1 DEF IsInjective
  <2>4. \A b \in B : \E j \in 1 .. i - 1 : g[j] = b BY <2>1
  <2> HIDE DEF g, B
  <2>5. ExistsBijection(1 .. i - 1, B)
    BY <2>2, <2>3, <2>4 DEF ExistsBijection, Bijection, Injection, Surjection
  <2>6. i - 1 \in Nat BY <2>9
  <2> QED BY <2>5, <2>6, FS_CountingElements DEF B
<1>3. ASSUME NEW i \in 1 .. n PROVE s[i] = t[i]
  <2>1. s[i] \in F BY <1>1
  <2>2. PICK j \in 1 .. n : t[j] = s[i] BY <1>1, <2>1
  <2>3. i - 1 = j - 1 BY <1>2, <2>2
  <2>4. i = j BY <1>1, <2>3
  <2> QED BY <2>2, <2>4
<1>4. s \in Seq(F) /\ t \in Seq(F) /\ Len(s) = n /\ Len(t) = n BY <1>1
<1> HIDE DEF n
<1> QED BY <1>3, <1>4, SeqEqual

Count == Cardinality(Whole(1))

\* Of an export that no restore has met: the pages read are full, the first total holds,
\* and what was collected is the beginning of the only order there is.
ExportInv ==
    /\ page \in Nat \ {0}
    /\ current = 1 /\ request.export =>
        /\ stage \in {"guard", "perimeter"} => page = 1 /\ rows = <<>>
        /\ Reading => Len(rows) = (page - 1) * PageSize
        /\ stage = "resolve" => request.dash \in ByIds
        /\ stage = "data" => counted = Count
        /\ Reading /\ (page > 1 \/ stage # "resolve") /\ request.dash \in ByIds =>
               ids = Resolved(Reference_[1], request, Asked)
        /\ Reading /\ page > 1 => total = Count /\ Count <= MaxRows /\ (page - 1) * PageSize < Count
        /\ Reading /\ Untied(Whole(1)) =>
               \A s \in Orders(Whole(1)) : rows = SubSeq(s, 1, (page - 1) * PageSize)
        /\ stage = "done" => /\ Len(rows) = Count /\ Count <= MaxRows
                             /\ Untied(Whole(1)) => rows \in Orders(Whole(1))

AnswerInv == RowsInv /\ ExportInv

\* While an export alone is read, what is found is the whole of the dashboard.
LEMMA FoundIsWhole ==
    ASSUME AnswerInv, current = 1, Reading
    PROVE  Found = Whole(1)
BY DEF AnswerInv, RowsInv, RowsFound, Found, Live, Whole

\* A page of the only order carries on from those before it.
LEMMA CarriesOn ==
    ASSUME NEW F, NEW s \in Seq(F), NEW p \in Nat \ {0}, (p - 1) * PageSize <= Len(s)
    PROVE  SubSeq(s, 1, (p - 1) * PageSize) \o PageOf(s, p)
               = SubSeq(s, 1, IF p * PageSize < Len(s) THEN p * PageSize ELSE Len(s))
<1> DEFINE a == (p - 1) * PageSize
           e == IF p * PageSize < Len(s) THEN p * PageSize ELSE Len(s)
<1>1. a \in Nat /\ p * PageSize \in Nat /\ a <= p * PageSize OBVIOUS
<1>2. Len(s) \in Nat OBVIOUS
<1>3. PageOf(s, p) = SubSeq(s, a + 1, e) BY DEF PageOf
<1>4. e \in Nat /\ a <= e /\ e <= Len(s) BY <1>1, <1>2
<1> HIDE DEF a, e
<1>5. 1 \in 1 .. Len(s) + 1 /\ a \in 1 - 1 .. Len(s) /\ e \in a .. Len(s) BY <1>1, <1>2, <1>4 DEF a
<1>6. SubSeq(s, 1, a) \o SubSeq(s, a + 1, e) = SubSeq(s, 1, e) BY <1>5, ConcatAdjacentSubSeq
<1> QED BY <1>3, <1>6 DEF a, e

LEMMA ExportPage ==
    ASSUME FiniteAnswers, NumericKeys, AnswerInv, current = 1, request.export, stage = "data",
           NEW s \in Orders(Found), Collect(PageOf(s, page), counted),
           UNCHANGED <<current, exposed, user, request, rfa, auth, ids, counted>>
    PROVE  ExportInv'
<1> DEFINE F == Whole(1)
           n == Count
           a == (page - 1) * PageSize
           b == page * PageSize
           more == PageOf(s, page)
<1>1. Reading /\ Found = F /\ Whole(1)' = Whole(1) /\ Asked' = Asked /\ Count' = Count
  <2>1. Reading BY DEF Reading
  <2>2. Asked' = Asked BY DEF Asked
  <2>3. Whole(1)' = Whole(1) BY <2>2 DEF Whole
  <2> QED BY <2>1, <2>2, <2>3, FoundIsWhole DEF Count
<1>2. IsFiniteSet(F)
  <2>1. IsFiniteSet(Found) BY DEF FiniteAnswers, Answers, Found, Live, AnswerInv, RowsInv, RequestOK
  <2> QED BY <1>1, <2>1
<1>3. s \in Orders(F) /\ s \in Seq(F) /\ Len(s) = n /\ n \in Nat
  <2>1. s \in SetToSeqs(F) BY <1>1 DEF Orders
  <2> QED BY <1>1, <1>2, <2>1, SeqsOfSet DEF Count
<1>4. page \in Nat \ {0} /\ page' \in Nat \ {0} BY DEF AnswerInv, ExportInv, Collect
<1>5. a \in Nat /\ b \in Nat /\ b = a + PageSize /\ (page = 1 => a = 0 /\ b = PageSize) BY <1>4
<1>6. /\ Len(rows) = a /\ counted = n
      /\ request.dash \in ByIds => ids = Resolved(Reference_[1], request, Asked)
      /\ page > 1 => total = n /\ n <= MaxRows /\ a < n
      /\ Untied(F) => rows = SubSeq(s, 1, a)
  BY <1>1, <1>3 DEF AnswerInv, ExportInv
<1>7. more \in Seq(F) /\ Len(more) = IF a >= n THEN 0 ELSE IF b < n THEN PageSize ELSE n - a
  BY <1>3, <1>4, PageOfSeq
<1>8. a <= n BY <1>4, <1>5, <1>6, <1>3
<1>9. rows \o more \in Seq(RowsSeen) /\ Len(rows \o more) = a + Len(more)
  <2>1. F \subseteq RowsSeen BY <1>1, FoundIsSeen DEF AnswerInv, RowsInv
  <2>2. more \in Seq(RowsSeen) BY <1>7, <2>1, SeqMonotonic
  <2> QED BY <1>6, <2>2, ConcatProperties DEF AnswerInv, RowsInv, RowsFound
<1>10. Untied(F) => rows \o more = SubSeq(s, 1, IF b < n THEN b ELSE n)
  BY <1>3, <1>4, <1>6, <1>8, CarriesOn
<1>11. Untied(F) => \A t \in Orders(F) : t = s
  <2>1. \A x, y \in F : IF x.keys = y.keys THEN ~Before(x.keys, y.keys)
                        ELSE Before(x.keys, y.keys) \/ Before(y.keys, x.keys)
    <3>1. F = Answers(1, request, Asked, ids)
      BY <1>1 DEF Answers, Found, Live
    <3>2. 1 \in 1 .. Len(Reference_) /\ request \in Requests_ BY DEF AnswerInv, RowsInv, RequestOK
    <3> HIDE DEF F
    <3> QED BY <3>1, <3>2, RowsAreCompared
  <2> HIDE DEF F
  <2> QED BY <1>2, <1>3, <2>1, OneOrder
<1>12. /\ rows' = (IF After(more, n) = "tooMany" THEN <<>> ELSE rows \o more)
       /\ total' = (IF page = 1 THEN n ELSE total)
       /\ stage' = After(more, n)
       /\ page' = (IF stage' \in Ended THEN page ELSE page + 1)
  BY <1>6 DEF Collect
<1>13. FirstOf(request) \in {"resolve", "count"} /\ (FirstOf(request) = "resolve" => request.dash \in ByIds)
  BY DEF FirstOf
<1>14. Pages(IF page = 1 THEN n ELSE total) = Pages(n) BY <1>4, <1>6
<1>15. page + 1 > Pages(n) <=> n <= b BY <1>3, <1>4, PagesOf
<1> HIDE DEF F, n, a, b, more
<1>16. CASE stage' = "tooMany" BY <1>4, <1>16 DEF ExportInv, Reading
<1>17. CASE stage' = "done"
  <2>1. n <= b /\ n <= MaxRows
    <3>1. CASE page = 1
      <4>1. ~(n > MaxRows) BY <1>12, <1>17, <3>1 DEF After
      <4>2. n <= Len(more) \/ page + 1 > Pages(n) BY <1>12, <1>13, <1>17, <3>1 DEF After
      <4> QED BY <1>3, <1>5, <1>7, <1>8, <1>15, <3>1, <4>1, <4>2, ConsultationAssumption
    <3>2. CASE page # 1
      <4>1. page + 1 > Pages(n) BY <1>12, <1>13, <1>14, <1>17, <3>2 DEF After
      <4> QED BY <1>4, <1>6, <1>15, <3>2, <4>1
    <3> QED BY <3>1, <3>2
  <2>2. rows' = rows \o more BY <1>12, <1>17
  <2>3. Len(rows') = n BY <1>3, <1>5, <1>7, <1>8, <1>9, <2>1, <2>2
  <2>4. Untied(F) => rows' = s
    <3>1. SubSeq(s, 1, n) = s BY <1>3, SubSeqFull
    <3> QED BY <1>3, <1>5, <1>10, <2>1, <2>2, <3>1
  <2>5. Len(rows') = Count' /\ Count' <= MaxRows /\ (Untied(Whole(1)') => rows' \in Orders(Whole(1)'))
    BY <1>1, <1>3, <2>1, <2>3, <2>4 DEF n, F
  <2> QED BY <1>4, <1>17, <2>5 DEF ExportInv, Reading
<1>18. CASE stage' \in {"resolve", "count"}
  <2>1. page' = page + 1 /\ rows' = rows \o more /\ total' = n
    BY <1>6, <1>4, <1>12, <1>18 DEF Ended
  <2>2. n <= MaxRows /\ b < n
    <3>1. CASE page = 1
      <4>1. ~(n > MaxRows) /\ ~(n <= Len(more)) BY <1>12, <1>18, <3>1 DEF After
      <4>2. ~(page + 1 > Pages(n)) BY <1>12, <1>18, <3>1 DEF After
      <4> QED BY <1>3, <1>5, <1>15, <4>1, <4>2, ConsultationAssumption
    <3>2. CASE page # 1
      <4>1. ~(page + 1 > Pages(n)) BY <1>12, <1>14, <1>18, <3>2 DEF After
      <4> QED BY <1>3, <1>4, <1>5, <1>6, <1>15, <3>2, <4>1
    <3> QED BY <3>1, <3>2
  <2>3. (page' - 1) * PageSize = b BY <1>4, <2>1 DEF b
  <2>4. Len(rows') = b BY <1>3, <1>5, <1>7, <1>9, <2>1, <2>2, ConsultationAssumption
  <2>5. Untied(F) => \A t \in Orders(F) : rows' = SubSeq(t, 1, b) BY <1>10, <1>11, <2>1, <2>2
  <2>6. request.dash \in ByIds => ids' = Resolved(Reference_[1], request', Asked') BY <1>1, <1>6
  <2>7. Untied(Whole(1)') => \A t \in Orders(Whole(1)') : rows' = SubSeq(t, 1, b) BY <1>1, <2>5 DEF F
  <2>8. total' = Count' /\ Count' <= MaxRows /\ b < Count' BY <1>1, <2>1, <2>2 DEF n
  <2>9. stage' = "resolve" => request'.dash \in ByIds BY <1>12, <1>13 DEF After
  <2> HIDE DEF b
  <2> QED BY <1>4, <1>18, <2>3, <2>4, <2>6, <2>7, <2>8, <2>9 DEF ExportInv
<1> QED BY <1>12, <1>16, <1>17, <1>18, AfterPage

\* Before the first page nothing has been collected, and its page is the first.
LEMMA FirstPageIsEmpty ==
    ASSUME page = 1, rows = <<>>
    PROVE  Len(rows) = (page - 1) * PageSize /\ \A s : rows = SubSeq(s, 1, (page - 1) * PageSize)
<1>1. (page - 1) * PageSize = 0 OBVIOUS
<1>2. \A s : SubSeq(s, 1, 0) = <<>> BY SubSeqEmpty
<1> QED BY <1>1, <1>2

\* Nothing has one order.
LEMMA EmptyOrder == <<>> \in Orders({})
<1>1. Cardinality({}) = 0 BY FS_EmptySet
<1>2. <<>> \in Seq({}) /\ Len(<<>>) = 0 /\ DOMAIN <<>> = 1 .. 0 OBVIOUS
<1>3. <<>> \in [1 .. 0 -> {}]
  <2>1. <<>> = [i \in 1 .. 0 |-> <<>>[i]] BY <1>2
  <2>2. \A i \in 1 .. 0 : <<>>[i] \in {} OBVIOUS
  <2> QED BY <2>1, <2>2
<1>4. <<>> \in SetToSeqs({}) BY <1>1, <1>2, <1>3 DEF SetToSeqs
<1> QED BY <1>2, <1>4 DEF Orders

LEMMA ExportInit == ConsultationInit => ExportInv
BY DEF ConsultationInit, ExportInv, Reading

LEMMA ExportSwap == ASSUME AnswerInv, Swap PROVE ExportInv'
<1>1. current' = current + 1 /\ page' = page BY DEF Swap
<1>2. current' # 1 BY <1>1 DEF AnswerInv, RowsInv, RequestOK
<1> QED BY <1>1, <1>2 DEF AnswerInv, ExportInv

LEMMA ExportSiret == ASSUME AnswerInv, FindSiret PROVE ExportInv'
BY DEF AnswerInv, FindSiret, ExportInv, Reading

LEMMA ExportPerimeter == ASSUME AnswerInv, FindPerimeter PROVE ExportInv'
<1>1. /\ stage = "perimeter" /\ UNCHANGED <<current, request, ids, page, rows>>
      /\ stage' = (IF auth'.steus \cup auth'.scls = {} THEN "forbidden"
                   ELSE IF Cdas(request, auth'.steus, auth'.scls) = {} THEN "done" ELSE FirstOf(request))
  BY DEF FindPerimeter
<1>2. stage' \in {"forbidden", "done", "resolve", "count"} /\ (stage' = "count" => request.dash \notin ByIds)
      /\ (stage' = "resolve" => request.dash \in ByIds)
      /\ (stage' = "done" => Asked' = {})
  BY <1>1 DEF FirstOf, Asked
<1>3. page' \in Nat \ {0} BY <1>1 DEF AnswerInv, ExportInv
<1> SUFFICES ASSUME current' = 1, request'.export PROVE ExportInv'
  BY <1>3 DEF ExportInv
<1>4. page' = 1 /\ rows' = <<>> BY <1>1 DEF AnswerInv, ExportInv
<1>5. Len(rows') = (page' - 1) * PageSize /\ \A s : rows' = SubSeq(s, 1, (page' - 1) * PageSize)
  <2>1. (page' - 1) * PageSize = 0 BY <1>4
  <2>2. \A s : SubSeq(s, 1, 0) = <<>> BY SubSeqEmpty
  <2> QED BY <1>4, <2>1, <2>2
<1>6. CASE stage' = "done"
  <2>1. Whole(1)' = {} BY <1>2, <1>6 DEF Whole
  <2>2. Count' = 0 BY <2>1, FS_EmptySet DEF Count
  <2>3. Len(rows') = Count' /\ Count' <= MaxRows /\ rows' \in Orders(Whole(1)')
    <3>1. Len(rows') = 0 BY <1>4
    <3>2. rows' \in Orders(Whole(1)') BY <1>4, <2>1, EmptyOrder, Zenon
    <3> QED BY <2>2, <3>1, <3>2, ConsultationAssumption
  <2> QED BY <1>3, <1>6, <2>3 DEF ExportInv, Reading
<1>7. CASE stage' # "done"
  BY <1>1, <1>2, <1>3, <1>4, <1>5, <1>7 DEF ExportInv, Reading
<1> QED BY <1>6, <1>7

\* Identifiers do not change while nothing is replaced; without any there is nothing to read.
LEMMA ExportIds == ASSUME AnswerInv, ResolveIds PROVE ExportInv'
<1>1. /\ stage = "resolve" /\ ids' = Resolved(Live, request, Asked)
      /\ UNCHANGED <<current, exposed, user, request, rfa, auth, counted>>
  BY DEF ResolveIds
<1>2. Reading /\ Asked # {} /\ Asked' = Asked BY <1>1 DEF Reading, AnswerInv, RowsInv, RowsFound, Asked
<1>3. page' \in Nat \ {0} BY DEF AnswerInv, ExportInv, ResolveIds, Collect
<1> SUFFICES ASSUME current = 1, request.export PROVE ExportInv'
  BY <1>1, <1>3 DEF ExportInv
<1>4. ids' = Resolved(Reference_[1], request, Asked) BY <1>1 DEF Live
<1>5. page \in Nat \ {0} /\ Len(rows) = (page - 1) * PageSize /\ rows \in Seq(RowsSeen)
  BY <1>2 DEF AnswerInv, ExportInv, RowsInv, RowsFound
<1>6. page = 1 => rows = <<>>
  <2>1. page = 1 => Len(rows) = 0 BY <1>5
  <2> QED BY <1>5, <2>1, EmptySeq
<1>7. page > 1 => Whole(1)' = Whole(1)
  <2>1. CASE request.dash \in ByIds
    BY <1>1, <1>2, <1>4, <2>1 DEF AnswerInv, ExportInv, Whole
  <2>2. CASE request.dash \notin ByIds
    <3>1. request \in Requests_ BY DEF AnswerInv, RowsInv, RequestOK
    <3>2. Query(Reference_[1], request, Asked, ids') = Query(Reference_[1], request, Asked, ids)
      BY <2>2, <3>1, IdsNotNeeded
    <3> QED BY <1>1, <1>2, <3>2 DEF Whole
  <2> QED BY <2>1, <2>2
<1>8. CASE stage' = "count" /\ UNCHANGED <<total, page, rows>>
  <2>1. CASE page = 1
    <3>1. Len(rows) = (page - 1) * PageSize /\ \A s : rows = SubSeq(s, 1, (page - 1) * PageSize)
      BY <1>6, <2>1, FirstPageIsEmpty
    <3> QED BY <1>1, <1>2, <1>3, <1>4, <1>8, <2>1, <3>1 DEF ExportInv, Reading
  <2>2. CASE page # 1
    <3>1. page > 1 /\ Whole(1)' = Whole(1) /\ Count' = Count BY <1>5, <1>7, <2>2 DEF Count
    <3> QED BY <1>1, <1>2, <1>3, <1>4, <1>8, <3>1 DEF AnswerInv, ExportInv, Reading
  <2> QED BY <2>1, <2>2
<1>9. CASE ids' = {} /\ Collect(<<>>, 0) /\ request.dash \in ByIds
  <2>1. Whole(1)' = {}
    <3>1. request \in Requests_ BY DEF AnswerInv, RowsInv, RequestOK
    <3>2. Query(Reference_[1], request, Asked, {}) = {} BY <1>9, <3>1, NoIdsNoRows
    <3> QED BY <1>1, <1>2, <1>9, <3>2 DEF Whole
  <2>2. Count' = 0 BY <2>1, FS_EmptySet DEF Count
  <2>3. page = 1
    <3>1. page > 1 => Count' = Count /\ (page - 1) * PageSize < Count BY <1>2, <1>7 DEF Count, AnswerInv, ExportInv
    <3>2. (page - 1) * PageSize >= 0 BY <1>5
    <3> QED BY <1>5, <2>2, <3>1, <3>2
  <2>4. stage' = "done" /\ rows' = <<>> \o <<>>
    <3>1. After(<<>>, 0) = "done" BY <2>3, ConsultationAssumption DEF After
    <3> QED BY <1>6, <1>9, <2>3, <3>1 DEF Collect
  <2>5. rows' = <<>> BY <2>4
  <2>6. Len(rows') = Count' /\ Count' <= MaxRows /\ rows' \in Orders(Whole(1)')
    <3>1. Len(rows') = 0 BY <2>5
    <3>2. rows' \in Orders(Whole(1)') BY <2>1, <2>5, EmptyOrder, Zenon
    <3> QED BY <2>2, <3>1, <3>2, ConsultationAssumption
  <2> QED BY <1>3, <2>4, <2>6 DEF ExportInv, Reading
<1>10. request.dash \in ByIds BY <1>1 DEF AnswerInv, ExportInv
<1> QED BY <1>8, <1>9, <1>10 DEF ResolveIds

LEMMA ExportCount == ASSUME AnswerInv, CountRows PROVE ExportInv'
<1>1. /\ stage = "count" /\ stage' = "data" /\ counted' = Cardinality(Found)
      /\ UNCHANGED <<current, exposed, user, request, rfa, auth, ids, total, page, rows>>
  BY DEF CountRows
<1>2. Asked' = Asked BY <1>1 DEF Asked
<1>3. Whole(1)' = Whole(1) /\ Count' = Count BY <1>1, <1>2 DEF Whole, Count
<1>4. Reading BY <1>1 DEF Reading
<1>5. current = 1 => counted' = Count BY <1>1, <1>4, FoundIsWhole DEF Count
<1> QED BY <1>1, <1>2, <1>3, <1>4, <1>5 DEF AnswerInv, ExportInv, Reading

LEMMA ExportRead == ASSUME FiniteAnswers, NumericKeys, AnswerInv, ReadPage PROVE ExportInv'
<1>1. page' \in Nat \ {0} BY DEF AnswerInv, ExportInv, ReadPage, Collect
<1>2. stage = "data" /\ UNCHANGED <<current, exposed, user, request, rfa, auth, ids, counted>> BY DEF ReadPage
<1> SUFFICES ASSUME current = 1, request.export PROVE ExportInv'
  BY <1>1, <1>2 DEF ExportInv
<1>3. request.dash \notin Details BY ConsultationAssumption DEF AnswerInv, RowsInv, RequestOK
<1>4. PICK s \in Orders(Found) : Collect(PageOf(s, page), counted) BY <1>3 DEF ReadPage
<1> QED BY <1>2, <1>4, ExportPage

----------------------------------------------------------------------------
(* The theorems *)

PageOK == page \in Nat \ {0}

LEMMA RowsStep == ASSUME FiniteAnswers, RowsInv, PageOK, [ConsultationNext]_consultationVars PROVE RowsInv' /\ PageOK'
<1>1. CASE Swap BY <1>1, StepSwap DEF Swap, PageOK
<1>2. CASE FindSiret BY <1>2, StepSiret DEF FindSiret, PageOK
<1>3. CASE FindPerimeter BY <1>3, StepPerimeter DEF FindPerimeter, PageOK
<1>4. CASE ResolveIds
  <2>1. page' \in Nat \ {0} BY <1>4 DEF ResolveIds, Collect, PageOK
  <2> QED BY <1>4, <2>1, StepIds DEF PageOK
<1>5. CASE CountRows BY <1>5, StepCount DEF CountRows, PageOK
<1>6. CASE ReadPage
  <2>1. page' \in Nat \ {0} BY <1>6 DEF ReadPage, Collect, PageOK
  <2> QED BY <1>6, <2>1, StepRead DEF PageOK
<1>7. CASE UNCHANGED consultationVars
  <2>1. UNCHANGED <<current, exposed, user, request, rfa, auth, ids, page, rows, stage>> BY <1>7 DEF consultationVars
  <2>2. Asked' = Asked BY <2>1 DEF Asked
  <2>3. /\ RowsSeen' = RowsSeen /\ Reading' = Reading
        /\ \A v : PerimeterIn(v)' = PerimeterIn(v) /\ SiretsIn(v)' = SiretsIn(v)
    BY <2>1, <2>2 DEF RowsSeen, PerimeterIn, SiretsIn, Reading
  <2>4. RequestOK' BY <2>1 DEF RowsInv, RequestOK
  <2>5. RightsFound' BY <2>1, <2>3 DEF RowsInv, RightsFound
  <2>6. IdsFound' BY <2>1, <2>2 DEF RowsInv, IdsFound
  <2>7. RowsFound' BY <2>1, <2>2, <2>3 DEF RowsInv, RowsFound
  <2> QED BY <2>1, <2>4, <2>5, <2>6, <2>7 DEF RowsInv, PageOK
<1> QED BY <1>1, <1>2, <1>3, <1>4, <1>5, <1>6, <1>7 DEF ConsultationNext

\* What the request asks for is inside what was found of the rights.
LEMMA AskedWithinRights == Asked \subseteq auth.steus \cup auth.scls
BY DEF Asked, Cdas

LEMMA RowsOfBoth ==
    ASSUME StableIdentifiers, RowsInv, stage \in Ended
    PROVE  RowsOfUser /\ RowsOfDashboard
<1>1. rows = <<>> => RowsOfUser /\ RowsOfDashboard BY DEF RowsOfUser, RowsOfDashboard
<1> SUFFICES ASSUME rows # <<>> PROVE RowsOfUser /\ RowsOfDashboard
  BY <1>1
<1>2. rows \in Seq(RowsSeen) /\ Asked # {} BY DEF RowsInv, RowsFound
<1>3. PICK v \in exposed : auth.steus \cup auth.scls \subseteq PerimeterIn(v)
  <2>1. stage \in {"done", "tooMany"} BY DEF Ended, RowsInv, RowsFound
  <2> QED BY <2>1 DEF RowsInv, RightsFound
<1>4. Asked \subseteq PerimeterIn(v) BY <1>3, AskedWithinRights
<1>5. ASSUME NEW i \in 1 .. Len(rows)
      PROVE  /\ rows[i].site \in PerimeterIn(v)
             /\ \E a, b \in exposed : rows[i] \in Query(Reference_[a], request, Asked, Resolved(Reference_[b], request, Asked))
  <2>1. rows[i] \in RowsSeen BY <1>2
  <2>2. PICK s \in exposed \X exposed :
           rows[i] \in Query(Reference_[s[1]], request, Asked, Resolved(Reference_[s[2]], request, Asked))
    BY <2>1 DEF RowsSeen
  <2>3. s[1] \in exposed /\ s[2] \in exposed BY <2>2
  <2>4. s[1] \in 1 .. Len(Reference_) /\ s[2] \in 1 .. Len(Reference_)
    BY <2>3, ConsultationAssumption DEF RowsInv, RequestOK
  <2>5. request \in Requests_ BY DEF RowsInv, RequestOK
  <2>6. rows[i].site \in Asked BY <1>2, <2>2, <2>4, <2>5, SitesOfAnswer DEF Asked
  <2> QED BY <1>4, <2>2, <2>3, <2>6
<1> QED BY <1>3, <1>5 DEF RowsOfUser, RowsOfDashboard

\* Whatever the restore replaces between the steps of a request, every row of its answer is of
\* a site the user's intervenant answers for, and of the dashboard, in snapshots the request has
\* seen (hasUserAccessToOuvrages.guard.ts:18-48), as long as the restore does not give the
\* identifier of a site to another one.
THEOREM RowsOfTheUser ==
    ASSUME FiniteAnswers, StableIdentifiers
    PROVE  ConsultationSpec => [](stage \in Ended => RowsOfUser /\ RowsOfDashboard)
<1>1. ConsultationInit => RowsInv /\ PageOK BY RowsInit DEF ConsultationInit, PageOK
<1>2. RowsInv /\ PageOK /\ [ConsultationNext]_consultationVars => (RowsInv /\ PageOK)' BY RowsStep
<1>3. RowsInv /\ PageOK => (stage \in Ended => RowsOfUser /\ RowsOfDashboard) BY RowsOfBoth
<1> QED BY <1>1, <1>2, <1>3, PTL DEF ConsultationSpec

LEMMA AnswerStep ==
    ASSUME FiniteAnswers, NumericKeys, AnswerInv, [ConsultationNext]_consultationVars
    PROVE  AnswerInv'
<1>1. RowsInv' BY RowsStep DEF AnswerInv, ExportInv, PageOK
<1>2. CASE Swap BY <1>1, <1>2, ExportSwap DEF AnswerInv
<1>3. CASE FindSiret BY <1>1, <1>3, ExportSiret DEF AnswerInv
<1>4. CASE FindPerimeter BY <1>1, <1>4, ExportPerimeter DEF AnswerInv
<1>5. CASE ResolveIds BY <1>1, <1>5, ExportIds DEF AnswerInv
<1>6. CASE CountRows BY <1>1, <1>6, ExportCount DEF AnswerInv
<1>7. CASE ReadPage BY <1>1, <1>7, ExportRead DEF AnswerInv
<1>8. CASE UNCHANGED consultationVars
  <2>1. UNCHANGED <<current, request, auth, ids, total, counted, page, rows, stage>> BY <1>8 DEF consultationVars
  <2>2. Asked' = Asked BY <2>1 DEF Asked
  <2>3. Whole(1)' = Whole(1) /\ Count' = Count /\ Reading' = Reading BY <2>1, <2>2 DEF Whole, Count, Reading
  <2>4. ExportInv' BY <2>1, <2>2, <2>3 DEF AnswerInv, ExportInv
  <2> QED BY <1>1, <2>4 DEF AnswerInv
<1> QED BY <1>2, <1>3, <1>4, <1>5, <1>6, <1>7, <1>8 DEF ConsultationNext

\* One snapshot was seen: the first.
LEMMA Alone == ASSUME RequestOK, Cardinality(exposed) = 1 PROVE current = 1
<1>1. current \in Nat \ {0} /\ exposed = 1 .. current BY ConsultationAssumption DEF RequestOK
<1>2. Cardinality(1 .. current) = current - 1 + 1 BY <1>1, FS_Interval
<1> QED BY <1>1, <1>2

\* The answer promised by the code: only rows of the user and of the dashboard, and for an
\* export that no restore has met all of them, each once, in the order of the sort
\* (paginatedExport.service.ts:11-32).
THEOREM ConsultationCorrect ==
    ASSUME FiniteAnswers, StableIdentifiers, NumericKeys
    PROVE  ConsultationSpec => []ExportFaithful
<1>1. ConsultationInit => AnswerInv BY RowsInit, ExportInit DEF AnswerInv
<1>2. AnswerInv /\ [ConsultationNext]_consultationVars => AnswerInv' BY AnswerStep
<1>3. AnswerInv => ExportFaithful
  <2> SUFFICES ASSUME AnswerInv, stage \in Ended PROVE RowsOfUser /\ RowsOfDashboard /\ AllRows /\ RowsInOrder
    BY DEF ExportFaithful
  <2>1. RowsOfUser /\ RowsOfDashboard BY RowsOfBoth DEF AnswerInv
  <2>2. Undisturbed => /\ Len(rows) = Count /\ Count <= MaxRows
                       /\ Untied(Whole(1)) => rows \in Orders(Whole(1))
    <3>1. Undisturbed => current = 1 BY Alone DEF Undisturbed, AnswerInv, RowsInv
    <3> QED BY <3>1 DEF Undisturbed, AnswerInv, ExportInv
  <2> QED BY <2>1, <2>2 DEF AllRows, RowsInOrder, Count
<1> QED BY <1>1, <1>2, <1>3, PTL DEF ConsultationSpec
====
