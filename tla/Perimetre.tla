---- MODULE Perimetre ----
(***************************************************************************)
(* The perimeter of a user: the plants and systems of collection that his  *)
(* intervenant answers for, behind every dashboard.  The guard of a        *)
(* dashboard asks MasaProvider, which keeps an answer for a minute and     *)
(* shares a query that is under way; the restore of the reference schemas  *)
(* replaces the rows meanwhile.                                            *)
(* Abstracted: of the rows, only when they were read.                       *)
(***************************************************************************)
EXTENDS Integers, FiniteSets

CONSTANTS
    Requests,       \* requests to a dashboard
    Sirets,         \* intervenants
    Ttl,            \* how long an answer is kept: 60000 ms
    MaxFlight,      \* bound: how long a query may take
    MaxClock        \* bound of the clock

ASSUME PerimetreAssumption ==
    /\ Ttl \in Nat \ {0} /\ MaxFlight \in Nat /\ MaxClock \in Nat

VARIABLES
    clock,
    cache,          \* by intervenant: the entry of the cache manager, or NoEntry
    flight,         \* by intervenant: the shared promise, or NoFlight
    ask,            \* requests: where they stand
    servedAt        \* ghost: when what a request was served had been read

perimetreVars == <<clock, cache, flight, ask, servedAt>>

NoEntry == [at |-> -1, until |-> -1]
NoFlight == [phase |-> "none", since |-> -1, at |-> -1]
NotYet == [siret |-> "none", phase |-> "idle", since |-> -1]

Running(s) == flight[s].phase \in {"query", "set", "settled", "failed"}
Waits(r, s) == ask[r].phase = "waiting" /\ ask[r].siret = s

PerimetreTypeOK ==
    /\ clock \in 0 .. MaxClock
    /\ cache \in [Sirets -> [at : Int, until : Int]]
    /\ flight \in [Sirets -> [phase : {"none", "query", "set", "settled", "failed"}, since : Int, at : Int]]
    /\ ask \in [Requests -> [siret : Sirets \cup {"none"},
                             phase : {"idle", "asking", "missed", "waiting", "served", "refused"}, since : Int]]
    /\ servedAt \in [Requests -> Int]

PerimetreInit ==
    /\ clock = 0
    /\ cache = [s \in Sirets |-> NoEntry]
    /\ flight = [s \in Sirets |-> NoFlight]
    /\ ask = [r \in Requests |-> NotYet]
    /\ servedAt = [r \in Requests |-> -1]

\* canActivate: the intervenant of the session is known; the cache is asked.
Consult(r, s) ==
    /\ ask[r].phase = "idle"
    /\ ask' = [ask EXCEPT ![r] = [siret |-> s, phase |-> "asking", since |-> clock]]
    /\ UNCHANGED <<clock, cache, flight, servedAt>>

Serve(r, at) ==
    /\ ask' = [ask EXCEPT ![r].phase = "served"]
    /\ servedAt' = [servedAt EXCEPT ![r] = at]

\* Mutant: an answer that is used is kept for another minute.
Hit_Sliding(r, s) ==
    /\ ask[r].phase = "asking" /\ ask[r].siret = s
    /\ cache[s].until >= clock
    /\ Serve(r, cache[s].at)
    /\ cache' = [cache EXCEPT ![s].until = clock + Ttl]
    /\ UNCHANGED <<clock, flight>>

\* An answer that is still kept; an empty list is one too.
Hit(r, s) ==
    /\ ask[r].phase = "asking" /\ ask[r].siret = s
    /\ cache[s].until >= clock
    /\ Serve(r, cache[s].at)
    /\ UNCHANGED <<clock, cache, flight>>

\* No answer was kept when the cache was read.
Miss(r, s) ==
    /\ ask[r].phase = "asking" /\ ask[r].siret = s
    /\ cache[s].until < clock
    /\ ask' = [ask EXCEPT ![r].phase = "missed"]
    /\ UNCHANGED <<clock, cache, flight, servedAt>>

\* Then the query under way is shared, or one is started, even if one has filled the cache
\* in between; no other handler runs while it is looked for.
Join(r, s) ==
    /\ ask[r].phase = "missed" /\ ask[r].siret = s
    /\ ask' = [ask EXCEPT ![r].phase = "waiting"]
    /\ flight' = IF Running(s) THEN flight
                 ELSE [flight EXCEPT ![s] = [phase |-> "query", since |-> clock, at |-> -1]]
    /\ UNCHANGED <<clock, cache, servedAt>>

\* The database reads the rows of this moment.
Read(s) ==
    /\ flight[s].phase = "query"
    /\ flight' = [flight EXCEPT ![s] = [phase |-> "set", since |-> @.since, at |-> clock]]
    /\ UNCHANGED <<clock, cache, ask, servedAt>>

\* The query or the cache fails: every request that waits is refused with the error.
Fail(s) ==
    /\ flight[s].phase \in {"query", "set"}
    /\ flight' = [flight EXCEPT ![s].phase = "failed"]
    /\ UNCHANGED <<clock, cache, ask, servedAt>>

\* cacheManager.set
Keep(s) ==
    /\ flight[s].phase = "set"
    /\ cache' = [cache EXCEPT ![s] = [at |-> flight[s].at, until |-> clock + Ttl]]
    /\ flight' = [flight EXCEPT ![s].phase = "settled"]
    /\ UNCHANGED <<clock, ask, servedAt>>

\* finally: the promise is forgotten, then everyone who waits has the answer.
Settle(s) ==
    /\ flight[s].phase \in {"settled", "failed"}
    /\ flight' = [flight EXCEPT ![s] = NoFlight]
    /\ ask' = [r \in Requests |->
                  IF ~Waits(r, s) THEN ask[r]
                  ELSE [ask[r] EXCEPT !.phase = IF flight[s].phase = "failed" THEN "refused" ELSE "served"]]
    /\ servedAt' = [r \in Requests |->
                       IF Waits(r, s) /\ flight[s].phase = "settled" THEN flight[s].at ELSE servedAt[r]]
    /\ UNCHANGED <<clock, cache>>

\* Time passes; a query takes at most MaxFlight.
Tick ==
    /\ clock < MaxClock
    /\ \A s \in Sirets : Running(s) => clock - flight[s].since < MaxFlight
    /\ clock' = clock + 1
    /\ UNCHANGED <<cache, flight, ask, servedAt>>

PerimetreNext ==
    \/ Tick
    \/ \E r \in Requests, s \in Sirets : Consult(r, s) \/ Hit(r, s) \/ Miss(r, s) \/ Join(r, s)
    \/ \E s \in Sirets : Read(s) \/ Fail(s) \/ Keep(s) \/ Settle(s)

PerimetreSpec == PerimetreInit /\ [][PerimetreNext]_perimetreVars

----
\* Whoever leaves an intervenant's perimeter, by a restore, is out of his dashboards one
\* minute later: no request is served rows read more than the life of an entry, and the
\* time a query takes, before it was made (masa.provider.ts:227-251).
PerimeterFresh ==
    \A r \in Requests :
        ask[r].phase = "served" => servedAt[r] >= ask[r].since - Ttl - MaxFlight

\* A query is under way for everyone who waits: nobody waits for nothing, and what is
\* kept or served had been read (masa.provider.ts:228-249).
WaitersAreServed ==
    /\ \A r \in Requests : ask[r].phase = "waiting" => Running(ask[r].siret)
    /\ \A r \in Requests : ask[r].phase = "served" => servedAt[r] >= 0
====
