---- MODULE SchemaSync ----
(***************************************************************************)
(* The restore of the reference schemas (devops/tools/sync-pg): a job that *)
(* takes the newest dump of the bucket, restores it beside the schemas the *)
(* application reads and swaps them in one transaction.                    *)
(*                                                                         *)
(*   - a schema goes dump schema (work) -> _staging -> live; a schema is   *)
(*     known by what is in it: the dump its rows come from, and how far    *)
(*     its restore went (bare, tables, rows, whole)                        *)
(*   - the job is started by cron and by every start of its container      *)
(*     (npm start is the same index.js), and takes no lock: two runs may   *)
(*     overlap.  "parallel" says whether they do in this behaviour         *)
(*   - a run may fail at any call (it then reports an error) or die        *)
(*     (nothing more is run, nothing is reported)                          *)
(* Statements of one psql -c and of the swap are one transaction; every    *)
(* other call commits by itself.  Abstracted: files, logs, wording, the    *)
(* health server and the text of the report.                               *)
(***************************************************************************)
EXTENDS Integers, FiniteSets

CONSTANTS
    Runs,        \* the runs of the job that may be alive together
    NSchemas,    \* the schemas of schemas.js, in the order of its lists
    MaxDump,     \* bound: dumps ever put in the bucket
    MaxFaults    \* bound: failures and deaths of runs

ASSUME SyncAssumption ==
    /\ NSchemas \in Nat \ {0}
    /\ MaxDump \in Nat \ {0}
    /\ MaxFaults \in Nat

Schemas == 1 .. NSchemas
Dumps == 1 .. MaxDump
ViewSchema == NSchemas      \* "verseau", the last of the list, holds the view

VARIABLES
    parallel,    \* runs may overlap
    bucket,      \* the newest dump of the bucket
    tracking,    \* dump_source of the last row of public.sync_tracking
    work,        \* custom_ingestion_* schemas
    staging,     \* custom_ingestion_*_staging schemas
    live,        \* roseau, lanceleau, verseau
    view,        \* verseau.mv_steu_scl_itv exists
    run,         \* what each run does: its step, its dump, the schema it drops
    faults,      \* failures and deaths so far
    owed         \* ghost: a run failed or died between its swap and the view

syncVars == <<parallel, bucket, tracking, work, staging, live,
              view, run, faults, owed>>
database == <<tracking, work, staging, live, view>>

Steps == {"idle", "list", "check", "fetch", "verify", "drop", "prepare", "pre", "data",
          "post", "rename", "validate", "swap", "view", "create", "grant", "report"}

NoSchema == [at |-> "none", dump |-> 0, mixed |-> FALSE]
Bare == [at |-> "bare", dump |-> 0, mixed |-> FALSE]
Tables == [at |-> "tables", dump |-> 0, mixed |-> FALSE]
Content == [at : {"none", "bare", "tables", "rows", "whole"},
            dump : 0 .. MaxDump, mixed : BOOLEAN]

Idle == [at |-> "idle", dump |-> 0, pos |-> 0]

SyncInit ==
    /\ parallel \in BOOLEAN
    /\ bucket = 1
    /\ tracking = 0
    /\ work = [s \in Schemas |-> NoSchema]
    /\ staging = [s \in Schemas |-> NoSchema]
    /\ live = [s \in Schemas |-> NoSchema]
    /\ view = FALSE
    /\ run = [r \in Runs |-> Idle]
    /\ faults = 0
    /\ owed = FALSE

----
(* Steps of a run *)

At(r, step) == run[r].at = step

Goes(r, step) == run' = [run EXCEPT ![r].at = step]

\* The view is gone with the schemas that were swapped out, and not back yet.
Owing(r) == run[r].at \in {"view", "create"}

\* An error thrown by a call of main: nothing more is run but the report.
Fails(r) ==
    /\ Goes(r, "report")
    /\ owed' = (owed \/ Owing(r))

Publish ==
    /\ bucket < MaxDump
    /\ bucket' = bucket + 1
    /\ UNCHANGED <<parallel, run, faults, owed, database>>

Start(r) ==
    /\ At(r, "idle")
    /\ parallel \/ \A q \in Runs : At(q, "idle")
    /\ run' = [run EXCEPT ![r] = [Idle EXCEPT !.at = "list"]]
    /\ UNCHANGED <<parallel, bucket, faults, owed, database>>

\* getMostRecentKey: the object modified last.
List(r) ==
    /\ At(r, "list")
    /\ run' = [run EXCEPT ![r].at = "check", ![r].dump = bucket]
    /\ UNCHANGED <<parallel, bucket, faults, owed, database>>

\* Mutant: any dump restored before is enough to skip.
AlreadyRestored_Any(r) == tracking # 0

\* A dump named like the last one swapped is skipped; only the grants are renewed.
AlreadyRestored(r) == run[r].dump = tracking

Check(r) ==
    /\ At(r, "check")
    /\ IF AlreadyRestored(r)
       THEN Goes(r, "grant")
       ELSE Goes(r, "fetch")
    /\ UNCHANGED <<parallel, bucket, faults, owed, database>>

Fetch(r) ==
    /\ At(r, "fetch")
    /\ Goes(r, "verify")
    /\ UNCHANGED <<parallel, bucket, faults, owed, database>>

\* The table of contents of the dump names every schema.
Verify(r) ==
    /\ At(r, "verify")
    /\ run' = [run EXCEPT ![r].at = "drop", ![r].pos = 1]
    /\ UNCHANGED <<parallel, bucket, faults, owed, database>>

\* Mutant: the loop over the schemas to drop goes one too far.
LastDrop_Beyond == 2 * NSchemas + 1

\* The staging schemas, then the dump schemas.
LastDrop == 2 * NSchemas

\* One DROP SCHEMA at a time: the staging schemas, then the dump schemas.
DropNext(r) ==
    /\ At(r, "drop")
    /\ LET i == run[r].pos
       IN  /\ staging' = [s \in Schemas |-> IF s = i THEN NoSchema ELSE staging[s]]
           /\ work' = [s \in Schemas |-> IF s + NSchemas = i THEN NoSchema ELSE work[s]]
           /\ IF i < LastDrop
              THEN run' = [run EXCEPT ![r].pos = @ + 1]
              ELSE run' = [run EXCEPT ![r].at = "prepare", ![r].pos = 0]
    /\ UNCHANGED <<parallel, bucket, tracking, live, view, faults, owed>>

\* One psql -c: the dump schemas are dropped and created empty.
Prepare(r) ==
    /\ At(r, "prepare")
    /\ work' = [s \in Schemas |-> Bare]
    /\ Goes(r, "pre")
    /\ UNCHANGED <<parallel, bucket, tracking, staging, live,
                   view, faults, owed>>

\* pg_restore goes on after an error and then exits with one; an error rejects.
Restores(r, possible, after, step) ==
    IF possible
    THEN /\ work' = after
         /\ Goes(r, step)
         /\ UNCHANGED owed
    ELSE Fails(r) /\ UNCHANGED work

Holding(states) == \A s \in Schemas : work[s].at \in states

\* Section pre-data: CREATE TABLE, refused where the tables exist or the schema does not.
PreData(r) ==
    /\ At(r, "pre")
    /\ Restores(r, Holding({"bare"}), [s \in Schemas |-> Tables], "data")
    /\ UNCHANGED <<parallel, bucket, tracking, staging, live, view, faults>>

\* Section data: COPY into the tables, whoever made them; rows already there stay.
Copied(c, d) == [at |-> "rows", dump |-> d, mixed |-> c.at = "rows"]

Data(r) ==
    /\ At(r, "data")
    /\ Restores(r, Holding({"tables", "rows"}),
                [s \in Schemas |-> Copied(work[s], run[r].dump)], "post")
    /\ UNCHANGED <<parallel, bucket, tracking, staging, live, view, faults>>

Indexed(c) == [at |-> "whole", dump |-> c.dump, mixed |-> c.mixed]

\* Section post-data: indexes and constraints, refused where they exist; rows
\* copied twice break the ones that ask for unique keys, where there is one.
PostData(r) ==
    /\ At(r, "post")
    /\ \/ Restores(r, Holding({"rows"}),
                   [s \in Schemas |-> Indexed(work[s])], "rename")
       \/ /\ \E s \in Schemas : work[s].mixed
          /\ Fails(r) /\ UNCHANGED work
    /\ UNCHANGED <<parallel, bucket, tracking, staging, live, view, faults>>

\* The shells of the excluded tables are dropped, then one psql -c renames: it
\* fails when a schema is missing or its staging name is taken.
Rename(r) ==
    /\ At(r, "rename")
    /\ IF /\ \A s \in Schemas : work[s].at # "none"
          /\ \A s \in Schemas : staging[s].at = "none"
       THEN /\ staging' = work
            /\ work' = [s \in Schemas |-> NoSchema]
            /\ Goes(r, "validate")
            /\ UNCHANGED owed
       ELSE Fails(r) /\ UNCHANGED <<work, staging>>
    /\ UNCHANGED <<parallel, bucket, tracking, live, view, faults>>

\* Mutant: a schema that has its tables passes, filled or not.
Valid_Tables == \A s \in Schemas : staging[s].at \in {"tables", "rows", "whole"}

\* Every staging schema has tables and no table of it is empty.
Valid == \A s \in Schemas : staging[s].at \in {"rows", "whole"}

Validate(r) ==
    /\ At(r, "validate")
    /\ IF Valid THEN Goes(r, "swap") /\ UNCHANGED owed ELSE Fails(r)
    /\ UNCHANGED <<parallel, bucket, faults, database>>

\* Mutant: the row names the newest dump of the bucket.
SwapTo_Newest(d) ==
    /\ live' = staging
    /\ staging' = [s \in Schemas |-> NoSchema]
    /\ view' = FALSE
    /\ tracking' = bucket

\* One transaction: live is parked, staging becomes live, the excluded tables are
\* moved out of the parked schemas, which are dropped with the view, and the row
\* is inserted.  A staging schema that is missing rolls all of it back.
SwapTo(d) ==
    /\ live' = staging
    /\ staging' = [s \in Schemas |-> NoSchema]
    /\ view' = FALSE
    /\ tracking' = d

Swap(r) ==
    /\ At(r, "swap")
    /\ IF \A s \in Schemas : staging[s].at # "none"
       THEN SwapTo(run[r].dump) /\ Goes(r, "view") /\ UNCHANGED owed
       ELSE Fails(r) /\ UNCHANGED <<live, staging, view, tracking>>
    /\ UNCHANGED <<parallel, bucket, work, faults>>

\* Mutant: a failed creation is logged and the run goes on, as for the grants.
CreateView_Logged(r) ==
    /\ At(r, "create")
    /\ view' \in {view, TRUE}
    /\ Goes(r, "grant")
    /\ UNCHANGED <<parallel, bucket, tracking, work, staging, live, faults, owed>>

\* Outside the transaction: the view is dropped, then created over the live
\* schema, where a view another run has just created is an error.
DropView(r) ==
    /\ At(r, "view")
    /\ view' = FALSE
    /\ Goes(r, "create")
    /\ UNCHANGED <<parallel, bucket, tracking, work, staging, live, faults, owed>>

CreateView(r) ==
    /\ At(r, "create")
    /\ IF view THEN Fails(r) /\ UNCHANGED view
       ELSE view' = TRUE /\ owed' = FALSE /\ Goes(r, "grant")
    /\ UNCHANGED <<parallel, bucket, tracking, work, staging, live, faults>>

\* The grants are given one by one; a failure is logged and the run goes on.
Grant(r) ==
    /\ At(r, "grant")
    /\ Goes(r, "report")
    /\ UNCHANGED <<parallel, bucket, faults, owed, database>>

\* sendReport catches everything: delivered or not, the run is over.
Report(r) ==
    /\ At(r, "report")
    /\ run' = [run EXCEPT ![r] = Idle]
    /\ UNCHANGED <<parallel, bucket, faults, owed, database>>

\* A call of S3 or of PostgreSQL fails.  What it had done stays: the view may be
\* there without its indexes; "tables" are tables of which some may be filled.
Fault(r) ==
    /\ faults < MaxFaults
    /\ run[r].at \notin {"idle", "grant", "report"}
    /\ Fails(r)
    /\ view' \in IF At(r, "create") THEN {view, TRUE} ELSE {view}
    /\ faults' = faults + 1
    /\ UNCHANGED <<parallel, bucket, tracking, work, staging, live>>

\* The process dies (container stopped, out of memory).
Die(r) ==
    /\ faults < MaxFaults
    /\ ~At(r, "idle")
    /\ run' = [run EXCEPT ![r] = Idle]
    /\ owed' = (owed \/ Owing(r))
    /\ view' \in IF At(r, "create") THEN {view, TRUE} ELSE {view}
    /\ faults' = faults + 1
    /\ UNCHANGED <<parallel, bucket, tracking, work, staging, live>>

Advance(r) ==
    \/ List(r) \/ Check(r) \/ Fetch(r) \/ Verify(r) \/ DropNext(r) \/ Prepare(r)
    \/ PreData(r) \/ Data(r) \/ PostData(r) \/ Rename(r) \/ Validate(r)
    \/ Swap(r) \/ DropView(r) \/ CreateView(r) \/ Grant(r) \/ Report(r)

SyncNext ==
    \/ Publish
    \/ \E r \in Runs : Start(r) \/ Advance(r) \/ Fault(r) \/ Die(r)

SyncSpec == SyncInit /\ [][SyncNext]_syncVars

----
(* Properties *)

SyncTypeOK ==
    /\ parallel \in BOOLEAN
    /\ view \in BOOLEAN /\ owed \in BOOLEAN
    /\ bucket \in Dumps
    /\ tracking \in 0 .. MaxDump
    /\ work \in [Schemas -> Content]
    /\ staging \in [Schemas -> Content]
    /\ live \in [Schemas -> Content]
    /\ run \in [Runs -> [at : Steps, dump : 0 .. MaxDump, pos : 0 .. 2 * NSchemas]]
    /\ faults \in 0 .. MaxFaults

\* What the application reads is all or nothing: once a dump was swapped in,
\* every live schema is there with all its tables filled, whatever fails or dies
\* in between and while two runs drop, fill and rename the same schemas.  (Three runs
\* that overlap can break it: a run swaps the staging schemas another one has renamed
\* after a third one had dropped and created them anew, empty.)
LiveFilled ==
    tracking # 0 => \A s \in Schemas : live[s].at \in {"rows", "whole"}

\* When runs do not overlap, the last row of sync_tracking is the truth: every
\* live schema is wholly restored from that one dump, so a run that skips it
\* ("ce fichier a deja ete restaure") does so rightly, after any failure.
TrackingTrue ==
    ~parallel /\ tracking # 0 =>
        \A s \in Schemas : live[s] = [at |-> "whole", dump |-> tracking, mixed |-> FALSE]

\* The materialized view the access rights are read from is missing only while
\* a run is between its swap and the view, or after one failed or died there.
ViewMissingOnlyAfterFault ==
    tracking # 0 /\ ~view => owed \/ \E r \in Runs : Owing(r)

\* Runs that do not overlap end up restoring the newest dump, however many were
\* cut short before.
NewestRestored ==
    ~parallel /\ bucket = MaxDump ~> tracking = MaxDump
====
