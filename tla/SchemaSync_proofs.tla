------------------------ MODULE SchemaSync_proofs --------------------------
(***************************************************************************)
(* Proofs about SchemaSync, for every number of schemas, dumps, faults and *)
(* runs that are alive together.                                           *)
(***************************************************************************)
EXTENDS SchemaSync, TLAPS

USE SyncAssumption

Run == [at : Steps, dump : 0 .. MaxDump, pos : 0 .. 2 * NSchemas]

LEMMA Contents ==
    /\ NoSchema \in Content /\ Bare \in Content /\ Tables \in Content
    /\ \A c \in Content, d \in 0 .. MaxDump : Copied(c, d) \in Content
    /\ \A c \in Content : Indexed(c) \in Content
<1>1. NoSchema \in Content /\ Bare \in Content /\ Tables \in Content
  BY DEF NoSchema, Bare, Tables, Content
<1>2. ASSUME NEW c \in Content, NEW d \in 0 .. MaxDump PROVE Copied(c, d) \in Content
  <2>1. (c.at = "rows") \in BOOLEAN OBVIOUS
  <2> QED BY <2>1 DEF Copied, Content
<1>3. ASSUME NEW c \in Content PROVE Indexed(c) \in Content
  BY DEF Content, Indexed
<1> QED BY <1>1, <1>2, <1>3

\* Where a run may go: a step, another dump, another place in the loop.
LEMMA RunMoves ==
    ASSUME SyncTypeOK, NEW r \in Runs
    PROVE  /\ \A step \in Steps : [run EXCEPT ![r].at = step] \in [Runs -> Run]
           /\ [run EXCEPT ![r] = Idle] \in [Runs -> Run]
           /\ [run EXCEPT ![r] = [Idle EXCEPT !.at = "list"]] \in [Runs -> Run]
<1>1. run \in [Runs -> Run] BY DEF SyncTypeOK, Run
<1>2. \A step \in Steps : [run[r] EXCEPT !.at = step] \in Run BY <1>1 DEF Run
<1>3. Idle \in Run /\ [Idle EXCEPT !.at = "list"] \in Run BY DEF Idle, Run, Steps
<1> HIDE DEF Run
<1> QED BY <1>1, <1>2, <1>3

LEMMA TypeInit == SyncInit => SyncTypeOK
<1> SUFFICES ASSUME SyncInit PROVE SyncTypeOK OBVIOUS
<1>1. Idle \in Run BY DEF Idle, Run, Steps
<1>2. run \in [Runs -> Run] BY <1>1 DEF SyncInit
<1>3. /\ work \in [Schemas -> Content] /\ staging \in [Schemas -> Content] /\ live \in [Schemas -> Content]
  BY Contents DEF SyncInit
<1>4. /\ parallel \in BOOLEAN /\ view \in BOOLEAN /\ owed \in BOOLEAN
  BY DEF SyncInit
<1>5. bucket \in Dumps /\ tracking \in 0 .. MaxDump /\ faults \in 0 .. MaxFaults
  BY DEF SyncInit, Dumps
<1> QED BY <1>2, <1>3, <1>4, <1>5 DEF SyncTypeOK, Run

\* The types of what the steps of a run leave, one group of steps at a time.
LEMMA TypeKept ==
    ASSUME SyncTypeOK, UNCHANGED <<parallel, bucket>>, run' \in [Runs -> Run],
           view' \in BOOLEAN, owed' \in BOOLEAN, tracking' \in 0 .. MaxDump,
           work' \in [Schemas -> Content], staging' \in [Schemas -> Content],
           live' \in [Schemas -> Content], faults' \in 0 .. MaxFaults
    PROVE  SyncTypeOK'
BY DEF SyncTypeOK, Run

LEMMA FailsType ==
    ASSUME SyncTypeOK, NEW r \in Runs, Fails(r)
    PROVE  run' \in [Runs -> Run] /\ owed' \in BOOLEAN
<1>1. "report" \in Steps BY DEF Steps
<1>2. run' \in [Runs -> Run] BY <1>1, RunMoves DEF Fails, Goes
<1>3. owed' \in BOOLEAN BY ZenonT(10) DEF Fails
<1> QED BY <1>2, <1>3

LEMMA TypeStep == SyncTypeOK /\ [SyncNext]_syncVars => SyncTypeOK'
<1> SUFFICES ASSUME SyncTypeOK, [SyncNext]_syncVars PROVE SyncTypeOK' OBVIOUS
<1>0. /\ run \in [Runs -> Run] /\ parallel \in BOOLEAN /\ view \in BOOLEAN /\ owed \in BOOLEAN
      /\ bucket \in Dumps /\ tracking \in 0 .. MaxDump /\ faults \in 0 .. MaxFaults
      /\ work \in [Schemas -> Content] /\ staging \in [Schemas -> Content] /\ live \in [Schemas -> Content]
  BY DEF SyncTypeOK, Run
<1> HIDE DEF SyncTypeOK
<1>1. CASE Publish
  BY <1>0, <1>1 DEF Publish, database, SyncTypeOK, Dumps, Run
<1>2. ASSUME NEW r \in Runs, Start(r) PROVE SyncTypeOK'
  BY <1>0, <1>2, RunMoves, TypeKept DEF Start, database
<1>3. ASSUME NEW r \in Runs, List(r) \/ Verify(r) \/ DropNext(r) PROVE SyncTypeOK'
  <2>1. run' \in [Runs -> Run]
    <3>1. bucket \in 0 .. MaxDump /\ {"check", "drop", "prepare"} \subseteq Steps /\ run[r] \in Run
      BY <1>0 DEF Dumps, Steps
    <3>2. 1 \in 0 .. 2 * NSchemas /\ 0 \in 0 .. 2 * NSchemas OBVIOUS
    <3>3. CASE List(r)
      <4>1. [run[r] EXCEPT !.at = "check", !.dump = bucket] \in Run BY <3>1 DEF Run
      <4>2. run' = [run EXCEPT ![r] = [@ EXCEPT !.at = "check", !.dump = bucket]] BY <3>3 DEF List
      <4> QED BY <1>0, <4>1, <4>2
    <3>4. CASE Verify(r)
      <4>1. [run[r] EXCEPT !.at = "drop", !.pos = 1] \in Run BY <3>1, <3>2 DEF Run
      <4>2. run' = [run EXCEPT ![r] = [@ EXCEPT !.at = "drop", !.pos = 1]] BY <3>4 DEF Verify
      <4> QED BY <1>0, <4>1, <4>2
    <3>5. CASE DropNext(r) /\ run[r].pos < LastDrop
      <4>1. run[r].pos + 1 \in 0 .. 2 * NSchemas BY <3>1, <3>5 DEF Run, LastDrop
      <4>2. [run[r] EXCEPT !.pos = run[r].pos + 1] \in Run BY <3>1, <4>1 DEF Run
      <4>3. run' = [run EXCEPT ![r].pos = run[r].pos + 1] BY <3>5 DEF DropNext
      <4> QED BY <1>0, <4>2, <4>3
    <3>6. CASE DropNext(r) /\ ~(run[r].pos < LastDrop)
      <4>1. [run[r] EXCEPT !.at = "prepare", !.pos = 0] \in Run BY <3>1, <3>2 DEF Run
      <4>2. run' = [run EXCEPT ![r] = [@ EXCEPT !.at = "prepare", !.pos = 0]] BY <1>0, <3>6 DEF DropNext, Run
      <4> QED BY <1>0, <4>1, <4>2
    <3> QED BY <1>3, <3>3, <3>4, <3>5, <3>6
  <2>2. staging' \in [Schemas -> Content] /\ work' \in [Schemas -> Content]
    BY <1>0, <1>3, Contents DEF List, Verify, DropNext, database
  <2>3. UNCHANGED <<parallel, bucket, tracking, live, view, faults, owed>>
    BY <1>3 DEF List, Verify, DropNext, database
  <2> QED BY <1>0, <2>1, <2>2, <2>3, TypeKept
<1>4. ASSUME NEW r \in Runs, Check(r) \/ Fetch(r) \/ Grant(r) \/ Report(r) PROVE SyncTypeOK'
  <2>1. {"grant", "fetch", "verify", "report"} \subseteq Steps BY DEF Steps
  <2>2. run' \in [Runs -> Run] BY <1>4, <2>1, RunMoves DEF Check, Fetch, Grant, Report, Goes
  <2>3. UNCHANGED <<parallel, bucket, faults, owed, database>> BY <1>4 DEF Check, Fetch, Grant, Report
  <2> QED BY <1>0, <2>2, <2>3, TypeKept DEF database
<1>5. ASSUME NEW r \in Runs, Prepare(r) PROVE SyncTypeOK'
  <2>1. "pre" \in Steps BY DEF Steps
  <2>2. run' \in [Runs -> Run] BY <1>5, <2>1, RunMoves DEF Prepare, Goes
  <2>3. work' \in [Schemas -> Content] BY <1>5, Contents DEF Prepare
  <2> QED BY <1>0, <1>5, <2>2, <2>3, TypeKept DEF Prepare
<1>6. ASSUME NEW r \in Runs, NEW possible, NEW after \in [Schemas -> Content], NEW step \in Steps,
             Restores(r, possible, after, step),
             UNCHANGED <<parallel, bucket, tracking, staging, live, view, faults>>
      PROVE  SyncTypeOK'
  <2>1. CASE possible
    <3>1. run' \in [Runs -> Run] BY <1>6, <2>1, RunMoves DEF Restores, Goes
    <3> QED BY <1>0, <1>6, <2>1, <3>1, TypeKept DEF Restores
  <2>2. CASE ~possible
    <3>1. Fails(r) /\ UNCHANGED work BY <1>6, <2>2 DEF Restores
    <3> QED BY <1>0, <1>6, <3>1, FailsType, TypeKept
  <2> QED BY <2>1, <2>2
<1>7. ASSUME NEW r \in Runs, PreData(r) \/ Data(r) \/ PostData(r) PROVE SyncTypeOK'
  <2>1. {"data", "post", "rename"} \subseteq Steps /\ run[r].dump \in 0 .. MaxDump
    BY <1>0 DEF Steps, Run
  <2>2. /\ [s \in Schemas |-> Tables] \in [Schemas -> Content]
        /\ [s \in Schemas |-> Copied(work[s], run[r].dump)] \in [Schemas -> Content]
        /\ [s \in Schemas |-> Indexed(work[s])] \in [Schemas -> Content]
    BY <1>0, <2>1, Contents
  <2>3. UNCHANGED <<parallel, bucket, tracking, staging, live, view, faults>>
    BY <1>7 DEF PreData, Data, PostData
  <2>4. CASE PreData(r) BY <1>6, <2>1, <2>2, <2>3, <2>4 DEF PreData
  <2>5. CASE Data(r) BY <1>6, <2>1, <2>2, <2>3, <2>5 DEF Data
  <2>6. CASE PostData(r)
    <3>1. CASE Fails(r) /\ UNCHANGED work BY <1>0, <2>3, <3>1, FailsType, TypeKept
    <3> QED BY <1>6, <2>1, <2>2, <2>3, <2>6, <3>1 DEF PostData
  <2> QED BY <1>7, <2>4, <2>5, <2>6
<1>8. ASSUME NEW r \in Runs, Rename(r) \/ Validate(r) \/ Swap(r) PROVE SyncTypeOK'
  <2>1. {"validate", "swap", "view"} \subseteq Steps /\ run[r].dump \in 0 .. MaxDump
    BY <1>0 DEF Steps, Run
  <2>2. UNCHANGED <<parallel, bucket, faults>> BY <1>8 DEF Rename, Validate, Swap
  <2>3. run' \in [Runs -> Run] /\ owed' \in BOOLEAN
    <3>1. CASE Fails(r) BY <3>1, FailsType
    <3>2. CASE \E step \in {"validate", "swap", "view"} : Goes(r, step) /\ UNCHANGED owed
      BY <1>0, <2>1, <3>2, RunMoves DEF Goes
    <3> QED BY <1>8, <3>1, <3>2 DEF Rename, Validate, Swap
  <2>4. work' \in [Schemas -> Content] /\ staging' \in [Schemas -> Content] /\ live' \in [Schemas -> Content]
    BY <1>0, <1>8, Contents DEF Rename, Validate, Swap, SwapTo, database
  <2>5. tracking' \in 0 .. MaxDump /\ view' \in BOOLEAN
    BY <1>0, <1>8, <2>1 DEF Rename, Validate, Swap, SwapTo, database
  <2> QED BY <1>0, <2>2, <2>3, <2>4, <2>5, TypeKept
<1>9. ASSUME NEW r \in Runs, DropView(r) \/ CreateView(r) PROVE SyncTypeOK'
  <2>1. {"create", "grant"} \subseteq Steps BY DEF Steps
  <2>2. run' \in [Runs -> Run] /\ owed' \in BOOLEAN
    <3>1. CASE Fails(r) BY <3>1, FailsType
    <3>2. CASE DropView(r) BY <1>0, <2>1, <3>2, RunMoves DEF DropView, Goes
    <3>3. CASE CreateView(r) /\ ~view
      <4>1. Goes(r, "grant") /\ owed' = FALSE BY <3>3 DEF CreateView
      <4> QED BY <2>1, <4>1, RunMoves DEF Goes
    <3> QED BY <1>9, <3>1, <3>2, <3>3 DEF CreateView
  <2>3. view' \in BOOLEAN BY <1>0, <1>9 DEF DropView, CreateView
  <2>4. UNCHANGED <<parallel, bucket, tracking, work, staging, live, faults>>
    BY <1>9 DEF DropView, CreateView
  <2> QED BY <1>0, <2>2, <2>3, <2>4, TypeKept
<1>10. ASSUME NEW r \in Runs, Fault(r) \/ Die(r) PROVE SyncTypeOK'
  <2>1. run' \in [Runs -> Run]
    BY <1>10, FailsType, RunMoves DEF Fault, Die
  <2>2. owed' \in BOOLEAN
    <3>1. CASE Fault(r) BY <3>1, FailsType DEF Fault
    <3>2. CASE Die(r) BY <3>2, ZenonT(10) DEF Die
    <3> QED BY <1>10, <3>1, <3>2
  <2>3. faults' \in 0 .. MaxFaults
    <3>1. faults < MaxFaults /\ faults' = faults + 1 BY <1>10 DEF Fault, Die
    <3> QED BY <1>0, <3>1
  <2>4. view' \in {view, TRUE} BY <1>10 DEF Fault, Die
  <2>5. UNCHANGED <<parallel, bucket, tracking, work, staging, live>> BY <1>10 DEF Fault, Die
  <2> QED BY <1>0, <2>1, <2>2, <2>3, <2>4, <2>5, TypeKept
<1>11. CASE UNCHANGED syncVars
  BY <1>0, <1>11, TypeKept DEF syncVars
<1> QED BY <1>1, <1>2, <1>3, <1>4, <1>5, <1>7, <1>8, <1>9, <1>10, <1>11 DEF SyncNext, Advance

\* The type invariant of the restore, for every number of runs that overlap.
THEOREM SyncTypeCorrect == SyncSpec => []SyncTypeOK
<1> QED BY TypeInit, TypeStep, PTL DEF SyncSpec

----------------------------------------------------------------------------
(* The view of the rights *)

\* A step of a run leaves the other runs where they are.
Step(r) == Start(r) \/ Advance(r) \/ Fault(r) \/ Die(r)

LEMMA OthersStay ==
    ASSUME SyncTypeOK, NEW r \in Runs, Step(r), NEW q \in Runs, q # r
    PROVE  run'[q] = run[q]
<1>0. run \in [Runs -> Run] BY DEF SyncTypeOK, Run
<1>1. CASE \E step : Goes(r, step) BY <1>0, <1>1 DEF Goes
<1>2. CASE Fails(r) BY <1>0, <1>2 DEF Fails, Goes
<1>3. CASE Start(r) \/ List(r) \/ Verify(r) BY <1>0, <1>3 DEF Start, List, Verify
<1>4. CASE DropNext(r) BY <1>0, <1>4 DEF DropNext
<1>5. CASE Report(r) \/ Die(r) BY <1>0, <1>5 DEF Report, Die
<1>6. CASE Check(r) \/ Fetch(r) \/ Prepare(r) \/ DropView(r) \/ Grant(r)
  BY <1>1, <1>6 DEF Check, Fetch, Prepare, DropView, Grant
<1>7. CASE PreData(r) \/ Data(r) \/ PostData(r)
  BY <1>1, <1>2, <1>7 DEF PreData, Data, PostData, Restores
<1>8. CASE Rename(r) \/ Validate(r) \/ Swap(r) \/ CreateView(r) \/ Fault(r)
  BY <1>1, <1>2, <1>8 DEF Rename, Validate, Swap, CreateView, Fault
<1> QED BY <1>3, <1>4, <1>5, <1>6, <1>7, <1>8 DEF Step, Advance

\* A step that leaves the view, the swap and the place of who owes it alone.
LEMMA ViewKept ==
    ASSUME ViewMissingOnlyAfterFault, UNCHANGED <<tracking, view>>, owed => owed',
           \A q \in Runs : Owing(q) => Owing(q)' \/ owed'
    PROVE  ViewMissingOnlyAfterFault'
<1>1. CASE tracking # 0 /\ ~view
  <2>1. CASE owed BY <2>1 DEF ViewMissingOnlyAfterFault
  <2>2. CASE \E q \in Runs : Owing(q) BY <2>2 DEF ViewMissingOnlyAfterFault
  <2> QED BY <1>1, <2>1, <2>2 DEF ViewMissingOnlyAfterFault
<1>2. CASE ~(tracking # 0 /\ ~view) BY <1>2 DEF ViewMissingOnlyAfterFault
<1> QED BY <1>1, <1>2

\* A run that fails or dies between its swap and the view owes it from then on.
LEMMA OwedKept ==
    ASSUME SyncTypeOK, NEW r \in Runs, Step(r), Owing(r) => owed', owed => owed', UNCHANGED <<tracking, view>>,
           ViewMissingOnlyAfterFault
    PROVE  ViewMissingOnlyAfterFault'
<1>1. ASSUME NEW q \in Runs, Owing(q) PROVE Owing(q)' \/ owed'
  <2>1. CASE q = r BY <1>1, <2>1
  <2>2. CASE q # r BY <1>1, <2>2, OthersStay DEF Owing
  <2> QED BY <2>1, <2>2
<1> QED BY <1>1, ViewKept

LEMMA ViewStep ==
    SyncTypeOK /\ ViewMissingOnlyAfterFault /\ [SyncNext]_syncVars => ViewMissingOnlyAfterFault'
<1> SUFFICES ASSUME SyncTypeOK, ViewMissingOnlyAfterFault, [SyncNext]_syncVars
             PROVE ViewMissingOnlyAfterFault'
  OBVIOUS
<1>0. run \in [Runs -> Run] BY DEF SyncTypeOK, Run
<1>1. CASE Publish
  BY <1>1 DEF Publish, database, ViewMissingOnlyAfterFault, Owing
<1>2. ASSUME NEW r \in Runs, Step(r), UNCHANGED <<tracking, view>>, ~Owing(r), UNCHANGED owed \/ Fails(r)
      PROVE  ViewMissingOnlyAfterFault'
  <2>1. owed => owed' BY <1>2 DEF Fails
  <2> QED BY <1>2, <2>1, OwedKept
<1>3. ASSUME NEW r \in Runs, Start(r) \/ List(r) \/ Check(r) \/ Fetch(r) \/ Verify(r) \/ Grant(r) \/ Report(r)
      PROVE  ViewMissingOnlyAfterFault'
  <2>1. ~Owing(r) /\ UNCHANGED <<tracking, view, owed>>
    BY <1>3 DEF Start, List, Check, Fetch, Verify, Grant, Report, database, Owing, At
  <2> QED BY <1>2, <1>3, <2>1 DEF Step, Advance
<1>4. ASSUME NEW r \in Runs, DropNext(r) \/ Prepare(r) \/ PreData(r) \/ Data(r) \/ PostData(r)
      PROVE  ViewMissingOnlyAfterFault'
  <2>1. ~Owing(r) /\ UNCHANGED <<tracking, view>>
    BY <1>4 DEF DropNext, Prepare, PreData, Data, PostData, Owing, At
  <2>2. UNCHANGED owed \/ Fails(r)
    BY <1>4 DEF DropNext, Prepare, PreData, Data, PostData, Restores
  <2> QED BY <1>2, <1>4, <2>1, <2>2 DEF Step, Advance
<1>5. ASSUME NEW r \in Runs, Rename(r) \/ Validate(r) PROVE ViewMissingOnlyAfterFault'
  <2>1. ~Owing(r) /\ UNCHANGED <<tracking, view>> BY <1>5 DEF Rename, Validate, database, Owing, At
  <2>2. UNCHANGED owed \/ Fails(r) BY <1>5 DEF Rename, Validate
  <2> QED BY <1>2, <1>5, <2>1, <2>2 DEF Step, Advance
<1>6. ASSUME NEW r \in Runs, Swap(r) PROVE ViewMissingOnlyAfterFault'
  <2>1. CASE Fails(r) /\ UNCHANGED <<view, tracking>>
    <3>1. ~Owing(r) BY <1>6 DEF Swap, Owing, At
    <3> QED BY <1>2, <1>6, <2>1, <3>1 DEF Step, Advance
  <2>2. CASE Goes(r, "view")
    <3>1. Owing(r)' BY <1>0, <2>2 DEF Goes, Owing
    <3> QED BY <3>1 DEF ViewMissingOnlyAfterFault
  <2> QED BY <1>6, <2>1, <2>2 DEF Swap
<1>7. ASSUME NEW r \in Runs, DropView(r) PROVE ViewMissingOnlyAfterFault'
  <2>1. Owing(r)' BY <1>0, <1>7 DEF DropView, Goes, Owing
  <2> QED BY <2>1 DEF ViewMissingOnlyAfterFault
<1>8. ASSUME NEW r \in Runs, CreateView(r) PROVE ViewMissingOnlyAfterFault'
  <2>1. CASE view
    <3>1. Fails(r) /\ UNCHANGED <<view, tracking>> /\ Owing(r)
      BY <1>8, <2>1 DEF CreateView, Owing, At
    <3>2. owed' BY <3>1 DEF Fails
    <3> QED BY <3>2 DEF ViewMissingOnlyAfterFault
  <2>2. CASE ~view
    <3>1. view' BY <1>8, <2>2 DEF CreateView
    <3> QED BY <3>1 DEF ViewMissingOnlyAfterFault
  <2> QED BY <2>1, <2>2
<1>9. ASSUME NEW r \in Runs, Fault(r) \/ Die(r) PROVE ViewMissingOnlyAfterFault'
  <2>1. (owed => owed') /\ (Owing(r) => owed') BY <1>9 DEF Fault, Die, Fails
  <2>2. tracking' = tracking BY <1>9 DEF Fault, Die
  <2>3. CASE view' = view BY <1>9, <2>1, <2>2, <2>3, OwedKept DEF Step
  <2>4. CASE view' = TRUE BY <2>4 DEF ViewMissingOnlyAfterFault
  <2> QED BY <1>9, <2>3, <2>4 DEF Fault, Die
<1>10. CASE UNCHANGED syncVars
  BY <1>10 DEF syncVars, ViewMissingOnlyAfterFault, Owing
<1> QED BY <1>1, <1>3, <1>4, <1>5, <1>6, <1>7, <1>8, <1>9, <1>10 DEF SyncNext, Advance

\* The view the rights are read from is missing only while a run is between its swap and
\* the view, or after one failed or died there, whatever the other runs do.
THEOREM ViewMissesOnlyAfterFault == SyncSpec => []ViewMissingOnlyAfterFault
<1>1. SyncInit => ViewMissingOnlyAfterFault BY DEF SyncInit, ViewMissingOnlyAfterFault
<1> QED BY <1>1, SyncTypeCorrect, ViewStep, PTL DEF SyncSpec

----------------------------------------------------------------------------
(* What is live *)

\* Runs that do not overlap: only one does something.
Alone == ~parallel => \A q, r \in Runs : run[q].at # "idle" /\ run[r].at # "idle" => q = r

Filled(schemas, state, d) == \A s \in Schemas : schemas[s] = [at |-> state, dump |-> d, mixed |-> FALSE]

\* How far the schemas of a run that is alone have come.
Progress(r) == ~parallel =>
    /\ run[r].at = "pre" => Filled(work, "bare", 0)
    /\ run[r].at = "data" => Filled(work, "tables", 0)
    /\ run[r].at = "post" => Filled(work, "rows", run[r].dump)
    /\ run[r].at = "rename" => Filled(work, "whole", run[r].dump)
    /\ run[r].at \in {"validate", "swap"} => Filled(staging, "whole", run[r].dump)

\* The inductive invariant of runs that do not overlap.
AloneInv == SyncTypeOK /\ Alone /\ TrackingTrue /\ \A r \in Runs : Progress(r)

\* What a run must show of its own step; the others are idle.
LEMMA AloneKept ==
    ASSUME AloneInv, SyncTypeOK', NEW r \in Runs, Step(r), ~parallel, UNCHANGED parallel,
           Progress(r)', TrackingTrue'
    PROVE  AloneInv'
<1>1. ASSUME NEW q \in Runs, q # r PROVE run[q].at = "idle"
  <2>1. CASE Start(r) BY <1>1, <2>1 DEF Start, At
  <2>2. CASE Advance(r) \/ Fault(r) \/ Die(r)
    <3>1. run[r].at # "idle"
      BY <2>2 DEF Advance, Fault, Die, At, List, Check, Fetch, Verify, DropNext, Prepare, PreData, Data,
                  PostData, Rename, Validate, Swap, DropView, CreateView, Grant, Report
    <3> QED BY <1>1, <3>1 DEF AloneInv, Alone
  <2> QED BY <2>1, <2>2 DEF Step
<1>2. ASSUME NEW q \in Runs, q # r PROVE run'[q].at = "idle"
  BY <1>1, <1>2, OthersStay DEF AloneInv
<1>3. Alone' BY <1>2 DEF Alone
<1>4. \A q \in Runs : Progress(q)' BY <1>2 DEF Progress
<1> QED BY <1>3, <1>4 DEF AloneInv

\* A run that ends, or whose step is followed by nothing it has to show.
LEMMA Shows ==
    ASSUME NEW r \in Runs, run'[r].at \notin {"pre", "data", "post", "rename", "validate", "swap"}
    PROVE  Progress(r)'
BY DEF Progress

LEMMA FailsEnds ==
    ASSUME SyncTypeOK, NEW r \in Runs, Fails(r)
    PROVE  Progress(r)'
<1>1. run'[r].at = "report" BY DEF Fails, Goes, SyncTypeOK
<1> QED BY <1>1, Shows

\* What nobody swaps stays true.
LEMMA TrackingKept ==
    ASSUME TrackingTrue, UNCHANGED <<parallel, tracking, live>>
    PROVE  TrackingTrue'
BY DEF TrackingTrue

LEMMA AloneStep == AloneInv /\ [SyncNext]_syncVars => AloneInv'
<1> SUFFICES ASSUME AloneInv, [SyncNext]_syncVars PROVE AloneInv' OBVIOUS
<1>0. SyncTypeOK /\ SyncTypeOK' /\ run \in [Runs -> Run] /\ TrackingTrue
  BY TypeStep DEF AloneInv, SyncTypeOK, Run
<1>a. parallel' = parallel
  BY DEF SyncNext, syncVars, Publish, Start, Advance, Fault, Die, List, Check, Fetch, Verify, DropNext,
         Prepare, PreData, Data, PostData, Rename, Validate, Swap, DropView, CreateView, Grant, Report
<1>b. CASE parallel
  BY <1>0, <1>a, <1>b DEF AloneInv, Alone, Progress, TrackingTrue
<1>c. CASE UNCHANGED syncVars
  BY <1>0, <1>c DEF syncVars, AloneInv, Alone, Progress, Filled, TrackingTrue
<1>d. CASE Publish
  BY <1>0, <1>d DEF Publish, database, AloneInv, Alone, Progress, Filled, TrackingTrue
<1>e. ASSUME ~parallel, NEW r \in Runs, Step(r) PROVE AloneInv'
  <2> SUFFICES Progress(r)' /\ TrackingTrue' BY <1>0, <1>a, <1>e, AloneKept
  <2>1. CASE Start(r) \/ List(r) \/ Check(r) \/ Fetch(r) \/ Verify(r) \/ Grant(r) \/ Report(r)
    <3>1. run'[r].at \in {"list", "check", "grant", "fetch", "verify", "drop", "report", "idle"}
      <4>1. CASE Start(r) BY <1>0, <4>1 DEF Start, Idle
      <4>2. CASE List(r) BY <1>0, <4>2 DEF List, Run
      <4>3. CASE Verify(r) BY <1>0, <4>3 DEF Verify, Run
      <4>4. CASE Check(r) \/ Fetch(r) \/ Grant(r)
        <5>1. CASE Goes(r, "grant") BY <1>0, <5>1 DEF Goes, Run
        <5>2. CASE Goes(r, "fetch") BY <1>0, <5>2 DEF Goes, Run
        <5>3. CASE Goes(r, "verify") BY <1>0, <5>3 DEF Goes, Run
        <5>4. CASE Goes(r, "report") BY <1>0, <5>4 DEF Goes, Run
        <5> QED BY <4>4, <5>1, <5>2, <5>3, <5>4 DEF Check, Fetch, Grant
      <4>5. CASE Report(r) BY <1>0, <4>5 DEF Report, Idle
      <4> QED BY <2>1, <4>1, <4>2, <4>3, <4>4, <4>5
    <3>2. UNCHANGED <<parallel, tracking, live>>
      BY <2>1 DEF Start, List, Check, Fetch, Verify, Grant, Report, database
    <3> QED BY <1>0, <3>1, <3>2, Shows, TrackingKept
  <2>2. CASE DropNext(r)
    <3>1. run'[r].at \in {"drop", "prepare"} BY <1>0, <2>2 DEF DropNext, At, Run
    <3>2. UNCHANGED <<parallel, tracking, live>> BY <2>2 DEF DropNext
    <3> QED BY <1>0, <3>1, <3>2, Shows, TrackingKept
  <2>3. CASE Prepare(r)
    <3>1. run'[r].at = "pre" BY <1>0, <2>3 DEF Prepare, Goes
    <3>2. Filled(work, "bare", 0)' BY <2>3 DEF Prepare, Filled, Bare
    <3>3. UNCHANGED <<parallel, tracking, live>> BY <2>3 DEF Prepare
    <3> QED BY <1>0, <3>1, <3>2, <3>3, TrackingKept DEF Progress
  <2>4. CASE PreData(r)
    <3>1. UNCHANGED <<parallel, tracking, live>> BY <2>4 DEF PreData
    <3>2. CASE Fails(r) BY <1>0, <3>1, <3>2, FailsEnds, TrackingKept
    <3>3. CASE Goes(r, "data") /\ work' = [s \in Schemas |-> Tables]
      <4>1. run'[r].at = "data" BY <1>0, <3>3 DEF Goes
      <4>2. Filled(work, "tables", 0)' BY <3>3 DEF Filled, Tables
      <4> QED BY <1>0, <3>1, <4>1, <4>2, TrackingKept DEF Progress
    <3> QED BY <2>4, <3>2, <3>3 DEF PreData, Restores
  <2>5. CASE Data(r)
    <3>1. UNCHANGED <<parallel, tracking, live>> BY <2>5 DEF Data
    <3>2. CASE Fails(r) BY <1>0, <3>1, <3>2, FailsEnds, TrackingKept
    <3>3. CASE Goes(r, "post") /\ work' = [s \in Schemas |-> Copied(work[s], run[r].dump)]
      <4>1. Filled(work, "tables", 0) BY <1>e, <2>5 DEF AloneInv, Progress, Data, At
      <4>2. run'[r].at = "post" /\ run'[r].dump = run[r].dump BY <1>0, <3>3 DEF Goes, Run
      <4>3. Filled(work, "rows", run[r].dump)'
        <5>1. ASSUME NEW s \in Schemas
              PROVE  work'[s] = [at |-> "rows", dump |-> run[r].dump, mixed |-> FALSE]
          <6>1. work[s].at = "tables" BY <4>1 DEF Filled
          <6>2. (work[s].at = "rows") = FALSE BY <6>1
          <6> QED BY <3>3, <6>2 DEF Copied
        <5> QED BY <4>2, <5>1 DEF Filled
      <4> QED BY <1>0, <3>1, <4>2, <4>3, TrackingKept DEF Progress
    <3> QED BY <2>5, <3>2, <3>3 DEF Data, Restores
  <2>6. CASE PostData(r)
    <3>1. UNCHANGED <<parallel, tracking, live>> BY <2>6 DEF PostData
    <3>2. CASE Fails(r) BY <1>0, <3>1, <3>2, FailsEnds, TrackingKept
    <3>3. CASE Goes(r, "rename") /\ work' = [s \in Schemas |-> Indexed(work[s])]
      <4>1. Filled(work, "rows", run[r].dump) BY <1>e, <2>6 DEF AloneInv, Progress, PostData, At
      <4>2. run'[r].at = "rename" /\ run'[r].dump = run[r].dump BY <1>0, <3>3 DEF Goes, Run
      <4>3. Filled(work, "whole", run[r].dump)'
        <5>1. ASSUME NEW s \in Schemas
              PROVE  work'[s] = [at |-> "whole", dump |-> run[r].dump, mixed |-> FALSE]
          <6>1. work[s] = [at |-> "rows", dump |-> run[r].dump, mixed |-> FALSE] BY <4>1 DEF Filled
          <6>2. work'[s] = Indexed(work[s]) BY <3>3
          <6>3. work[s].dump = run[r].dump /\ work[s].mixed = FALSE BY <6>1
          <6> QED BY <6>2, <6>3 DEF Indexed
        <5> QED BY <4>2, <5>1 DEF Filled
      <4> QED BY <1>0, <3>1, <4>2, <4>3, TrackingKept DEF Progress
    <3> QED BY <2>6, <3>2, <3>3 DEF PostData, Restores
  <2>7. CASE Rename(r)
    <3>1. UNCHANGED <<parallel, tracking, live>> BY <2>7 DEF Rename
    <3>2. CASE Fails(r) BY <1>0, <3>1, <3>2, FailsEnds, TrackingKept
    <3>3. CASE Goes(r, "validate") /\ staging' = work
      <4>1. Filled(work, "whole", run[r].dump) BY <1>e, <2>7 DEF AloneInv, Progress, Rename, At
      <4>2. run'[r].at = "validate" /\ run'[r].dump = run[r].dump BY <1>0, <3>3 DEF Goes, Run
      <4>3. Filled(staging, "whole", run[r].dump)' BY <3>3, <4>1, <4>2 DEF Filled
      <4> QED BY <1>0, <3>1, <4>2, <4>3, TrackingKept DEF Progress
    <3> QED BY <2>7, <3>2, <3>3 DEF Rename
  <2>8. CASE Validate(r)
    <3>1. UNCHANGED <<parallel, tracking, live, staging>> BY <2>8 DEF Validate, database
    <3>2. CASE Fails(r) BY <1>0, <3>1, <3>2, FailsEnds, TrackingKept
    <3>3. CASE Goes(r, "swap")
      <4>1. Filled(staging, "whole", run[r].dump) BY <1>e, <2>8 DEF AloneInv, Progress, Validate, At
      <4>2. run'[r].at = "swap" /\ run'[r].dump = run[r].dump BY <1>0, <3>3 DEF Goes, Run
      <4>3. Filled(staging, "whole", run[r].dump)' BY <3>1, <4>1, <4>2 DEF Filled
      <4> QED BY <1>0, <3>1, <4>2, <4>3, TrackingKept DEF Progress
    <3> QED BY <2>8, <3>2, <3>3 DEF Validate
  <2>9. CASE Swap(r)
    <3>1. CASE Fails(r) /\ UNCHANGED <<live, tracking>>
      BY <1>0, <1>a, <3>1, FailsEnds, TrackingKept
    <3>2. CASE Goes(r, "view") /\ SwapTo(run[r].dump)
      <4>1. Filled(staging, "whole", run[r].dump) BY <1>e, <2>9 DEF AloneInv, Progress, Swap, At
      <4>2. run'[r].at = "view" BY <1>0, <3>2 DEF Goes
      <4>3. TrackingTrue' BY <3>2, <4>1 DEF SwapTo, Filled, TrackingTrue
      <4> QED BY <4>2, <4>3, Shows
    <3> QED BY <2>9, <3>1, <3>2 DEF Swap
  <2>10. CASE DropView(r) \/ CreateView(r) \/ Fault(r) \/ Die(r)
    <3>1. UNCHANGED <<parallel, tracking, live>> BY <2>10 DEF DropView, CreateView, Fault, Die
    <3>2. CASE Fails(r) BY <1>0, <3>1, <3>2, FailsEnds, TrackingKept
    <3>3. CASE Goes(r, "create") \/ Goes(r, "grant") \/ Die(r)
      <4>1. CASE Goes(r, "create") \/ Goes(r, "grant")
        <5>0. run[r] \in Run BY <1>0
        <5>1. run'[r].at \in {"create", "grant"}
          <6>1. CASE Goes(r, "create") BY <1>0, <5>0, <6>1 DEF Goes, Run
          <6>2. CASE Goes(r, "grant") BY <1>0, <5>0, <6>2 DEF Goes, Run
          <6> QED BY <4>1, <6>1, <6>2
        <5> QED BY <1>0, <3>1, <5>1, Shows, TrackingKept
      <4>2. CASE Die(r)
        <5>1. run'[r].at = "idle" BY <1>0, <4>2 DEF Die, Idle
        <5> QED BY <1>0, <3>1, <5>1, Shows, TrackingKept
      <4> QED BY <3>3, <4>1, <4>2
    <3> QED BY <2>10, <3>2, <3>3 DEF DropView, CreateView, Fault
  <2> QED BY <1>e, <2>1, <2>2, <2>3, <2>4, <2>5, <2>6, <2>7, <2>8, <2>9, <2>10 DEF Step, Advance
<1> QED BY <1>b, <1>c, <1>d, <1>e DEF SyncNext, Step

LEMMA AloneInit == SyncInit => AloneInv
BY TypeInit DEF SyncInit, AloneInv, Alone, Progress, TrackingTrue, Idle

\* When runs do not overlap, sync_tracking names the dump every live schema was wholly
\* restored from, after any failure and any death of a run.
THEOREM TrackingIsTrue == SyncSpec => []TrackingTrue
<1>1. AloneInv => TrackingTrue BY DEF AloneInv
<1> QED BY AloneInit, AloneStep, <1>1, PTL DEF SyncSpec

----------------------------------------------------------------------------
(* Two runs that overlap *)

\* No three runs are alive together.
AtMostTwo == \A p, q, r \in Runs : p = q \/ p = r \/ q = r

\* What a run is about to swap has passed the validation, or was dropped since.
Passed(r) == run[r].at = "swap" => \A s \in Schemas : staging[s].at \in {"none", "rows", "whole"}

\* What the other run is about to rename over it is whole, or was renamed already: a third
\* run could have emptied it in between.
NextPassed(r, q) == r # q /\ run[r].at \in {"validate", "swap"} /\ run[q].at = "rename" =>
    \A s \in Schemas : work[s].at \in {"none", "whole"}

\* The inductive invariant of two runs.
OverlapInv ==
    /\ LiveFilled
    /\ \A r \in Runs : Passed(r)
    /\ \A r, q \in Runs : NextPassed(r, q)

\* A step after which the run is neither to swap, to validate nor to rename, and which
\* neither renames nor swaps.
LEMMA OverlapKept ==
    ASSUME SyncTypeOK, OverlapInv, NEW r \in Runs, Step(r), UNCHANGED <<tracking, live>>,
           run'[r].at \notin {"rename", "validate", "swap"},
           \A s \in Schemas : staging'[s].at = staging[s].at \/ staging'[s].at = "none",
           AtMostTwo
    PROVE  OverlapInv'
<1>1. \A q \in Runs \ {r} : run'[q] = run[q] BY OthersStay
<1>2. LiveFilled' BY DEF OverlapInv, LiveFilled
<1>3. ASSUME NEW q \in Runs PROVE Passed(q)'
  <2>1. CASE q = r BY <2>1 DEF Passed
  <2>2. CASE q # r
    <3>1. Passed(q) BY DEF OverlapInv
    <3> QED BY <1>1, <2>2, <3>1 DEF Passed
  <2> QED BY <2>1, <2>2
<1>4. ASSUME NEW p \in Runs, NEW q \in Runs PROVE NextPassed(p, q)'
  <2>1. CASE p = r \/ q = r BY <2>1 DEF NextPassed
  <2>2. CASE p # r /\ q # r
    <3>1. p = q BY <2>2 DEF AtMostTwo
    <3> QED BY <3>1 DEF NextPassed
  <2> QED BY <2>1, <2>2
<1> QED BY <1>2, <1>3, <1>4 DEF OverlapInv

\* A run that fails is none of the two.
LEMMA OverlapFails ==
    ASSUME SyncTypeOK, OverlapInv, NEW r \in Runs, Step(r), Fails(r), AtMostTwo,
           UNCHANGED <<tracking, live, staging>>
    PROVE  OverlapInv'
<1>1. run'[r].at = "report" BY DEF Fails, Goes, SyncTypeOK
<1> QED BY <1>1, OverlapKept

LEMMA OverlapStep ==
    ASSUME SyncTypeOK, OverlapInv, [SyncNext]_syncVars, AtMostTwo
    PROVE  OverlapInv'
<1>0. run \in [Runs -> Run] BY DEF SyncTypeOK, Run
<1>1. CASE UNCHANGED syncVars
  BY <1>1 DEF syncVars, OverlapInv, LiveFilled, Passed, NextPassed
<1>2. CASE Publish
  BY <1>2 DEF Publish, database, OverlapInv, LiveFilled, Passed, NextPassed
<1>3. ASSUME NEW r \in Runs, Step(r) PROVE OverlapInv'
  <2>0. run[r] \in Run BY <1>0
  <2>1. CASE Start(r) \/ List(r) \/ Verify(r) \/ DropNext(r) \/ Report(r) \/ Die(r)
    <3>1. run'[r].at \in {"list", "check", "drop", "prepare", "idle"}
      <4>1. CASE Start(r) BY <1>0, <4>1 DEF Start, Idle
      <4>2. CASE List(r) BY <1>0, <2>0, <4>2 DEF List, Run
      <4>3. CASE Verify(r) BY <1>0, <2>0, <4>3 DEF Verify, Run
      <4>4. CASE DropNext(r) BY <1>0, <2>0, <4>4 DEF DropNext, At, Run
      <4>5. CASE Report(r) \/ Die(r)
        <5>1. run' = [run EXCEPT ![r] = Idle] BY <4>5 DEF Report, Die
        <5> QED BY <1>0, <5>1 DEF Idle
      <4> QED BY <2>1, <4>1, <4>2, <4>3, <4>4, <4>5
    <3>2. UNCHANGED <<tracking, live>> BY <2>1 DEF Start, List, Verify, DropNext, Report, Die, database
    <3>3. \A s \in Schemas : staging'[s].at = staging[s].at \/ staging'[s].at = "none"
      <4>1. CASE DropNext(r) BY <4>1 DEF DropNext, NoSchema
      <4>2. CASE staging' = staging BY <4>2
      <4> QED BY <2>1, <4>1, <4>2 DEF Start, List, Verify, Report, Die, database
    <3> QED BY <1>3, <3>1, <3>2, <3>3, OverlapKept
  <2>2. CASE Check(r) \/ Fetch(r) \/ Prepare(r) \/ DropView(r) \/ Grant(r)
    <3>1. \E step \in {"grant", "fetch", "verify", "pre", "create", "report"} : Goes(r, step)
      BY <2>2 DEF Check, Fetch, Prepare, DropView, Grant
    <3>2. run'[r].at \in {"grant", "fetch", "verify", "pre", "create", "report"}
      BY <1>0, <2>0, <3>1 DEF Goes, Run
    <3>3. UNCHANGED <<tracking, live, staging>> BY <2>2 DEF Check, Fetch, Prepare, DropView, Grant, database
    <3> QED BY <1>3, <3>2, <3>3, OverlapKept
  <2>3. CASE PreData(r) \/ Data(r)
    <3>1. UNCHANGED <<tracking, live, staging>> BY <2>3 DEF PreData, Data
    <3>2. CASE Fails(r) BY <1>3, <3>1, <3>2, OverlapFails
    <3>3. CASE \E step \in {"data", "post"} : Goes(r, step)
      <4>1. run'[r].at \in {"data", "post"} BY <1>0, <2>0, <3>3 DEF Goes, Run
      <4> QED BY <1>3, <3>1, <4>1, OverlapKept
    <3> QED BY <2>3, <3>2, <3>3 DEF PreData, Data, Restores
  <2>4. CASE PostData(r)
    <3>1. UNCHANGED <<tracking, live, staging>> BY <2>4 DEF PostData
    <3>2. CASE Fails(r) BY <1>3, <3>1, <3>2, OverlapFails
    <3>3. CASE Goes(r, "rename") /\ work' = [s \in Schemas |-> Indexed(work[s])]
      <4>1. run'[r].at = "rename" /\ \A q \in Runs \ {r} : run'[q] = run[q]
        BY <1>0, <2>0, <3>3 DEF Goes, Run
      <4>2. \A s \in Schemas : work'[s].at = "whole" BY <3>3 DEF Indexed
      <4>3. ASSUME NEW q \in Runs PROVE Passed(q)'
        <5>1. Passed(q) BY DEF OverlapInv
        <5> QED BY <3>1, <4>1, <5>1 DEF Passed
      <4>4. LiveFilled' BY <3>1 DEF OverlapInv, LiveFilled
      <4>5. \A p, q \in Runs : NextPassed(p, q)' BY <4>2 DEF NextPassed
      <4> QED BY <4>3, <4>4, <4>5 DEF OverlapInv
    <3> QED BY <2>4, <3>2, <3>3 DEF PostData, Restores
  <2>5. CASE Rename(r)
    <3>1. UNCHANGED <<tracking, live>> BY <2>5 DEF Rename
    <3>2. CASE Fails(r) /\ UNCHANGED staging BY <1>3, <3>1, <3>2, OverlapFails
    <3>3. CASE /\ Goes(r, "validate") /\ staging' = work /\ work' = [s \in Schemas |-> NoSchema]
               /\ \A s \in Schemas : work[s].at # "none"
      <4>1. run'[r].at = "validate" /\ \A q \in Runs \ {r} : run'[q] = run[q]
        BY <1>0, <2>0, <3>3 DEF Goes, Run
      <4>2. ASSUME NEW q \in Runs PROVE Passed(q)'
        <5>1. CASE q = r BY <4>1, <5>1 DEF Passed
        <5>2. CASE q # r
          <6>1. NextPassed(q, r) /\ run[r].at = "rename" BY <2>5 DEF OverlapInv, Rename, At
          <6> QED BY <3>3, <4>1, <5>2, <6>1 DEF Passed, NextPassed
        <5> QED BY <5>1, <5>2
      <4>3. LiveFilled' BY <3>1 DEF OverlapInv, LiveFilled
      <4>4. \A p, q \in Runs : NextPassed(p, q)' BY <3>3 DEF NextPassed, NoSchema
      <4> QED BY <4>2, <4>3, <4>4 DEF OverlapInv
    <3> QED BY <2>5, <3>2, <3>3 DEF Rename
  <2>6. CASE Validate(r)
    <3>1. UNCHANGED <<tracking, live, staging, work>> BY <2>6 DEF Validate, database
    <3>2. CASE Fails(r) BY <1>3, <3>1, <3>2, OverlapFails
    <3>3. CASE Valid /\ Goes(r, "swap")
      <4>1. run'[r].at = "swap" /\ \A q \in Runs \ {r} : run'[q] = run[q]
        BY <1>0, <2>0, <3>3 DEF Goes, Run
      <4>2. ASSUME NEW q \in Runs PROVE Passed(q)'
        <5>1. CASE q = r BY <3>1, <3>3, <5>1 DEF Passed, Valid
        <5>2. CASE q # r
          <6>1. Passed(q) BY DEF OverlapInv
          <6> QED BY <3>1, <4>1, <5>2, <6>1 DEF Passed
        <5> QED BY <5>1, <5>2
      <4>3. LiveFilled' BY <3>1 DEF OverlapInv, LiveFilled
      <4>4. ASSUME NEW p \in Runs, NEW q \in Runs PROVE NextPassed(p, q)'
        <5>1. NextPassed(p, q) /\ run[r].at = "validate" BY <2>6 DEF OverlapInv, Validate, At
        <5> QED BY <3>1, <4>1, <5>1 DEF NextPassed
      <4> QED BY <4>2, <4>3, <4>4 DEF OverlapInv
    <3> QED BY <2>6, <3>2, <3>3 DEF Validate
  <2>7. CASE Swap(r)
    <3>1. CASE Fails(r) /\ UNCHANGED <<live, staging, tracking>> BY <1>3, <3>1, OverlapFails
    <3>2. CASE /\ SwapTo(run[r].dump) /\ Goes(r, "view") /\ UNCHANGED work
               /\ \A s \in Schemas : staging[s].at # "none"
      <4>1. run'[r].at = "view" /\ \A q \in Runs \ {r} : run'[q] = run[q]
        BY <1>0, <2>0, <3>2 DEF Goes, Run
      <4>2. LiveFilled'
        <5>1. Passed(r) /\ run[r].at = "swap" BY <2>7 DEF OverlapInv, Swap, At
        <5> QED BY <3>2, <5>1 DEF Passed, SwapTo, LiveFilled
      <4>3. \A q \in Runs : Passed(q)' BY <3>2 DEF SwapTo, NoSchema, Passed
      <4>4. ASSUME NEW p \in Runs, NEW q \in Runs PROVE NextPassed(p, q)'
        <5>1. NextPassed(p, q) BY DEF OverlapInv
        <5> QED BY <3>2, <4>1, <5>1 DEF NextPassed
      <4> QED BY <4>2, <4>3, <4>4 DEF OverlapInv
    <3> QED BY <2>7, <3>1, <3>2 DEF Swap
  <2>8. CASE CreateView(r) \/ Fault(r)
    <3>1. UNCHANGED <<tracking, live, staging>> BY <2>8 DEF CreateView, Fault
    <3>2. CASE Fails(r) BY <1>3, <3>1, <3>2, OverlapFails
    <3>3. CASE Goes(r, "grant")
      <4>1. run'[r].at = "grant" BY <1>0, <2>0, <3>3 DEF Goes, Run
      <4> QED BY <1>3, <3>1, <4>1, OverlapKept
    <3> QED BY <2>8, <3>2, <3>3 DEF CreateView, Fault
  <2> QED BY <1>3, <2>1, <2>2, <2>3, <2>4, <2>5, <2>6, <2>7, <2>8 DEF Step, Advance
<1> QED BY <1>1, <1>2, <1>3 DEF SyncNext, Step

LEMMA OverlapInit == SyncInit => OverlapInv
BY DEF SyncInit, OverlapInv, LiveFilled, Passed, NextPassed, Idle

\* Two runs that drop, fill, rename and swap the same schemas, and fail or die at any call,
\* never leave a live schema without its rows; with a third one they may.
THEOREM LiveIsFilled == ASSUME AtMostTwo PROVE SyncSpec => []LiveFilled
<1>1. SyncTypeOK /\ OverlapInv /\ [SyncNext]_syncVars => OverlapInv' BY OverlapStep
<1>2. OverlapInv => LiveFilled BY DEF OverlapInv
<1> QED BY OverlapInit, <1>1, <1>2, SyncTypeCorrect, PTL DEF SyncSpec

\* Any number of runs that do not overlap never do.
THEOREM LiveIsFilledAlone == SyncSpec => [](~parallel => LiveFilled)
<1>1. TrackingTrue => (~parallel => LiveFilled) BY DEF TrackingTrue, LiveFilled
<1> QED BY <1>1, TrackingIsTrue, PTL
============================================================================
