------------------------ MODULE DatabaseJobs_proofs -------------------------
(***************************************************************************)
(* Proofs about the two jobs that change the database before anything      *)
(* reads it: the migrations at the start of the API (MigrationLock), for   *)
(* every set of instances, every number of migrations and of stops, and    *)
(* both jobs as MCDatabaseJobs composes them.                              *)
(***************************************************************************)
EXTENDS MCDatabaseJobs, SchemaSync_proofs

\* The migrations that were committed are the first ones, once each.
Prefix ==
    /\ \A m \in Migrations : ran[m] \in {0, 1}
    /\ \A m, n \in Migrations : m < n /\ ran[n] = 1 => ran[m] = 1

\* Whoever migrates holds the lock, and has left to run what is not committed.
Holder(i) ==
    /\ at[i] \in {"locked", "running"} => lock = i
    /\ at[i] = "running" => pending[i] = {m \in 1 .. release[i] : ran[m] = 0}

\* Whoever serves has all the migrations of its release behind it.
Serving(i) == at[i] = "up" => \A m \in 1 .. release[i] : ran[m] = 1

\* The inductive invariant.
LockInv == LockTypeOK /\ Prefix /\ \A i \in Instances : Holder(i) /\ Serving(i)

USE LockAssumption, NobodyAssumption

LEMMA LockTypeInit == LockInit => LockTypeOK
BY DEF LockInit, LockTypeOK, Migrations

LEMMA LockTypeStep == LockTypeOK /\ [LockNext]_lockVars => LockTypeOK'
<1> SUFFICES ASSUME LockTypeOK, [LockNext]_lockVars PROVE LockTypeOK' OBVIOUS
<1> USE DEF LockTypeOK
<1>1. ASSUME NEW i \in Instances, Boot(i) PROVE LockTypeOK' BY <1>1 DEF Boot
<1>2. ASSUME NEW i \in Instances, Acquire(i) PROVE LockTypeOK' BY <1>2 DEF Acquire
<1>3. ASSUME NEW i \in Instances, LoadPending(i) PROVE LockTypeOK'
  <2>1. {m \in 1 .. release[i] : ran[m] = 0} \in SUBSET Migrations BY DEF Migrations
  <2> QED BY <1>3, <2>1 DEF LoadPending
<1>4. ASSUME NEW i \in Instances, RunMigration(i) PROVE LockTypeOK'
  <2>1. PICK m \in pending[i] : /\ ran' = [ran EXCEPT ![m] = @ + 1]
                                /\ pending' = [pending EXCEPT ![i] = @ \ {m}]
    BY <1>4 DEF RunMigration
  <2> QED BY <1>4, <2>1 DEF RunMigration
<1>5. ASSUME NEW i \in Instances, Listen(i) PROVE LockTypeOK' BY <1>5 DEF Listen
<1>6. ASSUME NEW i \in Instances, IdleClose(i) PROVE LockTypeOK' BY <1>6 DEF IdleClose
<1>7. ASSUME NEW i \in Instances, Stop(i) PROVE LockTypeOK' BY <1>7 DEF Stop
<1>8. ASSUME NEW i \in Instances, Request(i) \/ Rest(i) PROVE LockTypeOK'
  BY <1>8 DEF Request, Rest
<1>9. CASE UNCHANGED lockVars BY <1>9 DEF lockVars
<1> QED
  BY <1>1, <1>2, <1>3, <1>4, <1>5, <1>6, <1>7, <1>8, <1>9 DEF LockNext, Starting

\* The type invariant of the migrations: nothing but known migrations is ever pending.
THEOREM LockTypeCorrect == LockSpec => []LockTypeOK
<1> QED BY LockTypeInit, LockTypeStep, PTL DEF LockSpec

----------------------------------------------------------------------------
LEMMA LockInvInit == LockInit => LockInv
BY LockTypeInit DEF LockInit, LockInv, Prefix, Holder, Serving, Migrations

\* What a step that commits nothing must keep, for each instance.
LEMMA NothingCommitted ==
    ASSUME LockInv, LockTypeOK', ran' = ran, \A i \in Instances : Holder(i)' /\ Serving(i)'
    PROVE  LockInv'
BY DEF LockInv, Prefix

LEMMA LockInvStep == LockInv /\ [LockNext]_lockVars => LockInv'
<1> SUFFICES ASSUME LockInv, [LockNext]_lockVars PROVE LockInv' OBVIOUS
<1>0. LockTypeOK /\ LockTypeOK' BY LockTypeStep DEF LockInv
<1>1. ASSUME NEW i \in Instances, Boot(i) \/ Acquire(i) \/ LoadPending(i) PROVE LockInv'
  <2>1. ran' = ran BY <1>1 DEF Boot, Acquire, LoadPending
  <2>2. ASSUME NEW j \in Instances PROVE Holder(j)' /\ Serving(j)'
    <3>1. Holder(j) /\ Serving(j) /\ Holder(i) BY DEF LockInv
    <3>2. CASE Boot(i) BY <1>0, <3>1, <3>2 DEF Boot, Holder, Serving, LockTypeOK
    <3>3. CASE Acquire(i) BY <1>0, <3>1, <3>3 DEF Acquire, LockFree, Holder, Serving, LockTypeOK
    <3>4. CASE LoadPending(i) BY <1>0, <3>1, <3>4 DEF LoadPending, Holder, Serving, LockTypeOK
    <3> QED BY <1>1, <3>2, <3>3, <3>4
  <2> QED BY <1>0, <2>1, <2>2, NothingCommitted
<1>2. ASSUME NEW i \in Instances, RunMigration(i) PROVE LockInv'
  <2>1. PICK m \in pending[i] : /\ \A n \in pending[i] : m <= n
                                /\ ran' = [ran EXCEPT ![m] = @ + 1]
                                /\ pending' = [pending EXCEPT ![i] = @ \ {m}]
    BY <1>2 DEF RunMigration
  <2>2. at[i] = "running" /\ at' = at /\ release' = release /\ lock' = lock
    BY <1>2 DEF RunMigration
  <2>3. pending[i] = {n \in 1 .. release[i] : ran[n] = 0} /\ lock = i
    BY <2>2 DEF LockInv, Holder
  <2>4. m \in Migrations /\ m \in 1 .. release[i] /\ ran[m] = 0 /\ release[i] \in 0 .. NMigrations
    BY <1>0, <2>1, <2>3 DEF LockTypeOK
  <2>5. ran'[m] = 1 /\ \A n \in Migrations : n # m => ran'[n] = ran[n]
    BY <1>0, <2>1, <2>4 DEF LockTypeOK
  <2>6. \A n \in Migrations : n < m => ran[n] = 1
    <3> SUFFICES ASSUME NEW n \in Migrations, n < m PROVE ran[n] = 1 OBVIOUS
    <3>1. n \in 1 .. release[i] BY <2>4 DEF Migrations
    <3>2. n \notin pending[i] BY <2>1, <2>4 DEF Migrations
    <3> QED BY <2>3, <3>1, <3>2 DEF LockInv, Prefix
  <2>7. Prefix'
    <3>1. \A n \in Migrations : ran'[n] \in {0, 1} BY <2>5 DEF LockInv, Prefix
    <3>2. ASSUME NEW k \in Migrations, NEW n \in Migrations, k < n, ran'[n] = 1 PROVE ran'[k] = 1
      <4>1. CASE k = m BY <2>5, <4>1
      <4>2. CASE k # m /\ n = m BY <2>5, <2>6, <3>2, <4>2
      <4>3. CASE k # m /\ n # m BY <2>5, <3>2, <4>3 DEF LockInv, Prefix
      <4> QED BY <4>1, <4>2, <4>3
    <3> QED BY <3>1, <3>2 DEF Prefix
  <2>8. ASSUME NEW j \in Instances PROVE Holder(j)' /\ Serving(j)'
    <3>1. Holder(j) /\ Serving(j) BY DEF LockInv
    <3>2. \A n \in 1 .. release[j] : n \in Migrations BY <1>0 DEF LockTypeOK, Migrations
    <3>3. Serving(j)' BY <2>2, <2>5, <3>1, <3>2 DEF Serving
    <3>4. CASE j = i
      <4>1. pending'[i] = {n \in 1 .. release[i] : ran'[n] = 0}
        <5>1. pending'[i] = pending[i] \ {m} BY <1>0, <2>1 DEF LockTypeOK
        <5>2. \A n \in 1 .. release[i] : ran'[n] = 0 <=> ran[n] = 0 /\ n # m
          BY <2>5, <3>2, <3>4
        <5> QED BY <2>3, <5>1, <5>2
      <4> QED BY <2>2, <2>3, <3>3, <3>4, <4>1 DEF Holder
    <3>5. CASE j # i
      <4>1. at[j] \notin {"locked", "running"} BY <2>3, <3>1, <3>5 DEF Holder
      <4> QED BY <2>2, <3>3, <4>1 DEF Holder
    <3> QED BY <3>4, <3>5
  <2> QED BY <1>0, <2>7, <2>8 DEF LockInv
<1>3. ASSUME NEW i \in Instances, Listen(i) PROVE LockInv'
  <2>1. ran' = ran BY <1>3 DEF Listen
  <2>2. ASSUME NEW j \in Instances PROVE Holder(j)' /\ Serving(j)'
    <3>1. Holder(j) /\ Serving(j) BY DEF LockInv
    <3>2. CASE j = i
      <4>1. \A m \in 1 .. release[i] : m \in Migrations BY <1>0 DEF LockTypeOK, Migrations
      <4>2. \A m \in 1 .. release[i] : ran[m] = 1
        BY <1>3, <3>1, <3>2, <4>1 DEF Listen, Holder, LockInv, Prefix
      <4> QED BY <1>0, <1>3, <3>2, <4>2 DEF Listen, Holder, Serving, LockTypeOK
    <3>3. CASE j # i BY <1>0, <1>3, <3>1, <3>3 DEF Listen, Holder, Serving, LockTypeOK
    <3> QED BY <3>2, <3>3
  <2> QED BY <1>0, <2>1, <2>2, NothingCommitted
<1>4. ASSUME NEW i \in Instances, Request(i) \/ Rest(i) \/ IdleClose(i) PROVE LockInv'
  <2>1. ran' = ran BY <1>4 DEF Request, Rest, IdleClose
  <2>2. ASSUME NEW j \in Instances PROVE Holder(j)' /\ Serving(j)'
    BY <1>0, <1>4, <2>2
    DEF Request, Rest, IdleClose, LockInv, Holder, Serving, LockTypeOK
  <2> QED BY <1>0, <2>1, <2>2, NothingCommitted
<1>5. ASSUME NEW i \in Instances, Stop(i) PROVE LockInv'
  <2>1. ran' = ran BY <1>5 DEF Stop
  <2>2. ASSUME NEW j \in Instances PROVE Holder(j)' /\ Serving(j)'
    <3>1. Holder(j) /\ Serving(j) BY DEF LockInv
    <3>2. CASE j = i BY <1>0, <1>5, <3>2 DEF Stop, Holder, Serving, LockTypeOK
    <3>3. CASE j # i
      <4>1. at'[j] = at[j] /\ pending'[j] = pending[j] /\ release'[j] = release[j]
        BY <1>0, <1>5, <3>3 DEF Stop, LockTypeOK
      <4>2. lock = j => lock' = j BY <1>5, <3>3 DEF Stop
      <4> QED BY <2>1, <3>1, <4>1, <4>2 DEF Holder, Serving
    <3> QED BY <3>2, <3>3
  <2> QED BY <1>0, <2>1, <2>2, NothingCommitted
<1>6. CASE UNCHANGED lockVars
  BY <1>0, <1>6 DEF lockVars, LockInv, Prefix, Holder, Serving
<1> QED BY <1>1, <1>2, <1>3, <1>4, <1>5, <1>6 DEF LockNext, Starting

LEMMA LockInvariant == LockSpec => []LockInv
<1> QED BY LockInvInit, LockInvStep, PTL DEF LockSpec

LEMMA OncePerMigration == LockInv => MigratedOnceInOrder
BY DEF LockInv, Prefix, Serving, MigratedOnceInOrder

\* However many instances start, stop and take over from each other, no migration is
\* committed twice nor before the ones it follows, and none that serves lacks one of its own.
THEOREM MigrationsOnceInOrder == LockSpec => []MigratedOnceInOrder
<1> QED BY LockInvariant, OncePerMigration, PTL

----------------------------------------------------------------------------
(* Both jobs *)

\* A step of the composition is a step of one job, and the other one stutters.
LEMMA OneJobSteps == [Next]_vars => [SyncNext]_syncVars /\ [LockNext]_lockVars
BY DEF Next, Sync, Lock, vars

\* Every variable of both jobs stays in its domain, in the composition that is run.
THEOREM JobsTypeCorrect == FairSpec => []JobsTypeOK
<1>1. Init => JobsTypeOK BY TypeInit, LockTypeInit DEF Init, JobsTypeOK
<1>2. JobsTypeOK /\ [Next]_vars => JobsTypeOK'
  BY OneJobSteps, TypeStep, LockTypeStep DEF JobsTypeOK
<1> QED BY <1>1, <1>2, PTL DEF FairSpec

\* What each job promises it keeps beside the other: the tracking row is true of runs that
\* do not overlap, the view is missing only after a fault, the migrations are run once, in
\* order, before anything is served.
THEOREM JobsKeepTheirPromises ==
    FairSpec => [](TrackingTrue /\ ViewMissingOnlyAfterFault /\ MigratedOnceInOrder)
<1> DEFINE Promises == AloneInv /\ ViewMissingOnlyAfterFault /\ LockInv
<1>1. Init => Promises
  <2>1. SyncInit => ViewMissingOnlyAfterFault BY DEF SyncInit, ViewMissingOnlyAfterFault
  <2> QED BY <2>1, AloneInit, LockInvInit DEF Init
<1>2. Promises /\ [Next]_vars => Promises'
  <2>1. AloneInv => SyncTypeOK BY DEF AloneInv
  <2> QED BY <2>1, OneJobSteps, AloneStep, ViewStep, LockInvStep
<1>3. Promises => TrackingTrue /\ ViewMissingOnlyAfterFault /\ MigratedOnceInOrder
  BY OncePerMigration DEF AloneInv
<1> QED BY <1>1, <1>2, <1>3, PTL DEF FairSpec

\* And with two runs of the restore at most, the live schemas are always filled.
THEOREM JobsLeaveLiveFilled == ASSUME AtMostTwo PROVE FairSpec => []LiveFilled
<1> DEFINE Inv == SyncTypeOK /\ OverlapInv
<1>1. Init => Inv BY TypeInit, OverlapInit DEF Init
<1>2. Inv /\ [Next]_vars => Inv' BY OneJobSteps, TypeStep, OverlapStep
<1>3. Inv => LiveFilled BY DEF OverlapInv
<1> QED BY <1>1, <1>2, <1>3, PTL DEF FairSpec
============================================================================
