---- MODULE MCDatabaseJobs ----
(* The two jobs that change the database before anything reads it.  They share *)
(* no table, so a behaviour follows one of them.                               *)
EXTENDS SchemaSync, MigrationLock, TLC

VARIABLE job

\* The job that is not followed starts in one state only.
Init ==
    /\ SyncInit /\ LockInit
    /\ \/ job = "sync" /\ \A i \in Instances : release[i] = NMigrations /\ poolSize[i] = 1
       \/ job = "migrations" /\ ~parallel

Sync(A) == job = "sync" /\ A /\ UNCHANGED <<lockVars, job>>
Lock(A) == job = "migrations" /\ A /\ UNCHANGED <<syncVars, job>>

Next == Sync(SyncNext) \/ Lock(LockNext)

vars == <<syncVars, lockVars, job>>

\* node runs what it started and cron starts the restore every Monday; a start of
\* the API goes on, and time passes for its pool, which closes a connection left
\* idle.  Nothing says that requests come, or that they stop coming.
FairSpec ==
    /\ Init /\ [][Next]_vars
    /\ \A r \in Runs : WF_vars(Sync(Advance(r)))
    /\ WF_vars(Sync(\E r \in Runs : Start(r)))
    /\ \A i \in Instances :
        WF_vars(Lock(Starting(i))) /\ WF_vars(Lock(Rest(i))) /\ WF_vars(Lock(IdleClose(i)))

\* Every variable of both jobs stays in its domain.
JobsTypeOK == SyncTypeOK /\ LockTypeOK
====
