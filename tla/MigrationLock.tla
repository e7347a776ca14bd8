---- MODULE MigrationLock ----
(***************************************************************************)
(* Migrations at the start of the API (MigrationService): every instance   *)
(* takes a PostgreSQL advisory lock on one connection of its pool, runs    *)
(* the pending migrations on another (DataSource.runMigrations, one        *)
(* transaction each) and gives the first back to the pool.                 *)
(*                                                                         *)
(*   - the lock belongs to the database session.  Giving the connection    *)
(*     back neither unlocks nor closes it: the lock is held while the      *)
(*     instance serves, until the process ends or the pool closes the      *)
(*     connection because nobody used it for its idle timeout.  Requests   *)
(*     take the connection that was given back last, so traffic may keep   *)
(*     the session, and the lock, alive: the pool sets no maximum lifetime *)
(*   - instances of two releases start side by side during a deployment;   *)
(*     a release carries the migrations of the ones before                 *)
(* The migrations themselves are numbers; RUN_MIGRATIONS_ON_STARTUP is on. *)
(***************************************************************************)
EXTENDS Integers, FiniteSets

CONSTANTS
    Instances,     \* API processes
    NMigrations,   \* the migrations of the newest release
    MaxStops       \* bound: failures, restarts and deployments

ASSUME LockAssumption == NMigrations \in Nat /\ MaxStops \in Nat

Nobody == "nobody"
ASSUME NobodyAssumption == Nobody \notin Instances

Migrations == 1 .. NMigrations

VARIABLES
    release,   \* the last migration the code of each instance knows
    poolSize,  \* DATABASE_POOL_API of each instance
    at,        \* where each instance is in its start
    pending,   \* the migrations runMigrations found to run
    lock,      \* the instance whose session holds the advisory lock
    used,      \* instances whose session with the lock was used within the timeout
    ran,       \* how often each migration was committed
    stops

lockVars == <<release, poolSize, at, pending, lock, used, ran, stops>>

LockInit ==
    /\ release \in [Instances -> {NMigrations, NMigrations - 1} \cap Nat]
    /\ poolSize \in [Instances -> {1, 2}]
    /\ at = [i \in Instances |-> "down"]
    /\ pending = [i \in Instances |-> {}]
    /\ lock = Nobody
    /\ used = {}
    /\ ran = [m \in Migrations |-> 0]
    /\ stops = 0

----
\* queryRunner.connect takes a connection, pg_advisory_lock waits on it.
Boot(i) ==
    /\ at[i] = "down"
    /\ at' = [at EXCEPT ![i] = "asking"]
    /\ UNCHANGED <<release, poolSize, pending, lock, used, ran, stops>>

\* Mutant: the lock is tried for, and its answer ignored.
LockFree_Try == TRUE

LockFree == lock = Nobody

Acquire(i) ==
    /\ at[i] = "asking"
    /\ LockFree
    /\ lock' = i
    /\ at' = [at EXCEPT ![i] = "locked"]
    /\ UNCHANGED <<release, poolSize, pending, used, ran, stops>>

\* runMigrations asks the pool for a second connection, which a pool of one
\* never gives, and reads the table of the migrations that were run.
LoadPending(i) ==
    /\ at[i] = "locked"
    /\ poolSize[i] > 1
    /\ pending' = [pending EXCEPT ![i] = {m \in 1 .. release[i] : ran[m] = 0}]
    /\ at' = [at EXCEPT ![i] = "running"]
    /\ UNCHANGED <<release, poolSize, lock, used, ran, stops>>

\* transaction: 'each': the migration and its row are committed together.
RunMigration(i) ==
    /\ at[i] = "running"
    /\ \E m \in pending[i] :
        /\ \A n \in pending[i] : m <= n
        /\ ran' = [ran EXCEPT ![m] = @ + 1]
        /\ pending' = [pending EXCEPT ![i] = @ \ {m}]
    /\ UNCHANGED <<release, poolSize, at, lock, used, stops>>

\* queryRunner.release, and the application listens.  The lock stays.
Listen(i) ==
    /\ at[i] = "running"
    /\ pending[i] = {}
    /\ at' = [at EXCEPT ![i] = "up"]
    /\ used' = used \cup {i}
    /\ UNCHANGED <<release, poolSize, pending, lock, ran, stops>>

\* A request borrows the connection that holds the lock: its timeout starts anew.
Request(i) ==
    /\ at[i] = "up" /\ lock = i /\ i \notin used
    /\ used' = used \cup {i}
    /\ UNCHANGED <<release, poolSize, at, pending, lock, ran, stops>>

\* Nobody has used it for almost the idle timeout.
Rest(i) ==
    /\ at[i] = "up" /\ lock = i /\ i \in used
    /\ used' = used \ {i}
    /\ UNCHANGED <<release, poolSize, at, pending, lock, ran, stops>>

\* Mutant: the pool keeps its idle connections for ever.
IdleClose_Never(i) == at[i] = "up" /\ lock = i /\ i \notin used /\ UNCHANGED lockVars

\* The idle timeout passes without a request: the pool closes the connection and
\* the session ends.
IdleClose(i) ==
    /\ at[i] = "up" /\ lock = i /\ i \notin used
    /\ lock' = Nobody
    /\ UNCHANGED <<release, poolSize, at, pending, used, ran, stops>>

\* An error of the start ends the process (exit 1), and so does a signal, a
\* crash or a deployment, after which the instance has the newest release.
Stop(i) ==
    /\ stops < MaxStops
    /\ at[i] # "down"
    /\ at' = [at EXCEPT ![i] = "down"]
    /\ pending' = [pending EXCEPT ![i] = {}]
    /\ lock' = IF lock = i THEN Nobody ELSE lock
    /\ used' = used \ {i}
    /\ release' \in {release, [release EXCEPT ![i] = NMigrations]}
    /\ stops' = stops + 1
    /\ UNCHANGED <<poolSize, ran>>

Starting(i) == Boot(i) \/ Acquire(i) \/ LoadPending(i) \/ RunMigration(i) \/ Listen(i)

LockNext ==
    \E i \in Instances : Starting(i) \/ Request(i) \/ Rest(i) \/ IdleClose(i) \/ Stop(i)

LockSpec == LockInit /\ [][LockNext]_lockVars

----
(* Properties *)

LockTypeOK ==
    /\ release \in [Instances -> 0 .. NMigrations]
    /\ poolSize \in [Instances -> {1, 2}]
    /\ at \in [Instances -> {"down", "asking", "locked", "running", "up"}]
    /\ pending \in [Instances -> SUBSET Migrations]
    /\ lock \in Instances \cup {Nobody}
    /\ used \in SUBSET Instances
    /\ ran \in [Migrations -> Nat]
    /\ stops \in 0 .. MaxStops

\* However many instances of two releases start, stop and take over from each
\* other, no migration is ever committed twice, none before the ones it follows,
\* and an instance that serves has all those of its release behind it.
MigratedOnceInOrder ==
    /\ \A m \in Migrations : ran[m] <= 1
    /\ \A m, n \in Migrations : m < n /\ ran[n] = 1 => ran[m] = 1
    /\ \A i \in Instances : at[i] = "up" => \A m \in 1 .. release[i] : ran[m] = 1

\* An instance waits for the lock for ever only if requests come for ever to one that
\* serves and holds it, often enough that its session is never left idle: nothing
\* unlocks it, but a holder that fails, or whose traffic pauses, lets the next one in.
\* It needs two connections in every pool; with one, the holder of the lock waits
\* for itself and all the others for it (databasePoolSize accepts 1).
KeptBusy == \E j \in Instances : at[j] = "up" /\ lock = j /\ j \in used

LockWaitEnds ==
    \A i \in Instances :
        at[i] = "asking" /\ (\A j \in Instances : poolSize[j] > 1)
            ~> at[i] # "asking" \/ KeptBusy
====
