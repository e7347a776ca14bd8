SPECIFICATION FairSpec
CONSTANTS
    Runs = {r1, r2}
    NSchemas = 2
    MaxDump = 2
    MaxFaults = 1
    Instances = {i1, i2}
    NMigrations = 2
    MaxStops = 3
INVARIANT JobsTypeOK
INVARIANT LiveFilled
INVARIANT TrackingTrue
INVARIANT ViewMissingOnlyAfterFault
INVARIANT MigratedOnceInOrder
PROPERTY NewestRestored
PROPERTY LockWaitEnds
CHECK_DEADLOCK FALSE
