SPECIFICATION FairSpec
CONSTANTS
  Dossiers <- OnlyRejected
  RetryLimit = 2
  MaxAttempts = 1
  MaxCalls = 1
  Fragile <- Worker
  MaxFaults = 2
PROPERTY RestsAndIsMailed
CHECK_DEADLOCK FALSE
