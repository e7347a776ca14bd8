SPECIFICATION FairSpec
CONSTANTS
  d1 = d1
  u1 = u1
  u2 = u2
  good1 = good1
  good2 = good2
  bad = bad
  NoContent = NoContent
  NoUser = NoUser
  Depots <- OneDepot
  Users <- BothUsers
  Contents <- ThreeContents
  WellFormed <- GoodContents
  TTL = 1
  CleanupDelay = 2
  ClockSkew = 1
  RetryLimit = 2
  RetryDelay = 1
  MaxPuts = 2
  LastOpening = 0
  MaxTime = 5
INVARIANTS TypeOK ConfirmedOnce ConfirmedFileKept RejectedNeverConfirmed NothingLeftBehind
PROPERTIES ConfirmationIsIdempotent ImplementsIntake SessionEnds
CHECK_DEADLOCK FALSE
