SPECIFICATION Spec
CONSTANTS
  d1 = d1
  u1 = u1
  u2 = u2
  good1 = good1
  good2 = good2
  bad = bad
  NoContent = NoContent
  NoUser = NoUser
  Depots <- OneDepot
  Users <- OneUser
  Contents <- TwoContents
  WellFormed <- GoodContent
  TTL = 3
  CleanupDelay = 1
  ClockSkew = 0
  RetryLimit = 2
  RetryDelay = 1
  MaxPuts = 1
  LastOpening = 0
  MaxTime = 17
PROPERTIES ConfirmableForAnHour
CHECK_DEADLOCK FALSE
