SPECIFICATION FairSpec
CONSTANTS
  Dossiers <- OnlyAccepted
  RetryLimit = 2
  MaxAttempts = 0
  MaxCalls = 1
  Fragile <- AfterTheAnswer
  MaxFaults = 2
PROPERTIES
  AnswerIsHonoured
  OutcomeIsMailed
CHECK_DEADLOCK FALSE
