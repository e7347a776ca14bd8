SPECIFICATION Spec
CONSTANTS
  Dossiers <- OnlyAccepted
  RetryLimit = 2
  MaxAttempts = 0
  MaxCalls = 2
  Fragile <- TheWebhook
  MaxFaults = 1
INVARIANTS
  AnsweredReturnIsApplied
CHECK_DEADLOCK FALSE
