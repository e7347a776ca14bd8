SPECIFICATION Spec
CONSTANTS
  Dossiers <- OnlyAccepted
  RetryLimit = 2
  MaxAttempts = 0
  MaxCalls = 1
  Fragile <- TheTransfer
  MaxFaults = 1
PROPERTIES
  IntegratedIsTheEnd
CHECK_DEADLOCK FALSE
