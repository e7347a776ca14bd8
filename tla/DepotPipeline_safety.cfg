SPECIFICATION Spec
CONSTANTS
  Dossiers <- EveryEnding
  RetryLimit = 2
  MaxAttempts = 1
  MaxCalls = 2
  Fragile <- Anywhere
  MaxFaults = 1
INVARIANTS
  TypeOK
  DeliveredOnlyValid
  IntegratedOnlyByMasa
  ReportJustified
  NoSilentStop
  OneMail
PROPERTIES
  DecisionIsFinal
CHECK_DEADLOCK FALSE
