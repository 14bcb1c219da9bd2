SPECIFICATION Spec
CONSTANTS
  Sessions <- Two
  Lost <- First
  MayRevoke <- Two
  Lifetime = 2
  Skew = 1
  MaxDelay = 2
  AttemptLimit = 3
  Exhaustion = TRUE
  Sweeping = TRUE
  BatchLimit = 2
  MaxCrashes = 2
INVARIANTS TypeOK StoredIsInPostgres PendingHasAlarm FinalizationInv
PROPERTIES AttemptKeepsTheReason ImplementsSessionOutcome
