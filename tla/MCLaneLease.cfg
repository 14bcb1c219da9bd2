CONSTANTS
  r1 = r1
  r2 = r2
  Runners = {r1, r2}
  None = None
  TTL = 4
  RenewInterval = 1
  RenewDeadline = 1
  MaxLag = 1
  MaxStall = 0
  Period = 1
  JobsPerTick = 2
  MaxTime = 7
SYMMETRY Ticks
SPECIFICATION Spec
INVARIANTS
  TypeOK
  
  TokensAreUnique
  ReleasePresentsTheStoredToken
  
PROPERTIES
  HandoverOnlyAfterExpiryOrRelease
CHECK_DEADLOCK FALSE
