SPECIFICATION FairSpec
CONSTANTS
  c1 = c1  c2 = c2
  Consumers = {c1}
  MaxRevision = 4
  MaxAttempts = 2
  MaxDeliveries = 2
  MaxReplacements = 1
  Verdicts = {"hold"}
  MaxActs = 1
  MaxFaults = 0
  MaxUpsets = 1
  None = None
PROPERTIES AuthorIsHeard
CHECK_DEADLOCK FALSE
