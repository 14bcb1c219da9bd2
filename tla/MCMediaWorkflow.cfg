SPECIFICATION Spec
CONSTANTS
  c1 = c1  c2 = c2
  Consumers = {c1, c2}
  MaxRevision = 4
  MaxAttempts = 2
  MaxDeliveries = 2
  MaxReplacements = 1
  Verdicts = {"allow", "hold", "block"}
  MaxActs = 1
  MaxFaults = 2
  MaxUpsets = 2
  None = None
SYMMETRY MCSymmetry
INVARIANTS TypeOK PublishedIsRuledOn DeliveredIsLaunched LiveHasALaunch
CHECK_DEADLOCK FALSE
