SPECIFICATION Spec
CONSTANTS
  p1 = p1  p2 = p2  q1 = q1  w1 = w1  w2 = w2  f1 = f1  f2 = f2
  Payouts = {p1}
  Purchases = {q1}
  Workers = {w1, w2}
  Fees = {f1, f2}
  Confirmations = 2
  MaxHead = 1
  MaxFaults = 1
  LeaseRequired = TRUE
  None = None
SYMMETRY MCSymmetry
INVARIANTS TypeOK SentIsStored EveryNonceHasOneOwner  ReleasedIsUnsent
PROPERTIES HaltIsACutOver 
CHECK_DEADLOCK FALSE
