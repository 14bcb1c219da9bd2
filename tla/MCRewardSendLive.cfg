SPECIFICATION FairSpec
CONSTANTS
  p1 = p1  p2 = p2  q1 = q1  w1 = w1  w2 = w2  f1 = f1  f2 = f2
  Payouts = {p1}
  Purchases = {q1}
  Workers = {w1}
  Fees = {f1}
  Confirmations = 2
  LeaseRequired = TRUE
  MaxHead = 0
  MaxFaults = 2
  None = None
PROPERTIES EveryReservationEnds
CHECK_DEADLOCK FALSE
