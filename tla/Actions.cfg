CONSTANTS
  k1 = k1
  k2 = k2
  k3 = k3
  k4 = k4
  k5 = k5
  o1 = o1
  d1 = d1
  Call = {c1, c2}
  Key = {k1, k2, k3, k4, k5}
  Order = {o1}
  Code = {d1}
  None = None
  Request <- EveryAction
  KeyPrefixes <- ReplanKeys
  OrderTotal = 1
  InitialStock = 1
  MaxAttempts = 2
SPECIFICATION FairSpec
INVARIANTS ActionTypeOK RefundBooked FailedChangedNothing ExecutedIsCommitted
PROPERTIES CallsEnd ImplementsOnceLedger
