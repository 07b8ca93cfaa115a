SPECIFICATION AdmissionSpec
CONSTANTS
  Caller = {c1, c2}
  NotTold = NotTold
  Window = 3
  MaxRequests = 1
  BurstAllowance = 1
  MaxPerClient = 2
  TokenRate = 2
  Refill = 1
  MaxCharge = 2
SYMMETRY Symmetry
INVARIANTS
  RatesBounded
  WaitSuffices
