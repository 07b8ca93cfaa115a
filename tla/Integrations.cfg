SPECIFICATION Spec
CONSTANTS
  Call = {c1, c2}
  Key = {k1, k2}
  Stock = 1
  MaxRetries = 1
  MaxRedirects = 1
  MaxCalls <- MostCalls
  MaxLost = 1
  FailureThreshold = 2
  ProbeThreshold = 2
  None = None
INVARIANTS
  IntegrationTypeOK
  CompletedWasDone
  VerifiedIsTrue
  EffectOnce
PROPERTIES
  BreakerCounts
SYMMETRY Symmetry
CHECK_DEADLOCK FALSE
