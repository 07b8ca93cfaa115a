CONSTANTS
  Run = {r1}
  Key = {k1}
  Worker = {w1, w2}
  None = None
  MaxJobs = 2
  MaxGeneration = 2
  LeaseDuration = 1
  MaxDelay = 1
SPECIFICATION StoreSpec
INVARIANTS LeaseOwnership
PROPERTIES LiveLeaseNotStolen GenerationGrantedOnce ImplementsFencedLease
