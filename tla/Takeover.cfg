CONSTANTS
  Run = {r1}
  Key = {}
  Worker = {w1, w2}
  None = None
  MaxJobs = 1
  MaxGeneration = 7
  LeaseDuration = 1
  MaxDelay = 0
  Slot = {s1}
  Route = {"runSync", "runAsync", "resume", "direct"}
  MaxRequests = 1
  MaxFaults = 1
  Mortal = {w1}
  MaxAttempts = 2
  Concurrency = 1
SPECIFICATION Spec
INVARIANTS
  CoordinatorTypeOK
  ClaimsBounded
PROPERTIES
  FencedOutcome
  UsesStore
  RecoveryWithinAttempts
