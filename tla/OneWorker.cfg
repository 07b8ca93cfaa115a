CONSTANTS
  Run = {r1}
  Key = {}
  Worker = {w1}
  None = None
  MaxJobs = 1
  MaxGeneration = 9
  LeaseDuration = 1
  MaxDelay = 0
  Slot = {s1, s2}
  Route = {"runAsync", "resume", "direct"}
  MaxRequests = 2
  MaxFaults = 1
  Mortal = {w1}
  MaxAttempts = 2
  Concurrency = 1
SPECIFICATION Spec
INVARIANTS CapacityReturned NoOrphanHeartbeat
