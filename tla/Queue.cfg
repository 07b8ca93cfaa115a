SPECIFICATION Spec
CONSTANTS
  r2 = r2
  Run = {r1, r2}
  Key = {}
  Worker = {w1, w2}
  Client = {c1}
  None = None
  MaxJobs = 2
  MaxGeneration = 2
  LeaseDuration = 0
  MaxDelay = 0
  Named <- Others
  MaxEvents = 1
  Disturbed = {w1}
CONSTRAINT FewClaims
INVARIANTS
  HeldUntilFinished
  DoneStaysDone
