SPECIFICATION Spec
CONSTANTS
  Run = {r1}
  Call <- Calls
  c1 = c1
  c2 = c2
  MaxReplans = 1
  None = None
CONSTRAINT RowsAtOnce
SYMMETRY Symmetry
INVARIANTS
  ResolvedIsVerified
  RejectionHolds
