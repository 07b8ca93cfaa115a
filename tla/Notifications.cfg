SPECIFICATION Spec
CONSTANTS
  Event = {"RESOLUTION_COMPLETED", "APPROVAL_REQUIRED"}
  c1 = c1
  c2 = c2
  Call <- Calls
  MaxAttempts = 2
  MaxRetries = 1
  None = None
SYMMETRY Symmetry
INVARIANTS
  ResolutionGrounded
  SentWasDelivered
  TriesBounded
