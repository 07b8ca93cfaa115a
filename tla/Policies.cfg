CONSTANTS
  Policy = {p1}
  Legacy = {}
  Seeded = {p1}
  Key = {k1}
  Definition = {d1}
  Windows <- SomeWindows
  Call = {c1, c2}
  Run = {r1}
  MaxVersion = 2
  MaxTime = 1
  None = None
CONSTRAINT TwoAtOnce
SYMMETRY Symmetry
SPECIFICATION Spec
INVARIANTS OneActiveVersion ActiveHasHeader
PROPERTIES VersionNotRecreated RunKeepsPolicies
