SPECIFICATION Spec
CONSTANTS
  Worker = {w1, w2, w3}
  Indexes = 2
  MaxCalls = 3
  MaxVersions = 4
SYMMETRY Symmetry
INVARIANTS
  TypeOK
  GracePeriod
  FirstIndexSafe
CHECK_DEADLOCK FALSE
