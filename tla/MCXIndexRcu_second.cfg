SPECIFICATION Spec
CONSTANTS
  Worker = {w1, w2}
  Indexes = 2
  MaxCalls = 1
  MaxVersions = 4
INVARIANTS
  OldDataUnaccessed
CHECK_DEADLOCK FALSE
