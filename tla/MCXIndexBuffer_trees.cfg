SPECIFICATION FairSpec
CONSTANTS
  Worker = {w1, w2}
  Key = {2, 4, 5, 6, 8, 10, 12, 14, 16, 18, 20, 22, 24, 25}
  Val = {a, b}
  Absent = absent
  Removed = removed
  Cap = 3
  Loads <- FullTrees
  Workload <- Around
  MaxCalls = 3
INVARIANTS
  TypeOK
  ChildrenFit
  ScanAscends
  ScanComplete
PROPERTIES
  Linearizable
  AllReturn
CHECK_DEADLOCK FALSE
