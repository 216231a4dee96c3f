SPECIFICATION Spec
CONSTANTS
  Worker = {w1}
  Loader = loader
  Key = {1, 2, 3, 4, 5, 6}
  Inf = 7
  Val = {a}
  Junk = junk
  Loads <- TwoLeaves
  BulkVal = a
  Workload <- TwoLeavesWork
  ScanNum = 5
  LeafMax = 2
  InnerMax = 5
  MaxNodes = 8
  MaxVersion = 30
  MaxCalls = 3
INVARIANTS
  ScanComplete
CHECK_DEADLOCK FALSE
