SPECIFICATION FairSpec
CONSTANTS
  Worker = {w1, w2}
  Loader = loader
  Key = {1, 2, 3, 4, 5, 6, 7, 8, 9}
  Inf = 10
  Val = {a, b}
  Junk = junk
  Loads <- OneLeaf
  BulkVal = a
  Workload <- AtTheEnd
  ScanNum = 3
  LeafMax = 2
  InnerMax = 5
  MaxNodes = 6
  MaxVersion = 28
  MaxCalls = 1
PROPERTIES
  LocksReleased
  LoneThreadFinishes
CHECK_DEADLOCK FALSE
