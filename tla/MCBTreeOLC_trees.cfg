SPECIFICATION Spec
CONSTANTS
  Worker = {w1, w2}
  Loader = loader
  Key = {1, 2, 3, 4, 5, 6, 7, 8, 9}
  Inf = 10
  Val = {a, b}
  Junk = junk
  Loads <- FullTrees
  BulkVal = a
  Workload <- AtTheEnd
  ScanNum = 3
  LeafMax = 2
  InnerMax = 5
  MaxNodes = 13
  MaxVersion = 44
  MaxCalls = 1
SYMMETRY Symmetry
INVARIANTS
  TypeOK
  WriteLockExclusive
  RoomToInsert
  KeysFindable
  RootStands
PROPERTIES
  UnlockedNodesStable
  ScanAscends
  
CHECK_DEADLOCK FALSE
