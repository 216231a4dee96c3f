SPECIFICATION Spec
CONSTANTS
  Worker = {w1, w2}
  Key = {1, 2}
  Val = {a}
  Absent = absent
  Removed = removed
  Loads <- Single
  Workload <- LastKey
  Adjust = {"compact", "merge"}
  CompactThreshold = 0
  MergeBound = 3
  MinSplit = 2
  MaxAdjust = 2
SYMMETRY Symmetry
INVARIANTS
  TypeOK
  
  UpdatesInPlace
PROPERTIES
  Linearizable
