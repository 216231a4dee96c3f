SPECIFICATION Spec
CONSTANTS
  Worker = {w1, w2}
  Key = {1, 2, 3}
  Val = {a}
  Absent = absent
  Removed = removed
  Loads <- Uneven
  Workload <- LastKey
  Adjust = {"split"}
  CompactThreshold = 0
  MergeBound = 3
  MinSplit = 2
  MaxAdjust = 1
SYMMETRY Symmetry
PROPERTIES
  Linearizable
