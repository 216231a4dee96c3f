SPECIFICATION FairSpec
CONSTANTS
  Worker = {w1, w2}
  Key = {1, 2, 3}
  Val = {a}
  Absent = absent
  Removed = removed
  Loads <- PairFirst
  Workload <- OneWriter
  Adjust = {"split", "merge", "compact", "model"}
  CompactThreshold = 0
  MergeBound = 3
  MinSplit = 2
  MaxAdjust = 1
INVARIANTS
  
  TrimKeepsAll
  
  UpdatesInPlace
PROPERTIES
  Linearizable
  CallsReturn
  AdjustmentsEnd
