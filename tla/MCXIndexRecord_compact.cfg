SPECIFICATION FairSpec
CONSTANTS
  Worker = {w1, w2}
  Bg = bg
  Val = {v1, v2}
  Absent = none
  Workload <- Updates
  MaxCalls = 3
INVARIANTS
  TypeOK
  LockExclusive
  PointerLive
  FreedUntouched
PROPERTIES
  Linearizable
  
CHECK_DEADLOCK FALSE
