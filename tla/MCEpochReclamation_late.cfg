SPECIFICATION Spec
CONSTANTS
  Thread = {t1, t2, t3}
  Writer = {t1, t2}
  Linked0 = 1
  Batch = 1
  MaxNodes = 5
SYMMETRY Symmetry
INVARIANTS
  NoUseAfterFree
