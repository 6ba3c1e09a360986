CONSTANTS
  Thread = {a1, a2}
  None = None
  Size = {1, 2}
  SlabSize = 3
  MaxSlabs = 2
SPECIFICATION FairSpec
INVARIANTS Disjoint Accounted
PROPERTIES LockReleased
CHECK_DEADLOCK FALSE
