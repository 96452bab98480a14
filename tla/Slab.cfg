CONSTANTS
  HEAP = 10
  Sizes = {1, 2, 4}
  Null = Null
  MaxTotal = 28
SPECIFICATION Spec
INVARIANTS ChainSize InUseExact DisjointUntilMerge
CHECK_DEADLOCK FALSE
