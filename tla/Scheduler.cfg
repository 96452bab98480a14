CONSTANTS
  Capacity = 4
  Empty = Empty
  NoSlot = NoSlot
SPECIFICATION FairSpec
INVARIANTS BoundedBypass
PROPERTIES BlockedForGood RoundRobin
