CONSTANTS
  BASE = 16
  LOW_END = 7
  KERNEL_END = 24
  WORD = 128
  MemoryMaps <- MCMemoryMaps
  NoFrame = NoFrame
SPECIFICATION Spec
INVARIANTS FreeCountExact GrantsAvoidReserved
PROPERTY ImplementsFrameAllocator
