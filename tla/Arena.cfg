CONSTANTS
  Preallocate = 4
  Sizes = {0, 2, 3}
  MaxBlocks = 3
  MaxPeriod = 4
  Width = 28
  Arguments <- MCArguments
SPECIFICATION Spec
INVARIANT
  RepeatNeedsNoMemory
PROPERTIES
  ImplementsAllocator
  NewBlocksHaveRoom
