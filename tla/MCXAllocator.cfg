CONSTANTS
  Setups <- MCSetups
  Threads = {t1, t2}
  Sizes = {1, 3, 7}
  Overhead = 2
  PointerSize = 2
  SizeBits = 5
  MaxAllocators = 2
  PoolSizes <- MCPoolSizes
  MaxBlocks = 2
  MaxCalls = 4
SYMMETRY MCSymmetry
SPECIFICATION Spec
INVARIANTS
  OneAllocatorPerSize
  BlockHasOneOwner
  StatisticsBalance
CHECK_DEADLOCK FALSE
