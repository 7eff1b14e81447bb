\* Requests around the boundary of small and large, two of one tree bin, over an unaligned base.
SPECIFICATION FairSpec
CONSTANTS
  SizeModulus <- MCWord
  UIntModulus <- MCUInt
  IncreasingSize = 1200
  Bases = {40}
  MaxSegments = 1
  Requests = {200, 264, 300}
  MaxLive = 4
  FreshStatus <- MCZeroed
INVARIANTS
  HeapTiled
  AtRestOneTop
PROPERTIES
  BestFitLarge
  ImplementsHeap
  FittingAllocReturns
CHECK_DEADLOCK FALSE
