\* Two large sizes that share a tree bin.
SPECIFICATION Spec
CONSTANTS
  SizeModulus <- MCWord
  UIntModulus <- MCUInt
  IncreasingSize = 1536
  Bases = {16}
  MaxSegments = 1
  Requests = {40, 264, 300}
  MaxLive = 4
  FreshStatus <- MCZeroed
INVARIANT NeverCorrupted
CHECK_DEADLOCK FALSE
