\* Requests just below a multiple of the alignment.
SPECIFICATION Spec
CONSTANTS
  SizeModulus <- MCWord
  UIntModulus <- MCUInt
  IncreasingSize = 512
  Bases = {16}
  MaxSegments = 1
  Requests = {24, 40}
  MaxLive = 2
  FreshStatus <- MCZeroed
INVARIANT PayloadInChunk
CHECK_DEADLOCK FALSE
