\* A request at MAX_REQUEST and one the segment cannot hold.
SPECIFICATION FairSpec
CONSTANTS
  SizeModulus <- MCWord
  UIntModulus <- MCUInt
  IncreasingSize = 512
  Bases = {16}
  MaxSegments = 2
  Requests = {40, 65408}
  MaxLive = 1
  FreshStatus <- MCZeroed
PROPERTY AllocReturns
CHECK_DEADLOCK FALSE
