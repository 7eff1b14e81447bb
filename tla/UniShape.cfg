\* Small and large requests over a segment whose base is aligned.
SPECIFICATION Spec
CONSTANTS
  SizeModulus <- MCWord
  UIntModulus <- MCUInt
  IncreasingSize = 720
  Bases = {16}
  MaxSegments = 1
  Requests = {1, 40, 232, 264, 300}
  MaxLive = 3
  FreshStatus <- MCAny
INVARIANTS
  TypeOK
  BoundaryTags
  NoAdjacentFree
  BinsExact
  CachedSizes
  LiveExact
  ChecksPass
PROPERTIES
  LiveUntouched
  TopIsLastResort
CHECK_DEADLOCK FALSE
