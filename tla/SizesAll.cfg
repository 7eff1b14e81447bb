\* All bins of a 28-bit word; an unsigned int of 18 bits.
SPECIFICATION Spec
CONSTANTS
  SizeModulus <- MCWord
  UIntModulus <- MCUInt
  Sizes <- MCSizes
INVARIANTS
  RequestsPadded
  TreeBinsPartition
  BinSearchExact
CHECK_DEADLOCK FALSE
