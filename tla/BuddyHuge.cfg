\* A request whose size with the descriptor exceeds the range of size_t.
SPECIFICATION Spec
CONSTANTS
  SizeModulus <- MCWord
  DescSize <- MCDescSize
  MinChunk = 128
  MaxChunk = 512
  UseGpu = FALSE
  Indices = {0}
  Addresses = {4096}
  Requests = {1, 65472}
INVARIANTS
  HugeGoesToSystem
CHECK_DEADLOCK FALSE
