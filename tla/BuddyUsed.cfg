\* max_chunk_size_ exceeds a multiple of min_chunk_size_ by less than a descriptor.
SPECIFICATION Spec
CONSTANTS
  SizeModulus <- MCWord
  DescSize <- MCDescSize
  MinChunk = 160
  MaxChunk = 512
  UseGpu = FALSE
  Indices = {0}
  Addresses = {4096}
  Requests = {1, 400}
INVARIANTS
  UsedIsLiveMemory
CHECK_DEADLOCK FALSE
