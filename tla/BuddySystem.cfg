\* Every system allocator; segments of two or three chunks, huge blocks.
SPECIFICATION SSpec
CONSTANTS
  SizeModulus <- MCWord
  DescSize <- MCDescSize
  MinChunk = 128
  InitialMax = 256
  GpuMaxSizes = {256, 384}
  PinnedLimit = 768
  Kinds = {"cpu", "gpu", "pinned"}
  Addresses <- MCThree
  Requests = {1, 192, 300}
INVARIANTS
  AccountingExact
  SegmentsWhole
  NothingKept
PROPERTIES
  ImplementsHeap
CHECK_DEADLOCK FALSE
