\* Descriptors in the blocks; memory of either index in two adjacent segments.
SPECIFICATION Spec
CONSTANTS
  SizeModulus <- MCShortWord
  DescSize <- MCDescSize
  MinChunk = 128
  MaxChunk <- MCMaxChunk
  UseGpu = FALSE
  Indices = {0, 1}
  Addresses <- MCAdjacent
  Requests <- MCMixed
INVARIANTS
  TypeOK
  Links
  BlocksTile
  PoolExact
  NoFreeBuddies
  LiveExact
  NoMisuse
  AtRestWhole
  DestroyReturnsAll
PROPERTIES
  ImplementsHeap
CHECK_DEADLOCK FALSE
