\* Two threads over pinned memory: one or two chunks of a segment of three, or a huge block.
SPECIFICATION FairTSpec
CONSTANTS
  SizeModulus <- MCWord
  DescSize <- MCDescSize
  MinChunk = 128
  MaxChunk = 384
  UseGpu = FALSE
  Indices = {1}
  Addresses <- MCAdjacent
  Requests = {1, 192, 321}
  Threads = {t1, t2}
  NoThread = NoThread
INVARIANTS
  UsedCoversArena
  SearchFindsFirst
  CountersExact
PROPERTIES
  ImplementsAtomic
  CallsReturn
CHECK_DEADLOCK FALSE
