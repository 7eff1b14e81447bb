\* Three threads, guards nested two deep, as often as they like.
SPECIFICATION FairSpec
CONSTANTS
  Threads = {t1, t2, t3}
  NoThread = NoThread
  Depth = 2
  Values = {old, new}
  None = None
INVARIANTS
  GuardsOwnLock
  SectionsIsolated
  OnlyUpgradesBlock
PROPERTIES
  WaitersServed
CHECK_DEADLOCK FALSE
