SPECIFICATION FairSpec
CONSTANTS
  Threads = {t1, t2}
  Channels = {c1, c2}
  VramPages = 2
  VaPages = 4
  Uffd = TRUE
  MaxPages = 2
  MaxAllocs = 2
  MaxCmds = 2
  MaxMoves = 1
INVARIANTS
  NoUseAfterRecycle
  MemoryAccounted
PROPERTIES
  RefusesOnlyWhenFull
  AllocReturns
CHECK_DEADLOCK FALSE
