SPECIFICATION Spec
CONSTANTS
  Threads = {t1, t2}
  Channels = {c1}
  VramPages = 2
  VaPages = 4
  Uffd = FALSE
  MaxPages = 2
  MaxAllocs = 3
  MaxCmds = 2
  MaxMoves = 0
INVARIANTS
  ManagedGivesWay
CHECK_DEADLOCK FALSE
