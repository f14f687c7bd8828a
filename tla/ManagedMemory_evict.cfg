SPECIFICATION Spec
CONSTANTS
  Engines = {e1, e2}
  NumPages = 2
  FrameCounts = {1}
  Commands <- FillsAndCopies
  HostPages = {1}
  TlbEntries = 1
  PrefetchPages = 0
  TouchAnyTime = FALSE
  RaceFree = FALSE
  MaxCmds = 2
  MaxTouches = 1
  MaxEvicts = 1
INVARIANTS
  NoStaleTranslation
  TlbClean
  NoWriteLost
  PagesOwned
SYMMETRY EngineSymmetry
CHECK_DEADLOCK FALSE
