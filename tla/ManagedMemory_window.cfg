SPECIFICATION Spec
CONSTANTS
  Engines = {e1}
  NumPages = 3
  FrameCounts = {4}
  Commands <- OneFill
  HostPages = {3}
  TlbEntries = 2
  PrefetchPages = 4
  TouchAnyTime = TRUE
  RaceFree = TRUE
  MaxCmds = 1
  MaxTouches = 1
  MaxEvicts = 0
INVARIANTS
  NoWriteLost
CHECK_DEADLOCK FALSE
