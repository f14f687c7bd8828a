SPECIFICATION FairSpec
CONSTANTS
  Engines = {e1}
  NumPages = 2
  FrameCounts = {1}
  Commands <- OneCopy
  HostPages = {1}
  TlbEntries = 1
  PrefetchPages = 0
  TouchAnyTime = FALSE
  RaceFree = FALSE
  MaxCmds = 1
  MaxTouches = 1
  MaxEvicts = 0
PROPERTIES
  OneFrameIsEnough
CHECK_DEADLOCK FALSE
