SPECIFICATION FairSpec
CONSTANTS
  Engines = {e1}
  NumPages = 5
  FrameCounts = {1, 4}
  Commands <- EveryKind
  HostPages = {1}
  TlbEntries = 1
  PrefetchPages = 4
  TouchAnyTime = FALSE
  RaceFree = FALSE
  MaxCmds = 2
  MaxTouches = 1
  MaxEvicts = 0
PROPERTIES
  CommandsEnd
  HostWoken
CHECK_DEADLOCK FALSE
