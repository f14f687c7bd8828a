SPECIFICATION FairSpec
CONSTANTS
  Clients = {runtime, other}
  Runtime = runtime
  NumEngines = 3
  NumChannels = 2
  Depth = 128
  MaxOpens = 2
  MaxCmds = 1
INVARIANTS
  NoUseAfterTeardown
  DrainedBeforeOff
  RingsApart
PROPERTIES
  CallsReturn
CHECK_DEADLOCK FALSE
