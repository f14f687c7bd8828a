SPECIFICATION Spec
CONSTANTS
  Engines = {compute, copy}
  Producers = {p1, p2}
  MaxCmds = 2
  MaxFaults = 1
INVARIANTS
  FenceAlwaysWakes
