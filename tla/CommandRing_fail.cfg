SPECIFICATION Spec
CONSTANTS
  Producers = {p1}
  Depth = 2
  MaxCmds = 2
  MaxFaults = 1
INVARIANTS
  OnlyFaultedFail
