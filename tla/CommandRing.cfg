SPECIFICATION FairSpec
CONSTANTS
  Producers = {p1, p2}
  Depth = 2
  MaxCmds = 3
  MaxFaults = 1
INVARIANTS
  IndInv
  ClaimedOnce
  ChunksContiguous
PROPERTIES
  PutAdvancesByOne
  ImplementsStream
  AllRetire
