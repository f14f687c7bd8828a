SPECIFICATION FairSpec
CONSTANTS
  Threads = {t1, t2}
  NumEngines = 2
  NumChannels = 2
  Levels = 1
  SliceCmds = 2
  MaxFaults = 1
  StreamSet = {s1, s2}
INVARIANTS
  RingsUnmixed
  MixedAgrees
  PreemptsAtBoundary
PROPERTIES
  RefusedOnlyWhenTaken
  TopServed
