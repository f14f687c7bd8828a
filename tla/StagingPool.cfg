SPECIFICATION Spec
CONSTANTS
  Threads = {t1, t2}
  Channels = {c1, c2}
  Slots = 4
  MaxChunks = 3
  MaxJobs = 1
INVARIANTS
  CopiesIntact
  SlotsAccounted
  ExhaustedOnlyByMany
SYMMETRY ThreadSymmetry
CHECK_DEADLOCK FALSE
