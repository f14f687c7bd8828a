SPECIFICATION OutSpec
CONSTANTS
  Threads = {t1, t2, t3, t4}
  Channels = {c1}
  Slots = 4
  MaxChunks = 2
  MaxJobs = 1
INVARIANTS
  NeverExhaustedByWaiters
SYMMETRY ThreadSymmetry
CHECK_DEADLOCK FALSE
