SPECIFICATION Spec
CONSTANTS
  Threads = {t1}
  Channels = {c1}
  Slots = 4
  MaxChunks = 3
  MaxJobs = 1
INVARIANTS
  NoSlotLeak
CHECK_DEADLOCK FALSE
