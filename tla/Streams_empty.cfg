SPECIFICATION Spec
CONSTANTS
  Threads = {t1}
  StreamSet = {s1}
  Events = {ev}
  Channels = {c1}
  Buffers = {}
  MaxCalls = 4
INVARIANTS
  InOrder
CHECK_DEADLOCK FALSE
