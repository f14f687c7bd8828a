SPECIFICATION FairSpec
CONSTANTS
  Threads = {t1, t2}
  StreamSet = {s1, s2}
  Events = {ev}
  Channels = {c1, c2}
  Buffers = {b}
  MaxCalls = 3
INVARIANTS
  StreamOrder
  SyncComplete
  BuffersLive
PROPERTIES
  AllRetire
CHECK_DEADLOCK FALSE
