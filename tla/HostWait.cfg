SPECIFICATION FairWaitSpec
CONSTANTS
  Waiters = {w1, w2}
  Channels = {1, 2}
  Published <- TwoCommands
INVARIANTS
  InterruptNotLost
  FenceStaysArmed
PROPERTIES
  WaitsEnd
