SPECIFICATION WaitSpec
CONSTANTS
  Waiters = {w1}
  Channels = {1, 2}
  Published <- TwoCommands
INVARIANTS
  SignalGuaranteed
