SPECIFICATION AllocatorSpec
CONSTANTS
  Base = 4
  Size = 12
  Align = 2
  Word = 32
  MaxRequest = 31
INVARIANTS
  GrantsHonoured
