SPECIFICATION FairSpec
CONSTANTS
  MaxPlies = 1
  GuardFactor = 3
  Hints = 3
  MaxPly = 3
  MaxFaults = 1
INVARIANTS
  KeyWaitsForEnd
  RecordsAreMoves
  NoGameIsLeft
PROPERTIES
  TurnIsServed
  KeyFollowsEnd
CHECK_DEADLOCK FALSE
