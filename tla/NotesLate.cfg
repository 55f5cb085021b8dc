\* A note that is filed after the end of the game.
SPECIFICATION FairSpec
CONSTANTS
  Notes = {n1}
  Forms <- ReadableForms
  Null = null
  Plies = 1
  Seconds = 1
  Limit = 1
  MaxPly = 1
  MaxNow = 2
  MaxFaults = 0
PROPERTIES
  NothingStaysPrivate
CHECK_DEADLOCK FALSE
