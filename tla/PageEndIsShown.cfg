SPECIFICATION FairSpec
CONSTANTS
  Moves = 2
  Buffer = 1
  InTransit = 1
  MaxBreaks = 1
  MaxErrors = 0
  None = none
PROPERTY EndIsShown
CHECK_DEADLOCK FALSE
