\* More missing records than one sweep takes.
SPECIFICATION MCSpec
CONSTANTS
  a = a
  b = b
  Players <- TwoPlayers
  Strangers = {s}
  Null = null
  MaxPly = 2
  Window = 1
  Limit = 1
  MaxNow = 3
  MaxRecords = 0
  MaxRestarts = 0
  MaxFailures = 0
  Games = {g1}
  MaxFaults = 0
PROPERTIES
  MissingIsFlagged
CHECK_DEADLOCK FALSE
