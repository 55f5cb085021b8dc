\* A record published in time that the indexer reads late.
SPECIFICATION MCSpec
CONSTANTS
  a = a
  b = b
  Players <- TwoPlayers
  Strangers = {s}
  Null = null
  MaxPly = 2
  Window = 1
  Limit = 2
  MaxNow = 3
  MaxRecords = 2
  MaxRestarts = 0
  MaxFailures = 0
  Games = {g1}
  MaxFaults = 0
INVARIANTS
  PublishedInTimeIsNotFlagged
CHECK_DEADLOCK FALSE
