\* Move records that arrive, arrive again or do not arrive, beside the sweep, a restart
\* and a failure of the database or the PDS; the record of a game, three faults.
SPECIFICATION MCSpec
CONSTANTS
  a = a
  b = b
  Players <- TwoPlayers
  Strangers = {}
  Null = null
  MaxPly = 2
  Window = 0
  Limit = 1
  MaxNow = 1
  MaxRecords = 2
  MaxRestarts = 1
  MaxFailures = 1
  Games = {g1}
  MaxFaults = 3
INVARIANTS
  RecordedOnce
  NoneIsSkipped
PROPERTIES
  GapIsAnswered
  CidArrives
CHECK_DEADLOCK FALSE
