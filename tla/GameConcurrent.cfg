\* Three calls and the sweeper, any two of them overlapping.
SPECIFICATION Spec
CONSTANTS
  White = white
  Black = black
  Dids = {white, black}
  Null = null
  Payloads = {quiet, mate}
  Mating = {mate}
  Illegal = {}
  Budget = 1
  StartedAt = 0
  Requests = {q1, q2, q3}
  Sweeper = sweeper
  Ops = {"submitMove", "offerDraw", "acceptDraw"}
  Concurrency = 2
  Overlapping = {"submitMove", "resign", "offerDraw", "acceptDraw", "declineDraw", "sweep"}
  MaxPly = 2
  MaxNow = 1
  MaxFaults = 1
SYMMETRY Symmetry
INVARIANTS
  TypeOK
  RowsFitLog
  NothingAfterMate
  MovesAnnouncedOnce
  TimeoutWasDue
  EveryEndIsTold
PROPERTIES
  ImplementsGameLog
  OnlyStaleWritesUndo
CHECK_DEADLOCK FALSE
