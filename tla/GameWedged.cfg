\* A stale draw offer against a move.
SPECIFICATION Spec
CONSTANTS
  White = white
  Black = black
  Dids = {white, black}
  Null = null
  Payloads = {quiet, mate}
  Mating = {mate}
  Illegal = {}
  Budget = 1
  StartedAt = 1
  Requests = {q1, q2, q3}
  Sweeper = sweeper
  Ops = {"submitMove", "offerDraw"}
  Concurrency = 2
  Overlapping = {"submitMove", "resign", "offerDraw", "acceptDraw", "declineDraw", "sweep"}
  MaxPly = 2
  MaxNow = 3
  MaxFaults = 0
SYMMETRY Symmetry
INVARIANT
  RowIsAtHead
CHECK_DEADLOCK FALSE
