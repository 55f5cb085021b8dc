\* Every operation, a stranger, an illegal move and restarts. The calls that
\* only end the game overlap; the others run alone.
SPECIFICATION Spec
CONSTANTS
  White = white
  Black = black
  Dids = {white, black, stranger}
  Null = null
  Payloads = {quiet, mate, bad}
  Mating = {mate}
  Illegal = {bad}
  Budget = 1
  StartedAt = 1
  Requests = {q1, q2, q3}
  Sweeper = sweeper
  Ops = {"submitMove", "resign", "offerDraw", "acceptDraw", "declineDraw"}
  Concurrency = 2
  Overlapping = {"resign", "acceptDraw", "sweep"}
  MaxPly = 3
  MaxNow = 3
  MaxFaults = 1
SYMMETRY Symmetry
INVARIANTS
  EndIsAnnouncedLast
CHECK_DEADLOCK FALSE
