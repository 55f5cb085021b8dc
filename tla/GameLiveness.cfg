\* Two calls that may overlap with each other and with the sweeper.
SPECIFICATION FairSpec
CONSTANTS
  White = white
  Black = black
  Dids = {white, black}
  Null = null
  Payloads = {quiet, mate}
  Mating = {mate}
  Illegal = {}
  Budget = 1
  StartedAt = 0
  Requests = {q1, q2}
  Sweeper = sweeper
  Ops = {"submitMove", "offerDraw"}
  Concurrency = 2
  Overlapping = {"submitMove", "resign", "offerDraw", "acceptDraw", "declineDraw", "sweep"}
  MaxPly = 1
  MaxNow = 1
  MaxFaults = 1
PROPERTIES
  EventuallyFinished
  EndIsAnnounced
CHECK_DEADLOCK FALSE
