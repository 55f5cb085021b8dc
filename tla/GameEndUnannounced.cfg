\* The process dies between the commit of the end and its announcement.
SPECIFICATION FairSpec
CONSTANTS
  White = white
  Black = black
  Dids = {white, black}
  Null = null
  Payloads = {quiet, mate}
  Mating = {mate}
  Illegal = {}
  Budget = 1
  StartedAt = 1
  Requests = {q1, q2}
  Sweeper = sweeper
  Ops = {"submitMove", "resign"}
  Concurrency = 1
  Overlapping = {"submitMove", "resign", "offerDraw", "acceptDraw", "declineDraw", "sweep"}
  MaxPly = 2
  MaxNow = 3
  MaxFaults = 1
PROPERTY
  EndIsAnnouncedAtAll
CHECK_DEADLOCK FALSE
