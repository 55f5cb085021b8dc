\* One challenge that everybody is after at the same time.
SPECIFICATION FairSpec
CONSTANTS
  Dids = {a, b, c}
  Ids = {i1}
  Null = null
  MaxGames = 1
  TTL = 1
  Requests = {q1, q2}
  Ops = {"create", "accept", "decline", "cancel"}
  Indexing = TRUE
  Concurrency = 2
  MaxNow = 1
  MaxFailures = 2
INVARIANTS
  OneGamePerChallenge
  AcceptedIffGame
PROPERTIES
  EventuallySettled
CHECK_DEADLOCK FALSE
