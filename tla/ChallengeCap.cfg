\* The challenger's games are not counted.
SPECIFICATION Spec
CONSTANTS
  Dids = {a, b, c}
  Ids = {i1, i2}
  Null = null
  MaxGames = 1
  TTL = 1
  Requests = {q1, q2, q3, q4}
  Ops = {"create", "accept"}
  Indexing = FALSE
  Concurrency = 1
  MaxNow = 1
  MaxFailures = 0
SYMMETRY Symmetry
INVARIANTS
  CapRespected
CHECK_DEADLOCK FALSE
