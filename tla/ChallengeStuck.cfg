\* An acceptor is not told that he has won, or hangs up while his game is created; the
\* challenge is not given back.
SPECIFICATION Spec
CONSTANTS
  Dids = {a, b}
  Ids = {i1}
  Null = null
  MaxGames = 1
  TTL = 1
  Requests = {q1, q2}
  Ops = {"create", "accept"}
  Indexing = FALSE
  Concurrency = 1
  MaxNow = 1
  MaxFailures = 2
INVARIANT GivenBack
CHECK_DEADLOCK FALSE
