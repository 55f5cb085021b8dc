\* Two goroutines of an agent over the end of a token, and a game of two moves on a page
\* whose connection breaks.
SPECIFICATION MCSpec
CONSTANTS
  Callers = {c1, c2}
  Tokens = {1, 2}
  None = none
  Burst = 2
  TTL = 1
  IdleEvict = 2
  Backoff = 1
  RetryAfter = 2
  MaxRetries = 1
  MaxClock = 3
  Moves = 2
  Buffer = 1
  InTransit = 1
  MaxBreaks = 1
  MaxErrors = 1
INVARIANTS
  BudgetHolds
PROPERTIES
  EndedIsShutOut
  ReconnectHeals
CHECK_DEADLOCK FALSE
