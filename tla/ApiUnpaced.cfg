SPECIFICATION Spec
CONSTANTS
  Callers = {c1, c2}
  Tokens = {1}
  None = none
  Burst = 3
  TTL = 2
  IdleEvict = 3
  Backoff = 1
  RetryAfter = 2
  MaxRetries = 1
  MaxClock = 4
INVARIANT TurnsAreApart
CHECK_DEADLOCK FALSE
