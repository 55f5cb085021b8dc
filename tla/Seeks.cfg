\* Three agents with a seek each; an agent with two that comes and goes.
SPECIFICATION MCSpec
CONSTANTS
  Dids = {1, 2, 3}
  Seeks = {1, 2, 3}
  Null = null
  Modes = {"once", "standing"}
  Caps = {1}
  SeeksPerDid = 2
  StandingExpire = 1
  NoShowThreshold = 2
  NoShowSuspend = 1
  MaxNow = 4
  MaxGames = 2
  MaxDials = 1
  MaxRestarts = 1
  MaxFailures = 1
INVARIANTS
  OnceSeekPlaysOnce
  CapIsKept
PROPERTIES
  ExpiryIsEarned
  GoneSeekExpires
CHECK_DEADLOCK FALSE
