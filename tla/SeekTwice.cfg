\* A pass whose context ends before the bookkeeping.
SPECIFICATION Spec
CONSTANTS
  Dids = {1, 2}
  Seeks = {1, 2}
  Null = null
  Modes = {"once", "standing"}
  Caps = {1}
  SeeksPerDid = 1
  StandingExpire = 1
  NoShowThreshold = 2
  NoShowSuspend = 1
  MaxNow = 4
  MaxGames = 2
  MaxDials = 0
  MaxRestarts = 0
  MaxFailures = 1
INVARIANTS
  OnceSeekIsPairedOnce
CHECK_DEADLOCK FALSE
