\* An agent with two seeks in one pass.
SPECIFICATION Spec
CONSTANTS
  Dids = {1, 2, 3}
  Seeks = {1, 2, 3, 4}
  Null = null
  Modes = {"once"}
  Caps = {1}
  SeeksPerDid = 2
  StandingExpire = 1
  NoShowThreshold = 2
  NoShowSuspend = 1
  MaxNow = 0
  MaxGames = 2
  MaxDials = 0
  MaxRestarts = 0
  MaxFailures = 0
INVARIANTS
  AgentCapIsKept
CHECK_DEADLOCK FALSE
