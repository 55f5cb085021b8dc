SPECIFICATION Spec
CONSTANTS
  MaxPlies = 2
  GuardFactor = 3
  Hints = 3
  MaxPly = 4
  MaxFaults = 1
INVARIANT OneSession
CHECK_DEADLOCK FALSE
