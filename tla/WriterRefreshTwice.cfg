\* Two writes find the same token expired.
SPECIFICATION Spec
CONSTANTS
  Calls = {c1, c2}
  Null = null
  MaxExpiries = 1
  MaxFaults = 0
PROPERTIES
  RefreshedOnce
CHECK_DEADLOCK FALSE
