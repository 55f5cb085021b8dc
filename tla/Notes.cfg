\* Two notes of the forms that passes tell apart, all passes overlapping, and
\* one fault: a failing statement or a restart.
SPECIFICATION FairSpec
CONSTANTS
  Notes = {n1, n2}
  Forms <- ReadableForms
  Null = null
  Plies = 1
  Seconds = 1
  Limit = 1
  MaxPly = 1
  MaxNow = 1
  MaxFaults = 1
INVARIANTS
  RevealedOnce
  NothingEarly
  EndReveals
PROPERTIES
  DelayedIsRevealed
CHECK_DEADLOCK FALSE
