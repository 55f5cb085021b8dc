\* Three clock IDs, so that they run out, under a clock that jumps; two messages
\* read into every type of the lexicon; three writes at once over expiring tokens
\* and broken connections.
SPECIFICATION MCSpec
CONSTANTS
  Slots = 3
  MaxWall = 4
  MaxIssued = 12
  MaxDecodes = 2
  Calls = {c1, c2, c3}
  Null = null
  MaxExpiries = 2
  MaxFaults = 2
INVARIANTS
  CBORIsCanonical
  TransportsAgree
  CreatedOnce
PROPERTIES
  StrictlyIncreasing
CHECK_DEADLOCK FALSE
