\* The indexer reads the record of a game before CreateGame has inserted its row.
SPECIFICATION Spec
CONSTANTS
  Games = {g1}
  None = none
  MaxFaults = 0
INVARIANT KeysArePublished
CHECK_DEADLOCK FALSE
