\* Pools of four agents, one of them with two seeks.
SPECIFICATION PairsSpec
CONSTANTS
  Agents = {1, 2, 3, 4}
  Extra = {1}
  Ratings = {0, 1, 4}
  Windows = {1, 3}
  Times = {0, 2}
INVARIANTS
  IsMatching
  NobodyIsPassedOver
CHECK_DEADLOCK FALSE
