SPECIFICATION Spec
CONSTANTS
  Ranks = {0, 1, 2}
  Main = 0
  Blocks = 9
  BlocksPerUpdate = 2
  TokenLimits = {5, 12}
  Milestones = {2, 3}
  MaxConsecutive = 2
  NoResume = noresume
  MaxSessions = 3
INVARIANTS TypeOK SameCollective WeightsMatchCounters MilestonesKept ReasonTellsOverflow
CHECK_DEADLOCK FALSE
