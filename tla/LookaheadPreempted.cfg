CONSTANTS
  Size = 3
  Moves <- MCMoves
  Junctions = {4}
  minimum_planner_speed = 0
SPECIFICATION FairSpec
INVARIANTS AllFeasible
PROPERTIES AppendReturns
