CONSTANTS
  Size = 4
  Moves <- MCMoves
  Junctions = {4}
  minimum_planner_speed = 0
SPECIFICATION QuietSpec
INVARIANTS Continuous  PlanIsOptimal
