CONSTANTS
  accelerate_until = 2
  decelerate_after = 4
  total_move_ticks = 6
  steps_to_move = 3
SPECIFICATION FairSpec
INVARIANTS JogLeavesNothing ContinuingHoldsSpeed
PROPERTIES JogEnds
