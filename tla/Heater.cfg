CONSTANTS
  Deltas <- MCDeltas
  Bad = bad
  runaway_error_range = 0
  runaway_range = 1
  hysteresis = 1
  runaway_heating_timeout = 2
  runaway_cooling_timeout = 1
  TimerValues = 4
  MaxCommands = 2
SPECIFICATION Spec
INVARIANTS OffStaysOff
PROPERTIES SpikesAreAllowed 
