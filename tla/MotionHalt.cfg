CONSTANTS
  x = x
  y = y
  Motors = {x, y}
  Capacity = 2
  Lines <- MCFewLines
  MayAbort = FALSE
  Stoppable = {}
  AtomicFlags = TRUE
  Halters = {"comms", "command"}
  MaxHalts = 2
SPECIFICATION FairSerialSpec
INVARIANTS HaltStopsMotors 
 
