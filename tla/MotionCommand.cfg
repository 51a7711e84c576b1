CONSTANTS
  x = x
  y = y
  Motors = {x, y}
  Capacity = 2
  Lines <- MCLines
  MayAbort = TRUE
  Stoppable = {x}
  AtomicFlags = FALSE
  Halters = {"command"}
  MaxHalts = 2
SPECIFICATION FairSpec
INVARIANTS NothingLost Synced EmptyMeansStopped HaltResyncs
PROPERTIES QueueRuns
