CONSTANTS
  Threads = {1, 2}
  FileLines = 2
  QueueLength = 2
  Capacity = 6
  Commands = {"play", "M23", "M24", "M25", "M26", "abort", "suspend", "resume", "G28", "G0"}
  MaxCommands = 3
  MaxPrints = 2
  MaxHalts = 1
  HostWaits = TRUE
  on_boot_gcode_enable = TRUE
  leave_heaters_on = FALSE
  after_suspend_gcode = TRUE
SPECIFICATION FairSpec
INVARIANTS TypeOK  UserStateKept
PROPERTIES    PrintStops SuspendCompletes
