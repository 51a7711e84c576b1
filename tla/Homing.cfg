CONSTANTS
  X_AXIS = x
  Y_AXIS = y
  Z_AXIS = z
  Limited <- MCLimited
  HomeToMin <- MCHomeToMin
  Orders <- MCOrders
  Debounce = 1
  home_z_first = FALSE
  move_to_origin_after_home = TRUE
  HostWaits = TRUE
SPECIFICATION FairSpec
INVARIANTS  HomeLeavesNothing
PROPERTIES  EndstopsRecover
