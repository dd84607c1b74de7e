SPECIFICATION Spec

CONSTANTS
  Device = {d1, d2}
  Server = server
  Path = {p1}
  NaiveDevice = {d1, d2}
  MaxEdits = 3
  MaxClock = 100
  MaxDeviceStops = 0
  MaxServerStops = 0
  EditsWhenSettled = TRUE
  Recreate = TRUE
  DeletesFail = FALSE

INVARIANTS
  InSyncMeansEqual

CHECK_DEADLOCK FALSE
