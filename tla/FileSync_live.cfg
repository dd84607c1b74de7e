SPECIFICATION FairSpec

CONSTANTS
  Device = {d1, d2}
  Server = server
  Path = {p1}
  NaiveDevice = {d2}
  MaxEdits = 4
  MaxClock = 100
  MaxDeviceStops = 1
  MaxServerStops = 0
  EditsWhenSettled = TRUE
  Recreate = FALSE
  DeletesFail = FALSE

PROPERTIES
  Converges
  SyncEnds

CHECK_DEADLOCK FALSE
