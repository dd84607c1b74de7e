SPECIFICATION MerkleFairSpec

CONSTANTS
  Device = {d1, d2}
  Server = server
  dir = dir
  file = file
  other = other
  Name <- MCName
  Path <- MCPath
  NaiveDevice = {}
  MaxEdits = 2
  MaxClock = 100
  MaxDeviceStops = 0
  MaxServerStops = 0
  EditsWhenSettled = TRUE
  Recreate = TRUE
  DeletesFail = FALSE
  TicksWhenDrained = TRUE

PROPERTIES
  Converges

CHECK_DEADLOCK FALSE
