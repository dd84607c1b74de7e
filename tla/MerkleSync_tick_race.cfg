SPECIFICATION MerkleSpec

CONSTANTS
  Device = {d1, d2}
  Server = server
  dir = dir
  file = file
  other = other
  Name <- MCName
  Path <- MCPath
  NaiveDevice = {}
  MaxEdits = 3
  MaxClock = 100
  MaxDeviceStops = 0
  MaxServerStops = 0
  EditsWhenSettled = TRUE
  Recreate = FALSE
  DeletesFail = FALSE
  TicksWhenDrained = FALSE

INVARIANTS
  NothingFails

CHECK_DEADLOCK FALSE
