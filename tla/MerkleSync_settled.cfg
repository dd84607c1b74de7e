SPECIFICATION MerkleSpec

CONSTANTS
  Device = {d1, d2}
  Server = server
  dir = dir
  file = file
  other = other
  Name <- MCName
  Path <- MCPath
  NaiveDevice = {}
  MaxEdits = 3
  MaxClock = 100
  MaxDeviceStops = 0
  MaxServerStops = 0
  EditsWhenSettled = TRUE
  Recreate = TRUE
  DeletesFail = TRUE
  TicksWhenDrained = TRUE

SYMMETRY Devices

INVARIANTS
  TreeFollowsMetadata
  DescentIsFlat
  DescentAccounts
  NothingFails

CHECK_DEADLOCK FALSE
