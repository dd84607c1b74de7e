SPECIFICATION MerkleSpec

CONSTANTS
  Device = {d1}
  Server = server
  dir = dir
  file = file
  other = other
  Name <- MCName
  Path <- MCPath
  NaiveDevice = {}
  MaxEdits = 3
  MaxClock = 100
  MaxDeviceStops = 0
  MaxServerStops = 0
  EditsWhenSettled = FALSE
  Recreate = FALSE
  DeletesFail = FALSE
  TicksWhenDrained = TRUE

INVARIANTS
  HashedNodesHaveHashes

CHECK_DEADLOCK FALSE
