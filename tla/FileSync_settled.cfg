SPECIFICATION Spec

CONSTANTS
  Device = {d1, d2}
  Server = server
  Path = {p1, p2}
  NaiveDevice = {d2}
  MaxEdits = 3
  MaxClock = 100
  MaxDeviceStops = 0
  MaxServerStops = 0
  EditsWhenSettled = TRUE
  Recreate = FALSE
  DeletesFail = TRUE

INVARIANTS
  NothingFails
  HashDescribesStore
  InSyncMeansEqual

PROPERTIES
  ServerNeverGoesBack
  NoResurrection

CHECK_DEADLOCK FALSE
