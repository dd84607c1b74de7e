SPECIFICATION Spec

CONSTANTS
  Device = {d1, d2}
  Server = server
  Path = {p1}
  NaiveDevice = {}
  MaxEdits = 3
  MaxClock = 12
  MaxDeviceStops = 0
  MaxServerStops = 0
  EditsWhenSettled = FALSE
  Recreate = TRUE
  DeletesFail = FALSE

PROPERTIES
  UploadsAreNewer

CHECK_DEADLOCK FALSE
