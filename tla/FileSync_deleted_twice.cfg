SPECIFICATION Spec

CONSTANTS
  Device = {d1, d2}
  Server = server
  Path = {p1}
  NaiveDevice = {}
  MaxEdits = 4
  MaxClock = 100
  MaxDeviceStops = 0
  MaxServerStops = 0
  EditsWhenSettled = TRUE
  Recreate = TRUE
  DeletesFail = FALSE

PROPERTIES
  NoResurrection

CHECK_DEADLOCK FALSE
