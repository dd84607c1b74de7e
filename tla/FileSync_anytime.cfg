SPECIFICATION Spec

CONSTANTS
  Device = {d1, d2}
  Server = server
  Path = {p1}
  NaiveDevice = {}
  MaxEdits = 3
  MaxClock = 9
  MaxDeviceStops = 1
  MaxServerStops = 1
  EditsWhenSettled = FALSE
  Recreate = TRUE
  DeletesFail = TRUE

INVARIANTS
  TypeOK
  AccountsMatch
  IdleMeansDrained
  IndexMatchesStore

CHECK_DEADLOCK FALSE
