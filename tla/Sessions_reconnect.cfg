SPECIFICATION FairSpec

CONSTANTS
  User = {u1}
  Device = {d1}
  NoDevice = NoDevice
  Connection = {c1, c2}
  NoConnection = NoConnection
  MaxStarts = 2
  MaxSends = 0
  MaxSessions = 2
  Operations = {}
  Passwords = {TRUE}
  Expiry = FALSE

PROPERTIES
  ReloginOnReconnect

CHECK_DEADLOCK FALSE
