SPECIFICATION Spec

CONSTANTS
  User = {u1}
  Device = {d1}
  NoDevice = NoDevice
  Connection = {c1, c2}
  NoConnection = NoConnection
  MaxStarts = 2
  MaxSends = 2
  MaxSessions = 2
  Operations = {"deleteAccount"}
  Passwords = {TRUE}
  Expiry = FALSE

INVARIANTS
  AccountGoneMeansLoggedOut

CHECK_DEADLOCK FALSE
