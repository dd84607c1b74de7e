SPECIFICATION Spec

CONSTANTS
  User = {u1, u2}
  Device = {d1}
  NoDevice = NoDevice
  Connection = {c1, c2}
  NoConnection = NoConnection
  MaxStarts = 2
  MaxSends = 2
  MaxSessions = 4
  Operations = {"login"}
  Passwords = {TRUE, FALSE}
  Expiry = FALSE

INVARIANTS
  SessionsDieWithConnection

CHECK_DEADLOCK FALSE
