SPECIFICATION FairSpec

CONSTANTS
  User = {u1}
  Device = {d1, d2}
  NoDevice = NoDevice
  Connection = {c1, c2}
  NoConnection = NoConnection
  MaxStarts = 2
  MaxSends = 2
  MaxSessions = 2
  Operations = {"register", "logout", "deleteAccount", "sync"}
  Passwords = {TRUE}
  Expiry = TRUE

INVARIANTS
  TypeOK
  OneSessionPerDevice
  SessionsHaveAccounts
  BindingsAreOwn
  SessionsDieWithConnection

PROPERTIES
  LoginAnswered
  SyncAnswered

CHECK_DEADLOCK FALSE
