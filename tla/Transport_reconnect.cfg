SPECIFICATION TransportSpec
CONSTANTS
  short = short
  long = long
  Message <- MCMessage
  Size <- MCSize
  Header = 2
  MaxSent = 3
  Reconnects = TRUE
INVARIANTS
  BufferIsAligned
CHECK_DEADLOCK FALSE
