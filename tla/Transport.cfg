SPECIFICATION TransportSpec
CONSTANTS
  short = short
  long = long
  Message <- MCMessage
  Size <- MCSize
  Header = 2
  MaxSent = 3
  Reconnects = FALSE
PROPERTIES
  TransportImplements
  EveryMessageHandled
CHECK_DEADLOCK FALSE
