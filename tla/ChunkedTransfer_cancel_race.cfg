SPECIFICATION Spec

CONSTANTS
  Path = {p1}
  Chunks = 2
  PartNumbers = 8
  MaxStarts = 2
  MaxCorruptions = 0
  Cancel = "anywhere"

INVARIANTS
  CancelFindsTransfer

CHECK_DEADLOCK FALSE
