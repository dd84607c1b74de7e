SPECIFICATION Spec

CONSTANTS
  Path = {p1, p2}
  Chunks = 3
  PartNumbers = 8
  MaxStarts = 1
  MaxCorruptions = 2
  Cancel = "anywhere"

INVARIANTS
  TypeOK
  FilesAreWhole

CHECK_DEADLOCK FALSE
