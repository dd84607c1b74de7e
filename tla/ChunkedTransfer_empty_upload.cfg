SPECIFICATION Spec

CONSTANTS
  Path = {p1}
  Chunks = 0
  PartNumbers = 8
  MaxStarts = 2
  MaxCorruptions = 0
  Cancel = "never"

INVARIANTS
  EmptyUploadIsSkipped

CHECK_DEADLOCK FALSE
