SPECIFICATION FairSpec

CONSTANTS
  Path = {p1, p2}
  Chunks = 3
  PartNumbers = 8
  MaxStarts = 3
  MaxCorruptions = 1
  Cancel = "progress"

INVARIANTS
  FilesAreWhole
  StopAndWait
  NothingFails

PROPERTIES
  UploadedMeansCommitted
  TransfersEnd

CHECK_DEADLOCK FALSE
