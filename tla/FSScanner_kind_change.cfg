SPECIFICATION Spec
CONSTANTS
  DirName = {A, g}
  FileName = {g}
  Inode = {1, 2, 3, 4}
  KeepsTombstones = FALSE
  MaxOps = 4
INVARIANTS
  NothingMissed
