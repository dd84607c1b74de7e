SPECIFICATION Spec
CONSTANTS
  DirName = {}
  FileName = {f, g}
  Inode = {1, 2, 3, 4}
  KeepsTombstones = TRUE
  MaxOps = 6
PROPERTIES
  DeletionsReported
