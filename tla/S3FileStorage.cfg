SPECIFICATION S3Spec
CONSTANTS
  user = user
  name = name
  User <- MCUser
  Name <- MCName
  Data = {x, y}
  Parts = 2
  MaxUploads = 2
  MaxSent = 2
INVARIANTS
  CompletionIsAccepted
PROPERTIES
  SuccessLeavesNoOrphans
  S3Implements
