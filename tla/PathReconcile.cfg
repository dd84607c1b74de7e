CONSTANTS
  Contents = {1, 2}
  MaxClock = 5
SPECIFICATION FairSpec
INVARIANTS
  InSyncIsLatest
  ReconcileSettles
  DecisionIsSymmetric
PROPERTIES
  NewerSideKept
CHECK_DEADLOCK FALSE
