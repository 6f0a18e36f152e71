CONSTANTS
  MaxWrites = 3
  MaxScopes = 3
  MaxFailures = 2
  MaxCrashes = 1
SPECIFICATION Spec
INVARIANT
  CommitPersists
CHECK_DEADLOCK FALSE
