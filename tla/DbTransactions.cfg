CONSTANTS
  MaxWrites = 3
  MaxScopes = 3
  MaxFailures = 2
  MaxCrashes = 1
SPECIFICATION Spec
INVARIANTS
  AllOrNothing
  RolledBackStaysGone
  SavepointsAreDistinct
  CommitPersistsUntilOneFails
CHECK_DEADLOCK FALSE
