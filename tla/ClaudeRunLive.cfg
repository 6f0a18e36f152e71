CONSTANTS
  Calls = {c1}
  MaxPipe = 2
  MaxAsks = 3
  IdleLimit = FALSE
  HardLimit = TRUE
SPECIFICATION FairSpec
CHECK_DEADLOCK FALSE
PROPERTIES
  IsAResponsiveClient
  FinishedRunIsReaped
