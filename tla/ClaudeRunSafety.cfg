CONSTANTS
  Calls = {c1, c2}
  MaxPipe = 3
  MaxAsks = 4
  IdleLimit = TRUE
  HardLimit = TRUE
SYMMETRY CallSymmetry
SPECIFICATION Spec
CHECK_DEADLOCK FALSE
INVARIANTS
  TypeOK
  NoAskLost
  ToolCallsConserved
  NeverStranded
  OneCliAtATime
  SessionOfTheAnswer
PROPERTY IsAClient
