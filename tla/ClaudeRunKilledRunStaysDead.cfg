CONSTANTS
  Calls = {c1, c2}
  MaxPipe = 3
  MaxAsks = 4
  IdleLimit = TRUE
  HardLimit = TRUE
SYMMETRY CallSymmetry
SPECIFICATION Spec
CHECK_DEADLOCK FALSE
INVARIANT KilledRunStaysDead
