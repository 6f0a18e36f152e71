CONSTANTS
  Kinds = {"activity", "bits", "block", "class", "sequence", "state"}
  Names = {a, b}
  Indexes = {0, 1, 2, 3}
  MaxLines = 5
  MaxElements = 4
  MaxBits = 2
  MaxRowBytes = 2
  MaxByteIndex = 2
  MaxSpans = 3
SYMMETRY NameSymmetry
SPECIFICATION Spec
INVARIANTS
  ParsedIsWellFormed
  NotesStandAtActions
CHECK_DEADLOCK FALSE
