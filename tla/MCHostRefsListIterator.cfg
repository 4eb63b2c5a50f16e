SPECIFICATION SpecWithBorrows
CONSTANTS
  Names = {x, y}
  Texts = {1}
  Cells = 3
  MaxLen = 1
  MaxCount = 3
SYMMETRY MCSymmetry
INVARIANT
  NoStaleReferences
CHECK_DEADLOCK FALSE
