SPECIFICATION Spec
CONSTANTS
  Names = {x, y}
  Texts = {1, 2}
  Cells = 4
  MaxLen = 2
  MaxCount = 3
SYMMETRY MCSymmetry
INVARIANTS
  NoStaleReferences
  NothingElseLost
PROPERTY
  OtherValuesKept
CHECK_DEADLOCK FALSE
