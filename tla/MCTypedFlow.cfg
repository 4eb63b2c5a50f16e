SPECIFICATION Spec
CONSTANTS
  Names = {"x", "y"}
  Programs <- MCPrograms
INVARIANTS
  ReadsAsTyped
  HoldsDeclared
  RunsOnlyChecked
CHECK_DEADLOCK FALSE
