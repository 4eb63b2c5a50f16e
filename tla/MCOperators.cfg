SPECIFICATION Spec
CONSTANTS
  Width = 4
  Inline = 3
  Values <- MCValues
INVARIANTS
  CodeFits
  ResultsAsPython
  EvaluatedInOrder
CHECK_DEADLOCK FALSE
