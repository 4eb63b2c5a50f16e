SPECIFICATION Spec
CONSTANTS
  Calls <- MCCalls
  Names <- MCNames
  Types <- MCTypes
INVARIANTS
  AcceptsAsPython
  BindsAsPython
  EvaluatesAsWritten
  ConvertsArguments
CHECK_DEADLOCK FALSE
