SPECIFICATION RunSpec
CONSTANTS
  Funs = {"f", "g"}
  Programs <- MCPrograms
  MaxInstances = 2
  MaxFrames = 8
  Depth = 1
INVARIANTS
  InstancesAreOrdered
  CalleesBuiltFirst
  TypedAsItRuns
PROPERTY
  ErrorsRolledBack
CHECK_DEADLOCK FALSE
