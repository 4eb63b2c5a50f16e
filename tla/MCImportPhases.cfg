SPECIFICATION CompileSpec
CONSTANTS
  Names <- MCNames
  Worlds <- MCWorlds
  Attributes <- MCAttributes
CHECK_DEADLOCK FALSE
INVARIANTS
  EmittedAreChecked
  BodiesBeforeUses
  ImportsRunInOrder
  AcceptedImportsLoad
PROPERTY
  CompilationEnds
