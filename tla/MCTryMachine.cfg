SPECIFICATION Spec
CONSTANTS
  Exceptions = {"A", "B"}
  Bodies <- MCBodies
  MaxTrace = 8
CHECK_DEADLOCK FALSE
INVARIANTS
  RunsAsWritten
  AcceptedBodiesLower
  ReadsAreInitialized
PROPERTY
  RunsEnd
