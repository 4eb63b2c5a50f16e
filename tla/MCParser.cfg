SPECIFICATION Spec
CONSTANTS
  Names <- MCNames
  Files <- MCFiles
INVARIANTS
  RoundTrip
  NothingDropped
  Recovers
CHECK_DEADLOCK FALSE
