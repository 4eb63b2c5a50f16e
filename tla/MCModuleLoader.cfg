SPECIFICATION FairSpec
CONSTANTS
  Names <- MCNames
  Worlds <- MCWorlds
CHECK_DEADLOCK FALSE
INVARIANTS
  StackIsLoading
  CyclesAreReported
  LoadsWhatIsNeeded
PROPERTY
  LoadingEnds
