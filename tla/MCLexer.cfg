SPECIFICATION Spec
CONSTANT
  Sources <- MCSources
CHECK_DEADLOCK FALSE
INVARIANTS
  PositionsTrackSource
  BlocksAsIndented
PROPERTY
  LexingEnds
