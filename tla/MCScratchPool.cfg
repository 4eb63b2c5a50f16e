SPECIFICATION Spec
CONSTANTS
  Kinds = {ref, i64}
  ref = ref
  i64 = i64
  Units = {"program", "eval"}
  Bases = {0, 1}
  MaxFrames = 2
  MaxNest = 2
  MaxSlots = 2
  MaxTries = 2
  MaxCode = 4
CHECK_DEADLOCK FALSE
INVARIANTS
  HeldSlotsAreExclusive
  GuardedFramesKeepOneSlotPerSite
  RegionsGuardTheirBodies
PROPERTY
  ImplementsLeases
