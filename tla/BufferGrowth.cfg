SPECIFICATION Spec
CONSTANTS
  SizeMod = 64
  DefaultSize = 4
INVARIANTS
  TypeOK
  LoopComputesBuffAllocSize
  FitsWithoutExcess
  ZeroOnlyForHuge
PROPERTIES
  EndsUnlessHuge
CHECK_DEADLOCK FALSE
