SPECIFICATION Spec
CONSTANTS
  d1 = d1
  d2 = d2
  d3 = d3
  Descs = {d1, d2, d3}
  NoDesc = NoDesc
  FirstSlots = 1
  SizeMod = 32
  DefaultSize = 4
  HostBases = {1, 6, 16}
  MirrorBases = {3, 8, 17}
  Sizes = {0, 1, 4, 5, 31}
  Alignments = {1, 3, 4}
  ListSizes = {0, 2}
  MaxBlocks = 3
SYMMETRY DescSymmetry
INVARIANTS
  TypeOK
  BlocksInsideBuffers
  BlocksDisjoint
  MirrorAligned
  UnplacedOnlyWhenTight
  CountMatches
  NothingLeaks
  TotalIsHeld
  BuffersDouble
  ListingIsPrefix
PROPERTIES
  ImplementsArena
  FailureIsHarmless
