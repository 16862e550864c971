SPECIFICATION Spec
CONSTANTS
  d1 = d1
  d2 = d2
  d3 = d3
  Descs = {d1, d2, d3}
  NoDesc = NoDesc
  FirstSlots = 2
  SizeMod = 32
  DefaultSize = 4
  HostBases = {1, 6, 16}
  MirrorBases = {3, 8, 17}
  Sizes = {1, 4, 31}
  Alignments = {0, 1, 4}
  ListSizes = {}
  MaxBlocks = 4
SYMMETRY DescSymmetry
INVARIANTS
  EverySuccessIsPlaced
