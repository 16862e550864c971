SPECIFICATION Spec
CONSTANTS
  name1 = name1
  field1 = field1
  field2 = field2
  field3 = field3
  empty = empty
  NoName = empty
  SizeMod = 64
  FirstSlots = 8
  ConstructNames = {}
  VariableNames = {name1}
  Kinds <- MCAligned
  Failing = {"calloc"}
  FieldNames = {field1, field2}
  MappedTypes <- MCNoMapped
  TypeMap <- MCNoMap
  ClientTypes = {4}
  Offsets = {}
  Dimensions <- MCOneDimension
  Populations <- MCTypes
  SizeOf <- MCSizeOf
SYMMETRY NameSymmetry
INVARIANTS
  FieldsAligned
  CopiedSizesStay
  ContainmentEnds
