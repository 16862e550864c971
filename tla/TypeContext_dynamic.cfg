SPECIFICATION Spec
CONSTANTS
  name1 = name1
  field1 = field1
  field2 = field2
  field3 = field3
  empty = empty
  NoName = empty
  SizeMod = 64
  FirstSlots = 8
  ConstructNames = {}
  VariableNames = {}
  Kinds = {}
  Failing = {}
  FieldNames = {field1}
  MappedTypes <- MCNoMapped
  TypeMap <- MCNoMap
  ClientTypes = {4}
  Offsets = {}
  Dimensions <- MCDimensions
  Populations <- MCTwoArrays
  SizeOf <- MCSizeOf
SYMMETRY NameSymmetry
INVARIANTS
  DynamicElementsAreDynamic
