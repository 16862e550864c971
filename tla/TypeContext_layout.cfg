SPECIFICATION Spec
CONSTANTS
  name1 = name1
  field1 = field1
  field2 = field2
  field3 = field3
  empty = empty
  NoName = empty
  SizeMod = 64
  FirstSlots = 8
  ConstructNames = {}
  VariableNames = {}
  Kinds <- MCAllKinds
  Failing = {}
  FieldNames = {field1, field2, field3}
  MappedTypes <- MCMappedTypes
  TypeMap <- MCTypeMap
  ClientTypes = {0, 3}
  Offsets = {0, 5, 59}
  Dimensions <- MCDimensions
  Populations <- MCStructOrArrays
  SizeOf <- MCSizeOf
SYMMETRY NameSymmetry
INVARIANTS
  TypeOK
  FieldsApart
  FieldsAligned
  ArraySizesRight
  NativeFields
