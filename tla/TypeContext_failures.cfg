SPECIFICATION Spec
CONSTANTS
  name1 = name1
  field1 = field1
  field2 = field2
  field3 = field3
  empty = empty
  NoName = empty
  SizeMod = 64
  FirstSlots = 1
  ConstructNames = {name1}
  VariableNames = {name1}
  Kinds <- MCStruct
  Failing = {"realloc", "hash"}
  FieldNames = {field1, field2}
  MappedTypes <- MCNoMapped
  TypeMap <- MCNoMap
  ClientTypes = {0}
  Offsets = {}
  Dimensions <- MCOneDimension
  Populations <- MCFailures
  SizeOf <- MCSizeOf
SYMMETRY NameSymmetry
INVARIANTS
  NamesAgree
PROPERTIES
  FailureIsHarmless
  FailureFreezesNothing
