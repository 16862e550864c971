SPECIFICATION Spec
CONSTANTS
  v1 = v1
  v2 = v2
  v3 = v3
  v4 = v4
  v5 = v5
  v6 = v6
  c1 = c1
  f1 = f1
  f2 = f2
  empty = empty
  NoName = empty
  FirstSlots = 2
  HASH_INITIAL_NUM_BUCKETS = 2
  HASH_BKT_CAPACITY_THRESH = 2
  HASH_FUNCTION <- MCHash
  NamesOf <- MCNamesOf
  Populations <- MCPopulations
  MaxRefusals = 1
INVARIANTS
  TypeOK
  HashConsistent
  ChainsBounded
  NothingLeaks
  NoFault
  NothingDangles
  FoundByName
PROPERTIES
  ImplementsNamedObjects
  CallsReturn
