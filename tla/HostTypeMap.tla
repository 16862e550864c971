---------------------------- MODULE HostTypeMap ----------------------------
(***************************************************************************)
(* The type map of mam_platform_create_host (src/copy-engine.c): which     *)
(* data type the platform gives to every C type, from what the compiler    *)
(* says their sizes are, and what a context for that platform then does.   *)
(***************************************************************************)
EXTENDS TypeContext

CONSTANT SizeOf     \* sizeof, by the number of the mapped type

\* The MAM_MAPPED_TYPE_xxx, which are numbered from 0x200.
MappedTypeNames ==
  <<"CHAR", "UCHAR", "SHORT", "USHORT", "INT", "UINT", "LONG", "ULONG", "LONGLONG",
    "ULONGLONG", "SIZE", "SSIZE", "POINTER", "PTRDIFF", "INTPTR", "UINTPTR",
    "HALF", "FLOAT", "DOUBLE">>
NumberOf(name) == 511 + CHOOSE i \in DOMAIN MappedTypeNames : MappedTypeNames[i] = name
AllMappedTypes == {NumberOf(MappedTypeNames[i]) : i \in DOMAIN MappedTypeNames}

ASSUME SizeOfAssumption == SizeOf \in [AllMappedTypes -> Nat \ {0}]

\* C has no half; the code takes it for a 16 bit float and asks nothing.
ASSUME HalfAssumption == SizeOf[NumberOf("HALF")] = 2

\* The types that the code asks a signed integer for, and an unsigned one;
\* it has INTPTR among the latter and UINTPTR among the former.
SignedTypes ==
  {"CHAR", "SHORT", "INT", "LONG", "LONGLONG", "SSIZE", "PTRDIFF", "UINTPTR"}
UnsignedTypes ==
  {"UCHAR", "USHORT", "UINT", "ULONG", "ULONGLONG", "SIZE", "POINTER", "INTPTR"}

\* MAM_DATA_TYPE_INT8, UINT8, INT16 ... are numbered from 0.
IntSizes == <<1, 2, 4, 8, 16>>
Einval == -1

\* Mutant of GetInt: types of 8 bytes fall in with those of 4.
GetIntOf32(sign, sz) ==
  LET bytes == IF sz = 8 THEN 4 ELSE sz IN
  IF \A i \in DOMAIN IntSizes : IntSizes[i] # bytes THEN Einval
  ELSE 2 * ((CHOOSE i \in DOMAIN IntSizes : IntSizes[i] = bytes) - 1) + IF sign THEN 0 ELSE 1

\* _mam_get_int: the integer type of that size, if there is one.
GetInt(sign, sz) ==
  IF \A i \in DOMAIN IntSizes : IntSizes[i] # sz THEN Einval
  ELSE 2 * ((CHOOSE i \in DOMAIN IntSizes : IntSizes[i] = sz) - 1) + IF sign THEN 0 ELSE 1

\* _mam_fill_host_type_map, for one of the types it fills in.
Filled(name) ==
  CASE name \in SignedTypes -> GetInt(TRUE, SizeOf[NumberOf(name)])
    [] name \in UnsignedTypes -> GetInt(FALSE, SizeOf[NumberOf(name)])
    [] name = "FLOAT" -> IF SizeOf[NumberOf(name)] = 4 THEN 12 ELSE Einval
    [] name = "DOUBLE" -> IF SizeOf[NumberOf(name)] = 8 THEN 13 ELSE Einval
    [] name = "HALF" -> 10

\* The platform is refused as soon as one type has no counterpart; the map
\* is what the platform has otherwise.
HostRefused == \E i \in DOMAIN MappedTypeNames : Filled(MappedTypeNames[i]) = Einval
HostMap == [t \in AllMappedTypes |-> Filled(MappedTypeNames[t - 511])]

\* mam_platform_create_host: the context is one of the host, if it has one.
ASSUME HostAssumption ==
  ~HostRefused => \A t \in MappedTypes : t \in AllMappedTypes /\ TypeMap[t] = HostMap[t]

------------------------------------------------------------------------------
\* On the host, a field of a mapped type takes as many bytes as a member of
\* the C type does, whatever type the platform stands in for it: the struct
\* describes the data that C code has in it.
NativeFields ==
  ~HostRefused =>
    \A c \in Constructs : \A i \in DOMAIN c.fields.elems :
      LET f == c.fields.elems[i] IN
      f.field_type.kind = "mapped" => f.size = SizeOf[f.field_type.id]
==============================================================================
