----------------------------- MODULE TypeContext -----------------------------
(***************************************************************************)
(* A context of src/copy-engine.c: the structs and unions, arrays,         *)
(* pointers and variables that a client describes for one platform.        *)
(* Types refer to each other, and a type that something refers to is       *)
(* frozen: its layout was copied into whatever refers to it.               *)
(*                                                                         *)
(* The program is sequential: one action is one call, with an action for   *)
(* each way it can go.  Every allocation a call makes may fail, and        *)
(* leaves a different state where it does: the calloc of an object, the    *)
(* realloc inside utarray_push_back, which also spoils the header of the   *)
(* array (see UtArray), and the memory of a hash table.  An object is      *)
(* identified by its position in the context's array of its kind.          *)
(***************************************************************************)
EXTENDS TypeLayout, UtArray, FiniteSets

LOCAL INSTANCE SequencesExt

CONSTANTS
  MappedTypes,      \* the MAM_MAPPED_TYPE_xxx the client uses
  TypeMap,          \* the platform's type_map, for them
  ClientTypes,      \* the data types the client uses directly
  ConstructNames, VariableNames, FieldNames,   \* the names the client gives
  NoName,           \* the empty string
  Kinds,            \* the constructs the client creates: <<packed, type>>
  Offsets,          \* the values given with MAM_FIELD_OPTION_OFFSET
  Dimensions,       \* the dimensions given to mam_array_add_dimension
  Failing,          \* what may run out of memory: "calloc", "realloc", "hash"
  Populations       \* bounds: the objects of a context are within one of these

ObjectKinds == {"pointer", "array", "dimension", "construct", "field", "variable"}

ASSUME TypeMapAssumption == MappedTypes \subseteq Nat /\ TypeMap \in [MappedTypes -> DataTypes]
ASSUME ClientTypesAssumption == ClientTypes \subseteq DataTypes
ASSUME NamesAssumption == NoName \notin ConstructNames \cup VariableNames \cup FieldNames
ASSUME KindsAssumption == Kinds \subseteq BOOLEAN \X {"struct", "union"}
ASSUME FailingAssumption == Failing \subseteq {"calloc", "realloc", "hash"}
ASSUME OffsetsAssumption == Offsets \subseteq SizeT
ASSUME DimensionsAssumption ==
  Dimensions \subseteq
    [type : {"fixed", "variable"}, count : SizeT, padded : BOOLEAN,
     pad_type : {"fixed", "variable"}, pad_count : SizeT]
ASSUME PopulationsAssumption == Populations \subseteq [ObjectKinds -> Nat]

VARIABLES
  status,         \* "none", "live", or "undefined" after a wild write
  constructs,     \* context->constructs, a UtArray of constructs
  arrays,         \* context->arrays
  pointers,       \* context->pointers, a UtArray of field types
  variables,      \* context->variables
  constructs_name_hash,   \* the positions of the constructs in the table
  variables_name_hash,    \* the same for variables
  err             \* what the last call returned

objects == <<constructs, arrays, pointers, variables,
             constructs_name_hash, variables_name_hash>>
vars == <<status, objects, err>>

------------------------------------------------------------------------------
(* Field types, as a client can fill a mam_field_type_t in.                *)

FieldTypes ==
  [kind : {"data"}, id : ClientTypes] \cup [kind : {"mapped"}, id : MappedTypes]
    \cup [kind : {"construct"}, id : DOMAIN constructs.elems]
    \cup [kind : {"array"}, id : DOMAIN arrays.elems]

\* _mam_get_field_type_size_align
TypeSize(ft) ==
  CASE ft.kind = "data" -> DataTypeSize[ft.id]
    [] ft.kind = "mapped" -> DataTypeSize[TypeMap[ft.id]]
    [] ft.kind = "construct" -> Signed(constructs.elems[ft.id].total_size)
    [] ft.kind = "array" -> arrays.elems[ft.id].total_size

TypeAlign(ft) ==
  CASE ft.kind = "data" -> DataTypeAlign[ft.id]
    [] ft.kind = "mapped" -> DataTypeAlign[TypeMap[ft.id]]
    [] ft.kind = "construct" -> constructs.elems[ft.id].alignment
    [] ft.kind = "array" -> arrays.elems[ft.id].alignment

\* Mutants of Freeze: nothing is frozen, arrays are not.
FreezeNothing(a, kind, ft) == a
FreezeConstructs(a, kind, ft) ==
  IF ft.kind = kind /\ kind = "construct" THEN [a EXCEPT !.elems[ft.id].frozen = TRUE] ELSE a

\* _mam_freeze_field_type, on the array a that holds the types of this kind.
Freeze(a, kind, ft) ==
  IF ft.kind = kind THEN [a EXCEPT !.elems[ft.id].frozen = TRUE] ELSE a

------------------------------------------------------------------------------
(* Names.                                                                  *)

\* The bound: one more object of this kind is within a population.
Bounded(kind) ==
  LET Total(a, Inner(_)) == FoldSeq(LAMBDA x, sum : UtLen(Inner(x)) + sum, 0, a.elems)
      population ==
        [pointer |-> UtLen(pointers), array |-> UtLen(arrays),
         dimension |-> Total(arrays, LAMBDA a : a.dimensions),
         construct |-> UtLen(constructs), field |-> Total(constructs, LAMBDA c : c.fields),
         variable |-> UtLen(variables)]
      grown == [population EXCEPT ![kind] = @ + 1]
  IN  \E most \in Populations : \A k \in ObjectKinds : grown[k] <= most[k]

\* Mutant of TakenName: no duplicate is ever seen.
NeverTaken(elems, hash, name) == FALSE

\* HASH_FIND: the name is that of an element of the table.
TakenName(elems, hash, name) == \E i \in hash : elems[i].name = name

------------------------------------------------------------------------------
(* Pushing an object into an array, and into a table of names.             *)

\* Mutant of PushedAndPopped: the error path forgets utarray_pop_back.
PushedOnly(a, x) == PushedBack(a, x)

\* HASH_ADD_KEYPTR ran out of memory after the push: label err_arr.
PushedAndPopped(a, x) == PoppedBack(PushedBack(a, x))

\* What a failed push, or a failed push and hash, may leave of the array a.
PushFailures(a) == {b \in {ReserveFailed(a)} : MustGrow(a) /\ "realloc" \in Failing}
AddFailures(a, x) ==
  PushFailures(a)
    \cup {b \in {PushedAndPopped(a, x)} : ~PushOverruns(a) /\ "hash" \in Failing}

\* The call writes past the memory of an array.
Overrun(a) ==
  /\ PushOverruns(a)
  /\ status' = "undefined"
  /\ UNCHANGED <<objects, err>>

\* The call goes on with the NULL that calloc returned.
NullDereference ==
  "calloc" \in Failing /\ status' = "undefined" /\ UNCHANGED <<objects, err>>

Refuse(error) == err' = error /\ UNCHANGED <<status, objects>>

\* It finds the NULL, and returns before anything has changed.
CallocFails == "calloc" \in Failing /\ Refuse("MAM_ENOMEM")

------------------------------------------------------------------------------
Init ==
  /\ status = "none"
  /\ constructs = EmptyArray /\ arrays = EmptyArray
  /\ pointers = EmptyArray /\ variables = EmptyArray
  /\ constructs_name_hash = {} /\ variables_name_hash = {}
  /\ err = "MAM_SUCCESS"

\* mam_context_create; on failure what it obtained is given back.
CreateContext ==
  /\ status = "none"
  /\ \/ status' = "live" /\ err' = "MAM_SUCCESS"
     \/ status' = "none" /\ err' \in {"MAM_EINVAL", "MAM_ENOMEM"}
  /\ UNCHANGED objects

\* mam_context_destroy: every object dies with the context.
DestroyContext ==
  /\ status = "live" /\ status' = "none"
  /\ constructs' = EmptyArray /\ arrays' = EmptyArray
  /\ pointers' = EmptyArray /\ variables' = EmptyArray
  /\ constructs_name_hash' = {} /\ variables_name_hash' = {}
  /\ err' = "MAM_SUCCESS"

NewConstruct(name, packed, type) ==
  [name |-> name, type |-> type, packed |-> packed, last_offset |-> 0,
   total_size |-> 0, alignment |-> 1, fields |-> EmptyArray,
   fields_name_hash |-> {}, frozen |-> FALSE]

\* mam_context_create_struct and create_union.  The empty name is not
\* looked up: any number of constructs may have it.
CreateConstruct(name, packed, type) ==
  LET construct == NewConstruct(name, packed, type)
      taken == name # NoName /\ TakenName(constructs.elems, constructs_name_hash, name)
  IN
  /\ status = "live"
  /\ \/ taken /\ Refuse("MAM_EINVAL")
     \/ ~taken /\ CallocFails
     \/ ~taken /\ Overrun(constructs)
     \/ /\ ~taken
        /\ \/ /\ constructs' \in AddFailures(constructs, construct)
              /\ err' = "MAM_ENOMEM"
              /\ UNCHANGED constructs_name_hash
           \/ /\ ~PushOverruns(constructs)
              /\ Bounded("construct")
              /\ constructs' = PushedBack(constructs, construct)
              /\ constructs_name_hash' = constructs_name_hash \cup {UtLen(constructs) + 1}
              /\ err' = "MAM_SUCCESS"
        /\ UNCHANGED <<status, arrays, pointers, variables, variables_name_hash>>

\* The construct with one more field, laid out and listed.
WithField(construct, name, ft, opt) ==
  LET field == [name |-> name, field_type |-> ft, size |-> TypeSize(ft),
                offset |-> FieldOffset(construct, opt, TypeAlign(ft)),
                user_offset |-> opt # NoOffset]
  IN  [LaidOut(construct, opt, TypeSize(ft), TypeAlign(ft))
         EXCEPT !.fields = PushedBack(@, field),
                !.fields_name_hash = @ \cup {UtLen(construct.fields) + 1}]

\* Mutant of FieldNotAdded: the type is frozen before the push.
FieldNotAddedButFrozen(c, ft, fields) ==
  Freeze([constructs EXCEPT !.elems[c].fields = fields], "construct", ft)

\* No memory for the push, or for the table.
FieldNotAdded(c, ft, fields) == [constructs EXCEPT !.elems[c].fields = fields]

\* mam_construct_add_field.  The type is frozen last: a construct that is
\* given as its own field is in it with the size it had before.
AddField(c, name, ft, opt) ==
  LET construct == constructs.elems[c]
      invalid == \/ name = NoName
                 \/ TakenName(construct.fields.elems, construct.fields_name_hash, name)
                 \/ OffsetRefused(construct, opt)
                 \/ TypeSize(ft) < 0
      grown == WithField(construct, name, ft, opt)
  IN
  /\ status = "live"
  /\ \/ construct.frozen /\ Refuse("MAM_EFROZEN")
     \/ ~construct.frozen /\ invalid /\ Refuse("MAM_EINVAL")
     \/ /\ ~construct.frozen /\ ~invalid
        /\ \/ CallocFails
           \/ Overrun(construct.fields)
           \/ /\ \E fields \in AddFailures(construct.fields, [name |-> name]) :
                   constructs' = FieldNotAdded(c, ft, fields)
              /\ err' = "MAM_ENOMEM"
              /\ UNCHANGED <<status, arrays, pointers, variables,
                             constructs_name_hash, variables_name_hash>>
           \/ /\ ~PushOverruns(construct.fields)
              /\ Bounded("field")
              /\ constructs' =
                   Freeze([constructs EXCEPT !.elems[c] = grown], "construct", ft)
              /\ arrays' = Freeze(arrays, "array", ft)
              /\ err' = "MAM_SUCCESS"
              /\ UNCHANGED <<status, pointers, variables,
                             constructs_name_hash, variables_name_hash>>

\* mam_context_create_pointer: it freezes nothing, and does not check its
\* calloc.
CreatePointer(ft) ==
  /\ status = "live"
  /\ \/ NullDereference
     \/ Overrun(pointers)
     \/ /\ \/ /\ pointers' \in PushFailures(pointers)
              /\ err' = "MAM_ENOMEM"
           \/ /\ ~PushOverruns(pointers)
              /\ Bounded("pointer")
              /\ pointers' = PushedBack(pointers, ft)
              /\ err' = "MAM_SUCCESS"
        /\ UNCHANGED <<status, constructs, arrays, variables,
                       constructs_name_hash, variables_name_hash>>

NewArray(ft) ==
  [elem_size |-> TypeSize(ft), total_size |-> 0, alignment |-> TypeAlign(ft),
   field_type |-> ft, dimensions |-> EmptyArray, frozen |-> FALSE]

\* mam_context_create_array: its calloc is not checked, the failure of
\* utarray_new is reported.
CreateArray(ft) ==
  /\ status = "live"
  /\ \/ NullDereference
     \/ CallocFails
     \/ Overrun(arrays)
     \/ /\ \/ /\ arrays' \in PushFailures(arrays)
              /\ err' = "MAM_ENOMEM"
              /\ UNCHANGED constructs
           \/ /\ ~PushOverruns(arrays)
              /\ Bounded("array")
              /\ arrays' = Freeze(PushedBack(arrays, NewArray(ft)), "array", ft)
              /\ constructs' = Freeze(constructs, "construct", ft)
              /\ err' = "MAM_SUCCESS"
        /\ UNCHANGED <<status, pointers, variables,
                       constructs_name_hash, variables_name_hash>>

\* mam_array_add_dimension
AddDimension(a, dim) ==
  LET array == arrays.elems[a] IN
  /\ status = "live"
  /\ \/ array.frozen /\ Refuse("MAM_EFROZEN")
     \/ ~array.frozen /\ CallocFails
     \/ ~array.frozen /\ Overrun(array.dimensions)
     \/ /\ ~array.frozen
        /\ \/ /\ \E dimensions \in PushFailures(array.dimensions) :
                   arrays' = [arrays EXCEPT !.elems[a].dimensions = dimensions]
              /\ err' = "MAM_ENOMEM"
           \/ /\ ~PushOverruns(array.dimensions)
              /\ Bounded("dimension")
              /\ arrays' =
                   [arrays EXCEPT
                      !.elems[a].dimensions = PushedBack(@, dim),
                      !.elems[a].total_size = Extended(@, array.elem_size, dim)]
              /\ err' = "MAM_SUCCESS"
        /\ UNCHANGED <<status, constructs, pointers, variables,
                       constructs_name_hash, variables_name_hash>>

NewVariable(name, ft) ==
  [name |-> name, size |-> TypeSize(ft), alignment |-> TypeAlign(ft), field_type |-> ft]

\* mam_context_create_variable: the type is frozen before the variable is
\* pushed, and stays so when the push or the table fails.
CreateVariable(name, ft) ==
  LET variable == NewVariable(name, ft)
      invalid == name = NoName \/ TakenName(variables.elems, variables_name_hash, name)
  IN
  /\ status = "live"
  /\ \/ invalid /\ Refuse("MAM_EINVAL")
     \/ ~invalid /\ CallocFails
     \/ ~invalid /\ Overrun(variables)
     \/ /\ ~invalid
        /\ constructs' = Freeze(constructs, "construct", ft)
        /\ arrays' = Freeze(arrays, "array", ft)
        /\ \/ /\ variables' \in AddFailures(variables, variable)
              /\ err' = "MAM_ENOMEM"
              /\ UNCHANGED variables_name_hash
           \/ /\ ~PushOverruns(variables)
              /\ Bounded("variable")
              /\ variables' = PushedBack(variables, variable)
              /\ variables_name_hash' = variables_name_hash \cup {UtLen(variables) + 1}
              /\ err' = "MAM_SUCCESS"
        /\ UNCHANGED <<status, pointers, constructs_name_hash>>

\* After undefined behaviour nothing is followed further.
Lost == status = "undefined" /\ UNCHANGED vars

Next ==
  \/ CreateContext
  \/ DestroyContext
  \/ \E name \in ConstructNames \cup {NoName}, kind \in Kinds :
       CreateConstruct(name, kind[1], kind[2])
  \/ \E c \in DOMAIN constructs.elems, name \in FieldNames \cup {NoName},
        ft \in FieldTypes, opt \in Offsets \cup {NoOffset} : AddField(c, name, ft, opt)
  \/ \E ft \in FieldTypes : CreatePointer(ft)
  \/ \E ft \in FieldTypes : CreateArray(ft)
  \/ \E a \in DOMAIN arrays.elems, dim \in Dimensions : AddDimension(a, dim)
  \/ \E name \in VariableNames \cup {NoName}, ft \in FieldTypes : CreateVariable(name, ft)
  \/ Lost

Spec == Init /\ [][Next]_vars

------------------------------------------------------------------------------
(* What the client reads.  The getters change nothing; an index past the   *)
(* end and a name that is not there are refused.                           *)

\* What mam_construct_get_field returns of a field.
ReadField(f) == <<f.name, f.offset, f.size, f.field_type>>

\* mam_construct_get_type, _name, _fields_number, _field, _size and _align
ReadConstruct(c) ==
  <<c.type, c.name, c.total_size, c.alignment,
    [i \in 1 .. UtLen(c.fields) |-> ReadField(c.fields.elems[i])]>>

\* mam_pointer_get_field_type
ReadPointer(p) == p

\* mam_array_get_field_type, _num_dimensions, _dimension, _size and _align
ReadArray(a) ==
  <<a.field_type, a.total_size, a.alignment,
    [i \in 1 .. UtLen(a.dimensions) |-> a.dimensions.elems[i]]>>

\* mam_variable_get_field_type, _name, _size and _align
ReadVariable(v) == <<v.field_type, v.name, v.size, v.alignment>>

\* What a look-up by name finds: one position, or none.
Found(elems, hash, name) ==
  IF name = NoName \/ ~TakenName(elems, hash, name) THEN {}
  ELSE {CHOOSE i \in hash : elems[i].name = name}

\* mam_context_get_construct_by_name, mam_context_get_variable_by_name and
\* mam_construct_get_field_by_name
GetConstructByName(name) == Found(constructs.elems, constructs_name_hash, name)
GetVariableByName(name) == Found(variables.elems, variables_name_hash, name)
GetFieldByName(c, name) == Found(c.fields.elems, c.fields_name_hash, name)

\* mam_context_get_constructs_number and mam_context_get_construct, and the
\* same for variables: the objects by index.
GetConstructs == [i \in 1 .. UtLen(constructs) |-> ReadConstruct(constructs.elems[i])]
GetVariables == [i \in 1 .. UtLen(variables) |-> ReadVariable(variables.elems[i])]

------------------------------------------------------------------------------
(* Properties.                                                             *)

FieldTypeRecord == [kind : {"data", "mapped", "construct", "array"}, id : Nat]

FieldRecord ==
  [name : FieldNames, field_type : FieldTypeRecord, size : SizeT, offset : SizeT,
   user_offset : BOOLEAN]

ConstructRecord ==
  [name : ConstructNames \cup {NoName}, type : {"struct", "union"}, packed : BOOLEAN,
   last_offset : SizeT, total_size : SizeT, alignment : Alignments,
   fields : UtArrayOf(FieldRecord), fields_name_hash : SUBSET Nat, frozen : BOOLEAN]

ArrayRecord ==
  [elem_size : SSizeT, total_size : SSizeT, alignment : Alignments,
   field_type : FieldTypeRecord, dimensions : UtArrayOf(Dimensions), frozen : BOOLEAN]

VariableRecord ==
  [name : VariableNames, size : SSizeT, alignment : Alignments,
   field_type : FieldTypeRecord]

\* The type of every variable.
TypeOK ==
  /\ status \in {"none", "live", "undefined"}
  /\ constructs \in UtArrayOf(ConstructRecord)
  /\ arrays \in UtArrayOf(ArrayRecord)
  /\ pointers \in UtArrayOf(FieldTypeRecord)
  /\ variables \in UtArrayOf(VariableRecord)
  /\ constructs_name_hash \subseteq Nat /\ variables_name_hash \subseteq Nat
  /\ err \in {"MAM_SUCCESS", "MAM_EINVAL", "MAM_ENOMEM", "MAM_EFROZEN"}

Constructs == {constructs.elems[i] : i \in DOMAIN constructs.elems}
Arrays == {arrays.elems[i] : i \in DOMAIN arrays.elems}

\* No sum wrapped around while the fields of c were placed.
NoWrap(c) ==
  \A i \in DOMAIN c.fields.elems :
    c.fields.elems[i].offset + c.fields.elems[i].size + c.alignment <= SizeMod

\* As long as no sum wraps, the fields of a struct follow each other without
\* sharing a byte, those of a union all start at 0, and all lie inside the
\* construct: whatever the order of the types, the padding and the offsets
\* asked for.
FieldsApart ==
  \A c \in Constructs : NoWrap(c) => LET fields == c.fields.elems IN
    /\ \A i, j \in DOMAIN fields :
         i < j /\ c.type = "struct" => fields[i].offset + fields[i].size <= fields[j].offset
    /\ \A i \in DOMAIN fields :
         /\ c.type = "union" => fields[i].offset = 0
         /\ fields[i].offset + fields[i].size <= c.total_size

\* As long as no sum wraps and the construct is not packed, its fields are
\* aligned for their types as those are now, except where the client chose
\* the offset, and its size and alignment keep every element of an array of
\* it aligned as well.
FieldsAligned ==
  \A c \in Constructs : NoWrap(c) /\ ~c.packed =>
    /\ c.total_size % c.alignment = 0
    /\ \A i \in DOMAIN c.fields.elems : LET f == c.fields.elems[i] IN
         /\ c.alignment % TypeAlign(f.field_type) = 0
         /\ f.user_offset \/ f.offset % TypeAlign(f.field_type) = 0

\* A size or an alignment copied from a type is still that of the type: the
\* type was frozen in time, through every path by which it can be reached.
\* A construct that is its own field grew after the copy was made.
CopiedSizesStay ==
  /\ \A i \in DOMAIN constructs.elems : LET c == constructs.elems[i] IN
       \A j \in DOMAIN c.fields.elems : LET f == c.fields.elems[j] IN
         f.field_type = [kind |-> "construct", id |-> i] \/ f.size = TypeSize(f.field_type)
  /\ \A a \in Arrays :
       a.elem_size = TypeSize(a.field_type) /\ a.alignment = TypeAlign(a.field_type)
  /\ \A i \in DOMAIN variables.elems : LET v == variables.elems[i] IN
       v.size = TypeSize(v.field_type) /\ v.alignment = TypeAlign(v.field_type)

TypesOf(ft) ==
  IF ft.kind = "construct"
    THEN {f.field_type : f \in {constructs.elems[ft.id].fields.elems[i] :
                                  i \in DOMAIN constructs.elems[ft.id].fields.elems}}
    ELSE {arrays.elems[ft.id].field_type}

ComplexTypes ==
  [kind : {"construct"}, id : DOMAIN constructs.elems]
    \cup [kind : {"array"}, id : DOMAIN arrays.elems]

\* No type contains itself through others: every set of types has one that
\* contains none of the others.  Whoever walks a type comes to an end,
\* provided it stops at a construct listed directly as its own field.
ContainmentEnds ==
  \A set \in (SUBSET ComplexTypes) \ {{}} :
    \E ft \in set : TypesOf(ft) \cap (set \ {ft}) = {}

\* The object that has a name is the one that is found by it, and nothing
\* is found by a name that no object has: through every failure of a push
\* and of a table, for constructs, variables and the fields of a construct.
NamesAgree ==
  LET Agree(elems, names, Get(_)) ==
        \A name \in names : Get(name) = {i \in DOMAIN elems : elems[i].name = name}
  IN  /\ Agree(constructs.elems, ConstructNames, GetConstructByName)
      /\ Agree(variables.elems, VariableNames, GetVariableByName)
      /\ \A c \in Constructs :
           Agree(c.fields.elems, FieldNames, LAMBDA name : GetFieldByName(c, name))

Dynamic(a) ==
  \E i \in DOMAIN a.dimensions.elems : ExtentType(a.dimensions.elems[i]) = "variable"

\* The size of an element times the extents of the first n dimensions.
Products(elem_size, dims) ==
  LET product[n \in 0 .. Len(dims)] ==
        IF n = 0 THEN elem_size ELSE product[n - 1] * ExtentCount(dims[n])
  IN  product

FullSize(a) == Products(a.elem_size, a.dimensions.elems)[Len(a.dimensions.elems)]

HasZero(a) == \E i \in DOMAIN a.dimensions.elems : ExtentCount(a.dimensions.elems[i]) = 0

\* The size of an array is -1 once an extent is dynamic, and otherwise that
\* of an element times every extent, in whatever order they were added, if
\* none is 0 and the product is one that a ssize_t can hold.
ArraySizesRight ==
  \A a \in Arrays :
    /\ Dynamic(a) => a.total_size = -1
    /\ /\ ~Dynamic(a) /\ ~HasZero(a) /\ a.elem_size >= 0
       /\ Len(a.dimensions.elems) > 0 /\ FullSize(a) < SizeMod \div 2
       => a.total_size = FullSize(a)

\* What a client can read of the types, and where a next field would go.
Described ==
  <<GetConstructs, GetVariables,
    [name \in ConstructNames |-> GetConstructByName(name)],
    [name \in VariableNames |-> GetVariableByName(name)],
    [i \in DOMAIN constructs.elems |-> LET c == constructs.elems[i] IN
       <<c.last_offset, [name \in FieldNames |-> GetFieldByName(c, name)]>>],
    [i \in DOMAIN arrays.elems |-> ReadArray(arrays.elems[i])],
    [i \in DOMAIN pointers.elems |-> ReadPointer(pointers.elems[i])]>>

\* A call that runs out of memory, wherever it does, leaves every
\* description as it was, and one that is refused leaves everything so.
FailureIsHarmless ==
  [][err' # "MAM_SUCCESS" =>
       /\ Described' = Described
       /\ err' = "MAM_ENOMEM" \/ UNCHANGED objects]_vars

\* The types that can no longer be changed.
Frozen ==
  {ft \in ComplexTypes :
     IF ft.kind = "construct" THEN constructs.elems[ft.id].frozen ELSE arrays.elems[ft.id].frozen}

\* A call that fails leaves every type as open to changes as it was, except
\* create_variable: it freezes before its push, so that a failure may leave
\* the type it was given frozen, and that one only.  No type is ever opened
\* again while there is a context.
FailureFreezesNothing ==
  [][/\ err' # "MAM_SUCCESS" =>
          \/ Frozen' = Frozen
          \/ \E name \in VariableNames, ft \in FieldTypes :
               CreateVariable(name, ft) /\ Frozen' = Frozen \cup {ft}
     /\ status' # "none" => Frozen \subseteq Frozen']_vars

------------------------------------------------------------------------------
(* What the tests of the repository say, and the code does not keep.       *)


\* test/copy-engine-test.c: the size is the product of the extents; here
\* for an extent of 0 as well.
EmptyArraysAreEmpty ==
  \A a \in Arrays :
    ~Dynamic(a) /\ HasZero(a) /\ a.elem_size >= 0 => a.total_size = 0

\* test/copy-engine-test.c: the size of a dynamic array is -1; here when it
\* is its elements that are dynamic.
DynamicElementsAreDynamic ==
  \A a \in Arrays :
    a.elem_size = -1 /\ Len(a.dimensions.elems) > 0 => a.total_size = -1

==============================================================================
