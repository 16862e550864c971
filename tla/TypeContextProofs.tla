------------------------- MODULE TypeContextProofs -------------------------
(***************************************************************************)
(* What every call makes of a context, for all data types, names and       *)
(* populations.  EveryStep says that whatever a call does, failures        *)
(* included, is one of a few changes (Change): nothing, the end of the     *)
(* context, or one object added and what it refers to frozen.  The         *)
(* theorems about contexts, here and in TypeLayoutProofs, are proved of    *)
(* these changes instead of the actions.                                   *)
(***************************************************************************)
EXTENDS HostTypeMap, CommonLemmas

------------------------------------------------------------------------------
(* What a failed addition leaves.                                          *)

\* Whatever a push and a table leave when they fail, the elements are those
\* there were.
LEMMA PushFailuresFacts ==
  ASSUME NEW set, NEW a \in UtArrayOf(set), NEW b \in PushFailures(a)
  PROVE  b \in UtArrayOf(set) /\ b.elems = a.elems
<1>1. b = [a EXCEPT !.n = Doubled(a.n)]
  BY DEF PushFailures, ReserveFailed
<1>2. QED BY <1>1, DoubledType DEF UtArrayOf

LEMMA AddFailuresFacts ==
  ASSUME NEW set, NEW a \in UtArrayOf(set), NEW x, NEW b \in AddFailures(a, x)
  PROVE  b \in UtArrayOf(set) /\ b.elems = a.elems
<1>1. CASE b \in PushFailures(a)
  BY <1>1, PushFailuresFacts
<1>2. CASE b = PushedAndPopped(a, x)
  <2>1. PICK any : any = set \cup {x}
    OBVIOUS
  <2>2. a \in UtArrayOf(any) /\ x \in any
    BY <2>1, SeqMonotonic DEF UtArrayOf
  <2>3. PICK p \in UtArrayOf(any) : p = PushedBack(a, x) /\ p.elems = Append(a.elems, x)
    BY <2>2, PushFacts
  <2>4. b = [p EXCEPT !.elems = SubSeq(p.elems, 1, Len(p.elems) - 1)]
    BY <1>2, <2>3 DEF PushedAndPopped, PoppedBack
  <2>5. a.elems \in Seq(any) /\ Len(a.elems) \in Nat /\ Len(p.elems) - 1 = Len(a.elems)
    BY <2>2, <2>3, AppendProperties, UtArrayFacts
  <2>6. SubSeq(p.elems, 1, Len(p.elems) - 1) = a.elems
    <3>1. PICK s : s = SubSeq(p.elems, 1, Len(a.elems))
      OBVIOUS
    <3>2. \A i \in 1 .. Len(a.elems) : p.elems[i] = a.elems[i] /\ a.elems[i] \in any
      BY <2>2, <2>3, <2>5, AppendProperties, ElementOfSeq
    <3>3. s \in Seq(any) /\ Len(s) = Len(a.elems) /\ \A i \in 1 .. Len(a.elems) : s[i] = p.elems[i]
      BY <2>5, <3>1, <3>2, SubSeqProperties
    <3>4. s = a.elems
      BY <2>5, <3>2, <3>3, SeqEqual
    <3>5. QED BY <2>5, <3>1, <3>4
  <2>7. a.elems \in Seq(set)
    BY UtArrayFacts
  <2>8. QED BY <2>3, <2>4, <2>6, <2>7 DEF UtArrayOf
<1>3. QED BY <1>1, <1>2 DEF AddFailures

------------------------------------------------------------------------------
(* Sizes and alignments.                                                   *)

LEMMA SizeModFacts ==
  /\ SizeMod \in Nat /\ SizeMod >= 64 /\ SizeMod \div 2 \in Nat
  /\ SizeMod = 2 * (SizeMod \div 2) /\ SizeMod \div 2 >= 32
<1>1. SizeMod \in Nat \ {0} /\ SizeMod % 64 = 0
  BY SizeModAssumption
<1>2. SizeMod = 64 * (SizeMod \div 64) + (SizeMod % 64) /\ SizeMod \div 64 \in Int
  BY <1>1
<1>3. PICK k \in Int : k = SizeMod \div 64
  BY <1>2
<1>4. SizeMod = 64 * k
  BY <1>1, <1>2, <1>3
<1>5. QED BY <1>1, <1>4

LEMMA SignedType == \A x \in SizeT : Signed(x) \in SSizeT
BY SizeModFacts DEF SizeT, SSizeT, Signed

LEMMA SmallSizes == \A x \in SSizeT : x >= 0 => x \in SizeT
BY SizeModFacts DEF SizeT, SSizeT

LEMMA DataTypeFacts ==
  ASSUME NEW t \in DataTypes
  PROVE  /\ DataTypeSize[t] \in SSizeT /\ DataTypeSize[t] \in 1 .. 16
         /\ DataTypeAlign[t] \in Alignments
<1>1. DataTypeSize[t] \in {1, 2, 4, 8, 16}
  <2>1. DataTypeSize[t] = <<1, 1, 2, 2, 4, 4, 8, 8, 16, 16, 2, 2, 4, 8>>[t + 1]
    BY DEF DataTypeSize
  <2>2. t \in {0, 1, 2, 3, 4, 5, 6, 7, 8, 9, 10, 11, 12, 13}
    BY DEF DataTypes
  <2>3. QED
    <3>1. CASE t \in {0, 1, 2, 3, 12}
      BY <2>1, <3>1
    <3>2. CASE t \in {4, 5, 6, 7, 13}
      BY <2>1, <3>2
    <3>3. CASE t \in {8, 9, 10, 11}
      BY <2>1, <3>3
    <3>4. QED BY <2>2, <3>1, <3>2, <3>3
<1>2. QED BY <1>1, SizeModFacts DEF SSizeT, Alignments, DataTypeAlign

\* What a client can use as a type.
LEMMA FieldTypeFacts ==
  ASSUME TypeOK, NEW ft \in FieldTypes
  PROVE  /\ ft \in FieldTypeRecord
         /\ ft.kind = "data" => ft.id \in DataTypes
         /\ ft.kind = "mapped" => ft.id \in MappedTypes /\ TypeMap[ft.id] \in DataTypes
         /\ ft.kind = "construct" => ft.id \in DOMAIN constructs.elems
         /\ ft.kind = "array" => ft.id \in DOMAIN arrays.elems
<1>1. DOMAIN constructs.elems \subseteq Nat /\ DOMAIN arrays.elems \subseteq Nat
  BY UtArrayFacts DEF TypeOK
<1>2. MappedTypes \subseteq Nat /\ ClientTypes \subseteq DataTypes /\ DataTypes \subseteq Nat
  BY TypeMapAssumption, ClientTypesAssumption DEF DataTypes
<1>3. CASE ft \in [kind : {"data"}, id : ClientTypes]
  BY <1>2, <1>3 DEF FieldTypeRecord
<1>4. CASE ft \in [kind : {"mapped"}, id : MappedTypes]
  BY <1>2, <1>4, TypeMapAssumption DEF FieldTypeRecord
<1>5. CASE ft \in [kind : {"construct"}, id : DOMAIN constructs.elems]
  BY <1>1, <1>5 DEF FieldTypeRecord
<1>6. CASE ft \in [kind : {"array"}, id : DOMAIN arrays.elems]
  BY <1>1, <1>6 DEF FieldTypeRecord
<1>7. QED BY <1>3, <1>4, <1>5, <1>6 DEF FieldTypes

\* The size and the alignment of a type.
LEMMA SizeAlignType ==
  ASSUME TypeOK, NEW ft \in FieldTypes
  PROVE  TypeSize(ft) \in SSizeT /\ TypeAlign(ft) \in Alignments
<1>1. ft.kind \in {"data", "mapped", "construct", "array"}
  BY FieldTypeFacts DEF FieldTypeRecord
<1>2. CASE ft.kind = "data"
  BY <1>2, FieldTypeFacts, DataTypeFacts DEF TypeSize, TypeAlign
<1>3. CASE ft.kind = "mapped"
  BY <1>3, FieldTypeFacts, DataTypeFacts DEF TypeSize, TypeAlign
<1>4. CASE ft.kind = "construct"
  <2>1. constructs.elems[ft.id] \in ConstructRecord
    BY <1>4, FieldTypeFacts, UtArrayFacts DEF TypeOK
  <2>2. constructs.elems[ft.id].total_size \in SizeT /\ constructs.elems[ft.id].alignment \in Alignments
    BY <2>1 DEF ConstructRecord
  <2>3. QED BY <1>4, <2>2, SignedType DEF TypeSize, TypeAlign
<1>5. CASE ft.kind = "array"
  <2>1. arrays.elems[ft.id] \in ArrayRecord
    BY <1>5, FieldTypeFacts, UtArrayFacts DEF TypeOK
  <2>2. QED BY <1>5, <2>1 DEF ArrayRecord, TypeSize, TypeAlign
<1>6. QED BY <1>1, <1>2, <1>3, <1>4, <1>5

------------------------------------------------------------------------------
(* What a step makes of the objects.                                       *)

\* Two constructs, or two arrays, that a client cannot tell apart, except
\* that the second may have been frozen.
SameConstruct(c, d) ==
  /\ d.name = c.name /\ d.type = c.type /\ d.packed = c.packed
  /\ d.last_offset = c.last_offset /\ d.total_size = c.total_size
  /\ d.alignment = c.alignment
  /\ d.fields.elems = c.fields.elems /\ d.fields_name_hash = c.fields_name_hash
  /\ c.frozen => d.frozen

SameArray(a, b) ==
  /\ b.elem_size = a.elem_size /\ b.total_size = a.total_size
  /\ b.alignment = a.alignment /\ b.field_type = a.field_type
  /\ b.dimensions.elems = a.dimensions.elems
  /\ a.frozen => b.frozen

LEMMA FreezeConstructFacts ==
  ASSUME NEW cs \in UtArrayOf(ConstructRecord), NEW ft,
         ft.kind = "construct" => ft.id \in DOMAIN cs.elems,
         NEW ds, ds = Freeze(cs, "construct", ft)
  PROVE  /\ ds \in UtArrayOf(ConstructRecord)
         /\ Len(ds.elems) = Len(cs.elems) /\ DOMAIN ds.elems = DOMAIN cs.elems
         /\ \A i \in DOMAIN cs.elems : SameConstruct(cs.elems[i], ds.elems[i])
         /\ ft.kind = "construct" => ds.elems[ft.id].frozen
<1>1. CASE ft.kind # "construct"
  <2>1. ds = cs
    BY <1>1 DEF Freeze
  <2>2. QED BY <1>1, <2>1, UtArrayFacts DEF SameConstruct
<1>2. CASE ft.kind = "construct"
  <2>1. PICK c \in ConstructRecord : c = cs.elems[ft.id]
    BY <1>2, UtArrayFacts
  <2>2. PICK d : d = [c EXCEPT !.frozen = TRUE]
    OBVIOUS
  <2>3. d \in ConstructRecord /\ d.frozen /\ SameConstruct(c, d)
    BY <2>2 DEF ConstructRecord, SameConstruct
  <2>4. ds = [cs EXCEPT !.elems[ft.id] = d]
    BY <1>2, <2>1, <2>2 DEF Freeze
  <2>5. /\ ds \in UtArrayOf(ConstructRecord)
        /\ Len(ds.elems) = Len(cs.elems) /\ DOMAIN ds.elems = DOMAIN cs.elems
        /\ ds.elems[ft.id] = d
        /\ \A j \in DOMAIN cs.elems : j # ft.id => ds.elems[j] = cs.elems[j]
    BY <1>2, <2>3, <2>4, SetElemFacts
  <2>6. ASSUME NEW i \in DOMAIN cs.elems
        PROVE  SameConstruct(cs.elems[i], ds.elems[i])
    BY <2>1, <2>3, <2>5 DEF SameConstruct
  <2>7. QED BY <2>3, <2>5, <2>6
<1>3. QED BY <1>1, <1>2

LEMMA FreezeArrayFacts ==
  ASSUME NEW rs \in UtArrayOf(ArrayRecord), NEW ft,
         ft.kind = "array" => ft.id \in DOMAIN rs.elems,
         NEW bs, bs = Freeze(rs, "array", ft)
  PROVE  /\ bs \in UtArrayOf(ArrayRecord)
         /\ Len(bs.elems) = Len(rs.elems) /\ DOMAIN bs.elems = DOMAIN rs.elems
         /\ \A i \in DOMAIN rs.elems : SameArray(rs.elems[i], bs.elems[i])
         /\ ft.kind = "array" => bs.elems[ft.id].frozen
<1>1. CASE ft.kind # "array"
  <2>1. bs = rs
    BY <1>1 DEF Freeze
  <2>2. QED BY <1>1, <2>1, UtArrayFacts DEF SameArray
<1>2. CASE ft.kind = "array"
  <2>1. PICK a \in ArrayRecord : a = rs.elems[ft.id]
    BY <1>2, UtArrayFacts
  <2>2. PICK b : b = [a EXCEPT !.frozen = TRUE]
    OBVIOUS
  <2>3. b \in ArrayRecord /\ b.frozen /\ SameArray(a, b)
    BY <2>2 DEF ArrayRecord, SameArray
  <2>4. bs = [rs EXCEPT !.elems[ft.id] = b]
    BY <1>2, <2>1, <2>2 DEF Freeze
  <2>5. /\ bs \in UtArrayOf(ArrayRecord)
        /\ Len(bs.elems) = Len(rs.elems) /\ DOMAIN bs.elems = DOMAIN rs.elems
        /\ bs.elems[ft.id] = b
        /\ \A j \in DOMAIN rs.elems : j # ft.id => bs.elems[j] = rs.elems[j]
    <3>1. PICK i \in DOMAIN rs.elems : i = ft.id
      BY <1>2
    <3>2. bs = [rs EXCEPT !.elems[i] = b] /\ b \in ArrayRecord
      BY <2>3, <2>4, <3>1
    <3>3. /\ bs \in UtArrayOf(ArrayRecord)
          /\ Len(bs.elems) = Len(rs.elems) /\ DOMAIN bs.elems = DOMAIN rs.elems
          /\ bs.elems[i] = b
          /\ \A j \in DOMAIN rs.elems : j # i => bs.elems[j] = rs.elems[j]
      BY <3>2, SetElemFacts
    <3>4. QED BY <3>1, <3>3
  <2>6. ASSUME NEW i \in DOMAIN rs.elems
        PROVE  SameArray(rs.elems[i], bs.elems[i])
    BY <2>1, <2>3, <2>5 DEF SameArray
  <2>7. QED BY <2>3, <2>5, <2>6
<1>3. QED BY <1>1, <1>2

------------------------------------------------------------------------------
(* The constructs and arrays that are made.                                *)

LEMMA NewConstructType ==
  ASSUME NEW name \in ConstructNames \cup {NoName}, NEW kind \in Kinds
  PROVE  NewConstruct(name, kind[1], kind[2]) \in ConstructRecord
<1>1. kind[1] \in BOOLEAN /\ kind[2] \in {"struct", "union"}
  BY KindsAssumption
<1>2. 0 \in SizeT /\ 1 \in Alignments
  BY SizeModFacts DEF SizeT, Alignments
<1>3. QED BY <1>1, <1>2, EmptyArrayType DEF NewConstruct, ConstructRecord

LEMMA NewArrayType ==
  ASSUME TypeOK, NEW ft \in FieldTypes
  PROVE  NewArray(ft) \in ArrayRecord
<1>1. 0 \in SSizeT
  BY SizeModFacts DEF SSizeT
<1>2. QED BY <1>1, EmptyArrayType, FieldTypeFacts, SizeAlignType DEF NewArray, ArrayRecord

LEMMA NewVariableType ==
  ASSUME TypeOK, NEW ft \in FieldTypes, NEW name \in VariableNames
  PROVE  NewVariable(name, ft) \in VariableRecord
BY FieldTypeFacts, SizeAlignType DEF NewVariable, VariableRecord

LEMMA ExtentTypes ==
  ASSUME NEW dim \in Dimensions
  PROVE  ExtentType(dim) \in {"fixed", "variable"} /\ ExtentCount(dim) \in SizeT
BY DimensionsAssumption DEF ExtentType, ExtentCount

LEMMA ExtendedType ==
  ASSUME NEW total \in SSizeT, NEW elem \in SSizeT, NEW dim \in Dimensions
  PROVE  Extended(total, elem, dim) \in SSizeT
<1>1. ExtentType(dim) \in {"fixed", "variable"} /\ ExtentCount(dim) \in SizeT
  BY ExtentTypes
<1>2. PICK n \in Nat : n = ExtentCount(dim)
  BY <1>1, SizeModFacts DEF SizeT
<1>3. SizeMod \in Nat \ {0} /\ elem \in Int /\ total \in Int /\ -1 \in SSizeT
  BY SizeModFacts DEF SSizeT
<1>4. (elem * n) % SizeMod \in SizeT /\ (total * n) % SizeMod \in SizeT
  <2>1. elem * n \in Int /\ total * n \in Int
    BY <1>3
  <2>2. \A x \in Int : x % SizeMod \in SizeT
    BY <1>3 DEF SizeT
  <2>3. QED BY <2>1, <2>2
<1>5. Signed((elem * n) % SizeMod) \in SSizeT /\ Signed((total * n) % SizeMod) \in SSizeT
  BY <1>4, SignedType
<1>6. QED BY <1>2, <1>3, <1>5 DEF Extended

\* Padding and offsets are sizes.
LEMMA AlignedType ==
  ASSUME NEW x \in SizeT, NEW align \in Alignments
  PROVE  Aligned(x, align) \in SizeT /\ PadTo(x, align) \in 0 .. align - 1
<1>1. align \in Nat \ {0} /\ x \in Nat
  BY DEF Alignments, SizeT
<1>2. PadTo(x, align) \in 0 .. align - 1
  BY <1>1 DEF PadTo
<1>3. PICK pad \in Nat : pad = PadTo(x, align)
  BY <1>1, <1>2
<1>4. (x + pad) % SizeMod \in SizeT
  BY <1>1, SizeModFacts DEF SizeT
<1>5. QED BY <1>2, <1>3, <1>4 DEF Aligned

LEMMA OffsetType ==
  ASSUME NEW c \in ConstructRecord, NEW opt \in Offsets \cup {NoOffset}, NEW align \in Alignments
  PROVE  FieldOffset(c, opt, align) \in SizeT
<1>1. c.last_offset \in SizeT /\ c.type \in {"struct", "union"}
  BY DEF ConstructRecord
<1>2. opt = NoOffset \/ opt \in SizeT
  BY OffsetsAssumption
<1>3. 0 \in SizeT /\ NoOffset \notin SizeT
  BY SizeModFacts DEF SizeT, NoOffset
<1>4. CASE opt # NoOffset
  BY <1>2, <1>4 DEF FieldOffset
<1>5. CASE opt = NoOffset /\ c.type = "union"
  BY <1>3, <1>5 DEF FieldOffset
<1>6. CASE opt = NoOffset /\ c.type = "struct"
  BY <1>1, <1>6, AlignedType DEF FieldOffset
<1>7. QED BY <1>1, <1>4, <1>5, <1>6

LEMMA GrownAlignType ==
  ASSUME NEW c \in ConstructRecord, NEW align \in Alignments
  PROVE  GrownAlign(c, align) \in Alignments
BY DEF ConstructRecord, GrownAlign, MaxOf

LEMMA GrownSizeType ==
  ASSUME NEW c \in ConstructRecord, NEW offset \in SizeT, NEW size \in SizeT,
         NEW alignment \in Alignments
  PROVE  GrownSize(c, offset, size, alignment) \in SizeT
<1>1. (offset + size) % SizeMod \in SizeT
  BY SizeModFacts DEF SizeT
<1>2. MaxOf(size, c.total_size) \in SizeT
  BY DEF ConstructRecord, MaxOf
<1>3. PICK end \in SizeT :
        end = IF c.type = "struct" THEN (offset + size) % SizeMod ELSE MaxOf(size, c.total_size)
  BY <1>1, <1>2
<1>4. GrownSize(c, offset, size, alignment) = IF c.packed THEN end ELSE Aligned(end, alignment)
  BY <1>3 DEF GrownSize
<1>5. QED BY <1>3, <1>4, AlignedType

\* The field that is made of a name, a type and an offset.
NewField(c, name, ft, opt) ==
  [name |-> name, field_type |-> ft, size |-> TypeSize(ft),
   offset |-> FieldOffset(c, opt, TypeAlign(ft)), user_offset |-> opt # NoOffset]

\* A construct with one more field, member by member.
LEMMA WithFieldFacts ==
  ASSUME TypeOK, NEW c \in ConstructRecord, NEW name \in FieldNames, NEW ft \in FieldTypes,
         NEW opt \in Offsets \cup {NoOffset}, TypeSize(ft) >= 0,
         NEW d, d = WithField(c, name, ft, opt)
  PROVE  LET field == NewField(c, name, ft, opt) IN
         /\ d \in ConstructRecord /\ field \in FieldRecord
         /\ d.name = c.name /\ d.type = c.type /\ d.packed = c.packed /\ d.frozen = c.frozen
         /\ d.last_offset = IF c.type = "struct" THEN (field.offset + field.size) % SizeMod
                                                 ELSE c.last_offset
         /\ d.alignment = GrownAlign(c, TypeAlign(ft))
         /\ d.total_size = GrownSize(c, field.offset, field.size, d.alignment)
         /\ d.fields.elems = Append(c.fields.elems, field)
         /\ d.fields_name_hash = c.fields_name_hash \cup {Len(c.fields.elems) + 1}
<1> DEFINE field == NewField(c, name, ft, opt)
<1>1. PICK size \in SizeT : size = TypeSize(ft)
  BY SizeAlignType, SmallSizes
<1>2. PICK align \in Alignments : align = TypeAlign(ft)
  BY SizeAlignType
<1>3. PICK offset \in SizeT : offset = FieldOffset(c, opt, align)
  BY OffsetType
<1>4. field = [name |-> name, field_type |-> ft, size |-> size, offset |-> offset,
               user_offset |-> opt # NoOffset]
  BY <1>1, <1>2, <1>3 DEF NewField
<1>5. field \in FieldRecord
  BY <1>4, FieldTypeFacts DEF FieldRecord
<1>6. PICK alignment \in Alignments : alignment = GrownAlign(c, align)
  BY GrownAlignType
<1>7. PICK total \in SizeT : total = GrownSize(c, offset, size, alignment)
  BY GrownSizeType
<1>8. PICK last : last = IF c.type = "struct" THEN (offset + size) % SizeMod ELSE c.last_offset
  OBVIOUS
<1>9. last \in SizeT
  BY <1>8, SizeModFacts DEF ConstructRecord, SizeT
<1>10. PICK laid : laid = LaidOut(c, opt, size, align)
  OBVIOUS
<1>11. laid = [c EXCEPT !.alignment = alignment, !.last_offset = last, !.total_size = total]
  BY <1>3, <1>6, <1>7, <1>8, <1>10 DEF LaidOut
<1>12. /\ laid \in ConstructRecord /\ laid.fields = c.fields
       /\ laid.fields_name_hash = c.fields_name_hash
       /\ laid.name = c.name /\ laid.type = c.type /\ laid.packed = c.packed
       /\ laid.frozen = c.frozen
       /\ laid.last_offset = last /\ laid.alignment = alignment /\ laid.total_size = total
  BY <1>9, <1>11 DEF ConstructRecord
<1>13. PICK fields \in UtArrayOf(FieldRecord) :
         fields = PushedBack(c.fields, field) /\ fields.elems = Append(c.fields.elems, field)
  BY <1>5, PushFacts DEF ConstructRecord
<1>14. PICK hash : hash = c.fields_name_hash \cup {Len(c.fields.elems) + 1}
  OBVIOUS
<1>15. hash \subseteq Nat
  <2>1. c.fields \in UtArrayOf(FieldRecord) /\ c.fields_name_hash \subseteq Nat
    BY DEF ConstructRecord
  <2>2. Len(c.fields.elems) \in Nat
    BY <2>1, UtArrayFacts
  <2>3. QED BY <1>14, <2>1, <2>2
<1>16. d = [laid EXCEPT !.fields = fields, !.fields_name_hash = hash]
  <2>1. field = [name |-> name, field_type |-> ft, size |-> TypeSize(ft),
                 offset |-> FieldOffset(c, opt, TypeAlign(ft)), user_offset |-> opt # NoOffset]
    BY DEF NewField
  <2>2. d = [LaidOut(c, opt, TypeSize(ft), TypeAlign(ft))
               EXCEPT !.fields = PushedBack(@, field),
                      !.fields_name_hash = @ \cup {UtLen(c.fields) + 1}]
    BY <2>1 DEF WithField
  <2>3. d = [laid EXCEPT !.fields = PushedBack(@, field),
                         !.fields_name_hash = @ \cup {UtLen(c.fields) + 1}]
    BY <1>1, <1>2, <1>10, <2>2
  <2>4. laid.fields_name_hash \cup {UtLen(c.fields) + 1} = hash
    BY <1>12, <1>14 DEF UtLen
  <2>5. PushedBack(laid.fields, field) = fields
    BY <1>12, <1>13
  <2>6. d = [laid EXCEPT !.fields = PushedBack(laid.fields, field),
                         !.fields_name_hash = laid.fields_name_hash \cup {UtLen(c.fields) + 1}]
    BY <1>12, <2>3 DEF ConstructRecord
  <2>7. QED BY <2>4, <2>5, <2>6
<1> HIDE DEF field
<1>17. /\ d \in ConstructRecord
       /\ d.name = c.name /\ d.type = c.type /\ d.packed = c.packed /\ d.frozen = c.frozen
       /\ d.last_offset = last /\ d.alignment = alignment /\ d.total_size = total
       /\ d.fields = fields /\ d.fields_name_hash = hash
  BY <1>12, <1>13, <1>15, <1>16 DEF ConstructRecord
<1>18. field.offset = offset /\ field.size = size
  BY <1>4
<1>19. QED BY <1>2, <1>5, <1>6, <1>7, <1>8, <1>13, <1>14, <1>17, <1>18 DEF field

------------------------------------------------------------------------------
(* What a step does: nothing that a client can see, or one of the changes  *)
(* below.  The lemmas that follow show it, with the types, for every       *)
(* action; the invariants are proved from the changes alone.               *)

KeepConstructs ==
  /\ DOMAIN constructs'.elems = DOMAIN constructs.elems
  /\ \A i \in DOMAIN constructs.elems : SameConstruct(constructs.elems[i], constructs'.elems[i])

KeepArrays ==
  /\ DOMAIN arrays'.elems = DOMAIN arrays.elems
  /\ \A i \in DOMAIN arrays.elems : SameArray(arrays.elems[i], arrays'.elems[i])

KeepPointers == pointers'.elems = pointers.elems
KeepVariables == variables'.elems = variables.elems /\ variables_name_hash' = variables_name_hash

Quiet ==
  /\ KeepConstructs /\ KeepArrays /\ KeepPointers /\ KeepVariables
  /\ constructs_name_hash' = constructs_name_hash

Cleared ==
  /\ constructs' = EmptyArray /\ arrays' = EmptyArray
  /\ pointers' = EmptyArray /\ variables' = EmptyArray
  /\ constructs_name_hash' = {} /\ variables_name_hash' = {}
  /\ err' = "MAM_SUCCESS"
  /\ status' = "none"

\* The type is frozen, if it can be.
FrozenNow(ft) ==
  /\ ft.kind = "construct" => constructs'.elems[ft.id].frozen
  /\ ft.kind = "array" => arrays'.elems[ft.id].frozen

ConstructAdded(name, kind) ==
  /\ name # NoName => ~TakenName(constructs.elems, constructs_name_hash, name)
  /\ constructs'.elems = Append(constructs.elems, NewConstruct(name, kind[1], kind[2]))
  /\ constructs_name_hash' = constructs_name_hash \cup {Len(constructs.elems) + 1}
  /\ KeepArrays /\ KeepPointers /\ KeepVariables
  /\ err' = "MAM_SUCCESS"

FieldAdded(c, name, ft, opt) ==
  LET construct == constructs.elems[c] IN
  /\ ~construct.frozen /\ name # NoName
  /\ ~TakenName(construct.fields.elems, construct.fields_name_hash, name)
  /\ ~OffsetRefused(construct, opt) /\ TypeSize(ft) >= 0
  /\ DOMAIN constructs'.elems = DOMAIN constructs.elems
  /\ \A i \in DOMAIN constructs.elems \ {c} :
       SameConstruct(constructs.elems[i], constructs'.elems[i])
  /\ SameConstruct(WithField(construct, name, ft, opt), constructs'.elems[c])
  /\ FrozenNow(ft)
  /\ KeepArrays /\ KeepPointers /\ KeepVariables
  /\ constructs_name_hash' = constructs_name_hash
  /\ err' = "MAM_SUCCESS"

PointerAdded(ft) ==
  /\ pointers'.elems = Append(pointers.elems, ft)
  /\ KeepConstructs /\ KeepArrays /\ KeepVariables
  /\ constructs_name_hash' = constructs_name_hash
  /\ err' = "MAM_SUCCESS"

ArrayAdded(ft) ==
  LET next == Len(arrays.elems) + 1 IN
  /\ DOMAIN arrays'.elems = DOMAIN arrays.elems \cup {next}
  /\ \A i \in DOMAIN arrays.elems : SameArray(arrays.elems[i], arrays'.elems[i])
  /\ SameArray(NewArray(ft), arrays'.elems[next])
  /\ FrozenNow(ft)
  /\ KeepConstructs /\ KeepPointers /\ KeepVariables
  /\ constructs_name_hash' = constructs_name_hash
  /\ err' = "MAM_SUCCESS"

DimensionAdded(a, dim) ==
  LET array == arrays.elems[a]
      grown == arrays'.elems[a]
  IN
  /\ ~array.frozen
  /\ DOMAIN arrays'.elems = DOMAIN arrays.elems
  /\ \A i \in DOMAIN arrays.elems \ {a} : SameArray(arrays.elems[i], arrays'.elems[i])
  /\ grown.elem_size = array.elem_size /\ grown.alignment = array.alignment
  /\ grown.field_type = array.field_type
  /\ grown.total_size = Extended(array.total_size, array.elem_size, dim)
  /\ grown.dimensions.elems = Append(array.dimensions.elems, dim)
  /\ KeepConstructs /\ KeepPointers /\ KeepVariables
  /\ constructs_name_hash' = constructs_name_hash
  /\ err' = "MAM_SUCCESS"

VariableAdded(name, ft) ==
  /\ name # NoName /\ ~TakenName(variables.elems, variables_name_hash, name)
  /\ variables'.elems = Append(variables.elems, NewVariable(name, ft))
  /\ variables_name_hash' = variables_name_hash \cup {Len(variables.elems) + 1}
  /\ FrozenNow(ft)
  /\ KeepConstructs /\ KeepArrays /\ KeepPointers
  /\ constructs_name_hash' = constructs_name_hash
  /\ err' = "MAM_SUCCESS"

\* Nothing that the invariants are about changes, or one of these.
Change ==
  \/ Quiet
  \/ Cleared
  \/ \E name \in ConstructNames \cup {NoName}, kind \in Kinds : ConstructAdded(name, kind)
  \/ \E c \in DOMAIN constructs.elems, name \in FieldNames,
        ft \in FieldTypes, opt \in Offsets \cup {NoOffset} : FieldAdded(c, name, ft, opt)
  \/ \E ft \in FieldTypes : PointerAdded(ft)
  \/ \E ft \in FieldTypes : ArrayAdded(ft)
  \/ \E a \in DOMAIN arrays.elems, dim \in Dimensions : DimensionAdded(a, dim)
  \/ \E name \in VariableNames, ft \in FieldTypes : VariableAdded(name, ft)

LEMMA SameIsReflexive ==
  /\ \A c : SameConstruct(c, c)
  /\ \A a : SameArray(a, a)
BY DEF SameConstruct, SameArray

LEMMA UnchangedIsKept ==
  /\ UNCHANGED constructs => KeepConstructs
  /\ UNCHANGED arrays => KeepArrays
  /\ UNCHANGED pointers => KeepPointers
  /\ UNCHANGED <<variables, variables_name_hash>> => KeepVariables
BY SameIsReflexive DEF KeepConstructs, KeepArrays, KeepPointers, KeepVariables

LEMMA UnchangedIsQuiet ==
  ASSUME TypeOK, status' \in {"none", "live", "undefined"},
         err' \in {"MAM_SUCCESS", "MAM_EINVAL", "MAM_ENOMEM", "MAM_EFROZEN"},
         UNCHANGED objects
  PROVE  TypeOK' /\ Quiet
<1>1. TypeOK'
  BY DEF TypeOK, objects, UtArrayOf, ConstructRecord, ArrayRecord, FieldTypeRecord, VariableRecord, FieldRecord
<1>2. Quiet
  BY UnchangedIsKept DEF Quiet, objects
<1>3. QED BY <1>1, <1>2

\* Whatever a call does before it changes an object.
LEMMA AbortIsQuiet ==
  ASSUME TypeOK,
         \/ NullDereference \/ CallocFails
         \/ Refuse("MAM_EINVAL") \/ Refuse("MAM_EFROZEN")
         \/ \E a : Overrun(a)
  PROVE  TypeOK' /\ Quiet
<1>1. /\ status' \in {"none", "live", "undefined"}
      /\ err' \in {"MAM_SUCCESS", "MAM_EINVAL", "MAM_ENOMEM", "MAM_EFROZEN"}
      /\ UNCHANGED objects
  BY DEF NullDereference, CallocFails, Refuse, Overrun, TypeOK
<1>2. QED BY <1>1, UnchangedIsQuiet

LEMMA CreateConstructStep ==
  ASSUME TypeOK, NEW name \in ConstructNames \cup {NoName}, NEW kind \in Kinds,
         CreateConstruct(name, kind[1], kind[2])
  PROVE  TypeOK' /\ (Quiet \/ ConstructAdded(name, kind))
<1> DEFINE construct == NewConstruct(name, kind[1], kind[2])
           taken == name # NoName /\ TakenName(constructs.elems, constructs_name_hash, name)
<1>1. constructs \in UtArrayOf(ConstructRecord) /\ construct \in ConstructRecord
  BY NewConstructType DEF TypeOK
<1>2. \/ Refuse("MAM_EINVAL") \/ CallocFails \/ Overrun(constructs)
      \/ /\ constructs' \in AddFailures(constructs, construct)
         /\ err' = "MAM_ENOMEM"
         /\ UNCHANGED <<status, constructs_name_hash, arrays, pointers, variables, variables_name_hash>>
      \/ /\ ~taken
         /\ constructs' = PushedBack(constructs, construct)
         /\ constructs_name_hash' = constructs_name_hash \cup {UtLen(constructs) + 1}
         /\ err' = "MAM_SUCCESS"
         /\ UNCHANGED <<status, arrays, pointers, variables, variables_name_hash>>
  BY DEF CreateConstruct
<1> HIDE DEF construct, taken
<1>3. CASE Refuse("MAM_EINVAL") \/ CallocFails \/ Overrun(constructs)
  BY <1>3, AbortIsQuiet
<1>4. CASE /\ constructs' \in AddFailures(constructs, construct)
           /\ err' = "MAM_ENOMEM"
           /\ UNCHANGED <<status, constructs_name_hash, arrays, pointers, variables, variables_name_hash>>
  <2>1. constructs' \in UtArrayOf(ConstructRecord) /\ constructs'.elems = constructs.elems
    BY <1>1, <1>4, AddFailuresFacts
  <2>2. TypeOK'
    BY <1>4, <2>1 DEF TypeOK
  <2>3. KeepConstructs
    BY <2>1, SameIsReflexive DEF KeepConstructs
  <2>4. QED BY <1>4, <2>2, <2>3, UnchangedIsKept DEF Quiet
<1>5. CASE /\ ~taken
           /\ constructs' = PushedBack(constructs, construct)
           /\ constructs_name_hash' = constructs_name_hash \cup {UtLen(constructs) + 1}
           /\ err' = "MAM_SUCCESS"
           /\ UNCHANGED <<status, arrays, pointers, variables, variables_name_hash>>
  <2>1. /\ constructs' \in UtArrayOf(ConstructRecord)
        /\ constructs'.elems = Append(constructs.elems, construct)
    BY <1>1, <1>5, PushFacts
  <2>2. UtLen(constructs) + 1 = Len(constructs.elems) + 1 /\ Len(constructs.elems) + 1 \in Nat
    BY <1>1, UtArrayFacts
  <2>3. TypeOK'
    BY <1>5, <2>1, <2>2 DEF TypeOK
  <2>4. ConstructAdded(name, kind)
    BY <1>5, <2>1, <2>2, UnchangedIsKept DEF ConstructAdded, construct, taken
  <2>5. QED BY <2>3, <2>4
<1>6. QED BY <1>2, <1>3, <1>4, <1>5

LEMMA CreatePointerStep ==
  ASSUME TypeOK, NEW ft \in FieldTypes, CreatePointer(ft)
  PROVE  TypeOK' /\ (Quiet \/ PointerAdded(ft))
<1>1. pointers \in UtArrayOf(FieldTypeRecord) /\ ft \in FieldTypeRecord
  BY FieldTypeFacts DEF TypeOK
<1>2. CASE NullDereference \/ Overrun(pointers)
  BY <1>2, AbortIsQuiet
<1>3. CASE /\ pointers' \in PushFailures(pointers) /\ err' = "MAM_ENOMEM"
           /\ UNCHANGED <<status, constructs, arrays, variables,
                          constructs_name_hash, variables_name_hash>>
  <2>1. pointers' \in UtArrayOf(FieldTypeRecord) /\ pointers'.elems = pointers.elems
    BY <1>1, <1>3, PushFailuresFacts
  <2>2. TypeOK'
    BY <1>3, <2>1 DEF TypeOK
  <2>3. QED BY <1>3, <2>1, <2>2, UnchangedIsKept DEF Quiet, KeepPointers
<1>4. CASE /\ pointers' = PushedBack(pointers, ft) /\ err' = "MAM_SUCCESS"
           /\ UNCHANGED <<status, constructs, arrays, variables,
                          constructs_name_hash, variables_name_hash>>
  <2>1. pointers' \in UtArrayOf(FieldTypeRecord) /\ pointers'.elems = Append(pointers.elems, ft)
    BY <1>1, <1>4, PushFacts
  <2>2. TypeOK'
    BY <1>4, <2>1 DEF TypeOK
  <2>3. QED BY <1>4, <2>1, <2>2, UnchangedIsKept DEF PointerAdded
<1>5. QED BY <1>2, <1>3, <1>4 DEF CreatePointer

\* Freezing keeps what a client sees.
LEMMA FreezeKeeps ==
  ASSUME TypeOK, NEW ft \in FieldTypes
  PROVE  /\ constructs' = Freeze(constructs, "construct", ft) =>
              /\ constructs' \in UtArrayOf(ConstructRecord) /\ KeepConstructs
              /\ ft.kind = "construct" => constructs'.elems[ft.id].frozen
         /\ arrays' = Freeze(arrays, "array", ft) =>
              /\ arrays' \in UtArrayOf(ArrayRecord) /\ KeepArrays
              /\ ft.kind = "array" => arrays'.elems[ft.id].frozen
<1>1. /\ constructs \in UtArrayOf(ConstructRecord) /\ arrays \in UtArrayOf(ArrayRecord)
      /\ ft.kind = "construct" => ft.id \in DOMAIN constructs.elems
      /\ ft.kind = "array" => ft.id \in DOMAIN arrays.elems
  BY FieldTypeFacts DEF TypeOK
<1>2. ASSUME constructs' = Freeze(constructs, "construct", ft)
      PROVE  /\ constructs' \in UtArrayOf(ConstructRecord) /\ KeepConstructs
             /\ ft.kind = "construct" => constructs'.elems[ft.id].frozen
  BY <1>1, <1>2, FreezeConstructFacts DEF KeepConstructs
<1>3. ASSUME arrays' = Freeze(arrays, "array", ft)
      PROVE  /\ arrays' \in UtArrayOf(ArrayRecord) /\ KeepArrays
             /\ ft.kind = "array" => arrays'.elems[ft.id].frozen
  BY <1>1, <1>3, FreezeArrayFacts DEF KeepArrays
<1>4. QED BY <1>2, <1>3

LEMMA CreateVariableStep ==
  ASSUME TypeOK, NEW name \in VariableNames \cup {NoName}, NEW ft \in FieldTypes,
         CreateVariable(name, ft)
  PROVE  TypeOK' /\ (Quiet \/ (name \in VariableNames /\ VariableAdded(name, ft)))
<1> DEFINE variable == NewVariable(name, ft)
           invalid == name = NoName \/ TakenName(variables.elems, variables_name_hash, name)
           Failed == /\ variables' \in AddFailures(variables, variable)
                     /\ err' = "MAM_ENOMEM"
                     /\ UNCHANGED variables_name_hash
           Added == /\ variables' = PushedBack(variables, variable)
                    /\ variables_name_hash' = variables_name_hash \cup {UtLen(variables) + 1}
                    /\ err' = "MAM_SUCCESS"
<1>1. variables \in UtArrayOf(VariableRecord)
  BY DEF TypeOK
<1>2. \/ Refuse("MAM_EINVAL") \/ CallocFails \/ Overrun(variables)
      \/ /\ ~invalid
         /\ constructs' = Freeze(constructs, "construct", ft)
         /\ arrays' = Freeze(arrays, "array", ft)
         /\ Failed \/ Added
         /\ UNCHANGED <<status, pointers, constructs_name_hash>>
  BY DEF CreateVariable
<1>3. CASE Refuse("MAM_EINVAL") \/ CallocFails \/ Overrun(variables)
  BY <1>3, AbortIsQuiet
<1>4. CASE /\ ~invalid
           /\ constructs' = Freeze(constructs, "construct", ft)
           /\ arrays' = Freeze(arrays, "array", ft)
           /\ Failed \/ Added
           /\ UNCHANGED <<status, pointers, constructs_name_hash>>
  <2>1. name \in VariableNames /\ name # NoName
    BY <1>4
  <2>2. variable \in VariableRecord
    BY <2>1, NewVariableType
  <2>3. /\ constructs' \in UtArrayOf(ConstructRecord) /\ arrays' \in UtArrayOf(ArrayRecord)
        /\ KeepConstructs /\ KeepArrays /\ FrozenNow(ft)
    BY <1>4, FreezeKeeps DEF FrozenNow
  <2>4. CASE Failed
    <3>1. variables' \in UtArrayOf(VariableRecord) /\ variables'.elems = variables.elems
      BY <1>1, <2>4, AddFailuresFacts
    <3>2. TypeOK'
      BY <1>4, <2>3, <2>4, <3>1 DEF TypeOK
    <3>3. QED BY <1>4, <2>3, <2>4, <3>1, <3>2, UnchangedIsKept DEF Quiet, KeepVariables
  <2>5. CASE Added
    <3>1. /\ variables' \in UtArrayOf(VariableRecord)
          /\ variables'.elems = Append(variables.elems, variable)
      BY <1>1, <2>2, <2>5, PushFacts
    <3>2. UtLen(variables) + 1 = Len(variables.elems) + 1 /\ Len(variables.elems) + 1 \in Nat
      BY <1>1, UtArrayFacts
    <3>3. TypeOK'
      <4>1. variables_name_hash' \subseteq Nat
        BY <2>5, <3>2 DEF TypeOK
      <4>2. QED BY <1>4, <2>3, <2>5, <3>1, <4>1 DEF TypeOK
    <3>4. VariableAdded(name, ft)
      BY <1>4, <2>1, <2>3, <2>5, <3>1, <3>2, UnchangedIsKept DEF VariableAdded
    <3>5. QED BY <2>1, <3>3, <3>4
  <2>6. QED BY <1>4, <2>4, <2>5
<1>5. QED BY <1>2, <1>3, <1>4

LEMMA CreateArrayStep ==
  ASSUME TypeOK, NEW ft \in FieldTypes, CreateArray(ft)
  PROVE  TypeOK' /\ (Quiet \/ ArrayAdded(ft))
<1>1. /\ arrays \in UtArrayOf(ArrayRecord) /\ NewArray(ft) \in ArrayRecord
      /\ ft.kind = "array" => ft.id \in DOMAIN arrays.elems
  BY NewArrayType, FieldTypeFacts DEF TypeOK
<1>2. CASE NullDereference \/ CallocFails \/ Overrun(arrays)
  BY <1>2, AbortIsQuiet
<1>3. CASE /\ arrays' \in PushFailures(arrays) /\ err' = "MAM_ENOMEM"
           /\ UNCHANGED <<status, constructs, pointers, variables,
                          constructs_name_hash, variables_name_hash>>
  <2>1. arrays' \in UtArrayOf(ArrayRecord) /\ arrays'.elems = arrays.elems
    BY <1>1, <1>3, PushFailuresFacts
  <2>2. TypeOK'
    BY <1>3, <2>1 DEF TypeOK
  <2>3. KeepArrays
    BY <2>1, SameIsReflexive DEF KeepArrays
  <2>4. QED BY <1>3, <2>2, <2>3, UnchangedIsKept DEF Quiet
<1>4. CASE /\ arrays' = Freeze(PushedBack(arrays, NewArray(ft)), "array", ft)
           /\ constructs' = Freeze(constructs, "construct", ft)
           /\ err' = "MAM_SUCCESS"
           /\ UNCHANGED <<status, pointers, variables,
                          constructs_name_hash, variables_name_hash>>
  <2>1. constructs' \in UtArrayOf(ConstructRecord) /\ KeepConstructs
         /\ (ft.kind = "construct" => constructs'.elems[ft.id].frozen)
    BY <1>4, FreezeKeeps
  <2>2. PICK pushed \in UtArrayOf(ArrayRecord) :
          /\ pushed = PushedBack(arrays, NewArray(ft))
          /\ pushed.elems = Append(arrays.elems, NewArray(ft))
    BY <1>1, PushFacts
  <2>3. PICK next \in Nat : next = Len(arrays.elems) + 1
    BY <1>1, UtArrayFacts
  <2>4. /\ DOMAIN pushed.elems = DOMAIN arrays.elems \cup {next}
        /\ next \notin DOMAIN arrays.elems
        /\ \A i \in DOMAIN arrays.elems : pushed.elems[i] = arrays.elems[i]
        /\ pushed.elems[next] = NewArray(ft)
    <3>1. /\ DOMAIN arrays.elems = 1 .. Len(arrays.elems) /\ Len(arrays.elems) \in Nat
          /\ DOMAIN pushed.elems = 1 .. Len(pushed.elems)
      BY <1>1, UtArrayFacts
    <3>2. /\ Len(pushed.elems) = next
          /\ \A i \in 1 .. Len(arrays.elems) : pushed.elems[i] = arrays.elems[i]
          /\ pushed.elems[next] = NewArray(ft)
      BY <1>1, <2>2, <2>3, AppendProperties, UtArrayFacts
    <3>3. QED BY <2>3, <3>1, <3>2
  <2>5. ft.kind = "array" => ft.id \in DOMAIN pushed.elems
    BY <1>1, <2>4
  <2>6. /\ arrays' \in UtArrayOf(ArrayRecord) /\ DOMAIN arrays'.elems = DOMAIN pushed.elems
        /\ \A i \in DOMAIN pushed.elems : SameArray(pushed.elems[i], arrays'.elems[i])
        /\ ft.kind = "array" => arrays'.elems[ft.id].frozen
    BY <1>4, <2>2, <2>5, FreezeArrayFacts
  <2>7. TypeOK'
    BY <1>4, <2>1, <2>6 DEF TypeOK
  <2>8. /\ DOMAIN arrays'.elems = DOMAIN arrays.elems \cup {next}
        /\ \A i \in DOMAIN arrays.elems : SameArray(arrays.elems[i], arrays'.elems[i])
        /\ SameArray(NewArray(ft), arrays'.elems[next])
    BY <2>4, <2>6
  <2>9. ArrayAdded(ft)
    BY <1>4, <2>1, <2>3, <2>6, <2>8, UnchangedIsKept DEF ArrayAdded, FrozenNow
  <2>10. QED BY <2>7, <2>9
<1>5. QED BY <1>2, <1>3, <1>4 DEF CreateArray

LEMMA AddDimensionStep ==
  ASSUME TypeOK, NEW a \in DOMAIN arrays.elems, NEW dim \in Dimensions, AddDimension(a, dim)
  PROVE  TypeOK' /\ (Quiet \/ DimensionAdded(a, dim))
<1>1. PICK array \in ArrayRecord : array = arrays.elems[a]
  BY UtArrayFacts DEF TypeOK
<1>2. /\ arrays \in UtArrayOf(ArrayRecord) /\ array.dimensions \in UtArrayOf(Dimensions)
      /\ array.total_size \in SSizeT /\ array.elem_size \in SSizeT
  BY DEF TypeOK, ArrayRecord
<1>3. CASE Refuse("MAM_EFROZEN") \/ CallocFails \/ Overrun(array.dimensions)
  BY <1>3, AbortIsQuiet
<1>4. CASE /\ \E dimensions \in PushFailures(array.dimensions) :
                arrays' = [arrays EXCEPT !.elems[a].dimensions = dimensions]
           /\ err' = "MAM_ENOMEM"
           /\ UNCHANGED <<status, constructs, pointers, variables,
                          constructs_name_hash, variables_name_hash>>
  <2>1. PICK dimensions \in PushFailures(array.dimensions) :
          arrays' = [arrays EXCEPT !.elems[a].dimensions = dimensions]
    BY <1>4
  <2>2. dimensions \in UtArrayOf(Dimensions) /\ dimensions.elems = array.dimensions.elems
    BY <1>2, PushFailuresFacts
  <2>3. PICK b : b = [array EXCEPT !.dimensions = dimensions]
    OBVIOUS
  <2>4. b \in ArrayRecord /\ SameArray(array, b)
    BY <2>2, <2>3 DEF ArrayRecord, SameArray
  <2>5. arrays' = [arrays EXCEPT !.elems[a] = b]
    BY <1>1, <2>1, <2>3
  <2>6. /\ arrays' \in UtArrayOf(ArrayRecord) /\ DOMAIN arrays'.elems = DOMAIN arrays.elems
        /\ arrays'.elems[a] = b
        /\ \A j \in DOMAIN arrays.elems : j # a => arrays'.elems[j] = arrays.elems[j]
    BY <1>2, <2>4, <2>5, SetElemFacts
  <2>7. KeepArrays
    BY <1>1, <2>4, <2>6, SameIsReflexive DEF KeepArrays
  <2>8. TypeOK'
    BY <1>4, <2>6 DEF TypeOK
  <2>9. QED BY <1>4, <2>7, <2>8, UnchangedIsKept DEF Quiet
<1>5. CASE /\ ~array.frozen
           /\ arrays' =
                [arrays EXCEPT
                   !.elems[a].dimensions = PushedBack(@, dim),
                   !.elems[a].total_size = Extended(@, array.elem_size, dim)]
           /\ err' = "MAM_SUCCESS"
           /\ UNCHANGED <<status, constructs, pointers, variables,
                          constructs_name_hash, variables_name_hash>>
  <2>1. PICK dimensions \in UtArrayOf(Dimensions) :
          /\ dimensions = PushedBack(array.dimensions, dim)
          /\ dimensions.elems = Append(array.dimensions.elems, dim)
    BY <1>2, PushFacts
  <2>2. PICK total \in SSizeT : total = Extended(array.total_size, array.elem_size, dim)
    BY <1>2, ExtendedType
  <2>3. PICK b : b = [array EXCEPT !.dimensions = dimensions, !.total_size = total]
    OBVIOUS
  <2>4. /\ b \in ArrayRecord /\ b.elem_size = array.elem_size
        /\ b.alignment = array.alignment /\ b.field_type = array.field_type
        /\ b.total_size = total /\ b.dimensions = dimensions
    BY <2>3 DEF ArrayRecord
  <2>5. arrays' = [arrays EXCEPT !.elems[a] = b]
    <3>1. arrays' = [arrays EXCEPT !.elems[a] =
                       [array EXCEPT !.dimensions = PushedBack(@, dim),
                                     !.total_size = Extended(@, array.elem_size, dim)]]
      BY <1>1, <1>5
    <3>2. b = [array EXCEPT !.dimensions = PushedBack(@, dim),
                            !.total_size = Extended(@, array.elem_size, dim)]
      BY <2>1, <2>2, <2>3 DEF ArrayRecord
    <3>3. QED BY <3>1, <3>2
  <2>6. /\ arrays' \in UtArrayOf(ArrayRecord) /\ DOMAIN arrays'.elems = DOMAIN arrays.elems
        /\ arrays'.elems[a] = b
        /\ \A j \in DOMAIN arrays.elems : j # a => arrays'.elems[j] = arrays.elems[j]
    BY <1>2, <2>4, <2>5, SetElemFacts
  <2>7. TypeOK'
    BY <1>5, <2>6 DEF TypeOK
  <2>8. DimensionAdded(a, dim)
    BY <1>1, <1>5, <2>1, <2>2, <2>4, <2>6, SameIsReflexive, UnchangedIsKept DEF DimensionAdded
  <2>9. QED BY <2>7, <2>8
<1>6. QED BY <1>1, <1>3, <1>4, <1>5 DEF AddDimension

LEMMA AddFieldStep ==
  ASSUME TypeOK, NEW c \in DOMAIN constructs.elems, NEW name \in FieldNames \cup {NoName},
         NEW ft \in FieldTypes, NEW opt \in Offsets \cup {NoOffset}, AddField(c, name, ft, opt)
  PROVE  TypeOK' /\ (Quiet \/ (name \in FieldNames /\ FieldAdded(c, name, ft, opt)))
<1>1. PICK construct \in ConstructRecord : construct = constructs.elems[c]
  BY UtArrayFacts DEF TypeOK
<1>2. constructs \in UtArrayOf(ConstructRecord) /\ construct.fields \in UtArrayOf(FieldRecord)
  BY DEF TypeOK, ConstructRecord
<1> DEFINE invalid == \/ name = NoName
                      \/ TakenName(construct.fields.elems, construct.fields_name_hash, name)
                      \/ OffsetRefused(construct, opt)
                      \/ TypeSize(ft) < 0
           grown == WithField(construct, name, ft, opt)
           Failed ==
             /\ \E fields \in AddFailures(construct.fields, [name |-> name]) :
                  constructs' = [constructs EXCEPT !.elems[c].fields = fields]
             /\ err' = "MAM_ENOMEM"
             /\ UNCHANGED <<status, arrays, pointers, variables,
                            constructs_name_hash, variables_name_hash>>
           Added ==
             /\ ~construct.frozen /\ ~invalid
             /\ constructs' = Freeze([constructs EXCEPT !.elems[c] = grown], "construct", ft)
             /\ arrays' = Freeze(arrays, "array", ft)
             /\ err' = "MAM_SUCCESS"
             /\ UNCHANGED <<status, pointers, variables,
                            constructs_name_hash, variables_name_hash>>
<1>3. \/ Refuse("MAM_EFROZEN") \/ Refuse("MAM_EINVAL") \/ CallocFails
      \/ Overrun(construct.fields) \/ Failed \/ Added
  BY <1>1 DEF AddField, FieldNotAdded
<1>4. CASE \/ Refuse("MAM_EFROZEN") \/ Refuse("MAM_EINVAL") \/ CallocFails
           \/ Overrun(construct.fields)
  BY <1>4, AbortIsQuiet
<1>5. CASE Failed
  <2>1. PICK fields \in AddFailures(construct.fields, [name |-> name]) :
          constructs' = [constructs EXCEPT !.elems[c].fields = fields]
    BY <1>5
  <2>2. fields \in UtArrayOf(FieldRecord) /\ fields.elems = construct.fields.elems
    BY <1>2, AddFailuresFacts
  <2>3. PICK d : d = [construct EXCEPT !.fields = fields]
    OBVIOUS
  <2>4. d \in ConstructRecord /\ SameConstruct(construct, d)
    BY <2>2, <2>3 DEF ConstructRecord, SameConstruct
  <2>5. constructs' = [constructs EXCEPT !.elems[c] = d]
    BY <1>1, <2>1, <2>3
  <2>6. /\ constructs' \in UtArrayOf(ConstructRecord)
        /\ DOMAIN constructs'.elems = DOMAIN constructs.elems
        /\ constructs'.elems[c] = d
        /\ \A j \in DOMAIN constructs.elems : j # c => constructs'.elems[j] = constructs.elems[j]
    BY <1>2, <2>4, <2>5, SetElemFacts
  <2>7. KeepConstructs
    BY <1>1, <2>4, <2>6, SameIsReflexive DEF KeepConstructs
  <2>8. TypeOK'
    BY <1>5, <2>6 DEF TypeOK
  <2>9. QED BY <1>5, <2>7, <2>8, UnchangedIsKept DEF Quiet
<1>6. CASE Added
  <2>1. name \in FieldNames /\ name # NoName /\ TypeSize(ft) >= 0
    <3>1. TypeSize(ft) \in Int
      BY SizeAlignType, SizeModFacts DEF SSizeT
    <3>2. QED BY <1>6, <3>1
  <2>2. grown \in ConstructRecord
    BY <2>1, WithFieldFacts
  <2>3. PICK ds : ds = [constructs EXCEPT !.elems[c] = grown]
    OBVIOUS
  <2>4. /\ ds \in UtArrayOf(ConstructRecord) /\ DOMAIN ds.elems = DOMAIN constructs.elems
        /\ ds.elems[c] = grown
        /\ \A j \in DOMAIN constructs.elems : j # c => ds.elems[j] = constructs.elems[j]
    BY <1>2, <2>2, <2>3, SetElemFacts
  <2>5. ft.kind = "construct" => ft.id \in DOMAIN ds.elems
    BY <2>4, FieldTypeFacts
  <2>6. /\ constructs' \in UtArrayOf(ConstructRecord) /\ DOMAIN constructs'.elems = DOMAIN ds.elems
        /\ \A i \in DOMAIN ds.elems : SameConstruct(ds.elems[i], constructs'.elems[i])
        /\ ft.kind = "construct" => constructs'.elems[ft.id].frozen
    BY <1>6, <2>3, <2>4, <2>5, FreezeConstructFacts
  <2>7. arrays' \in UtArrayOf(ArrayRecord) /\ KeepArrays
         /\ (ft.kind = "array" => arrays'.elems[ft.id].frozen)
    BY <1>6, FreezeKeeps
  <2>8. TypeOK'
    BY <1>6, <2>6, <2>7 DEF TypeOK
  <2>9. FieldAdded(c, name, ft, opt)
    <3>1. /\ DOMAIN constructs'.elems = DOMAIN constructs.elems
          /\ \A i \in DOMAIN constructs.elems \ {c} :
               SameConstruct(constructs.elems[i], constructs'.elems[i])
          /\ SameConstruct(grown, constructs'.elems[c])
      BY <2>4, <2>6
    <3>2. FrozenNow(ft)
      BY <2>6, <2>7 DEF FrozenNow
    <3>3. /\ KeepPointers /\ KeepVariables /\ constructs_name_hash' = constructs_name_hash
          /\ err' = "MAM_SUCCESS"
      BY <1>6, UnchangedIsKept
    <3>4. ~OffsetRefused(construct, opt) /\ ~construct.frozen
           /\ ~TakenName(construct.fields.elems, construct.fields_name_hash, name)
      BY <1>6
    <3> HIDE DEF invalid, grown, Failed, Added
    <3>5. QED BY <1>1, <2>1, <2>7, <3>1, <3>2, <3>3, <3>4 DEF FieldAdded, grown
  <2>10. QED BY <2>1, <2>8, <2>9
<1>7. QED BY <1>3, <1>4, <1>5, <1>6

\* Every step is one of the changes, and keeps the types.
LEMMA EveryStep ==
  ASSUME TypeOK, [Next]_vars
  PROVE  TypeOK' /\ Change
<1>1. CASE UNCHANGED vars
  <2>1. UNCHANGED objects /\ status' = status /\ err' = err
    BY <1>1 DEF vars
  <2>2. TypeOK' /\ Quiet
    BY <2>1, UnchangedIsQuiet DEF TypeOK
  <2>3. QED BY <2>2 DEF Change
<1>2. CASE CreateContext \/ Lost
  <2>1. /\ UNCHANGED objects
        /\ status' \in {"none", "live", "undefined"}
        /\ err' \in {"MAM_SUCCESS", "MAM_EINVAL", "MAM_ENOMEM", "MAM_EFROZEN"}
    BY <1>2 DEF CreateContext, Lost, vars, TypeOK
  <2>2. QED BY <2>1, UnchangedIsQuiet DEF Change
<1>3. CASE DestroyContext
  <2>1. TypeOK'
    BY <1>3, EmptyArrayType DEF DestroyContext, TypeOK
  <2>2. QED BY <1>3, <2>1 DEF DestroyContext, Cleared, Change
<1>4. CASE \E name \in ConstructNames \cup {NoName}, kind \in Kinds :
             CreateConstruct(name, kind[1], kind[2])
  BY <1>4, CreateConstructStep DEF Change
<1>5. CASE \E c \in DOMAIN constructs.elems, name \in FieldNames \cup {NoName},
              ft \in FieldTypes, opt \in Offsets \cup {NoOffset} : AddField(c, name, ft, opt)
  BY <1>5, AddFieldStep DEF Change
<1>6. CASE \E ft \in FieldTypes : CreatePointer(ft)
  BY <1>6, CreatePointerStep DEF Change
<1>7. CASE \E ft \in FieldTypes : CreateArray(ft)
  BY <1>7, CreateArrayStep DEF Change
<1>8. CASE \E a \in DOMAIN arrays.elems, dim \in Dimensions : AddDimension(a, dim)
  BY <1>8, AddDimensionStep DEF Change
<1>9. CASE \E name \in VariableNames \cup {NoName}, ft \in FieldTypes : CreateVariable(name, ft)
  BY <1>9, CreateVariableStep DEF Change
<1>10. QED BY <1>1, <1>2, <1>3, <1>4, <1>5, <1>6, <1>7, <1>8, <1>9 DEF Next

LEMMA InitTypes == Init => TypeOK
BY EmptyArrayType DEF Init, TypeOK

\* The objects of a context always have their types.
THEOREM ContextTypes == Spec => []TypeOK
BY InitTypes, EveryStep, PTL DEF Spec

------------------------------------------------------------------------------
(* Names.  The table of names has every object, through every failure, and *)
(* no name is given twice: the invariant behind NamesAgree.                *)

Listed(elems, hash) ==
  /\ hash = DOMAIN elems
  /\ \A i, j \in DOMAIN elems : elems[i].name = elems[j].name /\ elems[i].name # NoName => i = j

NamesListed ==
  /\ Listed(constructs.elems, constructs_name_hash)
  /\ Listed(variables.elems, variables_name_hash)
  /\ \A i \in DOMAIN constructs.elems :
       Listed(constructs.elems[i].fields.elems, constructs.elems[i].fields_name_hash)

LEMMA AppendFacts ==
  ASSUME NEW set, NEW s \in Seq(set), NEW x \in set
  PROVE  /\ DOMAIN Append(s, x) = DOMAIN s \cup {Len(s) + 1} /\ Len(s) + 1 \notin DOMAIN s
         /\ \A i \in DOMAIN s : Append(s, x)[i] = s[i] /\ i < Len(s) + 1
         /\ Append(s, x)[Len(s) + 1] = x
         /\ Len(s) + 1 \in Nat /\ DOMAIN s \subseteq Nat \ {0}
<1>1. Len(s) \in Nat /\ DOMAIN s = 1 .. Len(s)
  BY LenProperties
<1>2. PICK t \in Seq(set) : t = Append(s, x)
  BY AppendProperties
<1>3. /\ Len(t) = Len(s) + 1 /\ t[Len(s) + 1] = x
      /\ \A i \in 1 .. Len(s) : t[i] = s[i]
  BY <1>2, AppendProperties
<1>4. DOMAIN t = 1 .. Len(s) + 1
  BY <1>3, LenProperties
<1>5. QED BY <1>1, <1>2, <1>3, <1>4

\* An element with a name that no other has is listed with the others.
LEMMA AppendListed ==
  ASSUME NEW set, NEW elems \in Seq(set), NEW x \in set, NEW hash, Listed(elems, hash),
         x.name # NoName => ~TakenName(elems, hash, x.name)
  PROVE  Listed(Append(elems, x), hash \cup {Len(elems) + 1})
<1>1. PICK more : more = Append(elems, x)
  OBVIOUS
<1>2. PICK next : next = Len(elems) + 1
  OBVIOUS
<1>3. /\ DOMAIN more = DOMAIN elems \cup {next} /\ next \notin DOMAIN elems
      /\ \A i \in DOMAIN elems : more[i] = elems[i]
      /\ more[next] = x
  BY <1>1, <1>2, AppendFacts
<1>4. hash = DOMAIN elems
  BY DEF Listed
<1>5. ASSUME NEW i \in DOMAIN elems, elems[i].name = x.name, x.name # NoName
      PROVE  FALSE
  BY <1>4, <1>5 DEF TakenName
<1>6. ASSUME NEW i \in DOMAIN more, NEW j \in DOMAIN more,
             more[i].name = more[j].name, more[i].name # NoName
      PROVE  i = j
  <2>1. CASE i = next /\ j # next
    BY <1>3, <1>5, <1>6, <2>1
  <2>2. CASE i # next /\ j = next
    BY <1>3, <1>5, <1>6, <2>2
  <2>3. CASE i # next /\ j # next
    <3>1. i \in DOMAIN elems /\ j \in DOMAIN elems /\ more[i] = elems[i] /\ more[j] = elems[j]
      BY <1>3, <2>3
    <3>2. QED BY <1>6, <3>1 DEF Listed
  <2>4. QED BY <2>1, <2>2, <2>3
<1>7. hash \cup {next} = DOMAIN more
  BY <1>3, <1>4
<1>8. Listed(more, hash \cup {next})
  BY <1>6, <1>7 DEF Listed
<1>9. QED BY <1>1, <1>2, <1>8

LEMMA NothingListed == Listed(<< >>, {})
BY DEF Listed

\* Constructs that keep their names stay listed.
LEMMA KeptListed ==
  ASSUME NEW elems, NEW others, NEW hash, Listed(elems, hash),
         DOMAIN others = DOMAIN elems,
         \A i \in DOMAIN elems : others[i].name = elems[i].name
  PROVE  Listed(others, hash)
BY DEF Listed

\* What a look-up finds when all are listed.
LEMMA ListedFound ==
  ASSUME NEW elems, NEW hash, Listed(elems, hash), NEW name, name # NoName
  PROVE  Found(elems, hash, name) = {i \in DOMAIN elems : elems[i].name = name}
<1>1. hash = DOMAIN elems
  BY DEF Listed
<1>2. CASE ~TakenName(elems, hash, name)
  BY <1>1, <1>2 DEF Found, TakenName
<1>3. CASE TakenName(elems, hash, name)
  <2>1. PICK i \in DOMAIN elems : elems[i].name = name
    BY <1>1, <1>3 DEF TakenName
  <2>2. PICK k : k = CHOOSE j \in hash : elems[j].name = name
    OBVIOUS
  <2>3. k \in DOMAIN elems /\ elems[k].name = name
    BY <1>1, <2>1, <2>2
  <2>4. \A j \in DOMAIN elems : elems[j].name = name => j = k
    BY <2>3 DEF Listed
  <2>5. Found(elems, hash, name) = {k}
    BY <1>3, <2>2 DEF Found
  <2>6. QED BY <2>3, <2>4, <2>5
<1>4. QED BY <1>2, <1>3

LEMMA KeepConstructsListed ==
  ASSUME NamesListed, KeepConstructs, constructs_name_hash' = constructs_name_hash
  PROVE  /\ Listed(constructs.elems, constructs_name_hash)'
         /\ (\A i \in DOMAIN constructs.elems :
               Listed(constructs.elems[i].fields.elems, constructs.elems[i].fields_name_hash))'
<1>1. Listed(constructs'.elems, constructs_name_hash)
  BY KeptListed DEF NamesListed, KeepConstructs, SameConstruct
<1>2. ASSUME NEW i \in DOMAIN constructs'.elems
      PROVE  Listed(constructs'.elems[i].fields.elems, constructs'.elems[i].fields_name_hash)
  BY DEF NamesListed, KeepConstructs, SameConstruct
<1>3. QED BY <1>1, <1>2

LEMMA KeepVariablesListed ==
  ASSUME NamesListed, KeepVariables
  PROVE  Listed(variables.elems, variables_name_hash)'
BY DEF NamesListed, KeepVariables

LEMMA NamesStep ==
  ASSUME TypeOK, TypeOK', Change, NamesListed
  PROVE  NamesListed'
<1>1. CASE Quiet
  BY <1>1, KeepConstructsListed, KeepVariablesListed DEF Quiet, NamesListed
<1>2. CASE Cleared
  BY <1>2 DEF Cleared, EmptyArray, NamesListed, Listed
<1>3. ASSUME NEW name \in ConstructNames \cup {NoName}, NEW kind \in Kinds,
             ConstructAdded(name, kind)
      PROVE  NamesListed'
  <2>1. PICK construct \in ConstructRecord : construct = NewConstruct(name, kind[1], kind[2])
    BY NewConstructType
  <2>2. /\ constructs.elems \in Seq(ConstructRecord)
        /\ constructs'.elems = Append(constructs.elems, construct)
        /\ constructs_name_hash' = constructs_name_hash \cup {Len(constructs.elems) + 1}
    BY <1>3, <2>1, UtArrayFacts DEF ConstructAdded, TypeOK
  <2>3. construct.name = name /\ construct.fields.elems = << >> /\ construct.fields_name_hash = {}
    BY <2>1 DEF NewConstruct, EmptyArray
  <2>4. Listed(constructs'.elems, constructs_name_hash')
    BY <1>3, <2>2, <2>3, AppendListed DEF ConstructAdded, NamesListed
  <2>5. ASSUME NEW i \in DOMAIN constructs'.elems
        PROVE  Listed(constructs'.elems[i].fields.elems, constructs'.elems[i].fields_name_hash)
    <3>1. CASE i \in DOMAIN constructs.elems
      BY <2>2, <3>1, AppendFacts DEF NamesListed
    <3>2. CASE i \notin DOMAIN constructs.elems
      <4>1. constructs'.elems[i] = construct
        BY <2>2, <2>5, <3>2, AppendFacts
      <4>2. /\ constructs'.elems[i].fields.elems = << >>
            /\ constructs'.elems[i].fields_name_hash = {}
        BY <2>3, <4>1
      <4>3. QED BY <4>2, NothingListed
    <3>3. QED BY <3>1, <3>2
  <2>6. QED BY <1>3, <2>4, <2>5, KeepVariablesListed DEF ConstructAdded, NamesListed
<1>4. ASSUME NEW c \in DOMAIN constructs.elems, NEW name \in FieldNames, NEW ft \in FieldTypes,
             NEW opt \in Offsets \cup {NoOffset}, FieldAdded(c, name, ft, opt)
      PROVE  NamesListed'
  <2>1. PICK construct \in ConstructRecord : construct = constructs.elems[c]
    BY UtArrayFacts DEF TypeOK
  <2>2. PICK field \in FieldRecord :
          /\ field = NewField(construct, name, ft, opt) /\ field.name = name
          /\ WithField(construct, name, ft, opt).fields.elems
               = Append(construct.fields.elems, field)
          /\ WithField(construct, name, ft, opt).fields_name_hash
               = construct.fields_name_hash \cup {Len(construct.fields.elems) + 1}
          /\ WithField(construct, name, ft, opt).name = construct.name
    <3>1. TypeSize(ft) >= 0
      BY <1>4 DEF FieldAdded
    <3>2. PICK d : d = WithField(construct, name, ft, opt)
      OBVIOUS
    <3>3. PICK field : field = NewField(construct, name, ft, opt)
      OBVIOUS
    <3>4. /\ field \in FieldRecord
          /\ d.fields.elems = Append(construct.fields.elems, field)
          /\ d.fields_name_hash = construct.fields_name_hash \cup {Len(construct.fields.elems) + 1}
          /\ d.name = construct.name
      BY <3>1, <3>2, <3>3, WithFieldFacts
    <3>5. field.name = name
      BY <3>3 DEF NewField
    <3>6. QED BY <3>2, <3>3, <3>4, <3>5
  <2>3. /\ constructs'.elems[c].fields.elems = Append(construct.fields.elems, field)
        /\ constructs'.elems[c].fields_name_hash
             = construct.fields_name_hash \cup {Len(construct.fields.elems) + 1}
        /\ constructs'.elems[c].name = construct.name
    BY <1>4, <2>1, <2>2 DEF FieldAdded, SameConstruct
  <2>4. construct.fields.elems \in Seq(FieldRecord)
    BY UtArrayFacts DEF ConstructRecord
  <2>5. Listed(construct.fields.elems, construct.fields_name_hash)
    BY <2>1 DEF NamesListed
  <2>6. Listed(constructs'.elems[c].fields.elems, constructs'.elems[c].fields_name_hash)
    <3>1. ~TakenName(construct.fields.elems, construct.fields_name_hash, field.name)
      BY <1>4, <2>1, <2>2 DEF FieldAdded
    <3>2. QED BY <2>3, <2>4, <2>5, <3>1, AppendListed
  <2>7. \A i \in DOMAIN constructs.elems : constructs'.elems[i].name = constructs.elems[i].name
    BY <1>4, <2>1, <2>3 DEF FieldAdded, SameConstruct
  <2>8. Listed(constructs'.elems, constructs_name_hash')
    BY <1>4, <2>7, KeptListed DEF FieldAdded, NamesListed
  <2>9. ASSUME NEW i \in DOMAIN constructs'.elems
        PROVE  Listed(constructs'.elems[i].fields.elems, constructs'.elems[i].fields_name_hash)
    BY <1>4, <2>6 DEF FieldAdded, SameConstruct, NamesListed
  <2>10. QED BY <1>4, <2>8, <2>9, KeepVariablesListed DEF FieldAdded, NamesListed
<1>5. ASSUME NEW ft \in FieldTypes, PointerAdded(ft) \/ ArrayAdded(ft)
      PROVE  NamesListed'
  BY <1>5, KeepConstructsListed, KeepVariablesListed DEF PointerAdded, ArrayAdded, NamesListed
<1>6. ASSUME NEW a \in DOMAIN arrays.elems, NEW dim \in Dimensions, DimensionAdded(a, dim)
      PROVE  NamesListed'
  BY <1>6, KeepConstructsListed, KeepVariablesListed DEF DimensionAdded, NamesListed
<1>7. ASSUME NEW name \in VariableNames, NEW ft \in FieldTypes, VariableAdded(name, ft)
      PROVE  NamesListed'
  <2>1. PICK variable \in VariableRecord : variable = NewVariable(name, ft)
    BY NewVariableType
  <2>2. variable.name = name /\ variables.elems \in Seq(VariableRecord)
    BY <2>1, UtArrayFacts DEF NewVariable, TypeOK
  <2>3. Listed(variables'.elems, variables_name_hash')
    BY <1>7, <2>1, <2>2, AppendListed DEF VariableAdded, NamesListed
  <2>4. QED BY <1>7, <2>3, KeepConstructsListed DEF VariableAdded, NamesListed
<1>8. QED BY <1>1, <1>2, <1>3, <1>4, <1>5, <1>6, <1>7 DEF Change

LEMMA ListedAgree == NamesListed => NamesAgree
<1> SUFFICES ASSUME NamesListed PROVE NamesAgree
  OBVIOUS
<1>1. \A name \in ConstructNames \cup VariableNames \cup FieldNames : name # NoName
  BY NamesAssumption
<1>2. ASSUME NEW name \in ConstructNames
      PROVE  GetConstructByName(name) = {i \in DOMAIN constructs.elems : constructs.elems[i].name = name}
  BY <1>1, ListedFound DEF NamesListed, GetConstructByName
<1>3. ASSUME NEW name \in VariableNames
      PROVE  GetVariableByName(name) = {i \in DOMAIN variables.elems : variables.elems[i].name = name}
  BY <1>1, ListedFound DEF NamesListed, GetVariableByName
<1>4. ASSUME NEW c \in Constructs, NEW name \in FieldNames
      PROVE  GetFieldByName(c, name) = {i \in DOMAIN c.fields.elems : c.fields.elems[i].name = name}
  <2>1. Listed(c.fields.elems, c.fields_name_hash)
    BY DEF Constructs, NamesListed
  <2>2. QED BY <1>1, <2>1, ListedFound DEF GetFieldByName
<1>5. QED BY <1>2, <1>3, <1>4 DEF NamesAgree

LEMMA InitNames == Init => NamesListed
BY DEF Init, EmptyArray, NamesListed, Listed

\* A name finds the object that has it, and only that: after any calls, and
\* wherever one of them ran out of memory.
THEOREM NamesFindTheirObject == Spec => []NamesAgree
<1>1. TypeOK /\ NamesListed /\ [Next]_vars => TypeOK' /\ NamesListed'
  BY EveryStep, NamesStep
<1>2. QED BY <1>1, InitTypes, InitNames, ListedAgree, PTL DEF Spec

------------------------------------------------------------------------------
(* What a client reads.                                                    *)

LEMMA ReadSame ==
  /\ \A c, d : SameConstruct(c, d) =>
       /\ ReadConstruct(d) = ReadConstruct(c) /\ d.last_offset = c.last_offset
       /\ \A name : GetFieldByName(d, name) = GetFieldByName(c, name)
  /\ \A a, b : SameArray(a, b) => ReadArray(b) = ReadArray(a)
<1>1. ASSUME NEW c, NEW d, SameConstruct(c, d)
      PROVE  /\ ReadConstruct(d) = ReadConstruct(c) /\ d.last_offset = c.last_offset
             /\ \A name : GetFieldByName(d, name) = GetFieldByName(c, name)
  BY <1>1 DEF SameConstruct, ReadConstruct, GetFieldByName, UtLen
<1>2. ASSUME NEW a, NEW b, SameArray(a, b)
      PROVE  ReadArray(b) = ReadArray(a)
  BY <1>2 DEF SameArray, ReadArray, UtLen
<1>3. QED BY <1>1, <1>2

\* Elements with the same names are found by them in the same places.
LEMMA FoundSame ==
  ASSUME NEW elems, NEW others, NEW hash, hash = DOMAIN elems,
         DOMAIN others = DOMAIN elems,
         \A i \in DOMAIN elems : others[i].name = elems[i].name, NEW name
  PROVE  Found(others, hash, name) = Found(elems, hash, name)
<1>1. TakenName(others, hash, name) <=> TakenName(elems, hash, name)
  BY DEF TakenName
<1>2. CASE ~TakenName(elems, hash, name) \/ name = NoName
  BY <1>1, <1>2 DEF Found
<1>3. CASE TakenName(elems, hash, name) /\ name # NoName
  <2>1. (CHOOSE i \in hash : others[i].name = name) = (CHOOSE i \in hash : elems[i].name = name)
    <3>1. \A i \in hash : others[i].name = name <=> elems[i].name = name
      OBVIOUS
    <3>2. QED BY <3>1, Zenon
  <2>2. QED BY <1>1, <1>3, <2>1, Zenon DEF Found
<1>4. QED BY <1>2, <1>3

LEMMA QuietIsUnseen ==
  ASSUME TypeOK, TypeOK', NamesListed, Quiet
  PROVE  Described' = Described
<1>1. /\ DOMAIN constructs'.elems = DOMAIN constructs.elems
      /\ \A i \in DOMAIN constructs.elems : SameConstruct(constructs.elems[i], constructs'.elems[i])
      /\ DOMAIN arrays'.elems = DOMAIN arrays.elems
      /\ \A i \in DOMAIN arrays.elems : SameArray(arrays.elems[i], arrays'.elems[i])
      /\ pointers'.elems = pointers.elems /\ variables'.elems = variables.elems
      /\ constructs_name_hash' = constructs_name_hash
      /\ variables_name_hash' = variables_name_hash
  BY DEF Quiet, KeepConstructs, KeepArrays, KeepPointers, KeepVariables
<1>2. DOMAIN constructs.elems = 1 .. UtLen(constructs) /\ DOMAIN constructs'.elems = 1 .. UtLen(constructs')
  <2>1. constructs \in UtArrayOf(ConstructRecord) /\ constructs' \in UtArrayOf(ConstructRecord)
    BY DEF TypeOK
  <2>2. QED BY <2>1, UtArrayFacts
<1>3. GetConstructs' = GetConstructs
  <2>1. \A i \in DOMAIN constructs.elems :
          ReadConstruct(constructs'.elems[i]) = ReadConstruct(constructs.elems[i])
    BY <1>1, ReadSame
  <2>2. [i \in DOMAIN constructs.elems |-> ReadConstruct(constructs'.elems[i])]
          = [i \in DOMAIN constructs.elems |-> ReadConstruct(constructs.elems[i])]
    BY <2>1
  <2>3. QED BY <1>1, <1>2, <2>2 DEF GetConstructs
<1>4. GetVariables' = GetVariables
  BY <1>1 DEF GetVariables, UtLen, ReadVariable
<1>5. \A name : GetConstructByName(name)' = GetConstructByName(name)
  <2>1. \A i \in DOMAIN constructs.elems : constructs'.elems[i].name = constructs.elems[i].name
    BY <1>1 DEF SameConstruct
  <2>2. constructs_name_hash = DOMAIN constructs.elems
    BY DEF NamesListed, Listed
  <2>3. \A name : Found(constructs'.elems, constructs_name_hash, name)
                    = Found(constructs.elems, constructs_name_hash, name)
    <3>1. PICK others : others = constructs'.elems
      OBVIOUS
    <3>2. PICK elems : elems = constructs.elems
      OBVIOUS
    <3>3. /\ constructs_name_hash = DOMAIN elems /\ DOMAIN others = DOMAIN elems
          /\ \A i \in DOMAIN elems : others[i].name = elems[i].name
      BY <1>1, <2>1, <2>2, <3>1, <3>2
    <3>4. \A name : Found(others, constructs_name_hash, name) = Found(elems, constructs_name_hash, name)
      BY <3>3, FoundSame
    <3>5. QED BY <3>1, <3>2, <3>4
  <2>4. QED BY <1>1, <2>3 DEF GetConstructByName
<1>6. \A name : GetVariableByName(name)' = GetVariableByName(name)
  BY <1>1 DEF GetVariableByName
<1>7. \A i \in DOMAIN constructs.elems :
        /\ constructs'.elems[i].last_offset = constructs.elems[i].last_offset
        /\ \A name : GetFieldByName(constructs'.elems[i], name) = GetFieldByName(constructs.elems[i], name)
  BY <1>1, ReadSame
<1>8. [i \in DOMAIN constructs.elems |-> LET c == constructs.elems[i] IN
         <<c.last_offset, [name \in FieldNames |-> GetFieldByName(c, name)]>>]'
        = [i \in DOMAIN constructs.elems |-> LET c == constructs.elems[i] IN
             <<c.last_offset, [name \in FieldNames |-> GetFieldByName(c, name)]>>]
  <2>1. \A i \in DOMAIN constructs.elems :
          [name \in FieldNames |-> GetFieldByName(constructs'.elems[i], name)]
            = [name \in FieldNames |-> GetFieldByName(constructs.elems[i], name)]
    BY <1>7
  <2>2. QED BY <1>1, <1>7, <2>1
<1>9. [i \in DOMAIN arrays.elems |-> ReadArray(arrays.elems[i])]'
        = [i \in DOMAIN arrays.elems |-> ReadArray(arrays.elems[i])]
  BY <1>1, ReadSame
<1>10. [i \in DOMAIN pointers.elems |-> ReadPointer(pointers.elems[i])]'
        = [i \in DOMAIN pointers.elems |-> ReadPointer(pointers.elems[i])]
  BY <1>1 DEF ReadPointer
<1>11. QED BY <1>3, <1>4, <1>5, <1>6, <1>8, <1>9, <1>10 DEF Described

\* A call that does not succeed has run out of memory, or changed nothing.
LEMMA FailedStep ==
  ASSUME [Next]_vars, err' # "MAM_SUCCESS"
  PROVE  err' = "MAM_ENOMEM" \/ UNCHANGED objects
<1>1. CASE UNCHANGED vars
  BY <1>1 DEF vars
<1>2. CASE CreateContext \/ DestroyContext \/ Lost
  BY <1>2 DEF CreateContext, DestroyContext, Lost, vars
<1>3. ASSUME NEW name \in ConstructNames \cup {NoName}, NEW kind \in Kinds,
             CreateConstruct(name, kind[1], kind[2])
      PROVE  err' = "MAM_ENOMEM" \/ UNCHANGED objects
  BY <1>3 DEF CreateConstruct, Refuse, CallocFails, Overrun
<1>4. ASSUME NEW c \in DOMAIN constructs.elems, NEW name \in FieldNames \cup {NoName},
             NEW ft \in FieldTypes, NEW opt \in Offsets \cup {NoOffset}, AddField(c, name, ft, opt)
      PROVE  err' = "MAM_ENOMEM" \/ UNCHANGED objects
  BY <1>4 DEF AddField, Refuse, CallocFails, Overrun
<1>5. ASSUME NEW ft \in FieldTypes, CreatePointer(ft) \/ CreateArray(ft)
      PROVE  err' = "MAM_ENOMEM" \/ UNCHANGED objects
  BY <1>5 DEF CreatePointer, CreateArray, NullDereference, Refuse, CallocFails, Overrun
<1>6. ASSUME NEW a \in DOMAIN arrays.elems, NEW dim \in Dimensions, AddDimension(a, dim)
      PROVE  err' = "MAM_ENOMEM" \/ UNCHANGED objects
  BY <1>6 DEF AddDimension, Refuse, CallocFails, Overrun
<1>7. ASSUME NEW name \in VariableNames \cup {NoName}, NEW ft \in FieldTypes,
             CreateVariable(name, ft)
      PROVE  err' = "MAM_ENOMEM" \/ UNCHANGED objects
  BY <1>7 DEF CreateVariable, Refuse, CallocFails, Overrun
<1>8. QED BY <1>1, <1>2, <1>3, <1>4, <1>5, <1>6, <1>7 DEF Next

\* A call that fails leaves every description as it was, and everything as
\* it was when it was refused.
THEOREM FailuresAreHarmless == Spec => FailureIsHarmless
<1>1. ASSUME TypeOK, NamesListed, [Next]_vars, err' # "MAM_SUCCESS"
      PROVE  Described' = Described /\ (err' = "MAM_ENOMEM" \/ UNCHANGED objects)
  <2>1. TypeOK' /\ Change
    BY <1>1, EveryStep
  <2>2. Quiet
    BY <1>1, <2>1 DEF Change, Cleared, ConstructAdded, FieldAdded, PointerAdded, ArrayAdded,
                      DimensionAdded, VariableAdded
  <2>3. QED BY <1>1, <2>1, <2>2, QuietIsUnseen, FailedStep
<1>2. TypeOK /\ NamesListed /\ [Next]_vars
        => [err' # "MAM_SUCCESS" => /\ Described' = Described
                                    /\ err' = "MAM_ENOMEM" \/ UNCHANGED objects]_vars
  BY <1>1
<1>3. TypeOK /\ NamesListed /\ [Next]_vars => TypeOK' /\ NamesListed'
  BY EveryStep, NamesStep
<1>4. QED BY <1>2, <1>3, InitTypes, InitNames, PTL DEF Spec, FailureIsHarmless

------------------------------------------------------------------------------
(* Which types are frozen.                                                 *)

\* Nothing that decides which types are frozen changes.
SameFreezing ==
  /\ DOMAIN constructs'.elems = DOMAIN constructs.elems
  /\ \A i \in DOMAIN constructs.elems : constructs'.elems[i].frozen = constructs.elems[i].frozen
  /\ DOMAIN arrays'.elems = DOMAIN arrays.elems
  /\ \A i \in DOMAIN arrays.elems : arrays'.elems[i].frozen = arrays.elems[i].frozen

LEMMA FrozenSame ==
  ASSUME SameFreezing
  PROVE  Frozen' = Frozen
<1>1. ComplexTypes' = ComplexTypes
  BY DEF SameFreezing, ComplexTypes
<1>2. \A ft \in ComplexTypes :
        /\ ft.kind = "construct" => constructs'.elems[ft.id].frozen = constructs.elems[ft.id].frozen
        /\ ft.kind # "construct" => arrays'.elems[ft.id].frozen = arrays.elems[ft.id].frozen
  BY DEF SameFreezing, ComplexTypes
<1>3. QED BY <1>1, <1>2 DEF Frozen

\* A step that keeps every type keeps the frozen ones.
LEMMA FrozenKept ==
  ASSUME DOMAIN constructs.elems \subseteq DOMAIN constructs'.elems,
         \A i \in DOMAIN constructs.elems : constructs.elems[i].frozen => constructs'.elems[i].frozen,
         DOMAIN arrays.elems \subseteq DOMAIN arrays'.elems,
         \A i \in DOMAIN arrays.elems : arrays.elems[i].frozen => arrays'.elems[i].frozen
  PROVE  Frozen \subseteq Frozen'
<1>1. ComplexTypes \subseteq ComplexTypes'
  BY DEF ComplexTypes
<1>2. \A ft \in ComplexTypes :
        /\ ft.kind = "construct" => (constructs.elems[ft.id].frozen => constructs'.elems[ft.id].frozen)
        /\ ft.kind # "construct" => (arrays.elems[ft.id].frozen => arrays'.elems[ft.id].frozen)
  BY DEF ComplexTypes
<1>3. QED BY <1>1, <1>2 DEF Frozen

\* Freezing one type.
LEMMA FrozenOnce ==
  ASSUME TypeOK, NEW ft \in FieldTypes,
         constructs' = Freeze(constructs, "construct", ft), arrays' = Freeze(arrays, "array", ft)
  PROVE  Frozen' = Frozen \/ Frozen' = Frozen \cup {ft}
<1>1. CASE ft.kind \notin {"construct", "array"}
  BY <1>1, FrozenSame DEF Freeze, SameFreezing
<1>2. CASE ft.kind = "construct"
  <2>1. ft \in [kind : {"construct"}, id : DOMAIN constructs.elems]
    BY <1>2 DEF FieldTypes
  <2>2. constructs \in UtArrayOf(ConstructRecord) /\ ft.id \in DOMAIN constructs.elems
    BY <2>1 DEF TypeOK
  <2>3. PICK c \in ConstructRecord : c = constructs.elems[ft.id]
    BY <2>2, UtArrayFacts
  <2>4. PICK d : d = [c EXCEPT !.frozen = TRUE]
    OBVIOUS
  <2>5. d \in ConstructRecord /\ d.frozen
    BY <2>4 DEF ConstructRecord
  <2>6. constructs' = [constructs EXCEPT !.elems[ft.id] = d]
    BY <1>2, <2>3, <2>4 DEF Freeze
  <2>7. /\ DOMAIN constructs'.elems = DOMAIN constructs.elems
        /\ constructs'.elems[ft.id].frozen
        /\ \A j \in DOMAIN constructs.elems : j # ft.id => constructs'.elems[j] = constructs.elems[j]
    BY <2>2, <2>5, <2>6, SetElemFacts
  <2>8. arrays' = arrays
    BY <1>2 DEF Freeze
  <2>9. ComplexTypes' = ComplexTypes /\ ft \in ComplexTypes
    BY <2>1, <2>7, <2>8 DEF ComplexTypes
  <2>10. \A gt \in ComplexTypes : gt # ft /\ gt.kind = "construct" =>
           constructs'.elems[gt.id] = constructs.elems[gt.id]
    BY <2>1, <2>7 DEF ComplexTypes
  <2>11. QED BY <1>2, <2>7, <2>8, <2>9, <2>10 DEF Frozen
<1>3. CASE ft.kind = "array"
  <2>1. ft \in [kind : {"array"}, id : DOMAIN arrays.elems]
    BY <1>3 DEF FieldTypes
  <2>2. arrays \in UtArrayOf(ArrayRecord) /\ ft.id \in DOMAIN arrays.elems
    BY <2>1 DEF TypeOK
  <2>3. PICK a \in ArrayRecord : a = arrays.elems[ft.id]
    BY <2>2, UtArrayFacts
  <2>4. PICK b : b = [a EXCEPT !.frozen = TRUE]
    OBVIOUS
  <2>5. b \in ArrayRecord /\ b.frozen
    BY <2>4 DEF ArrayRecord
  <2>6. arrays' = [arrays EXCEPT !.elems[ft.id] = b]
    BY <1>3, <2>3, <2>4 DEF Freeze
  <2>7. /\ DOMAIN arrays'.elems = DOMAIN arrays.elems
        /\ arrays'.elems[ft.id].frozen
        /\ \A j \in DOMAIN arrays.elems : j # ft.id => arrays'.elems[j] = arrays.elems[j]
    BY <2>2, <2>5, <2>6, SetElemFacts
  <2>8. constructs' = constructs
    BY <1>3 DEF Freeze
  <2>9. ComplexTypes' = ComplexTypes /\ ft \in ComplexTypes
    BY <2>1, <2>7, <2>8 DEF ComplexTypes
  <2>10. \A gt \in ComplexTypes : gt # ft /\ gt.kind = "array" =>
           arrays'.elems[gt.id] = arrays.elems[gt.id]
    BY <2>1, <2>7 DEF ComplexTypes
  <2>11. \A gt \in ComplexTypes : gt.kind = "construct" \/ gt.kind = "array"
    BY DEF ComplexTypes
  <2>12. QED BY <1>3, <2>7, <2>8, <2>9, <2>10, <2>11 DEF Frozen
<1>4. QED BY <1>1, <1>2, <1>3

\* No step but the destruction of the context opens a type again.
LEMMA NothingThaws ==
  ASSUME TypeOK, Change, status' # "none"
  PROVE  Frozen \subseteq Frozen'
<1>1. CASE Quiet
  BY <1>1, FrozenKept DEF Quiet, KeepConstructs, KeepArrays, SameConstruct, SameArray
<1>2. ASSUME NEW name \in ConstructNames \cup {NoName}, NEW kind \in Kinds, ConstructAdded(name, kind)
      PROVE  Frozen \subseteq Frozen'
  <2>1. PICK c : c = NewConstruct(name, kind[1], kind[2])
    OBVIOUS
  <2>2. PICK s \in Seq(ConstructRecord) : s = constructs.elems
    BY UtArrayFacts DEF TypeOK
  <2>3. c \in ConstructRecord
    BY <2>1, NewConstructType
  <2>4. constructs'.elems = Append(s, c)
    BY <1>2, <2>1, <2>2 DEF ConstructAdded
  <2>5. DOMAIN s \subseteq DOMAIN Append(s, c) /\ \A i \in DOMAIN s : Append(s, c)[i] = s[i]
    BY <2>3, AppendProperties
  <2>6. /\ DOMAIN constructs.elems \subseteq DOMAIN constructs'.elems
        /\ \A i \in DOMAIN constructs.elems : constructs'.elems[i] = constructs.elems[i]
    BY <2>2, <2>4, <2>5
  <2>7. QED BY <1>2, <2>6, FrozenKept DEF ConstructAdded, KeepArrays, SameArray
<1>3. ASSUME NEW c \in DOMAIN constructs.elems, NEW name \in FieldNames, NEW ft \in FieldTypes,
             NEW opt \in Offsets \cup {NoOffset}, FieldAdded(c, name, ft, opt)
      PROVE  Frozen \subseteq Frozen'
  BY <1>3, FrozenKept DEF FieldAdded, KeepArrays, SameConstruct, SameArray
<1>4. ASSUME NEW ft \in FieldTypes, PointerAdded(ft) \/ ArrayAdded(ft)
      PROVE  Frozen \subseteq Frozen'
  BY <1>4, FrozenKept DEF PointerAdded, ArrayAdded, KeepConstructs, KeepArrays, SameConstruct, SameArray
<1>5. ASSUME NEW a \in DOMAIN arrays.elems, NEW dim \in Dimensions, DimensionAdded(a, dim)
      PROVE  Frozen \subseteq Frozen'
  BY <1>5, FrozenKept DEF DimensionAdded, KeepConstructs, SameConstruct, SameArray
<1>6. ASSUME NEW name \in VariableNames, NEW ft \in FieldTypes, VariableAdded(name, ft)
      PROVE  Frozen \subseteq Frozen'
  BY <1>6, FrozenKept DEF VariableAdded, KeepConstructs, KeepArrays, SameConstruct, SameArray
<1>7. QED BY <1>1, <1>2, <1>3, <1>4, <1>5, <1>6 DEF Change, Cleared

\* What a call that fails does to the types.
LEMMA FailedFreezing ==
  ASSUME TypeOK, [Next]_vars, err' # "MAM_SUCCESS"
  PROVE  \/ SameFreezing
         \/ \E name \in VariableNames, ft \in FieldTypes :
              CreateVariable(name, ft) /\ Frozen' = Frozen \cup {ft}
         \/ Frozen' = Frozen
<1>0. /\ constructs \in UtArrayOf(ConstructRecord) /\ arrays \in UtArrayOf(ArrayRecord)
  BY DEF TypeOK
<1>1. CASE UNCHANGED objects
  BY <1>1 DEF objects, SameFreezing
<1>2. CASE CreateContext \/ DestroyContext \/ Lost \/ UNCHANGED vars
  <2>1. UNCHANGED objects
    BY <1>2 DEF CreateContext, DestroyContext, Lost, vars
  <2>2. QED BY <1>1, <2>1
<1>3. ASSUME NEW name \in ConstructNames \cup {NoName}, NEW kind \in Kinds,
             CreateConstruct(name, kind[1], kind[2])
      PROVE  SameFreezing
  <2>1. \/ UNCHANGED objects
        \/ /\ constructs' \in AddFailures(constructs, NewConstruct(name, kind[1], kind[2]))
           /\ arrays' = arrays
    BY <1>3 DEF CreateConstruct, Refuse, CallocFails, Overrun
  <2>2. QED BY <1>0, <2>1, AddFailuresFacts DEF objects, SameFreezing
<1>4. ASSUME NEW c \in DOMAIN constructs.elems, NEW name \in FieldNames \cup {NoName},
             NEW ft \in FieldTypes, NEW opt \in Offsets \cup {NoOffset}, AddField(c, name, ft, opt)
      PROVE  SameFreezing
  <2>1. \/ UNCHANGED objects
        \/ /\ \E fields : constructs' = [constructs EXCEPT !.elems[c].fields = fields]
           /\ arrays' = arrays
    BY <1>4 DEF AddField, FieldNotAdded, Refuse, CallocFails, Overrun
  <2>2. CASE UNCHANGED objects
    BY <2>2 DEF objects, SameFreezing
  <2>3. ASSUME NEW fields, constructs' = [constructs EXCEPT !.elems[c].fields = fields], arrays' = arrays
        PROVE  SameFreezing
    <3>1. PICK construct \in ConstructRecord : construct = constructs.elems[c]
      BY <1>0, UtArrayFacts
    <3>2. PICK elems : elems = [constructs.elems EXCEPT ![c] = [construct EXCEPT !.fields = fields]]
      OBVIOUS
    <3>3. constructs'.elems = elems
      BY <1>0, <2>3, <3>1, <3>2 DEF UtArrayOf
    <3>4. DOMAIN elems = DOMAIN constructs.elems
          /\ \A i \in DOMAIN constructs.elems : elems[i].frozen = constructs.elems[i].frozen
      BY <3>1, <3>2 DEF ConstructRecord
    <3>5. QED BY <2>3, <3>3, <3>4 DEF SameFreezing
  <2>4. QED BY <2>1, <2>2, <2>3
<1>5. ASSUME NEW ft \in FieldTypes, CreatePointer(ft) \/ CreateArray(ft)
      PROVE  SameFreezing
  <2>1. \/ UNCHANGED objects
        \/ /\ constructs' = constructs
           /\ arrays' = arrays \/ arrays' \in PushFailures(arrays)
    BY <1>5 DEF CreatePointer, CreateArray, NullDereference, Refuse, CallocFails, Overrun
  <2>2. QED BY <1>0, <2>1, PushFailuresFacts DEF objects, SameFreezing
<1>6. ASSUME NEW a \in DOMAIN arrays.elems, NEW dim \in Dimensions, AddDimension(a, dim)
      PROVE  SameFreezing
  <2>1. \/ UNCHANGED objects
        \/ /\ \E dimensions : arrays' = [arrays EXCEPT !.elems[a].dimensions = dimensions]
           /\ constructs' = constructs
    BY <1>6 DEF AddDimension, Refuse, CallocFails, Overrun
  <2>2. CASE UNCHANGED objects
    BY <2>2 DEF objects, SameFreezing
  <2>3. ASSUME NEW dimensions, arrays' = [arrays EXCEPT !.elems[a].dimensions = dimensions],
               constructs' = constructs
        PROVE  SameFreezing
    <3>1. PICK array \in ArrayRecord : array = arrays.elems[a]
      BY <1>0, UtArrayFacts
    <3>2. PICK elems : elems = [arrays.elems EXCEPT ![a] = [array EXCEPT !.dimensions = dimensions]]
      OBVIOUS
    <3>3. arrays'.elems = elems
      BY <1>0, <2>3, <3>1, <3>2 DEF UtArrayOf
    <3>4. DOMAIN elems = DOMAIN arrays.elems
          /\ \A i \in DOMAIN arrays.elems : elems[i].frozen = arrays.elems[i].frozen
      BY <3>1, <3>2 DEF ArrayRecord
    <3>5. QED BY <2>3, <3>3, <3>4 DEF SameFreezing
  <2>4. QED BY <2>1, <2>2, <2>3
<1>7. ASSUME NEW name \in VariableNames \cup {NoName}, NEW ft \in FieldTypes,
             CreateVariable(name, ft)
      PROVE  \/ SameFreezing \/ Frozen' = Frozen
             \/ name \in VariableNames /\ Frozen' = Frozen \cup {ft}
  <2>1. \/ UNCHANGED objects
        \/ /\ name # NoName
           /\ constructs' = Freeze(constructs, "construct", ft) /\ arrays' = Freeze(arrays, "array", ft)
    BY <1>7 DEF CreateVariable, Refuse, CallocFails, Overrun
  <2>2. CASE UNCHANGED objects
    BY <2>2 DEF objects, SameFreezing
  <2>3. QED BY <2>1, <2>2, FrozenOnce
<1>8. QED BY <1>1, <1>2, <1>3, <1>4, <1>5, <1>6, <1>7 DEF Next

\* A call that fails freezes no type but the one create_variable was given,
\* and none is opened again.
THEOREM FailuresFreezeNothing == Spec => FailureFreezesNothing
<1>1. TypeOK /\ [Next]_vars =>
        [/\ err' # "MAM_SUCCESS" =>
              \/ Frozen' = Frozen
              \/ \E name \in VariableNames, ft \in FieldTypes :
                   CreateVariable(name, ft) /\ Frozen' = Frozen \cup {ft}
         /\ status' # "none" => Frozen \subseteq Frozen']_vars
  BY EveryStep, FailedFreezing, FrozenSame, NothingThaws
<1>2. TypeOK /\ [Next]_vars => TypeOK'
  BY EveryStep
<1>3. QED BY <1>1, <1>2, InitTypes, PTL DEF Spec, FailureFreezesNothing
===============================================================================
