------------------------- MODULE TypeLayoutProofs -------------------------
(***************************************************************************)
(* What the types of a context say of each other and of the bytes: copied  *)
(* sizes and alignments stay right, no type contains itself through        *)
(* others, the fields of a construct lie apart, aligned and inside it, and *)
(* an array has the size of its elements.  What relates one type to        *)
(* another rests on RefsFrozen: what something refers to is frozen.        *)
(***************************************************************************)
EXTENDS TypeContextProofs

------------------------------------------------------------------------------
(* References.                                                             *)

\* A type that has been used is one there is, and it is frozen.
RefOK(ft) ==
  /\ ft \in FieldTypeRecord
  /\ ft.kind = "data" => ft.id \in DataTypes
  /\ ft.kind = "mapped" => ft.id \in MappedTypes
  /\ ft.kind = "construct" => ft.id \in DOMAIN constructs.elems /\ constructs.elems[ft.id].frozen
  /\ ft.kind = "array" => ft.id \in DOMAIN arrays.elems /\ arrays.elems[ft.id].frozen

\* Pointers are not among those that refer: they freeze nothing.
RefsFrozen ==
  /\ \A i \in DOMAIN constructs.elems : \A j \in DOMAIN constructs.elems[i].fields.elems :
       RefOK(constructs.elems[i].fields.elems[j].field_type)
  /\ \A i \in DOMAIN arrays.elems : RefOK(arrays.elems[i].field_type)
  /\ \A i \in DOMAIN variables.elems : RefOK(variables.elems[i].field_type)

\* The type is, after the step, what it was before.
SameTarget(ft) ==
  /\ ft.kind = "construct" =>
       /\ ft.id \in DOMAIN constructs'.elems
       /\ SameConstruct(constructs.elems[ft.id], constructs'.elems[ft.id])
  /\ ft.kind = "array" =>
       /\ ft.id \in DOMAIN arrays'.elems
       /\ SameArray(arrays.elems[ft.id], arrays'.elems[ft.id])

LEMMA SameTargetFacts ==
  ASSUME NEW ft \in FieldTypeRecord, SameTarget(ft)
  PROVE  /\ TypeSize(ft)' = TypeSize(ft) /\ TypeAlign(ft)' = TypeAlign(ft)
         /\ RefOK(ft) => RefOK(ft)'
<1>1. ft.kind \in {"data", "mapped", "construct", "array"}
  BY DEF FieldTypeRecord
<1>2. CASE ft.kind = "data" \/ ft.kind = "mapped"
  BY <1>2 DEF TypeSize, TypeAlign, RefOK
<1>3. CASE ft.kind = "construct"
  BY <1>3 DEF TypeSize, TypeAlign, RefOK, SameTarget, SameConstruct
<1>4. CASE ft.kind = "array"
  BY <1>4 DEF TypeSize, TypeAlign, RefOK, SameTarget, SameArray
<1>5. QED BY <1>1, <1>2, <1>3, <1>4

\* Unless the context is destroyed, a construct is what it was, or has been
\* given a field; an array is what it was, or has been given a dimension.
LEMMA ConstructFate ==
  ASSUME TypeOK, Change, ~Cleared, NEW i \in DOMAIN constructs.elems
  PROVE  /\ i \in DOMAIN constructs'.elems
         /\ \/ SameConstruct(constructs.elems[i], constructs'.elems[i])
            \/ \E name \in FieldNames, ft \in FieldTypes, opt \in Offsets \cup {NoOffset} :
                 FieldAdded(i, name, ft, opt)
<1>1. CASE KeepConstructs
  BY <1>1 DEF KeepConstructs
<1>2. ASSUME NEW name \in ConstructNames \cup {NoName}, NEW kind \in Kinds,
             ConstructAdded(name, kind)
      PROVE  i \in DOMAIN constructs'.elems
              /\ SameConstruct(constructs.elems[i], constructs'.elems[i])
  <2>1. constructs.elems \in Seq(ConstructRecord)
    BY UtArrayFacts DEF TypeOK
  <2>2. constructs'.elems[i] = constructs.elems[i] /\ i \in DOMAIN constructs'.elems
    BY <1>2, <2>1, AppendFacts, NewConstructType DEF ConstructAdded
  <2>3. QED BY <2>2, SameIsReflexive
<1>3. ASSUME NEW c \in DOMAIN constructs.elems, NEW name \in FieldNames, NEW ft \in FieldTypes,
             NEW opt \in Offsets \cup {NoOffset}, FieldAdded(c, name, ft, opt)
      PROVE  /\ i \in DOMAIN constructs'.elems
             /\ i # c => SameConstruct(constructs.elems[i], constructs'.elems[i])
  BY <1>3 DEF FieldAdded
<1>4. QED
  BY <1>1, <1>2, <1>3 DEF Change, Quiet, PointerAdded, ArrayAdded, DimensionAdded, VariableAdded

LEMMA ArrayFate ==
  ASSUME TypeOK, Change, ~Cleared, NEW i \in DOMAIN arrays.elems
  PROVE  /\ i \in DOMAIN arrays'.elems
         /\ \/ SameArray(arrays.elems[i], arrays'.elems[i])
            \/ \E dim \in Dimensions : DimensionAdded(i, dim)
<1>1. CASE KeepArrays
  BY <1>1 DEF KeepArrays
<1>2. ASSUME NEW ft \in FieldTypes, ArrayAdded(ft)
      PROVE  i \in DOMAIN arrays'.elems /\ SameArray(arrays.elems[i], arrays'.elems[i])
  BY <1>2 DEF ArrayAdded
<1>3. ASSUME NEW a \in DOMAIN arrays.elems, NEW dim \in Dimensions, DimensionAdded(a, dim)
      PROVE  /\ i \in DOMAIN arrays'.elems
             /\ i # a => SameArray(arrays.elems[i], arrays'.elems[i])
  BY <1>3 DEF DimensionAdded
<1>4. QED
  BY <1>1, <1>2, <1>3 DEF Change, Quiet, PointerAdded, ConstructAdded, FieldAdded, VariableAdded

\* What is frozen stays as it is.
LEMMA FrozenStays ==
  ASSUME TypeOK, Change, ~Cleared, NEW ft, RefOK(ft)
  PROVE  SameTarget(ft)
<1>1. ASSUME ft.kind = "construct"
      PROVE  /\ ft.id \in DOMAIN constructs'.elems
             /\ SameConstruct(constructs.elems[ft.id], constructs'.elems[ft.id])
  <2>1. ft.id \in DOMAIN constructs.elems /\ constructs.elems[ft.id].frozen
    BY <1>1 DEF RefOK
  <2>2. ~\E name \in FieldNames, ft1 \in FieldTypes, opt \in Offsets \cup {NoOffset} :
           FieldAdded(ft.id, name, ft1, opt)
    BY <2>1 DEF FieldAdded
  <2>3. QED BY <2>1, <2>2, ConstructFate
<1>2. ASSUME ft.kind = "array"
      PROVE  /\ ft.id \in DOMAIN arrays'.elems
             /\ SameArray(arrays.elems[ft.id], arrays'.elems[ft.id])
  <2>1. ft.id \in DOMAIN arrays.elems /\ arrays.elems[ft.id].frozen
    BY <1>2 DEF RefOK
  <2>2. ~\E dim \in Dimensions : DimensionAdded(ft.id, dim)
    BY <2>1 DEF DimensionAdded
  <2>3. QED BY <2>1, <2>2, ArrayFate
<1>3. QED BY <1>1, <1>2 DEF SameTarget

\* A type that a call has used is a reference from then on.
LEMMA UsedIsRef ==
  ASSUME TypeOK, NEW ft \in FieldTypes, FrozenNow(ft),
         ft.kind = "construct" => ft.id \in DOMAIN constructs'.elems,
         ft.kind = "array" => ft.id \in DOMAIN arrays'.elems
  PROVE  RefOK(ft)'
BY FieldTypeFacts DEF RefOK, FrozenNow

------------------------------------------------------------------------------
(* Where the parts of the context come from.                               *)

\* A field was there before, or is the one that has been added.
LEMMA FieldOrigin ==
  ASSUME TypeOK, Change, ~Cleared, NEW i \in DOMAIN constructs'.elems,
         NEW j \in DOMAIN constructs'.elems[i].fields.elems
  PROVE  LET f == constructs'.elems[i].fields.elems[j] IN
         \/ /\ i \in DOMAIN constructs.elems /\ j \in DOMAIN constructs.elems[i].fields.elems
            /\ f = constructs.elems[i].fields.elems[j]
         \/ /\ i \in DOMAIN constructs.elems
            /\ \E name \in FieldNames, ft \in FieldTypes, opt \in Offsets \cup {NoOffset} :
                 FieldAdded(i, name, ft, opt) /\ f = NewField(constructs.elems[i], name, ft, opt)
<1>1. CASE i \in DOMAIN constructs.elems
           /\ SameConstruct(constructs.elems[i], constructs'.elems[i])
  BY <1>1 DEF SameConstruct
<1>2. CASE i \in DOMAIN constructs.elems
           /\ \E name \in FieldNames, ft \in FieldTypes, opt \in Offsets \cup {NoOffset} :
                FieldAdded(i, name, ft, opt)
  <2>1. PICK name \in FieldNames, ft \in FieldTypes, opt \in Offsets \cup {NoOffset} :
          FieldAdded(i, name, ft, opt)
    BY <1>2
  <2>2. PICK c \in ConstructRecord : c = constructs.elems[i]
    BY <1>2, UtArrayFacts DEF TypeOK
  <2>3. PICK d : d = WithField(c, name, ft, opt)
    OBVIOUS
  <2>4. PICK field : field = NewField(c, name, ft, opt)
    OBVIOUS
  <2>5. TypeSize(ft) >= 0 /\ SameConstruct(d, constructs'.elems[i])
    BY <2>1, <2>2, <2>3 DEF FieldAdded
  <2>6. field \in FieldRecord /\ d.fields.elems = Append(c.fields.elems, field)
    BY <2>3, <2>4, <2>5, WithFieldFacts
  <2>7. constructs'.elems[i].fields.elems = Append(c.fields.elems, field)
    BY <2>5, <2>6 DEF SameConstruct
  <2>8. c.fields.elems \in Seq(FieldRecord)
    BY UtArrayFacts DEF ConstructRecord
  <2>9. \/ j \in DOMAIN c.fields.elems
           /\ constructs'.elems[i].fields.elems[j] = c.fields.elems[j]
        \/ constructs'.elems[i].fields.elems[j] = field
    BY <2>6, <2>7, <2>8, AppendFacts
  <2>10. QED BY <1>2, <2>1, <2>2, <2>4, <2>9
<1>3. CASE i \notin DOMAIN constructs.elems
  <2>1. ~KeepConstructs
    BY <1>3 DEF KeepConstructs
  <2>2. PICK name \in ConstructNames \cup {NoName}, kind \in Kinds : ConstructAdded(name, kind)
    BY <1>3, <2>1 DEF Change, Quiet, PointerAdded, ArrayAdded, DimensionAdded, VariableAdded,
                      FieldAdded
  <2>3. constructs.elems \in Seq(ConstructRecord)
    BY UtArrayFacts DEF TypeOK
  <2>4. constructs'.elems[i] = NewConstruct(name, kind[1], kind[2])
    BY <1>3, <2>2, <2>3, AppendFacts, NewConstructType DEF ConstructAdded
  <2>5. constructs'.elems[i].fields.elems = << >>
    BY <2>4 DEF NewConstruct, EmptyArray
  <2>6. QED BY <2>5
<1>4. QED BY <1>1, <1>2, <1>3, ConstructFate

LEMMA ArrayOrigin ==
  ASSUME TypeOK, Change, ~Cleared, NEW i \in DOMAIN arrays'.elems
  PROVE  \/ /\ i \in DOMAIN arrays.elems
            /\ arrays'.elems[i].elem_size = arrays.elems[i].elem_size
            /\ arrays'.elems[i].alignment = arrays.elems[i].alignment
            /\ arrays'.elems[i].field_type = arrays.elems[i].field_type
         \/ \E ft \in FieldTypes : /\ ArrayAdded(ft) /\ i = Len(arrays.elems) + 1
                                   /\ arrays'.elems[i].elem_size = TypeSize(ft)
                                   /\ arrays'.elems[i].alignment = TypeAlign(ft)
                                   /\ arrays'.elems[i].field_type = ft
<1>1. CASE i \in DOMAIN arrays.elems
  BY <1>1, ArrayFate DEF SameArray, DimensionAdded
<1>2. CASE i \notin DOMAIN arrays.elems
  <2>1. PICK ft \in FieldTypes : ArrayAdded(ft)
    BY <1>2 DEF Change, Quiet, PointerAdded, ConstructAdded, DimensionAdded, VariableAdded,
                FieldAdded, KeepArrays
  <2>2. i = Len(arrays.elems) + 1 /\ SameArray(NewArray(ft), arrays'.elems[i])
    BY <1>2, <2>1 DEF ArrayAdded
  <2>3. QED BY <2>1, <2>2 DEF SameArray, NewArray
<1>3. QED BY <1>1, <1>2

LEMMA VariableOrigin ==
  ASSUME TypeOK, Change, ~Cleared, NEW i \in DOMAIN variables'.elems
  PROVE  \/ i \in DOMAIN variables.elems /\ variables'.elems[i] = variables.elems[i]
         \/ \E name \in VariableNames, ft \in FieldTypes :
              VariableAdded(name, ft) /\ variables'.elems[i] = NewVariable(name, ft)
<1>1. CASE KeepVariables
  BY <1>1 DEF KeepVariables
<1>2. ASSUME NEW name \in VariableNames, NEW ft \in FieldTypes, VariableAdded(name, ft)
      PROVE  \/ i \in DOMAIN variables.elems /\ variables'.elems[i] = variables.elems[i]
             \/ variables'.elems[i] = NewVariable(name, ft)
  <2>1. variables.elems \in Seq(VariableRecord) /\ NewVariable(name, ft) \in VariableRecord
    BY UtArrayFacts, NewVariableType DEF TypeOK
  <2>2. variables'.elems = Append(variables.elems, NewVariable(name, ft))
    BY <1>2 DEF VariableAdded
  <2>3. QED BY <2>1, <2>2, AppendFacts
<1>3. QED
  BY <1>1, <1>2 DEF Change, Quiet, PointerAdded, ConstructAdded, DimensionAdded, ArrayAdded,
                    FieldAdded

------------------------------------------------------------------------------
(* Copied sizes and alignments.                                            *)

\* Of the type of a new field only that field's own construct changes.
LEMMA TargetOfField ==
  ASSUME TypeOK, Change, ~Cleared, NEW i \in DOMAIN constructs.elems, NEW name \in FieldNames,
         NEW ft \in FieldTypes, NEW opt \in Offsets \cup {NoOffset}, FieldAdded(i, name, ft, opt)
  PROVE  /\ ft # [kind |-> "construct", id |-> i] => SameTarget(ft)
         /\ RefOK(ft)'
<1>1. /\ ft \in FieldTypeRecord
      /\ ft.kind = "construct" => ft.id \in DOMAIN constructs.elems
      /\ ft.kind = "array" => ft.id \in DOMAIN arrays.elems
  BY FieldTypeFacts
<1>2. KeepArrays /\ FrozenNow(ft) /\ DOMAIN constructs'.elems = DOMAIN constructs.elems
  BY DEF FieldAdded
<1>3. ft.kind = "construct" /\ ft.id = i => ft = [kind |-> "construct", id |-> i]
  BY <1>1 DEF FieldTypeRecord
<1>4. ft # [kind |-> "construct", id |-> i] => SameTarget(ft)
  BY <1>1, <1>2, <1>3 DEF SameTarget, FieldAdded, KeepArrays
<1>5. RefOK(ft)'
  BY <1>1, <1>2, UsedIsRef DEF KeepArrays
<1>6. QED BY <1>4, <1>5

LEMMA TargetOfOthers ==
  ASSUME TypeOK, Change, ~Cleared, NEW ft \in FieldTypes,
         ArrayAdded(ft) \/ \E name \in VariableNames : VariableAdded(name, ft)
  PROVE  SameTarget(ft) /\ RefOK(ft)'
<1>1. /\ ft \in FieldTypeRecord
      /\ ft.kind = "construct" => ft.id \in DOMAIN constructs.elems
      /\ ft.kind = "array" => ft.id \in DOMAIN arrays.elems
  BY FieldTypeFacts
<1>2. FrozenNow(ft) /\ KeepConstructs
  BY DEF ArrayAdded, VariableAdded
<1>3. \A i \in DOMAIN arrays.elems :
        i \in DOMAIN arrays'.elems /\ SameArray(arrays.elems[i], arrays'.elems[i])
  BY DEF ArrayAdded, VariableAdded, KeepArrays
<1>4. SameTarget(ft)
  BY <1>1, <1>2, <1>3 DEF SameTarget, KeepConstructs
<1>5. RefOK(ft)'
  BY <1>1, <1>2, <1>3, UsedIsRef DEF KeepConstructs
<1>6. QED BY <1>4, <1>5

LEMMA RefsStep ==
  ASSUME TypeOK, Change, ~Cleared, RefsFrozen
  PROVE  RefsFrozen'
<1>1. \A ft : RefOK(ft) => RefOK(ft)'
  BY FrozenStays, SameTargetFacts DEF RefOK
<1>2. ASSUME NEW i \in DOMAIN constructs'.elems, NEW j \in DOMAIN constructs'.elems[i].fields.elems,
             NEW ft, ft = constructs'.elems[i].fields.elems[j].field_type
      PROVE  RefOK(ft)'
  <2>1. CASE /\ i \in DOMAIN constructs.elems /\ j \in DOMAIN constructs.elems[i].fields.elems
             /\ constructs'.elems[i].fields.elems[j] = constructs.elems[i].fields.elems[j]
    <3>1. RefOK(ft)
      BY <1>2, <2>1 DEF RefsFrozen
    <3>2. QED BY <1>1, <3>1
  <2>2. ASSUME i \in DOMAIN constructs.elems,
               NEW name \in FieldNames, NEW t \in FieldTypes, NEW opt \in Offsets \cup {NoOffset},
               FieldAdded(i, name, t, opt),
               constructs'.elems[i].fields.elems[j] = NewField(constructs.elems[i], name, t, opt)
        PROVE  RefOK(ft)'
    <3>1. ft = t
      BY <1>2, <2>2 DEF NewField
    <3>2. RefOK(t)'
      BY <2>2, TargetOfField
    <3>3. QED BY <3>1, <3>2
  <2>3. QED BY <2>1, <2>2, FieldOrigin
<1>3. ASSUME NEW i \in DOMAIN arrays'.elems, NEW ft, ft = arrays'.elems[i].field_type
      PROVE  RefOK(ft)'
  <2>1. CASE i \in DOMAIN arrays.elems /\ arrays'.elems[i].field_type = arrays.elems[i].field_type
    <3>1. RefOK(ft)
      BY <1>3, <2>1 DEF RefsFrozen
    <3>2. QED BY <1>1, <3>1
  <2>2. CASE ft \in FieldTypes /\ ArrayAdded(ft)
    BY <2>2, TargetOfOthers
  <2>3. QED BY <1>3, <2>1, <2>2, ArrayOrigin
<1>4. ASSUME NEW i \in DOMAIN variables'.elems, NEW ft, ft = variables'.elems[i].field_type
      PROVE  RefOK(ft)'
  <2>1. CASE i \in DOMAIN variables.elems /\ variables'.elems[i] = variables.elems[i]
    <3>1. RefOK(ft)
      BY <1>4, <2>1 DEF RefsFrozen
    <3>2. QED BY <1>1, <3>1
  <2>2. ASSUME NEW name \in VariableNames, NEW t \in FieldTypes, VariableAdded(name, t),
               variables'.elems[i] = NewVariable(name, t)
        PROVE  RefOK(ft)'
    <3>1. ft = t
      BY <1>4, <2>2 DEF NewVariable
    <3>2. RefOK(t)'
      BY <2>2, TargetOfOthers
    <3>3. QED BY <3>1, <3>2
  <2>3. QED BY <1>4, <2>1, <2>2, VariableOrigin
<1>5. (\A i \in DOMAIN constructs.elems : \A j \in DOMAIN constructs.elems[i].fields.elems :
         RefOK(constructs.elems[i].fields.elems[j].field_type))'
  BY <1>2
<1>6. (\A i \in DOMAIN arrays.elems : RefOK(arrays.elems[i].field_type))'
  BY <1>3
<1>7. (\A i \in DOMAIN variables.elems : RefOK(variables.elems[i].field_type))'
  BY <1>4
<1>8. QED BY <1>5, <1>6, <1>7 DEF RefsFrozen

\* The copies of one construct, array or variable.
CopyOf(i, f) == f.field_type = [kind |-> "construct", id |-> i] \/ f.size = TypeSize(f.field_type)
CopyOfBoth(size, alignment, ft) == size = TypeSize(ft) /\ alignment = TypeAlign(ft)

LEMMA CopiesDef ==
  CopiedSizesStay <=>
    /\ \A i \in DOMAIN constructs.elems : \A j \in DOMAIN constructs.elems[i].fields.elems :
         CopyOf(i, constructs.elems[i].fields.elems[j])
    /\ \A i \in DOMAIN arrays.elems :
         CopyOfBoth(arrays.elems[i].elem_size, arrays.elems[i].alignment, arrays.elems[i].field_type)
    /\ \A i \in DOMAIN variables.elems :
         CopyOfBoth(variables.elems[i].size, variables.elems[i].alignment,
                    variables.elems[i].field_type)
BY DEF CopiedSizesStay, CopyOf, CopyOfBoth, Arrays

LEMMA CopiesStep ==
  ASSUME TypeOK, Change, ~Cleared, RefsFrozen, CopiedSizesStay
  PROVE  CopiedSizesStay'
<1>1. \A ft : RefOK(ft) => TypeSize(ft)' = TypeSize(ft) /\ TypeAlign(ft)' = TypeAlign(ft)
  BY FrozenStays, SameTargetFacts DEF RefOK
<1>2. ASSUME NEW i \in DOMAIN constructs'.elems, NEW j \in DOMAIN constructs'.elems[i].fields.elems,
             NEW f, f = constructs'.elems[i].fields.elems[j]
      PROVE  CopyOf(i, f)'
  <2>1. CASE /\ i \in DOMAIN constructs.elems /\ j \in DOMAIN constructs.elems[i].fields.elems
             /\ f = constructs.elems[i].fields.elems[j]
    <3>1. RefOK(f.field_type) /\ CopyOf(i, f)
      BY <2>1, CopiesDef DEF RefsFrozen
    <3>2. QED BY <1>1, <3>1 DEF CopyOf
  <2>2. ASSUME i \in DOMAIN constructs.elems,
               NEW name \in FieldNames, NEW ft \in FieldTypes, NEW opt \in Offsets \cup {NoOffset},
               FieldAdded(i, name, ft, opt), f = NewField(constructs.elems[i], name, ft, opt)
        PROVE  CopyOf(i, f)'
    <3>1. f.field_type = ft /\ f.size = TypeSize(ft)
      BY <2>2 DEF NewField
    <3>2. CASE ft # [kind |-> "construct", id |-> i]
      <4>1. SameTarget(ft) /\ ft \in FieldTypeRecord
        BY <2>2, <3>2, TargetOfField, FieldTypeFacts
      <4>2. TypeSize(ft)' = TypeSize(ft)
        BY <4>1, SameTargetFacts
      <4>3. QED BY <3>1, <4>2 DEF CopyOf
    <3>3. CASE ft = [kind |-> "construct", id |-> i]
      BY <3>1, <3>3 DEF CopyOf
    <3>4. QED BY <3>2, <3>3
  <2>3. QED BY <1>2, <2>1, <2>2, FieldOrigin
<1>3. ASSUME NEW i \in DOMAIN arrays'.elems, NEW ft, ft = arrays'.elems[i].field_type,
             NEW size, size = arrays'.elems[i].elem_size,
             NEW alignment, alignment = arrays'.elems[i].alignment
      PROVE  CopyOfBoth(size, alignment, ft)'
  <2>1. CASE /\ i \in DOMAIN arrays.elems
             /\ size = arrays.elems[i].elem_size /\ alignment = arrays.elems[i].alignment
             /\ ft = arrays.elems[i].field_type
    <3>1. RefOK(ft) /\ CopyOfBoth(size, alignment, ft)
      BY <2>1, CopiesDef DEF RefsFrozen
    <3>2. QED BY <1>1, <3>1 DEF CopyOfBoth
  <2>2. CASE /\ ft \in FieldTypes /\ ArrayAdded(ft)
             /\ size = TypeSize(ft) /\ alignment = TypeAlign(ft)
    <3>1. SameTarget(ft) /\ ft \in FieldTypeRecord
      BY <2>2, TargetOfOthers, FieldTypeFacts
    <3>2. TypeSize(ft)' = TypeSize(ft) /\ TypeAlign(ft)' = TypeAlign(ft)
      BY <3>1, SameTargetFacts
    <3>3. QED BY <2>2, <3>2 DEF CopyOfBoth
  <2>3. QED BY <1>3, <2>1, <2>2, ArrayOrigin
<1>4. ASSUME NEW i \in DOMAIN variables'.elems, NEW v, v = variables'.elems[i],
             NEW ft, ft = v.field_type
      PROVE  (v.size = TypeSize(ft) /\ v.alignment = TypeAlign(ft))'
  <2>1. CASE i \in DOMAIN variables.elems /\ v = variables.elems[i]
    <3>1. RefOK(ft) /\ v.size = TypeSize(ft) /\ v.alignment = TypeAlign(ft)
      BY <1>4, <2>1, CopiesDef DEF RefsFrozen, CopyOfBoth
    <3>2. QED BY <1>1, <3>1
  <2>2. ASSUME NEW name \in VariableNames, NEW t \in FieldTypes, VariableAdded(name, t),
               v = NewVariable(name, t)
        PROVE  (v.size = TypeSize(ft) /\ v.alignment = TypeAlign(ft))'
    <3>1. ft = t /\ v.size = TypeSize(t) /\ v.alignment = TypeAlign(t)
      BY <1>4, <2>2 DEF NewVariable
    <3>2. SameTarget(t) /\ t \in FieldTypeRecord
      BY <2>2, TargetOfOthers, FieldTypeFacts
    <3>3. TypeSize(t)' = TypeSize(t) /\ TypeAlign(t)' = TypeAlign(t)
      BY <3>2, SameTargetFacts
    <3>4. QED BY <3>1, <3>3
  <2>3. QED BY <1>4, <2>1, <2>2, VariableOrigin
<1>5. (\A i \in DOMAIN constructs.elems : \A j \in DOMAIN constructs.elems[i].fields.elems :
         CopyOf(i, constructs.elems[i].fields.elems[j]))'
  BY <1>2
<1>6. (\A i \in DOMAIN arrays.elems :
         CopyOfBoth(arrays.elems[i].elem_size, arrays.elems[i].alignment, arrays.elems[i].field_type))'
  BY <1>3
<1>7. (\A i \in DOMAIN variables.elems :
         CopyOfBoth(variables.elems[i].size, variables.elems[i].alignment,
                    variables.elems[i].field_type))'
  BY <1>4 DEF CopyOfBoth
<1>8. QED BY <1>5, <1>6, <1>7 DEF CopiedSizesStay, CopyOf, CopyOfBoth, Arrays

\* Without objects there is nothing to show.
LEMMA NothingHeld ==
  /\ Init => RefsFrozen /\ CopiedSizesStay
  /\ Cleared => RefsFrozen' /\ CopiedSizesStay'
BY DEF Init, Cleared, EmptyArray, RefsFrozen, CopiedSizesStay, Arrays

LEMMA RefsInductive ==
  /\ Init => TypeOK /\ RefsFrozen /\ CopiedSizesStay
  /\ TypeOK /\ RefsFrozen /\ CopiedSizesStay /\ [Next]_vars
       => TypeOK' /\ RefsFrozen' /\ CopiedSizesStay'
<1>1. TypeOK /\ RefsFrozen /\ CopiedSizesStay /\ [Next]_vars
        => TypeOK' /\ RefsFrozen' /\ CopiedSizesStay'
  BY EveryStep, NothingHeld, RefsStep, CopiesStep
<1>2. QED BY <1>1, InitTypes, NothingHeld

\* A size or an alignment that was copied from a type stays that of the
\* type: whatever is used as a type is frozen in time.
THEOREM CopiesStayRight == Spec => []CopiedSizesStay
BY RefsInductive, PTL DEF Spec

------------------------------------------------------------------------------
(* Containment.                                                            *)

\* If what a step changes or adds is one type that nothing else contains,
\* no type comes to contain itself.
LEMMA ContainmentGrows ==
  ASSUME ContainmentEnds, NEW me, ComplexTypes' \subseteq ComplexTypes \cup {me},
         \A ft \in ComplexTypes' \ {me} : TypesOf(ft)' = TypesOf(ft) /\ me \notin TypesOf(ft)
  PROVE  ContainmentEnds'
<1> SUFFICES ASSUME NEW set, set \subseteq ComplexTypes', set # {}
             PROVE  \E ft \in set : TypesOf(ft)' \cap (set \ {ft}) = {}
  BY DEF ContainmentEnds
<1>1. CASE set = {me}
  BY <1>1
<1>2. CASE set \ {me} # {}
  <2>1. PICK rest : rest = set \ {me}
    OBVIOUS
  <2>2. rest \in (SUBSET ComplexTypes) \ {{}}
    BY <1>2, <2>1
  <2>3. PICK ft \in rest : TypesOf(ft) \cap (rest \ {ft}) = {}
    BY <2>2 DEF ContainmentEnds
  <2>4. ft \in set /\ ft # me /\ TypesOf(ft)' = TypesOf(ft) /\ me \notin TypesOf(ft)
    BY <2>1, <2>3
  <2>5. TypesOf(ft)' \cap (set \ {ft}) = {}
    BY <2>1, <2>3, <2>4
  <2>6. QED BY <2>4, <2>5
<1>3. QED BY <1>1, <1>2

\* The types that a construct and an array contain are references.
LEMMA TypesOfAreRefs ==
  ASSUME RefsFrozen, NEW ft \in ComplexTypes, NEW t \in TypesOf(ft)
  PROVE  RefOK(t)
<1>1. CASE ft.kind = "construct" /\ ft.id \in DOMAIN constructs.elems
  BY <1>1 DEF TypesOf, RefsFrozen
<1>2. CASE ft.kind = "array" /\ ft.id \in DOMAIN arrays.elems
  BY <1>2 DEF TypesOf, RefsFrozen
<1>3. QED BY <1>1, <1>2 DEF ComplexTypes

LEMMA ComplexTypesFacts ==
  /\ \A i \in DOMAIN constructs.elems : [kind |-> "construct", id |-> i] \in ComplexTypes
  /\ \A i \in DOMAIN arrays.elems : [kind |-> "array", id |-> i] \in ComplexTypes
  /\ \A ft \in ComplexTypes :
       \/ \E i \in DOMAIN constructs.elems : ft = [kind |-> "construct", id |-> i]
       \/ \E i \in DOMAIN arrays.elems : ft = [kind |-> "array", id |-> i]
BY DEF ComplexTypes

\* A kept construct or array contains what it did.
LEMMA TypesOfSame ==
  /\ \A i : SameConstruct(constructs.elems[i], constructs'.elems[i]) =>
       TypesOf([kind |-> "construct", id |-> i])' = TypesOf([kind |-> "construct", id |-> i])
  /\ \A i : arrays'.elems[i].field_type = arrays.elems[i].field_type =>
       TypesOf([kind |-> "array", id |-> i])' = TypesOf([kind |-> "array", id |-> i])
BY DEF TypesOf, SameConstruct

LEMMA ContainmentStep ==
  ASSUME TypeOK, Change, ~Cleared, RefsFrozen, ContainmentEnds
  PROVE  ContainmentEnds'
<1>1. \A ft \in ComplexTypes : \A t \in TypesOf(ft) :
        /\ t.kind = "construct" => t.id \in DOMAIN constructs.elems /\ constructs.elems[t.id].frozen
        /\ t.kind = "array" => t.id \in DOMAIN arrays.elems
  BY TypesOfAreRefs DEF RefOK
<1>2. /\ \A ft \in ComplexTypes' :
           \/ \E i \in DOMAIN constructs'.elems : ft = [kind |-> "construct", id |-> i]
           \/ \E i \in DOMAIN arrays'.elems : ft = [kind |-> "array", id |-> i]
      /\ \A i \in DOMAIN constructs.elems : [kind |-> "construct", id |-> i] \in ComplexTypes
      /\ \A i \in DOMAIN arrays.elems : [kind |-> "array", id |-> i] \in ComplexTypes
  BY DEF ComplexTypes
<1>3. ASSUME NEW me,
             \A i \in DOMAIN constructs'.elems : me # [kind |-> "construct", id |-> i] =>
               /\ i \in DOMAIN constructs.elems
               /\ SameConstruct(constructs.elems[i], constructs'.elems[i]),
             \A i \in DOMAIN arrays'.elems : me # [kind |-> "array", id |-> i] =>
               /\ i \in DOMAIN arrays.elems
               /\ arrays'.elems[i].field_type = arrays.elems[i].field_type,
             \A ft \in ComplexTypes : me \notin TypesOf(ft)
      PROVE  ContainmentEnds'
  <2>1. ComplexTypes' \subseteq ComplexTypes \cup {me}
    BY <1>2, <1>3
  <2>2. ASSUME NEW ft \in ComplexTypes' \ {me}
        PROVE  TypesOf(ft)' = TypesOf(ft) /\ me \notin TypesOf(ft)
    <3>1. ft \in ComplexTypes
      BY <2>1, <2>2
    <3>2. CASE \E i \in DOMAIN constructs'.elems : ft = [kind |-> "construct", id |-> i]
      BY <1>3, <2>2, <3>1, <3>2, TypesOfSame
    <3>3. CASE \E i \in DOMAIN arrays'.elems : ft = [kind |-> "array", id |-> i]
      BY <1>3, <2>2, <3>1, <3>3, TypesOfSame
    <3>4. QED BY <1>2, <2>2, <3>2, <3>3
  <2>3. QED BY <2>1, <2>2, ContainmentGrows
<1>4. ASSUME NEW i \in DOMAIN arrays'.elems, ~\E ft \in FieldTypes : ArrayAdded(ft)
      PROVE  i \in DOMAIN arrays.elems /\ arrays'.elems[i].field_type = arrays.elems[i].field_type
  BY <1>4, ArrayOrigin
<1>5. CASE KeepConstructs /\ ~\E ft \in FieldTypes : ArrayAdded(ft)
  <2>1. PICK me : me = [kind |-> "none"]
    OBVIOUS
  <2>2. \A ft \in ComplexTypes : me \notin TypesOf(ft)
    <3>1. \A t : t \in FieldTypeRecord => t # me
      BY <2>1 DEF FieldTypeRecord
    <3>2. QED BY <3>1, TypesOfAreRefs DEF RefOK
  <2>3. QED BY <1>3, <1>4, <1>5, <2>2 DEF KeepConstructs
<1>6. ASSUME NEW ft \in FieldTypes, ArrayAdded(ft)
      PROVE  ContainmentEnds'
  <2>1. PICK next : next = Len(arrays.elems) + 1
    OBVIOUS
  <2>2. next \notin DOMAIN arrays.elems
    BY <2>1, UtArrayFacts DEF TypeOK
  <2>3. PICK me : me = [kind |-> "array", id |-> next]
    OBVIOUS
  <2>4. \A t \in ComplexTypes : me \notin TypesOf(t)
    BY <1>1, <2>2, <2>3
  <2>5. /\ KeepConstructs
        /\ DOMAIN arrays'.elems = DOMAIN arrays.elems \cup {next}
        /\ \A i \in DOMAIN arrays.elems : SameArray(arrays.elems[i], arrays'.elems[i])
    BY <1>6, <2>1 DEF ArrayAdded
  <2>6. \A i \in DOMAIN arrays'.elems : me # [kind |-> "array", id |-> i] =>
               /\ i \in DOMAIN arrays.elems
               /\ arrays'.elems[i].field_type = arrays.elems[i].field_type
    BY <2>3, <2>5 DEF SameArray
  <2>7. QED BY <1>3, <2>4, <2>5, <2>6 DEF KeepConstructs
<1>7. ASSUME NEW c, \A i \in DOMAIN constructs'.elems : i # c =>
                      /\ i \in DOMAIN constructs.elems
                      /\ SameConstruct(constructs.elems[i], constructs'.elems[i]),
             c \in DOMAIN constructs.elems => ~constructs.elems[c].frozen,
             ~\E ft \in FieldTypes : ArrayAdded(ft)
      PROVE  ContainmentEnds'
  <2>1. PICK me : me = [kind |-> "construct", id |-> c]
    OBVIOUS
  <2>2. \A t \in ComplexTypes : me \notin TypesOf(t)
    BY <1>1, <1>7, <2>1
  <2>3. \A i \in DOMAIN constructs'.elems : me # [kind |-> "construct", id |-> i] =>
               /\ i \in DOMAIN constructs.elems
               /\ SameConstruct(constructs.elems[i], constructs'.elems[i])
    BY <1>7, <2>1
  <2>4. QED BY <1>3, <1>4, <1>7, <2>2, <2>3
<1>8. ASSUME NEW name \in ConstructNames \cup {NoName}, NEW kind \in Kinds,
             ConstructAdded(name, kind), ~\E ft \in FieldTypes : ArrayAdded(ft)
      PROVE  ContainmentEnds'
  <2>1. PICK c : c = Len(constructs.elems) + 1
    OBVIOUS
  <2>2. constructs.elems \in Seq(ConstructRecord) /\ NewConstruct(name, kind[1], kind[2]) \in ConstructRecord
    BY UtArrayFacts, NewConstructType DEF TypeOK
  <2>3. /\ DOMAIN constructs'.elems = DOMAIN constructs.elems \cup {c}
        /\ c \notin DOMAIN constructs.elems
        /\ \A i \in DOMAIN constructs.elems : constructs'.elems[i] = constructs.elems[i]
    BY <1>8, <2>1, <2>2, AppendFacts DEF ConstructAdded
  <2>4. QED BY <1>7, <1>8, <2>3, SameIsReflexive
<1>9. ASSUME NEW c \in DOMAIN constructs.elems, NEW name \in FieldNames, NEW ft \in FieldTypes,
             NEW opt \in Offsets \cup {NoOffset}, FieldAdded(c, name, ft, opt),
             ~\E t \in FieldTypes : ArrayAdded(t)
      PROVE  ContainmentEnds'
  <2>1. /\ ~constructs.elems[c].frozen /\ DOMAIN constructs'.elems = DOMAIN constructs.elems
        /\ \A i \in DOMAIN constructs.elems : i # c =>
             SameConstruct(constructs.elems[i], constructs'.elems[i])
    BY <1>9 DEF FieldAdded
  <2>2. QED BY <1>7, <1>9, <2>1
<1>10. QED
  <2>1. CASE \E ft \in FieldTypes : ArrayAdded(ft)
    BY <1>6, <2>1
  <2>2. CASE ~\E ft \in FieldTypes : ArrayAdded(ft)
    BY <1>5, <1>8, <1>9, <2>2 DEF Change, Quiet, PointerAdded, DimensionAdded, VariableAdded
  <2>3. QED BY <2>1, <2>2

LEMMA NothingContained ==
  /\ Init => ContainmentEnds
  /\ Cleared => ContainmentEnds'
<1>1. ASSUME Init PROVE ContainmentEnds
  <2>1. ComplexTypes = {}
    BY <1>1 DEF Init, EmptyArray, ComplexTypes
  <2>2. QED BY <2>1 DEF ContainmentEnds
<1>2. ASSUME Cleared PROVE ContainmentEnds'
  <2>1. ComplexTypes' = {}
    BY <1>2 DEF Cleared, EmptyArray, ComplexTypes
  <2>2. QED BY <2>1 DEF ContainmentEnds
<1>3. QED BY <1>1, <1>2

\* No construct or array contains itself through others.
THEOREM NoTypeContainsItself == Spec => []ContainmentEnds
<1>1. TypeOK /\ RefsFrozen /\ CopiedSizesStay /\ ContainmentEnds /\ [Next]_vars
        => TypeOK' /\ RefsFrozen' /\ CopiedSizesStay' /\ ContainmentEnds'
  BY EveryStep, RefsInductive, ContainmentStep, NothingContained
<1>2. QED BY <1>1, RefsInductive, NothingContained, PTL DEF Spec

------------------------------------------------------------------------------
(* Padding.                                                                *)

LEMMA PadBelow ==
  ASSUME NEW x \in Nat, NEW align \in Alignments
  PROVE  PadTo(x, align) \in 0 .. align - 1 /\ (x + PadTo(x, align)) % align = 0
<1>1. CASE align = 1
  BY <1>1 DEF PadTo
<1>2. CASE align = 2
  BY <1>2 DEF PadTo
<1>3. CASE align = 4
  BY <1>3 DEF PadTo
<1>4. CASE align = 8
  BY <1>4 DEF PadTo
<1>5. CASE align = 16
  BY <1>5 DEF PadTo
<1>6. QED BY <1>1, <1>2, <1>3, <1>4, <1>5 DEF Alignments

\* Short of the end of size_t, alignment rounds up.
LEMMA AlignedShort ==
  ASSUME NEW x \in Nat, NEW align \in Alignments, x + align <= SizeMod
  PROVE  Aligned(x, align) = x + PadTo(x, align)
<1>1. PICK pad \in 0 .. align - 1 : pad = PadTo(x, align)
  BY PadBelow
<1>2. align \in Nat /\ SizeMod \in Nat \ {0}
  BY SizeModFacts DEF Alignments
<1>3. PICK sum \in 0 .. SizeMod - 1 : sum = x + pad
  BY <1>1, <1>2
<1>4. sum % SizeMod = sum
  BY <1>2
<1>5. QED BY <1>1, <1>3, <1>4, Zenon DEF Aligned

\* Wherever it is, it gives a multiple: SizeMod is one of every alignment.
LEMMA AlignedIsMultiple ==
  ASSUME NEW x \in SizeT, NEW align \in Alignments
  PROVE  Aligned(x, align) % align = 0
<1>1. x \in Nat /\ x < SizeMod /\ align \in Nat /\ align <= 16 /\ SizeMod \in Nat /\ SizeMod >= 64
  BY SizeModFacts DEF SizeT, Alignments
<1>2. PICK sum \in Nat : sum = x + PadTo(x, align)
  BY <1>1, PadBelow
<1>3. sum % align = 0 /\ sum < 2 * SizeMod
  BY <1>1, <1>2, PadBelow
<1>4. PICK r \in Nat : r = sum % SizeMod
  BY <1>1
<1>5. r = sum \/ r = sum - SizeMod
  BY <1>1, <1>3, <1>4
<1>6. PICK k \in Int : SizeMod = 64 * k
  <2>1. SizeMod % 64 = 0
    BY SizeModAssumption
  <2>2. PICK q \in Int : q = SizeMod \div 64
    BY <1>1
  <2>3. SizeMod = 64 * q
    BY <1>1, <2>1, <2>2
  <2>4. QED BY <2>3
<1>7. r % align = 0
  <2>1. CASE align = 1
    BY <1>3, <1>5, <1>6, <2>1
  <2>2. CASE align = 2
    BY <1>3, <1>5, <1>6, <2>2
  <2>3. CASE align = 4
    BY <1>3, <1>5, <1>6, <2>3
  <2>4. CASE align = 8
    BY <1>3, <1>5, <1>6, <2>4
  <2>5. CASE align = 16
    BY <1>3, <1>5, <1>6, <2>5
  <2>6. QED BY <2>1, <2>2, <2>3, <2>4, <2>5 DEF Alignments
<1>8. QED BY <1>2, <1>4, <1>7 DEF Aligned

\* Of two alignments the smaller divides the larger.
LEMMA AlignmentsDivide ==
  \A a, b \in Alignments : a <= b => b % a = 0
<1> SUFFICES ASSUME NEW a \in Alignments, NEW b \in Alignments, a <= b PROVE b % a = 0
  OBVIOUS
<1>1. CASE a = 1
  BY <1>1 DEF Alignments
<1>2. CASE a = 2
  BY <1>2 DEF Alignments
<1>3. CASE a = 4
  BY <1>3 DEF Alignments
<1>4. CASE a = 8
  BY <1>4 DEF Alignments
<1>5. CASE a = 16
  BY <1>5 DEF Alignments
<1>6. QED BY <1>1, <1>2, <1>3, <1>4, <1>5 DEF Alignments

\* The larger of a size and a rounded size, rounded to a larger alignment,
\* is what rounding the larger of the two sizes gives.
LEMMA RoundTwice ==
  ASSUME NEW m \in Nat, NEW size \in Nat, NEW a \in Alignments, NEW b \in Alignments, a <= b,
         NEW total, total = m + PadTo(m, a)
  PROVE  MaxOf(size, total) + PadTo(MaxOf(size, total), b)
           = MaxOf(size, m) + PadTo(MaxOf(size, m), b)
<1>1. PICK low \in Nat : low = MaxOf(size, m)
  BY DEF MaxOf
<1>2. total \in Nat /\ m <= total /\ total < m + a /\ total % a = 0
  <2>1. PICK pad \in 0 .. a - 1 : pad = PadTo(m, a) /\ (m + pad) % a = 0
    BY PadBelow
  <2>2. a \in Nat
    BY DEF Alignments
  <2>3. QED BY <2>1, <2>2
<1>3. PICK high \in Nat : high = MaxOf(size, total)
  BY <1>2 DEF MaxOf
<1>4. CASE size > total
  BY <1>2, <1>4 DEF MaxOf
<1>5. CASE size <= total
  <2>1. high = total /\ m <= low /\ low <= total
    BY <1>1, <1>2, <1>3, <1>5 DEF MaxOf
  <2>2. PICK p \in 0 .. b - 1 : p = PadTo(total, b) /\ (total + p) % b = 0
    BY <1>2, PadBelow
  <2>3. PICK q \in 0 .. b - 1 : q = PadTo(low, b) /\ (low + q) % b = 0
    BY PadBelow
  <2>4. (low + q) % a = 0
    <3>1. b % a = 0 /\ a \in Nat \ {0} /\ b \in Nat \ {0}
      BY AlignmentsDivide DEF Alignments
    <3>2. PICK k \in Nat : low + q = b * k
      <4>1. low + q \in Nat
        BY <3>1
      <4>2. QED BY <2>3, <3>1, <4>1, Divides
    <3>3. PICK j \in Nat : b = a * j
      BY <3>1, Divides
    <3>4. low + q = a * (j * k)
      BY <3>1, <3>2, <3>3
    <3>5. j * k \in Nat /\ low + q \in Nat
      BY <3>1
    <3>6. QED BY <3>1, <3>4, <3>5, Divides
  <2>5. total <= low + q
    <3>1. low + q >= m /\ (low + q) % a = 0 /\ total % a = 0 /\ total < m + a
      BY <1>2, <2>1, <2>4 DEF Alignments
    <3>2. PICK sum \in Nat : sum = low + q
      BY DEF Alignments
    <3>3. CASE a = 1
      BY <1>2, <3>1, <3>2, <3>3
    <3>4. CASE a = 2
      BY <1>2, <3>1, <3>2, <3>4
    <3>5. CASE a = 4
      BY <1>2, <3>1, <3>2, <3>5
    <3>6. CASE a = 8
      BY <1>2, <3>1, <3>2, <3>6
    <3>7. CASE a = 16
      BY <1>2, <3>1, <3>2, <3>7
    <3>8. QED BY <3>3, <3>4, <3>5, <3>6, <3>7 DEF Alignments
  <2>6. total + p = low + q
    <3>1. total <= low + q /\ low <= total /\ p < b /\ q < b
      BY <2>1, <2>2, <2>3, <2>5 DEF Alignments
    <3>2. PICK x \in Nat : x = total + p
      BY <1>2 DEF Alignments
    <3>3. PICK y \in Nat : y = low + q
      BY DEF Alignments
    <3>4. x % b = 0 /\ y % b = 0 /\ y - b < x /\ x - b < y
      BY <1>2, <2>2, <2>3, <3>1, <3>2, <3>3 DEF Alignments
    <3>5. x = y
      <4>1. CASE b = 1
        BY <3>4, <4>1
      <4>2. CASE b = 2
        BY <3>4, <4>2
      <4>3. CASE b = 4
        BY <3>4, <4>3
      <4>4. CASE b = 8
        BY <3>4, <4>4
      <4>5. CASE b = 16
        BY <3>4, <4>5
      <4>6. QED BY <4>1, <4>2, <4>3, <4>4, <4>5 DEF Alignments
    <3>6. QED BY <3>2, <3>3, <3>5
  <2>7. QED BY <1>1, <1>3, <2>1, <2>2, <2>3, <2>6
<1>6. QED BY <1>2, <1>4, <1>5

------------------------------------------------------------------------------
(* The layout of a construct.  While no sum has wrapped around, total_size *)
(* is the end of the last field of a struct, or the size of the largest    *)
(* field of a union, rounded up to the alignment as it is now: this is the *)
(* invariant behind FieldsApart.                                           *)

End(f) == f.offset + f.size

Rounded(c, m) ==
  /\ m + c.alignment <= SizeMod
  /\ c.total_size = IF c.packed THEN m ELSE m + PadTo(m, c.alignment)

StructLaidOut(c) ==
  LET fields == c.fields.elems IN
  /\ \A i, j \in DOMAIN fields : i < j => End(fields[i]) <= fields[j].offset
  /\ c.last_offset = IF Len(fields) = 0 THEN 0 ELSE End(fields[Len(fields)])
  /\ Rounded(c, c.last_offset)

UnionLaidOut(c) ==
  LET fields == c.fields.elems IN
  /\ \A i \in DOMAIN fields : fields[i].offset = 0
  /\ \E m \in SizeT :
       /\ m = 0 \/ \E i \in DOMAIN fields : m = fields[i].size
       /\ \A i \in DOMAIN fields : fields[i].size <= m
       /\ Rounded(c, m)

LaidOutWell(c) ==
  NoWrap(c) => /\ c.type = "struct" => StructLaidOut(c)
               /\ c.type = "union" => UnionLaidOut(c)

ConstructsLaidOut == \A i \in DOMAIN constructs.elems : LaidOutWell(constructs.elems[i])

LEMMA GrownAlignFacts ==
  ASSUME NEW c \in ConstructRecord, NEW align \in Alignments
  PROVE  /\ GrownAlign(c, align) >= c.alignment
         /\ ~c.packed => GrownAlign(c, align) >= align
         /\ c.packed => GrownAlign(c, align) = c.alignment
         /\ GrownAlign(c, align) \in {align, c.alignment}
BY DEF ConstructRecord, GrownAlign, MaxOf, Alignments

\* The fields of a construct to which one is added.
LEMMA GrownFields ==
  ASSUME NEW c \in ConstructRecord, NEW d \in ConstructRecord, NEW field \in FieldRecord,
         d.fields.elems = Append(c.fields.elems, field), d.alignment >= c.alignment, NoWrap(d)
  PROVE  LET old == c.fields.elems
             new == d.fields.elems
             n == Len(c.fields.elems)
         IN
         /\ NoWrap(c) /\ n \in Nat /\ DOMAIN old = 1 .. n
         /\ DOMAIN new = 1 .. n + 1 /\ Len(new) = n + 1 /\ new[n + 1] = field
         /\ \A i \in 1 .. n : new[i] = old[i] /\ old[i] \in FieldRecord
         /\ \A i \in 1 .. n : End(old[i]) + d.alignment <= SizeMod
         /\ End(field) + d.alignment <= SizeMod
<1>1. PICK old \in Seq(FieldRecord) : old = c.fields.elems
  BY UtArrayFacts DEF ConstructRecord
<1>2. PICK n \in Nat : n = Len(old) /\ DOMAIN old = 1 .. n
  BY LenProperties
<1>3. PICK new \in Seq(FieldRecord) : new = d.fields.elems /\ new = Append(old, field)
  BY <1>1, AppendProperties
<1>4. Len(new) = n + 1 /\ new[n + 1] = field /\ \A i \in 1 .. n : new[i] = old[i]
  BY <1>2, <1>3, AppendProperties
<1>5. DOMAIN new = 1 .. n + 1
  BY <1>3, <1>4, LenProperties
<1>6. \A i \in 1 .. n : old[i] \in FieldRecord
  BY <1>2, ElementOfSeq
<1>7. \A i \in 1 .. n + 1 : new[i].offset + new[i].size + d.alignment <= SizeMod
  BY <1>3, <1>5 DEF NoWrap
<1>8. End(field) + d.alignment <= SizeMod
  BY <1>2, <1>4, <1>7 DEF End
<1>9. \A i \in 1 .. n : End(old[i]) + d.alignment <= SizeMod
  BY <1>4, <1>7 DEF End
<1>10. NoWrap(c)
  <2>1. ASSUME NEW i \in 1 .. n
        PROVE  old[i].offset + old[i].size + c.alignment <= SizeMod
    <3>1. old[i].offset \in Nat /\ old[i].size \in Nat
      BY <1>6 DEF FieldRecord, SizeT
    <3>2. c.alignment \in Nat /\ d.alignment \in Nat /\ SizeMod \in Nat
      BY SizeModFacts DEF ConstructRecord, Alignments
    <3>3. old[i].offset + old[i].size + d.alignment <= SizeMod
      BY <1>9 DEF End
    <3>4. d.alignment >= c.alignment
      OBVIOUS
    <3>5. QED BY <3>1, <3>2, <3>3, <3>4
  <2>2. QED BY <1>1, <1>2, <2>1 DEF NoWrap
<1>11. QED BY <1>1, <1>2, <1>3, <1>4, <1>5, <1>6, <1>8, <1>9, <1>10

LEMMA FieldNumbers ==
  ASSUME NEW f \in FieldRecord
  PROVE  f.offset \in Nat /\ f.size \in Nat /\ End(f) \in Nat /\ f.offset <= End(f) /\ f.size <= End(f)
<1>1. f.offset \in Nat /\ f.size \in Nat
  BY DEF FieldRecord, SizeT
<1>2. QED BY <1>1 DEF End

\* The size of a construct whose fields reach up to end.
LEMMA RoundedSize ==
  ASSUME NEW d \in ConstructRecord, NEW end \in Nat, end + d.alignment <= SizeMod,
         d.total_size = IF d.packed THEN end ELSE Aligned(end, d.alignment)
  PROVE  Rounded(d, end)
<1>1. d.alignment \in Alignments
  BY DEF ConstructRecord
<1>2. QED BY <1>1, AlignedShort DEF Rounded

LEMMA StructGrows ==
  ASSUME NEW c \in ConstructRecord, c.type = "struct", StructLaidOut(c),
         NEW d \in ConstructRecord, NEW field \in FieldRecord,
         NEW align \in Alignments, NEW opt \in Offsets \cup {NoOffset}, ~OffsetRefused(c, opt),
         field.offset = FieldOffset(c, opt, align),
         d.packed = c.packed, d.type = c.type,
         d.last_offset = (field.offset + field.size) % SizeMod,
         d.alignment = GrownAlign(c, align),
         d.total_size = GrownSize(c, field.offset, field.size, d.alignment),
         d.fields.elems = Append(c.fields.elems, field), NoWrap(d)
  PROVE  StructLaidOut(d)
<1>1. PICK n \in Nat : n = Len(c.fields.elems)
  BY UtArrayFacts DEF ConstructRecord
<1>2. PICK old : old = c.fields.elems
  OBVIOUS
<1>3. PICK new : new = d.fields.elems
  OBVIOUS
<1>4. d.alignment >= c.alignment /\ (~c.packed => d.alignment >= align)
  BY GrownAlignFacts
<1>5. /\ DOMAIN old = 1 .. n
      /\ DOMAIN new = 1 .. n + 1 /\ Len(new) = n + 1 /\ new[n + 1] = field
      /\ \A i \in 1 .. n : new[i] = old[i] /\ old[i] \in FieldRecord
      /\ \A i \in 1 .. n : End(old[i]) + d.alignment <= SizeMod
      /\ End(field) + d.alignment <= SizeMod
  BY <1>1, <1>2, <1>3, <1>4, GrownFields
<1>6. /\ d.alignment \in Alignments /\ d.alignment \in Nat \ {0} /\ d.alignment <= 16
      /\ align \in Nat \ {0} /\ SizeMod \in Nat /\ SizeMod >= 64
  BY SizeModFacts DEF ConstructRecord, Alignments
<1>7. /\ \A i, j \in 1 .. n : i < j => End(old[i]) <= old[j].offset
      /\ c.last_offset = IF n = 0 THEN 0 ELSE End(old[n])
  BY <1>1, <1>2, <1>5 DEF StructLaidOut
<1>8. PICK last \in Nat : last = c.last_offset
  BY DEF ConstructRecord, SizeT
<1>9. last + d.alignment <= SizeMod
  <2>1. CASE n = 0
    BY <1>6, <1>7, <1>8, <2>1
  <2>2. CASE n # 0
    <3>1. n \in 1 .. n
      BY <2>2
    <3>2. last = End(old[n])
      BY <1>7, <1>8, <2>2
    <3>3. QED BY <1>5, <3>1, <3>2
  <2>3. QED BY <2>1, <2>2
<1>10. field.offset >= last
  <2>1. CASE opt # NoOffset
    <3>1. opt \in Nat /\ ~(opt < last)
      BY <1>8, <2>1, OffsetsAssumption DEF OffsetRefused, SizeT
    <3>2. field.offset = opt
      BY <2>1 DEF FieldOffset
    <3>3. QED BY <3>1, <3>2
  <2>2. CASE opt = NoOffset
    <3>1. field.offset = IF c.packed THEN last ELSE Aligned(last, align)
      BY <1>8, <2>2 DEF FieldOffset
    <3>2. CASE c.packed
      BY <3>1, <3>2
    <3>3. CASE ~c.packed
      <4>1. last + align <= SizeMod
        BY <1>4, <1>6, <1>9, <3>3
      <4>2. Aligned(last, align) = last + PadTo(last, align)
        BY <4>1, AlignedShort
      <4>3. PICK pad \in 0 .. align - 1 : pad = PadTo(last, align)
        BY PadBelow
      <4>4. QED BY <1>6, <3>1, <3>3, <4>2, <4>3
    <3>4. QED BY <3>2, <3>3
  <2>3. QED BY <2>1, <2>2
<1>11. \A i \in 1 .. n : End(old[i]) <= last
  <2> SUFFICES ASSUME NEW i \in 1 .. n PROVE End(old[i]) <= last
    OBVIOUS
  <2>1. last = End(old[n]) /\ n \in 1 .. n
    BY <1>7, <1>8
  <2>2. CASE i = n
    BY <1>8, <2>1, <2>2
  <2>3. CASE i < n
    <3>1. End(old[i]) <= old[n].offset
      BY <1>7, <2>1, <2>3
    <3>2. old[n].offset <= End(old[n]) /\ old[n].offset \in Nat /\ End(old[i]) \in Nat
      BY <1>5, <2>1, FieldNumbers
    <3>3. QED BY <2>1, <3>1, <3>2
  <2>4. QED BY <2>2, <2>3
<1>12. ASSUME NEW i \in 1 .. n + 1, NEW j \in 1 .. n + 1, i < j
       PROVE  End(new[i]) <= new[j].offset
  <2>1. i \in 1 .. n
    BY <1>12
  <2>2. CASE j \in 1 .. n
    BY <1>5, <1>7, <1>12, <2>1, <2>2
  <2>3. CASE j = n + 1
    <3>1. End(old[i]) <= last /\ new[i] = old[i] /\ new[j] = field
      BY <1>5, <1>11, <2>1, <2>3
    <3>2. End(old[i]) \in Nat /\ field.offset \in Nat
      BY <1>5, <2>1, FieldNumbers
    <3>3. QED BY <1>8, <1>10, <3>1, <3>2
  <2>4. QED BY <2>2, <2>3
<1>13. PICK end \in Nat : end = End(field) /\ end + d.alignment <= SizeMod
  BY <1>5, FieldNumbers
<1>14. (field.offset + field.size) % SizeMod = end
  <2>1. field.offset + field.size = end
    BY <1>13 DEF End
  <2>2. end % SizeMod = end
    <3>1. end \in 0 .. SizeMod - 1
      BY <1>6, <1>13
    <3>2. QED BY <1>6, <3>1
  <2>3. QED BY <2>1, <2>2, Zenon
<1>15. d.last_offset = end
  BY <1>14
<1>16. d.total_size = IF d.packed THEN end ELSE Aligned(end, d.alignment)
  BY <1>14 DEF GrownSize
<1>17. Rounded(d, d.last_offset)
  BY <1>13, <1>15, <1>16, RoundedSize
<1>18. d.last_offset = IF Len(new) = 0 THEN 0 ELSE End(new[Len(new)])
  BY <1>5, <1>13, <1>15
<1>19. QED BY <1>3, <1>5, <1>12, <1>17, <1>18 DEF StructLaidOut

LEMMA UnionGrows ==
  ASSUME NEW c \in ConstructRecord, c.type = "union", UnionLaidOut(c),
         NEW d \in ConstructRecord, NEW field \in FieldRecord,
         NEW align \in Alignments, NEW opt \in Offsets \cup {NoOffset}, ~OffsetRefused(c, opt),
         field.offset = FieldOffset(c, opt, align),
         d.packed = c.packed, d.type = c.type,
         d.alignment = GrownAlign(c, align),
         d.total_size = GrownSize(c, field.offset, field.size, d.alignment),
         d.fields.elems = Append(c.fields.elems, field), NoWrap(d)
  PROVE  UnionLaidOut(d)
<1>1. PICK n \in Nat : n = Len(c.fields.elems)
  BY UtArrayFacts DEF ConstructRecord
<1>2. PICK old : old = c.fields.elems
  OBVIOUS
<1>3. PICK new : new = d.fields.elems
  OBVIOUS
<1>4. d.alignment >= c.alignment
  BY GrownAlignFacts
<1>5. /\ DOMAIN old = 1 .. n
      /\ DOMAIN new = 1 .. n + 1 /\ new[n + 1] = field
      /\ \A i \in 1 .. n : new[i] = old[i] /\ old[i] \in FieldRecord
      /\ \A i \in 1 .. n : End(old[i]) + d.alignment <= SizeMod
      /\ End(field) + d.alignment <= SizeMod
  BY <1>1, <1>2, <1>3, <1>4, GrownFields
<1>6. /\ d.alignment \in Alignments /\ c.alignment \in Alignments
      /\ d.alignment \in Nat \ {0} /\ d.alignment <= 16
      /\ SizeMod \in Nat \ {0} /\ SizeMod >= 64
  BY SizeModFacts DEF ConstructRecord, Alignments
<1>7. field.offset = 0
  BY DEF OffsetRefused, FieldOffset
<1>8. PICK size \in Nat : size = field.size /\ size + d.alignment <= SizeMod
  BY <1>5, <1>7, FieldNumbers DEF End
<1>9. \A i \in 1 .. n : old[i].offset = 0
  BY <1>2, <1>5 DEF UnionLaidOut
<1>10. PICK m \in Nat : /\ m = 0 \/ \E i \in 1 .. n : m = old[i].size
                        /\ \A i \in 1 .. n : old[i].size <= m
                        /\ Rounded(c, m)
  <2>1. SizeT \subseteq Nat
    BY DEF SizeT
  <2>2. QED BY <1>2, <1>5, <2>1 DEF UnionLaidOut
<1>11. m + d.alignment <= SizeMod
  <2>1. CASE m = 0
    BY <1>6, <2>1
  <2>2. ASSUME NEW i \in 1 .. n, m = old[i].size
        PROVE  m + d.alignment <= SizeMod
    <3>1. End(old[i]) = m
      BY <1>9, <2>2 DEF End
    <3>2. QED BY <1>5, <2>2, <3>1
  <2>3. QED BY <1>10, <2>1, <2>2
<1>12. PICK largest \in Nat : largest = MaxOf(size, m) /\ largest \in {size, m}
                               /\ size <= largest /\ m <= largest
  BY DEF MaxOf
<1>13. largest + d.alignment <= SizeMod
  BY <1>8, <1>11, <1>12
<1>14. d.total_size = IF d.packed THEN largest ELSE largest + PadTo(largest, d.alignment)
  <2>1. d.total_size = IF c.packed THEN MaxOf(size, c.total_size)
                       ELSE Aligned(MaxOf(size, c.total_size), d.alignment)
    BY <1>8 DEF GrownSize
  <2>2. CASE c.packed
    <3>1. c.total_size = m
      BY <1>10, <2>2 DEF Rounded
    <3>2. QED BY <1>12, <2>1, <2>2, <3>1
  <2>3. CASE ~c.packed
    <3>1. PICK total : total = c.total_size
      OBVIOUS
    <3>2. total = m + PadTo(m, c.alignment)
      BY <1>10, <2>3, <3>1 DEF Rounded
    <3>3. MaxOf(size, total) + PadTo(MaxOf(size, total), d.alignment)
            = largest + PadTo(largest, d.alignment)
      BY <1>4, <1>6, <1>12, <3>2, RoundTwice
    <3>4. PICK sum \in 0 .. SizeMod - 1 : sum = largest + PadTo(largest, d.alignment)
      <4>1. PICK pad \in 0 .. d.alignment - 1 : pad = PadTo(largest, d.alignment)
        BY <1>6, PadBelow
      <4>2. largest + pad \in 0 .. SizeMod - 1
        BY <1>6, <1>13, <4>1
      <4>3. QED BY <4>1, <4>2
    <3>5. sum % SizeMod = sum
      BY <1>6
    <3>6. Aligned(MaxOf(size, total), d.alignment) = sum
      BY <3>3, <3>4, <3>5, Zenon DEF Aligned
    <3>7. QED BY <2>1, <2>3, <3>1, <3>4, <3>6
  <2>4. QED BY <2>2, <2>3
<1>15. Rounded(d, largest)
  BY <1>13, <1>14 DEF Rounded
<1>16. \A i \in 1 .. n + 1 : new[i].offset = 0 /\ new[i].size <= largest
  <2> SUFFICES ASSUME NEW i \in 1 .. n + 1 PROVE new[i].offset = 0 /\ new[i].size <= largest
    OBVIOUS
  <2>1. CASE i = n + 1
    BY <1>5, <1>7, <1>8, <1>12, <2>1
  <2>2. CASE i # n + 1
    <3>1. i \in 1 .. n
      BY <2>2
    <3>2. new[i] = old[i] /\ old[i].size <= m /\ old[i].offset = 0 /\ old[i].size \in Nat
      BY <1>5, <1>9, <1>10, <3>1, FieldNumbers
    <3>3. QED BY <1>12, <3>2
  <2>3. QED BY <2>1, <2>2
<1>17. largest = 0 \/ \E i \in 1 .. n + 1 : largest = new[i].size
  <2>1. CASE largest = size
    <3>1. n + 1 \in 1 .. n + 1
      OBVIOUS
    <3>2. QED BY <1>5, <1>8, <2>1, <3>1
  <2>2. CASE largest = m
    <3>1. \A i \in 1 .. n : i \in 1 .. n + 1
      OBVIOUS
    <3>2. QED BY <1>5, <1>10, <2>2, <3>1
  <2>3. QED BY <1>12, <2>1, <2>2
<1>18. largest \in SizeT
  BY <1>6, <1>13 DEF SizeT
<1>19. QED BY <1>3, <1>5, <1>15, <1>16, <1>17, <1>18 DEF UnionLaidOut

\* What the client cannot see does not matter to a layout.
LEMMA SameLayout ==
  ASSUME NEW c, NEW d, SameConstruct(c, d), LaidOutWell(c)
  PROVE  LaidOutWell(d)
BY DEF SameConstruct, LaidOutWell, NoWrap, StructLaidOut, UnionLaidOut, Rounded

LEMMA NewLayout ==
  ASSUME NEW name, NEW kind \in Kinds
  PROVE  LaidOutWell(NewConstruct(name, kind[1], kind[2]))
<1>1. PICK c : c = NewConstruct(name, kind[1], kind[2])
  OBVIOUS
<1>2. /\ c.last_offset = 0 /\ c.total_size = 0 /\ c.alignment = 1
      /\ c.fields.elems = << >>
  BY <1>1 DEF NewConstruct, EmptyArray
<1>3. Rounded(c, 0)
  BY <1>2, SizeModFacts DEF Rounded, PadTo
<1>4. DOMAIN c.fields.elems = {} /\ Len(c.fields.elems) = 0 /\ 0 \in SizeT
  BY <1>2, SizeModFacts DEF SizeT
<1>5. StructLaidOut(c)
  BY <1>2, <1>3, <1>4 DEF StructLaidOut
<1>6. UnionLaidOut(c)
  BY <1>2, <1>3, <1>4 DEF UnionLaidOut
<1>7. QED BY <1>1, <1>5, <1>6 DEF LaidOutWell

LEMMA LayoutGrows ==
  ASSUME TypeOK, NEW c \in ConstructRecord, LaidOutWell(c),
         NEW name \in FieldNames, NEW ft \in FieldTypes, NEW opt \in Offsets \cup {NoOffset},
         ~OffsetRefused(c, opt), TypeSize(ft) >= 0
  PROVE  LaidOutWell(WithField(c, name, ft, opt))
<1>1. PICK d : d = WithField(c, name, ft, opt)
  OBVIOUS
<1>2. PICK field : field = NewField(c, name, ft, opt)
  OBVIOUS
<1>3. PICK align \in Alignments : align = TypeAlign(ft)
  BY SizeAlignType
<1>4. /\ d \in ConstructRecord /\ field \in FieldRecord
      /\ d.type = c.type /\ d.packed = c.packed
      /\ d.last_offset = IF c.type = "struct" THEN (field.offset + field.size) % SizeMod
                                              ELSE c.last_offset
      /\ d.alignment = GrownAlign(c, align)
      /\ d.total_size = GrownSize(c, field.offset, field.size, d.alignment)
      /\ d.fields.elems = Append(c.fields.elems, field)
  BY <1>1, <1>2, <1>3, WithFieldFacts
<1>5. field.offset = FieldOffset(c, opt, align)
  BY <1>2, <1>3 DEF NewField
<1>6. ASSUME NoWrap(d)
      PROVE  /\ d.type = "struct" => StructLaidOut(d)
             /\ d.type = "union" => UnionLaidOut(d)
  <2>1. d.alignment >= c.alignment
    BY <1>4, GrownAlignFacts
  <2>2. NoWrap(c)
    BY <1>4, <1>6, <2>1, GrownFields
  <2>3. CASE c.type = "struct"
    <3>1. StructLaidOut(c)
      BY <2>2, <2>3 DEF LaidOutWell
    <3>2. d.last_offset = (field.offset + field.size) % SizeMod
      BY <1>4, <2>3
    <3>3. StructLaidOut(d)
      BY <1>4, <1>5, <1>6, <2>3, <3>1, <3>2, StructGrows
    <3>4. QED BY <1>4, <2>3, <3>3
  <2>4. CASE c.type = "union"
    <3>1. UnionLaidOut(c)
      BY <2>2, <2>4 DEF LaidOutWell
    <3>2. UnionLaidOut(d)
      BY <1>4, <1>5, <1>6, <2>4, <3>1, UnionGrows
    <3>3. QED BY <1>4, <2>4, <3>2
  <2>5. c.type \in {"struct", "union"}
    BY DEF ConstructRecord
  <2>6. QED BY <2>3, <2>4, <2>5
<1>7. QED BY <1>1, <1>6 DEF LaidOutWell

\* A construct was there before, as it is or without its last field, or it
\* is new and has none.
LEMMA ConstructOrigin ==
  ASSUME TypeOK, Change, ~Cleared, NEW i \in DOMAIN constructs'.elems
  PROVE  \/ /\ i \in DOMAIN constructs.elems
            /\ SameConstruct(constructs.elems[i], constructs'.elems[i])
         \/ /\ i \in DOMAIN constructs.elems
            /\ \E name \in FieldNames, ft \in FieldTypes, opt \in Offsets \cup {NoOffset} :
                 FieldAdded(i, name, ft, opt)
         \/ \E name \in ConstructNames \cup {NoName}, kind \in Kinds :
              constructs'.elems[i] = NewConstruct(name, kind[1], kind[2])
<1>1. CASE i \in DOMAIN constructs.elems
  BY <1>1, ConstructFate
<1>2. CASE i \notin DOMAIN constructs.elems
  <2>1. ~KeepConstructs
    BY <1>2 DEF KeepConstructs
  <2>2. PICK name \in ConstructNames \cup {NoName}, kind \in Kinds : ConstructAdded(name, kind)
    BY <1>2, <2>1 DEF Change, Quiet, PointerAdded, ArrayAdded, DimensionAdded, VariableAdded,
                      FieldAdded
  <2>3. constructs.elems \in Seq(ConstructRecord)
    BY UtArrayFacts DEF TypeOK
  <2>4. constructs'.elems[i] = NewConstruct(name, kind[1], kind[2])
    BY <1>2, <2>2, <2>3, AppendFacts, NewConstructType DEF ConstructAdded
  <2>5. QED BY <2>4
<1>3. QED BY <1>1, <1>2

LEMMA LayoutStep ==
  ASSUME TypeOK, Change, ConstructsLaidOut
  PROVE  ConstructsLaidOut'
<1>1. CASE Cleared
  BY <1>1 DEF Cleared, EmptyArray, ConstructsLaidOut
<1>2. CASE ~Cleared
  <2> SUFFICES ASSUME NEW i \in DOMAIN constructs'.elems
               PROVE  LaidOutWell(constructs'.elems[i])
    BY DEF ConstructsLaidOut
  <2>1. CASE /\ i \in DOMAIN constructs.elems
             /\ SameConstruct(constructs.elems[i], constructs'.elems[i])
    BY <2>1, SameLayout DEF ConstructsLaidOut
  <2>2. ASSUME i \in DOMAIN constructs.elems,
               NEW name \in FieldNames, NEW ft \in FieldTypes, NEW opt \in Offsets \cup {NoOffset},
               FieldAdded(i, name, ft, opt)
        PROVE  LaidOutWell(constructs'.elems[i])
    <3>1. PICK c \in ConstructRecord : c = constructs.elems[i]
      BY <2>2, UtArrayFacts DEF TypeOK
    <3>2. LaidOutWell(c)
      BY <2>2, <3>1 DEF ConstructsLaidOut
    <3>3. /\ ~OffsetRefused(c, opt) /\ TypeSize(ft) >= 0
          /\ SameConstruct(WithField(c, name, ft, opt), constructs'.elems[i])
      BY <2>2, <3>1 DEF FieldAdded
    <3>4. LaidOutWell(WithField(c, name, ft, opt))
      BY <3>2, <3>3, LayoutGrows
    <3>5. QED BY <3>3, <3>4, SameLayout
  <2>3. CASE \E name \in ConstructNames \cup {NoName}, kind \in Kinds :
               constructs'.elems[i] = NewConstruct(name, kind[1], kind[2])
    BY <2>3, NewLayout
  <2>4. QED BY <1>2, <2>1, <2>2, <2>3, ConstructOrigin
<1>3. QED BY <1>1, <1>2

LEMMA InitLayout == Init => ConstructsLaidOut
BY DEF Init, EmptyArray, ConstructsLaidOut

\* The end of the last field, or the size of the largest, is within the size.
LEMMA RoundedFacts ==
  ASSUME NEW c \in ConstructRecord, NEW m \in Nat, Rounded(c, m)
  PROVE  m <= c.total_size /\ (~c.packed => c.total_size % c.alignment = 0)
<1>1. PICK align \in Alignments : align = c.alignment
  BY DEF ConstructRecord
<1>2. PICK pad \in 0 .. align - 1 : pad = PadTo(m, align) /\ (m + pad) % align = 0
  BY PadBelow
<1>3. align \in Nat
  BY DEF Alignments
<1>4. c.total_size = IF c.packed THEN m ELSE m + pad
  BY <1>1, <1>2 DEF Rounded
<1>5. m <= c.total_size
  BY <1>3, <1>4
<1>6. ~c.packed => c.total_size % c.alignment = 0
  BY <1>1, <1>2, <1>4, Zenon
<1>7. QED BY <1>5, <1>6

LEMMA WellIsApart ==
  ASSUME NEW c \in ConstructRecord, LaidOutWell(c), NoWrap(c)
  PROVE  /\ LET fields == c.fields.elems IN
            /\ \A i, j \in DOMAIN fields :
                 i < j /\ c.type = "struct" => fields[i].offset + fields[i].size <= fields[j].offset
            /\ \A i \in DOMAIN fields :
                 /\ c.type = "union" => fields[i].offset = 0
                 /\ fields[i].offset + fields[i].size <= c.total_size
         /\ ~c.packed => c.total_size % c.alignment = 0
<1>1. PICK fields \in Seq(FieldRecord) : fields = c.fields.elems
  BY UtArrayFacts DEF ConstructRecord
<1>2. PICK n \in Nat : n = Len(fields) /\ DOMAIN fields = 1 .. n
  BY LenProperties
<1>3. \A i \in 1 .. n : fields[i] \in FieldRecord
  BY <1>2, ElementOfSeq
<1>4. PICK total \in Nat : total = c.total_size
  BY DEF ConstructRecord, SizeT
<1>5. CASE c.type = "struct"
  <2>1. /\ \A i, j \in 1 .. n : i < j => End(fields[i]) <= fields[j].offset
        /\ c.last_offset = IF n = 0 THEN 0 ELSE End(fields[n])
        /\ Rounded(c, c.last_offset)
    BY <1>1, <1>2, <1>5 DEF LaidOutWell, StructLaidOut
  <2>2. PICK last \in Nat : last = c.last_offset
    BY DEF ConstructRecord, SizeT
  <2>3. last <= total /\ (~c.packed => c.total_size % c.alignment = 0)
    BY <1>4, <2>1, <2>2, RoundedFacts
  <2>4. ASSUME NEW i \in 1 .. n
        PROVE  End(fields[i]) <= total
    <3>1. last = End(fields[n]) /\ n \in 1 .. n
      BY <2>1, <2>2
    <3>2. End(fields[i]) \in Nat /\ fields[n].offset <= End(fields[n]) /\ fields[n].offset \in Nat
      BY <1>3, <3>1, FieldNumbers
    <3>3. CASE i = n
      BY <2>2, <2>3, <3>1, <3>3
    <3>4. CASE i < n
      <4>1. End(fields[i]) <= fields[n].offset
        BY <2>1, <3>1, <3>4
      <4>2. QED BY <2>2, <2>3, <3>1, <3>2, <4>1
    <3>5. QED BY <3>3, <3>4
  <2>5. QED BY <1>1, <1>2, <1>4, <1>5, <2>1, <2>3, <2>4 DEF End
<1>6. CASE c.type = "union"
  <2>1. PICK m \in SizeT : /\ \A i \in 1 .. n : fields[i].offset = 0 /\ fields[i].size <= m
                           /\ Rounded(c, m)
    BY <1>1, <1>2, <1>6 DEF LaidOutWell, UnionLaidOut
  <2>2. m \in Nat
    BY DEF SizeT
  <2>3. m <= total /\ (~c.packed => c.total_size % c.alignment = 0)
    BY <1>4, <2>1, <2>2, RoundedFacts
  <2>4. ASSUME NEW i \in 1 .. n
        PROVE  fields[i].offset = 0 /\ fields[i].offset + fields[i].size <= total
    <3>1. fields[i].size \in Nat /\ fields[i].offset = 0 /\ fields[i].size <= m
      BY <1>3, <2>1, FieldNumbers
    <3>2. QED BY <2>2, <2>3, <3>1
  <2>5. QED BY <1>1, <1>2, <1>4, <1>6, <2>3, <2>4
<1>7. QED BY <1>5, <1>6 DEF ConstructRecord

\* Fields do not overlap and lie inside their construct, as long as no sum
\* has wrapped around.
THEOREM FieldsStayApart == Spec => []FieldsApart
<1>1. TypeOK /\ ConstructsLaidOut => FieldsApart
  <2> SUFFICES ASSUME TypeOK, ConstructsLaidOut, NEW i \in DOMAIN constructs.elems,
                      NEW c, c = constructs.elems[i], NoWrap(c)
               PROVE  LET fields == c.fields.elems IN
                      /\ \A j, k \in DOMAIN fields :
                           j < k /\ c.type = "struct" =>
                             fields[j].offset + fields[j].size <= fields[k].offset
                      /\ \A j \in DOMAIN fields :
                           /\ c.type = "union" => fields[j].offset = 0
                           /\ fields[j].offset + fields[j].size <= c.total_size
    BY DEF FieldsApart, Constructs
  <2>1. c \in ConstructRecord /\ LaidOutWell(c)
    BY UtArrayFacts DEF TypeOK, ConstructsLaidOut
  <2>2. QED BY <2>1, WellIsApart
<1>2. TypeOK /\ ConstructsLaidOut /\ [Next]_vars => TypeOK' /\ ConstructsLaidOut'
  BY EveryStep, LayoutStep
<1>3. QED BY <1>1, <1>2, InitTypes, InitLayout, PTL DEF Spec

------------------------------------------------------------------------------
(* Alignment.                                                              *)

\* The alignment of a construct is at least that of every field, and a
\* field whose offset the client did not choose is aligned for its type.
FieldFits(alignment, f) ==
  /\ TypeAlign(f.field_type) <= alignment
  /\ f.user_offset \/ f.offset % TypeAlign(f.field_type) = 0

FieldsFit ==
  \A i \in DOMAIN constructs.elems : LET c == constructs.elems[i] IN
    ~c.packed => \A j \in DOMAIN c.fields.elems : FieldFits(c.alignment, c.fields.elems[j])

LEMMA RefAlign ==
  ASSUME TypeOK, NEW ft, RefOK(ft)
  PROVE  TypeAlign(ft) \in Alignments
<1>1. ft.kind \in {"data", "mapped", "construct", "array"}
  BY DEF RefOK, FieldTypeRecord
<1>2. CASE ft.kind = "data"
  BY <1>2, DataTypeFacts DEF RefOK, TypeAlign
<1>3. CASE ft.kind = "mapped"
  BY <1>3, DataTypeFacts, TypeMapAssumption DEF RefOK, TypeAlign
<1>4. CASE ft.kind = "construct"
  <2>1. constructs.elems[ft.id] \in ConstructRecord
    BY <1>4, UtArrayFacts DEF TypeOK, RefOK
  <2>2. QED BY <1>4, <2>1 DEF ConstructRecord, TypeAlign
<1>5. CASE ft.kind = "array"
  <2>1. arrays.elems[ft.id] \in ArrayRecord
    BY <1>5, UtArrayFacts DEF TypeOK, RefOK
  <2>2. QED BY <1>5, <2>1 DEF ArrayRecord, TypeAlign
<1>6. QED BY <1>1, <1>2, <1>3, <1>4, <1>5

\* The offset that the library chooses suits the type.
LEMMA ChosenOffset ==
  ASSUME NEW c \in ConstructRecord, ~c.packed, NEW align \in Alignments,
         NEW opt \in Offsets \cup {NoOffset}
  PROVE  opt # NoOffset \/ FieldOffset(c, opt, align) % align = 0
<1> SUFFICES ASSUME opt = NoOffset PROVE FieldOffset(c, opt, align) % align = 0
  OBVIOUS
<1>1. c.last_offset \in SizeT /\ c.type \in {"struct", "union"}
  BY DEF ConstructRecord
<1>2. 0 % align = 0
  BY DEF Alignments
<1>3. CASE c.type = "union"
  BY <1>2, <1>3 DEF FieldOffset
<1>4. CASE c.type = "struct"
  <2>1. FieldOffset(c, opt, align) = Aligned(c.last_offset, align)
    BY <1>4 DEF FieldOffset
  <2>2. QED BY <1>1, <2>1, AlignedIsMultiple
<1>5. QED BY <1>1, <1>3, <1>4

\* A new field: what becomes of its construct, and the alignment of its
\* type, which is that of the construct itself when it is its own field.
LEMMA AddedAlign ==
  ASSUME TypeOK, Change, ~Cleared, NEW i \in DOMAIN constructs.elems, NEW name \in FieldNames,
         NEW ft \in FieldTypes, NEW opt \in Offsets \cup {NoOffset}, FieldAdded(i, name, ft, opt)
  PROVE  LET c == constructs.elems[i]
             d == constructs'.elems[i]
         IN
         /\ d.packed = c.packed /\ d.alignment = GrownAlign(c, TypeAlign(ft))
         /\ TypeAlign(ft)' = TypeAlign(ft)
<1>1. PICK c \in ConstructRecord : c = constructs.elems[i]
  BY UtArrayFacts DEF TypeOK
<1>2. PICK align \in Alignments : align = TypeAlign(ft)
  BY SizeAlignType
<1>3. PICK d : d = WithField(c, name, ft, opt)
  OBVIOUS
<1>4. TypeSize(ft) >= 0 /\ SameConstruct(d, constructs'.elems[i])
  BY <1>1, <1>3 DEF FieldAdded
<1>5. d.packed = c.packed /\ d.alignment = GrownAlign(c, align)
  BY <1>2, <1>3, <1>4, WithFieldFacts
<1>6. constructs'.elems[i].packed = c.packed /\ constructs'.elems[i].alignment = GrownAlign(c, align)
  BY <1>4, <1>5 DEF SameConstruct
<1>7. TypeAlign(ft)' = TypeAlign(ft)
  <2>1. CASE ft # [kind |-> "construct", id |-> i]
    BY <2>1, TargetOfField, FieldTypeFacts, SameTargetFacts
  <2>2. CASE ft = [kind |-> "construct", id |-> i]
    <3>1. TypeAlign(ft) = c.alignment /\ TypeAlign(ft)' = constructs'.elems[i].alignment
      BY <1>1, <2>2 DEF TypeAlign
    <3>2. GrownAlign(c, c.alignment) = c.alignment
      BY DEF GrownAlign, MaxOf, ConstructRecord
    <3>3. QED BY <1>2, <1>6, <3>1, <3>2
  <2>3. QED BY <2>1, <2>2
<1>8. QED BY <1>1, <1>2, <1>6, <1>7

LEMMA FitStep ==
  ASSUME TypeOK, TypeOK', Change, ~Cleared, RefsFrozen, FieldsFit
  PROVE  FieldsFit'
<1> SUFFICES ASSUME NEW i \in DOMAIN constructs'.elems, ~constructs'.elems[i].packed,
                    NEW j \in DOMAIN constructs'.elems[i].fields.elems,
                    NEW f, f = constructs'.elems[i].fields.elems[j],
                    NEW alignment, alignment = constructs'.elems[i].alignment,
                    NEW ft, ft = f.field_type
             PROVE  TypeAlign(ft)' <= alignment /\ (f.user_offset \/ f.offset % TypeAlign(ft)' = 0)
  BY DEF FieldsFit, FieldFits
<1>1. CASE /\ i \in DOMAIN constructs.elems /\ j \in DOMAIN constructs.elems[i].fields.elems
           /\ f = constructs.elems[i].fields.elems[j]
  <2>1. PICK c \in ConstructRecord : c = constructs.elems[i]
    BY <1>1, UtArrayFacts DEF TypeOK
  <2>2. RefOK(ft)
    BY <1>1 DEF RefsFrozen
  <2>3. PICK align \in Alignments : align = TypeAlign(ft)
    BY <2>2, RefAlign
  <2>4. TypeAlign(ft)' = align
    BY <2>2, <2>3, FrozenStays, SameTargetFacts DEF RefOK
  <2>5. c.packed = constructs'.elems[i].packed /\ c.alignment <= alignment
    <3>1. CASE SameConstruct(c, constructs'.elems[i])
      BY <3>1 DEF SameConstruct, ConstructRecord, Alignments
    <3>2. ASSUME NEW name \in FieldNames, NEW t \in FieldTypes, NEW opt \in Offsets \cup {NoOffset},
                 FieldAdded(i, name, t, opt)
          PROVE  c.packed = constructs'.elems[i].packed /\ c.alignment <= alignment
      <4>1. PICK a \in Alignments : a = TypeAlign(t)
        BY SizeAlignType
      <4>2. c.packed = constructs'.elems[i].packed /\ alignment = GrownAlign(c, a)
        BY <1>1, <2>1, <3>2, <4>1, AddedAlign
      <4>3. GrownAlign(c, a) >= c.alignment /\ GrownAlign(c, a) \in {a, c.alignment}
        BY GrownAlignFacts
      <4>4. a \in Nat /\ c.alignment \in Nat
        BY DEF Alignments, ConstructRecord
      <4>5. QED BY <4>2, <4>3, <4>4
    <3>3. QED BY <1>1, <2>1, <3>1, <3>2, ConstructFate
  <2>6. align <= c.alignment /\ (f.user_offset \/ f.offset % align = 0)
    BY <1>1, <2>1, <2>3, <2>5 DEF FieldsFit, FieldFits
  <2>7. alignment \in Alignments
    <3>1. constructs' \in UtArrayOf(ConstructRecord)
      BY DEF TypeOK
    <3>2. constructs'.elems[i] \in ConstructRecord
      BY <3>1, UtArrayFacts
    <3>3. QED BY <3>2 DEF ConstructRecord
  <2>8. align <= alignment
    BY <2>5, <2>6, <2>7 DEF Alignments, ConstructRecord
  <2>9. QED BY <2>4, <2>6, <2>8
<1>2. ASSUME i \in DOMAIN constructs.elems,
             NEW name \in FieldNames, NEW t \in FieldTypes, NEW opt \in Offsets \cup {NoOffset},
             FieldAdded(i, name, t, opt), f = NewField(constructs.elems[i], name, t, opt)
      PROVE  TypeAlign(ft)' <= alignment /\ (f.user_offset \/ f.offset % TypeAlign(ft)' = 0)
  <2>1. PICK c \in ConstructRecord : c = constructs.elems[i]
    BY <1>2, UtArrayFacts DEF TypeOK
  <2>2. ft = t
    BY <1>2 DEF NewField
  <2>3. PICK align \in Alignments : align = TypeAlign(t)
    BY SizeAlignType
  <2>4. ~c.packed /\ alignment = GrownAlign(c, align) /\ TypeAlign(t)' = align
    BY <1>2, <2>1, <2>3, AddedAlign
  <2>5. alignment >= align /\ alignment \in {align, c.alignment}
    BY <2>4, GrownAlignFacts
  <2>6. align <= alignment
    BY <2>5 DEF Alignments, ConstructRecord
  <2>7. f.offset = FieldOffset(c, opt, align) /\ (opt # NoOffset => f.user_offset)
    <3>1. f = NewField(c, name, t, opt)
      BY <1>2, <2>1
    <3>2. f.offset = FieldOffset(c, opt, align)
      BY <2>3, <3>1 DEF NewField
    <3>3. ASSUME opt # NoOffset PROVE f.user_offset
      <4>1. PICK chosen : chosen = (opt # NoOffset)
        OBVIOUS
      <4>2. chosen = TRUE
        BY <3>3, <4>1
      <4>3. PICK size : size = TypeSize(t)
        OBVIOUS
      <4>4. PICK offset : offset = FieldOffset(c, opt, TypeAlign(t))
        OBVIOUS
      <4>5. f = [name |-> name, field_type |-> t, size |-> size, offset |-> offset,
                 user_offset |-> chosen]
        BY <3>1, <4>1, <4>3, <4>4, Zenon DEF NewField
      <4>6. QED BY <4>2, <4>5
    <3>4. QED BY <3>2, <3>3
  <2>8. opt # NoOffset \/ FieldOffset(c, opt, align) % align = 0
    BY <2>4, ChosenOffset
  <2>9. f.user_offset \/ f.offset % align = 0
    BY <2>7, <2>8
  <2>10. QED BY <2>2, <2>4, <2>6, <2>9
<1>3. QED BY <1>1, <1>2, FieldOrigin

LEMMA NothingFits ==
  /\ Init => FieldsFit
  /\ Cleared => FieldsFit'
BY DEF Init, Cleared, EmptyArray, FieldsFit

\* As long as no sum has wrapped around, every field that the library places
\* is aligned for its type, and so it is in every element of an array of its
\* construct.
THEOREM FieldsStayAligned == Spec => []FieldsAligned
<1>1. ASSUME TypeOK, RefsFrozen, FieldsFit, ConstructsLaidOut PROVE FieldsAligned
  <2> SUFFICES ASSUME NEW i \in DOMAIN constructs.elems, NEW c, c = constructs.elems[i],
                      NoWrap(c), ~c.packed
               PROVE  /\ c.total_size % c.alignment = 0
                      /\ \A j \in DOMAIN c.fields.elems : LET f == c.fields.elems[j] IN
                           /\ c.alignment % TypeAlign(f.field_type) = 0
                           /\ f.user_offset \/ f.offset % TypeAlign(f.field_type) = 0
    BY DEF FieldsAligned, Constructs
  <2>1. c \in ConstructRecord /\ LaidOutWell(c)
    BY <1>1, UtArrayFacts DEF TypeOK, ConstructsLaidOut
  <2>2. c.total_size % c.alignment = 0
    BY <2>1, WellIsApart
  <2>3. ASSUME NEW j \in DOMAIN c.fields.elems, NEW f, f = c.fields.elems[j]
        PROVE  /\ c.alignment % TypeAlign(f.field_type) = 0
               /\ f.user_offset \/ f.offset % TypeAlign(f.field_type) = 0
    <3>1. RefOK(f.field_type) /\ FieldFits(c.alignment, f)
      BY <1>1, <2>3 DEF RefsFrozen, FieldsFit
    <3>2. TypeAlign(f.field_type) \in Alignments /\ c.alignment \in Alignments
      BY <1>1, <2>1, <3>1, RefAlign DEF ConstructRecord
    <3>3. QED BY <3>1, <3>2, AlignmentsDivide DEF FieldFits
  <2>4. QED BY <2>2, <2>3
<1> DEFINE Inv == TypeOK /\ RefsFrozen /\ CopiedSizesStay /\ FieldsFit /\ ConstructsLaidOut
<1>2. Init => Inv
  BY RefsInductive, NothingFits, InitLayout
<1>3. Inv /\ [Next]_vars => Inv'
  BY EveryStep, RefsInductive, FitStep, NothingFits, LayoutStep
<1>4. Inv => FieldsAligned
  BY <1>1
<1> HIDE DEF Inv
<1>5. QED BY <1>2, <1>3, <1>4, PTL DEF Spec

------------------------------------------------------------------------------
(* The host.                                                               *)

\* An integer type that the code finds has the size it was asked for.
LEMMA IntOfSize ==
  ASSUME NEW sign \in BOOLEAN, NEW sz, GetInt(sign, sz) # Einval
  PROVE  GetInt(sign, sz) \in DataTypes /\ DataTypeSize[GetInt(sign, sz)] = sz
<1>1. \E i \in DOMAIN IntSizes : IntSizes[i] = sz
  BY DEF GetInt
<1>2. DOMAIN IntSizes = 1 .. 5
  BY DEF IntSizes
<1>3. PICK i \in 1 .. 5 : i = CHOOSE j \in DOMAIN IntSizes : IntSizes[j] = sz
  BY <1>1, <1>2
<1>4. IntSizes[i] = sz
  BY <1>1, <1>3
<1>5. PICK bit \in {0, 1} : bit = IF sign THEN 0 ELSE 1
  OBVIOUS
<1>6. GetInt(sign, sz) = 2 * (i - 1) + bit
  BY <1>1, <1>3, <1>5 DEF GetInt
<1>7. 2 * (i - 1) + bit \in DataTypes
  BY DEF DataTypes
<1>8. DataTypeSize[2 * (i - 1) + bit] = IntSizes[i]
  BY <1>7 DEF DataTypeSize, IntSizes
<1>9. QED BY <1>4, <1>6, <1>7, <1>8

\* What the host stands in for a C type has its size.
LEMMA HostSize ==
  ASSUME ~HostRefused, NEW t \in AllMappedTypes
  PROVE  DataTypeSize[HostMap[t]] = SizeOf[t]
<1>1. PICK name \in {MappedTypeNames[i] : i \in DOMAIN MappedTypeNames} : t = NumberOf(name)
  BY DEF AllMappedTypes
<1>2. PICK k \in DOMAIN MappedTypeNames :
        k = CHOOSE i \in DOMAIN MappedTypeNames : MappedTypeNames[i] = name
  BY <1>1
<1>3. MappedTypeNames[k] = name
  BY <1>1, <1>2
<1>4. k \in Nat /\ t = 511 + k
  BY <1>1, <1>2 DEF NumberOf, MappedTypeNames
<1>5. HostMap[t] = Filled(name)
  <2>1. t - 511 = k
    BY <1>4
  <2>2. QED BY <1>3, <2>1 DEF HostMap
<1>6. Filled(name) # Einval
  BY <1>2, <1>3 DEF HostRefused
<1>7. name \in SignedTypes \cup UnsignedTypes \cup {"FLOAT", "DOUBLE", "HALF"}
  BY <1>2, <1>3 DEF MappedTypeNames, SignedTypes, UnsignedTypes
<1>8. CASE name \in SignedTypes
  <2>1. Filled(name) = GetInt(TRUE, SizeOf[t])
    BY <1>1, <1>8 DEF Filled, SignedTypes, UnsignedTypes
  <2>2. QED BY <1>5, <1>6, <2>1, IntOfSize
<1>9. CASE name \in UnsignedTypes
  <2>1. Filled(name) = GetInt(FALSE, SizeOf[t])
    BY <1>1, <1>9 DEF Filled, SignedTypes, UnsignedTypes
  <2>2. QED BY <1>5, <1>6, <2>1, IntOfSize
<1>10. CASE name = "FLOAT"
  <2>1. Filled(name) = 12 /\ SizeOf[t] = 4
    BY <1>1, <1>6, <1>10 DEF Filled, SignedTypes, UnsignedTypes
  <2>2. DataTypeSize[12] = 4
    BY DEF DataTypeSize, DataTypes
  <2>3. QED BY <1>5, <2>1, <2>2
<1>11. CASE name = "DOUBLE"
  <2>1. Filled(name) = 13 /\ SizeOf[t] = 8
    BY <1>1, <1>6, <1>11 DEF Filled, SignedTypes, UnsignedTypes
  <2>2. DataTypeSize[13] = 8
    BY DEF DataTypeSize, DataTypes
  <2>3. QED BY <1>5, <2>1, <2>2
<1>12. CASE name = "HALF"
  <2>1. Filled(name) = 10 /\ SizeOf[t] = 2
    BY <1>1, <1>12, HalfAssumption DEF Filled, SignedTypes, UnsignedTypes
  <2>2. DataTypeSize[10] = 2
    BY DEF DataTypeSize, DataTypes
  <2>3. QED BY <1>5, <2>1, <2>2
<1>13. QED BY <1>7, <1>8, <1>9, <1>10, <1>11, <1>12

\* On the host, a field of a mapped type has the size of its C type.
THEOREM FieldsAreNative == Spec => []NativeFields
<1>1. RefsFrozen /\ CopiedSizesStay => NativeFields
  <2> SUFFICES ASSUME RefsFrozen, CopiedSizesStay, ~HostRefused,
                      NEW i \in DOMAIN constructs.elems,
                      NEW j \in DOMAIN constructs.elems[i].fields.elems,
                      NEW f, f = constructs.elems[i].fields.elems[j],
                      f.field_type.kind = "mapped"
               PROVE  f.size = SizeOf[f.field_type.id]
    BY DEF NativeFields, Constructs
  <2>1. f.field_type.id \in MappedTypes
    BY DEF RefsFrozen, RefOK
  <2>2. f.size = TypeSize(f.field_type)
    <3>1. \/ f.field_type = [kind |-> "construct", id |-> i]
          \/ f.size = TypeSize(f.field_type)
      BY Zenon DEF CopiedSizesStay
    <3>2. f.field_type # [kind |-> "construct", id |-> i]
      OBVIOUS
    <3>3. QED BY <3>1, <3>2
  <2>3. TypeSize(f.field_type) = DataTypeSize[TypeMap[f.field_type.id]]
    BY DEF TypeSize
  <2>4. QED BY <2>1, <2>2, <2>3, HostAssumption, HostSize
<1>2. QED BY <1>1, RefsInductive, PTL DEF Spec

------------------------------------------------------------------------------
(* The sizes of arrays.                                                    *)

\* What a recursive definition of the products computes, up to n factors.
Multiplied(f, n, e, c) ==
  /\ f \in [0 .. n -> Nat] /\ f[0] = e
  /\ \A i \in 1 .. n : f[i] = f[i - 1] * c[i]

LEMMA ProductsExist ==
  ASSUME NEW e \in Nat, NEW m \in Nat, NEW c \in [1 .. m -> Nat]
  PROVE  \E f : Multiplied(f, m, e, c)
<1>1. PICK bad : bad = {n \in 0 .. m : ~\E f : Multiplied(f, n, e, c)}
  OBVIOUS
<1>2. ASSUME NEW n \in bad, \A k \in bad : n <= k
      PROVE  FALSE
  <2>1. n \in 0 .. m /\ ~\E f : Multiplied(f, n, e, c)
    BY <1>1
  <2>2. CASE n = 0
    <3>1. PICK f : f = [i \in 0 .. 0 |-> e]
      OBVIOUS
    <3>2. Multiplied(f, 0, e, c)
      BY <3>1 DEF Multiplied
    <3>3. QED BY <2>1, <2>2, <3>2
  <2>3. CASE n # 0
    <3>1. n - 1 \in 0 .. m /\ n - 1 \notin bad /\ n \in 1 .. m
      BY <1>2, <2>1, <2>3
    <3>2. PICK f : Multiplied(f, n - 1, e, c)
      BY <1>1, <3>1
    <3>3. f \in [0 .. n - 1 -> Nat] /\ f[0] = e
      BY <3>2 DEF Multiplied
    <3>4. PICK last \in Nat : last = f[n - 1] * c[n]
      <4>1. f[n - 1] \in Nat /\ c[n] \in Nat
        BY <3>1, <3>3
      <4>2. QED BY <4>1
    <3>5. PICK g : g = [i \in 0 .. n |-> IF i = n THEN last ELSE f[i]]
      OBVIOUS
    <3>6. g \in [0 .. n -> Nat] /\ g[0] = e /\ g[n] = last
      BY <3>1, <3>3, <3>5
    <3>7. ASSUME NEW i \in 1 .. n PROVE g[i] = g[i - 1] * c[i]
      <4>1. g[i - 1] = f[i - 1]
        BY <3>1, <3>5
      <4>2. CASE i = n
        BY <3>4, <3>6, <4>1, <4>2
      <4>3. CASE i # n
        <5>1. i \in 1 .. n - 1
          BY <3>1, <4>3
        <5>2. f[i] = f[i - 1] * c[i]
          BY <3>2, <5>1 DEF Multiplied
        <5>3. g[i] = f[i]
          BY <3>5, <4>3
        <5>4. QED BY <4>1, <5>2, <5>3
      <4>4. QED BY <4>2, <4>3
    <3>8. QED BY <2>1, <3>6, <3>7 DEF Multiplied
  <2>4. QED BY <2>2, <2>3
<1>3. bad = {}
  <2>1. bad \subseteq Nat
    BY <1>1
  <2>2. QED BY <1>2, <2>1, LeastExists
<1>4. QED BY <1>1, <1>3

\* They are what any function of the same recurrence computes.
LEMMA ProductsUnique ==
  ASSUME NEW e \in Nat, NEW m \in Nat, NEW c, NEW f, Multiplied(f, m, e, c),
         NEW g, g[0] = e, \A i \in 1 .. m : g[i] = g[i - 1] * c[i]
  PROVE  \A i \in 0 .. m : g[i] = f[i]
<1>1. PICK bad : bad = {i \in 0 .. m : g[i] # f[i]}
  OBVIOUS
<1>2. ASSUME NEW i \in bad, \A k \in bad : i <= k
      PROVE  FALSE
  <2>1. i \in 0 .. m /\ g[i] # f[i]
    BY <1>1
  <2>2. i # 0
    BY <2>1 DEF Multiplied
  <2>3. i \in 1 .. m /\ i - 1 \in 0 .. m /\ i - 1 \notin bad
    BY <1>2, <2>1, <2>2
  <2>4. g[i - 1] = f[i - 1]
    BY <1>1, <2>3
  <2>5. g[i] = g[i - 1] * c[i] /\ f[i] = f[i - 1] * c[i]
    BY <2>3 DEF Multiplied
  <2>6. QED BY <2>1, <2>4, <2>5
<1>3. bad = {}
  <2>1. bad \subseteq Nat
    BY <1>1
  <2>2. QED BY <1>2, <2>1, LeastExists
<1>4. QED BY <1>1, <1>3

\* Without a zero among the factors the products do not shrink.
LEMMA ProductsGrow ==
  ASSUME NEW e \in Nat, NEW m \in Nat, NEW c \in [1 .. m -> Nat \ {0}],
         NEW f, Multiplied(f, m, e, c)
  PROVE  \A i \in 0 .. m : f[i] >= e
<1>1. PICK bad : bad = {i \in 0 .. m : ~(f[i] >= e)}
  OBVIOUS
<1>2. ASSUME NEW i \in bad, \A k \in bad : i <= k
      PROVE  FALSE
  <2>1. i \in 0 .. m /\ ~(f[i] >= e)
    BY <1>1
  <2>2. i # 0
    BY <2>1 DEF Multiplied
  <2>3. i \in 1 .. m /\ i - 1 \in 0 .. m /\ i - 1 \notin bad
    BY <1>2, <2>1, <2>2
  <2>4. f[i - 1] >= e /\ f[i - 1] \in Nat
    BY <1>1, <2>3 DEF Multiplied
  <2>5. f[i] = f[i - 1] * c[i] /\ c[i] \in Nat \ {0}
    BY <2>3 DEF Multiplied
  <2>6. f[i - 1] * c[i] >= f[i - 1]
    BY <2>4, <2>5
  <2>7. QED BY <2>1, <2>4, <2>5, <2>6
<1>3. bad = {}
  <2>1. bad \subseteq Nat
    BY <1>1
  <2>2. QED BY <1>2, <2>1, LeastExists
<1>4. QED BY <1>1, <1>3

\* The model's recursive definition exists, and is such a function.
LEMMA ProductsFacts ==
  ASSUME NEW e \in Nat, NEW dims \in Seq(Dimensions)
  PROVE  Multiplied(Products(e, dims), Len(dims), e,
                    [i \in 1 .. Len(dims) |-> ExtentCount(dims[i])])
<1>1. PICK m \in Nat : m = Len(dims) /\ DOMAIN dims = 1 .. m
  BY LenProperties
<1>2. PICK c : c = [i \in 1 .. m |-> ExtentCount(dims[i])]
  OBVIOUS
<1>3. c \in [1 .. m -> Nat]
  <2>1. \A i \in 1 .. m : ExtentCount(dims[i]) \in Nat
    BY <1>1, ElementOfSeq, ExtentTypes DEF SizeT
  <2>2. QED BY <1>2, <2>1
<1>4. PICK f : Multiplied(f, m, e, c)
  BY <1>3, ProductsExist
<1> DEFINE Rec(g) == [n \in 0 .. m |-> IF n = 0 THEN e ELSE g[n - 1] * ExtentCount(dims[n])]
<1>5. f = Rec(f)
  <2>1. f \in [0 .. m -> Nat] /\ f[0] = e
    BY <1>4 DEF Multiplied
  <2>2. ASSUME NEW n \in 0 .. m PROVE f[n] = Rec(f)[n]
    <3>1. CASE n = 0
      BY <2>1, <3>1
    <3>2. CASE n # 0
      <4>1. n \in 1 .. m
        BY <1>1, <3>2
      <4>2. f[n] = f[n - 1] * c[n] /\ c[n] = ExtentCount(dims[n])
        BY <1>2, <1>4, <4>1 DEF Multiplied
      <4>3. QED BY <3>2, <4>2
    <3>3. QED BY <3>1, <3>2
  <2>3. QED BY <2>1, <2>2
<1>6. PICK g : g = Products(e, dims)
  OBVIOUS
<1>7. g = Rec(g)
  <2>1. g = CHOOSE h : h = Rec(h)
    BY <1>1, <1>6 DEF Products
  <2>2. QED BY <1>5, <2>1
<1>8. g[0] = e /\ \A n \in 1 .. m : g[n] = g[n - 1] * c[n]
  BY <1>1, <1>2, <1>7
<1>9. \A n \in 0 .. m : g[n] = f[n]
  BY <1>1, <1>4, <1>8, ProductsUnique
<1>10. g = f
  BY <1>4, <1>7, <1>9 DEF Multiplied
<1>11. QED BY <1>1, <1>2, <1>4, <1>6, <1>10

\* One more dimension is one more factor.
LEMMA ProductsExtended ==
  ASSUME NEW e \in Nat, NEW dims \in Seq(Dimensions), NEW dim \in Dimensions
  PROVE  /\ Products(e, dims)[Len(dims)] \in Nat
         /\ Products(e, Append(dims, dim))[Len(dims) + 1]
              = Products(e, dims)[Len(dims)] * ExtentCount(dim)
         /\ Len(dims) = 0 => Products(e, dims)[Len(dims)] = e
<1> DEFINE more == Append(dims, dim)
<1>1. PICK m \in Nat : m = Len(dims)
  BY LenProperties
<1>2. /\ more \in Seq(Dimensions) /\ Len(more) = m + 1 /\ more[m + 1] = dim
      /\ \A i \in 1 .. m : more[i] = dims[i]
  BY <1>1, AppendProperties
<1>3. PICK c, d : /\ c = [i \in 1 .. m |-> ExtentCount(dims[i])]
                  /\ d = [i \in 1 .. m + 1 |-> ExtentCount(more[i])]
  OBVIOUS
<1>4. PICK f, g : f = Products(e, dims) /\ g = Products(e, more)
  OBVIOUS
<1>5. Multiplied(f, m, e, c) /\ Multiplied(g, m + 1, e, d)
  BY <1>1, <1>2, <1>3, <1>4, ProductsFacts
<1>6. g[0] = e /\ \A i \in 1 .. m : g[i] = g[i - 1] * c[i]
  <2>1. ASSUME NEW i \in 1 .. m PROVE g[i] = g[i - 1] * c[i]
    <3>1. i \in 1 .. m + 1 /\ more[i] = dims[i]
      BY <1>2
    <3>2. d[i] = c[i]
      BY <1>3, <3>1
    <3>3. QED BY <1>5, <3>1, <3>2 DEF Multiplied
  <2>2. QED BY <1>5, <2>1 DEF Multiplied
<1>7. g[m] = f[m]
  <2>1. \A i \in 0 .. m : g[i] = f[i]
    BY <1>5, <1>6, ProductsUnique
  <2>2. QED BY <1>1, <2>1
<1>8. g[m + 1] = g[m] * ExtentCount(dim)
  <2>1. m + 1 \in 1 .. m + 1 /\ (m + 1) - 1 = m
    BY <1>1
  <2>2. d[m + 1] = ExtentCount(dim)
    BY <1>2, <1>3, <2>1
  <2>3. g[m + 1] = g[(m + 1) - 1] * d[m + 1]
    BY <1>5, <2>1 DEF Multiplied
  <2>4. QED BY <2>1, <2>2, <2>3
<1>9. f[m] \in Nat /\ f[0] = e
  <2>1. f \in [0 .. m -> Nat] /\ f[0] = e /\ m \in 0 .. m
    BY <1>5 DEF Multiplied
  <2>2. QED BY <2>1
<1>10. QED BY <1>1, <1>2, <1>4, <1>7, <1>8, <1>9

\* Without an extent of 0, only an array of nothing has no size.
LEMMA ProductsVanish ==
  ASSUME NEW e \in Nat, NEW dims \in Seq(Dimensions),
         \A i \in DOMAIN dims : ExtentCount(dims[i]) # 0
  PROVE  Products(e, dims)[Len(dims)] >= e
<1>1. PICK m \in Nat : m = Len(dims) /\ DOMAIN dims = 1 .. m
  BY LenProperties
<1>2. PICK c : c = [i \in 1 .. m |-> ExtentCount(dims[i])]
  OBVIOUS
<1>3. c \in [1 .. m -> Nat \ {0}]
  <2>1. \A i \in 1 .. m : ExtentCount(dims[i]) \in Nat \ {0}
    BY <1>1, ElementOfSeq, ExtentTypes DEF SizeT
  <2>2. QED BY <1>2, <2>1
<1>4. Multiplied(Products(e, dims), m, e, c)
  BY <1>1, <1>2, ProductsFacts
<1>5. QED BY <1>1, <1>3, <1>4, ProductsGrow

\* What a dimension makes of an array's size, for sizes that fit.
LEMMA ExtendedByFixed ==
  ASSUME NEW total \in Nat, NEW elem \in Nat, NEW dim \in Dimensions,
         ExtentType(dim) = "fixed",
         NEW size \in Nat, size = IF total = 0 THEN elem ELSE total,
         size * ExtentCount(dim) < SizeMod \div 2
  PROVE  Extended(total, elem, dim) = size * ExtentCount(dim)
<1>1. PICK n \in Nat : n = ExtentCount(dim)
  BY ExtentTypes DEF SizeT
<1>2. PICK x \in Nat : x = size * n
  OBVIOUS
<1>3. SizeMod \in Nat \ {0} /\ x < SizeMod \div 2
  BY <1>1, <1>2, SizeModFacts
<1>4. x \in 0 .. SizeMod - 1
  BY <1>3
<1>5. x % SizeMod = x
  BY <1>3, <1>4
<1>6. Signed(x % SizeMod) = x
  BY <1>3, <1>5 DEF Signed
<1>7. CASE total = 0
  <2>1. Extended(total, elem, dim) = Signed((elem * n) % SizeMod)
    BY <1>1, <1>7 DEF Extended
  <2>2. QED BY <1>1, <1>2, <1>6, <1>7, <2>1
<1>8. CASE total # 0
  <2>1. total > 0
    BY <1>8
  <2>2. Extended(total, elem, dim) = Signed((total * n) % SizeMod)
    BY <1>1, <1>8, <2>1 DEF Extended
  <2>3. QED BY <1>1, <1>2, <1>6, <1>8, <2>2
<1>9. QED BY <1>7, <1>8

\* The invariant: ArraySizesRight, and an array starts without a size.
Sized(a) ==
  /\ Len(a.dimensions.elems) = 0 => a.total_size = 0
  /\ Dynamic(a) => a.total_size = -1
  /\ /\ ~Dynamic(a) /\ ~HasZero(a) /\ a.elem_size >= 0
     /\ Len(a.dimensions.elems) > 0 /\ FullSize(a) < SizeMod \div 2
     => a.total_size = FullSize(a)

ArraysSized == \A i \in DOMAIN arrays.elems : Sized(arrays.elems[i])

LEMMA SizedIfSame ==
  ASSUME NEW a, NEW b, SameArray(a, b), Sized(a)
  PROVE  Sized(b)
BY DEF SameArray, Sized, Dynamic, HasZero, FullSize

\* It is kept when a dimension is added: a product that fits has factors
\* that fit, for lack of zeros.
LEMMA SizedGrows ==
  ASSUME NEW a \in ArrayRecord, Sized(a), NEW dim \in Dimensions,
         NEW b \in ArrayRecord, b.elem_size = a.elem_size,
         b.total_size = Extended(a.total_size, a.elem_size, dim),
         b.dimensions.elems = Append(a.dimensions.elems, dim)
  PROVE  Sized(b)
<1>1. PICK dims \in Seq(Dimensions) : dims = a.dimensions.elems
  BY UtArrayFacts DEF ArrayRecord
<1>2. PICK more : more = Append(dims, dim)
  OBVIOUS
<1>3. PICK m \in Nat : m = Len(dims) /\ DOMAIN dims = 1 .. m
  BY LenProperties
<1>4. /\ b.dimensions.elems = more
      /\ Len(more) = m + 1 /\ DOMAIN more = 1 .. m + 1 /\ more[m + 1] = dim
      /\ \A i \in 1 .. m : more[i] = dims[i]
  BY <1>1, <1>2, <1>3, AppendProperties
<1>5. PICK total \in Int, elem \in Int : total = a.total_size /\ elem = a.elem_size
  BY SizeModFacts DEF ArrayRecord, SSizeT
<1>6. b.total_size = Extended(total, elem, dim) /\ b.elem_size = elem
  BY <1>5
<1>7. Len(b.dimensions.elems) # 0
  BY <1>3, <1>4
<1>8. ASSUME Dynamic(b) PROVE b.total_size = -1
  <2>1. CASE ExtentType(dim) = "variable"
    BY <1>6, <2>1 DEF Extended
  <2>2. CASE ExtentType(dim) # "variable"
    <3>1. PICK i \in 1 .. m + 1 : ExtentType(more[i]) = "variable"
      BY <1>4, <1>8 DEF Dynamic
    <3>2. i \in 1 .. m /\ ExtentType(dims[i]) = "variable"
      BY <1>3, <1>4, <2>2, <3>1
    <3>3. total = -1
      BY <1>1, <1>3, <1>5, <3>2 DEF Sized, Dynamic
    <3>4. Extended(-1, elem, dim) = -1
      BY <2>2 DEF Extended
    <3>5. QED BY <1>6, <3>3, <3>4
  <2>3. QED BY <2>1, <2>2
<1>9. ASSUME ~Dynamic(b), ~HasZero(b), elem >= 0, FullSize(b) < SizeMod \div 2
      PROVE  b.total_size = FullSize(b)
  <2>1. \A i \in 1 .. m + 1 : ExtentType(more[i]) # "variable" /\ ExtentCount(more[i]) # 0
    BY <1>4, <1>9 DEF Dynamic, HasZero
  <2>2. \A i \in 1 .. m : ExtentType(dims[i]) # "variable" /\ ExtentCount(dims[i]) # 0
    BY <1>3, <1>4, <2>1
  <2>3. ExtentType(dim) = "fixed" /\ ExtentCount(dim) # 0
    <3>1. m + 1 \in 1 .. m + 1
      BY <1>3
    <3>2. QED BY <1>4, <2>1, <3>1, ExtentTypes
  <2>4. PICK n \in Nat \ {0} : n = ExtentCount(dim)
    BY <2>3, ExtentTypes DEF SizeT
  <2>5. ~Dynamic(a) /\ ~HasZero(a)
    BY <1>1, <1>3, <2>2 DEF Dynamic, HasZero
  <2>6. PICK e \in Nat : e = elem
    BY <1>9
  <2>7. /\ Products(e, dims)[Len(dims)] \in Nat
        /\ Products(e, more)[Len(dims) + 1] = Products(e, dims)[Len(dims)] * ExtentCount(dim)
        /\ Len(dims) = 0 => Products(e, dims)[Len(dims)] = e
    BY <1>2, ProductsExtended
  <2>8. PICK full \in Nat : full = Products(e, dims)[Len(dims)]
    BY <2>7
  <2>9. FullSize(b) = full * n /\ (m = 0 => full = e)
    <3>1. FullSize(b) = Products(e, more)[Len(dims) + 1]
      BY <1>3, <1>4, <1>6, <2>6 DEF FullSize
    <3>2. QED BY <1>3, <2>4, <2>7, <2>8, <3>1
  <2>10. full >= e
    BY <1>3, <2>2, <2>8, ProductsVanish
  <2>11. full <= full * n
    OBVIOUS
  <2>12. full < SizeMod \div 2
    BY <1>9, <2>4, <2>8, <2>9, <2>11, SizeModFacts
  <2>13. total = IF m = 0 THEN 0 ELSE full
    <3>1. CASE m = 0
      BY <1>1, <1>3, <1>5, <3>1 DEF Sized
    <3>2. CASE m # 0
      <4>1. m > 0 /\ FullSize(a) = full
        BY <1>1, <1>3, <1>5, <2>6, <2>8, <3>2 DEF FullSize
      <4>2. QED BY <1>1, <1>3, <1>5, <1>9, <2>5, <2>12, <3>2, <4>1 DEF Sized
    <3>3. QED BY <3>1, <3>2
  <2>14. total \in Nat /\ full = IF total = 0 THEN e ELSE total
    <3>1. m = 0 => full = e
      BY <2>9
    <3>2. QED BY <2>8, <2>10, <2>13, <3>1
  <2>15. Extended(total, e, dim) = full * n
    <3>1. full * ExtentCount(dim) < SizeMod \div 2
      BY <1>9, <2>4, <2>9
    <3>2. Extended(total, e, dim) = full * ExtentCount(dim)
      BY <2>3, <2>8, <2>14, <3>1, ExtendedByFixed
    <3>3. QED BY <2>4, <3>2
  <2>16. QED BY <1>6, <2>6, <2>9, <2>15
<1>10. QED BY <1>6, <1>7, <1>8, <1>9 DEF Sized

LEMMA SizedStep ==
  ASSUME TypeOK, TypeOK', Change, ArraysSized
  PROVE  ArraysSized'
<1>1. CASE Cleared
  BY <1>1 DEF Cleared, EmptyArray, ArraysSized
<1>2. CASE ~Cleared
  <2> SUFFICES ASSUME NEW i \in DOMAIN arrays'.elems
               PROVE  Sized(arrays'.elems[i])
    BY DEF ArraysSized
  <2>1. CASE i \in DOMAIN arrays.elems
    <3>1. CASE SameArray(arrays.elems[i], arrays'.elems[i])
      BY <2>1, <3>1, SizedIfSame DEF ArraysSized
    <3>2. ASSUME NEW dim \in Dimensions, DimensionAdded(i, dim)
          PROVE  Sized(arrays'.elems[i])
      <4>1. arrays \in UtArrayOf(ArrayRecord) /\ arrays' \in UtArrayOf(ArrayRecord)
        BY DEF TypeOK
      <4>2. PICK a \in ArrayRecord : a = arrays.elems[i]
        BY <2>1, <4>1, UtArrayFacts
      <4>3. PICK b \in ArrayRecord : b = arrays'.elems[i]
        BY <4>1, UtArrayFacts
      <4>4. Sized(a)
        BY <2>1, <4>2 DEF ArraysSized
      <4>5. /\ b.elem_size = a.elem_size
            /\ b.total_size = Extended(a.total_size, a.elem_size, dim)
            /\ b.dimensions.elems = Append(a.dimensions.elems, dim)
        BY <3>2, <4>2, <4>3 DEF DimensionAdded
      <4>6. QED BY <4>3, <4>4, <4>5, SizedGrows
    <3>3. QED BY <1>2, <2>1, <3>1, <3>2, ArrayFate
  <2>2. ASSUME i \notin DOMAIN arrays.elems, NEW ft \in FieldTypes, ArrayAdded(ft),
               i = Len(arrays.elems) + 1
        PROVE  Sized(arrays'.elems[i])
    <3>1. SameArray(NewArray(ft), arrays'.elems[i])
      BY <2>2 DEF ArrayAdded
    <3>2. Sized(NewArray(ft))
      BY DEF NewArray, EmptyArray, Sized, Dynamic
    <3>3. QED BY <3>1, <3>2, SizedIfSame
  <2>3. QED BY <1>2, <2>1, <2>2, ArrayOrigin
<1>3. QED BY <1>1, <1>2

\* The size of an array is -1 once an extent is dynamic, and otherwise that of
\* an element times every extent, in whatever order the dimensions came, when
\* no extent is 0 and the product is in range.
THEOREM ArraysKeepTheirSize == Spec => []ArraySizesRight
<1> DEFINE Inv == TypeOK /\ ArraysSized
<1>1. Init => Inv
  BY RefsInductive DEF Init, EmptyArray, ArraysSized
<1>2. Inv /\ [Next]_vars => Inv'
  BY EveryStep, SizedStep
<1>3. Inv => ArraySizesRight
  BY DEF ArraysSized, Sized, ArraySizesRight, Arrays
<1> HIDE DEF Inv
<1>4. QED BY <1>1, <1>2, <1>3, PTL DEF Spec

=============================================================================
