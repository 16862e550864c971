----------------------------- MODULE TypeLayout -----------------------------
(***************************************************************************)
(* The arithmetic of src/copy-engine.c: the sizes and alignments of types, *)
(* where mam_construct_add_field puts a field, and how                     *)
(* mam_array_add_dimension extends an array.  A size_t has SizeMod values  *)
(* and wraps around; a ssize_t reads its upper half as negative.           *)
(***************************************************************************)
EXTENDS Integers, Sequences

CONSTANT SizeMod     \* 2^w for a size_t of w bits

SizeT == 0 .. SizeMod - 1
SSizeT == -(SizeMod \div 2) .. (SizeMod \div 2) - 1

\* A size_t has more than 5 bits: the sizes of all data types are in a ssize_t.
ASSUME SizeModAssumption == SizeMod \in Nat \ {0} /\ SizeMod % 64 = 0

\* (ssize_t)x
Signed(x) == IF x < SizeMod \div 2 THEN x ELSE x - SizeMod

\* mam_data_type_size and mam_data_type_align, the types being numbered from
\* 0 as in mam_data_type_e.
DataTypes == 0 .. 13
DataTypeSize == [t \in DataTypes |-> <<1, 1, 2, 2, 4, 4, 8, 8, 16, 16, 2, 2, 4, 8>>[t + 1]]
DataTypeAlign == DataTypeSize

\* The alignments of the data types, and so of every type.
Alignments == {1, 2, 4, 8, 16}

------------------------------------------------------------------------------
(* Constructs.  A construct c has the members type, packed, last_offset,   *)
(* total_size, alignment and fields.                                       *)

\* The bytes from x to the next multiple of align, a power of two.
PadTo(x, align) == IF x % align = 0 THEN 0 ELSE align - (x % align)

\* Mutant of Aligned: the sum has no width.
AlignedUnbounded(x, align) == x + PadTo(x, align)

Aligned(x, align) == (x + PadTo(x, align)) % SizeMod

\* No MAM_FIELD_OPTION_OFFSET among the arguments.
NoOffset == -1

\* Mutant of OffsetRefused: the client may go back before the last field.
OffsetRefusedForUnion(c, opt) == opt # NoOffset /\ c.type = "union" /\ opt # 0

\* The offset asked for is refused while the arguments are read.
OffsetRefused(c, opt) ==
  opt # NoOffset /\ (opt < c.last_offset \/ (c.type = "union" /\ opt # 0))

\* The offset of a field whose type has the given alignment.
FieldOffset(c, opt, align) ==
  CASE opt # NoOffset -> opt
    [] opt = NoOffset /\ c.type = "union" -> 0
    [] opt = NoOffset /\ c.type = "struct" ->
         IF c.packed THEN c.last_offset ELSE Aligned(c.last_offset, align)

MaxOf(x, y) == IF x > y THEN x ELSE y

\* Mutant of GrownAlign: the alignment of the last field wins.
LastAlign(c, align) == IF c.packed THEN c.alignment ELSE align

GrownAlign(c, align) == IF c.packed THEN c.alignment ELSE MaxOf(align, c.alignment)

\* total_size once the field is in, the new alignment being known.
GrownSize(c, offset, size, alignment) ==
  LET end == IF c.type = "struct" THEN (offset + size) % SizeMod
                                  ELSE MaxOf(size, c.total_size)
  IN  IF c.packed THEN end ELSE Aligned(end, alignment)

\* What mam_construct_add_field makes of the layout of c.
LaidOut(c, opt, size, align) ==
  LET offset == FieldOffset(c, opt, align) IN
  [c EXCEPT !.alignment = GrownAlign(c, align),
            !.last_offset = IF c.type = "struct" THEN (offset + size) % SizeMod ELSE @,
            !.total_size = GrownSize(c, offset, size, GrownAlign(c, align))]

------------------------------------------------------------------------------
(* Arrays.  A dimension has the members type and count, padded, and        *)
(* pad_type and pad_count; a count is 0 where the type is "variable".      *)

ExtentType(dim) == IF dim.padded THEN dim.pad_type ELSE dim.type
ExtentCount(dim) == IF dim.padded THEN dim.pad_count ELSE dim.count

\* Mutant of Extended: the padding of a dimension is ignored.
ExtendedUnpadded(total_size, elem_size, dim) ==
  CASE dim.type = "variable" -> -1
    [] dim.type = "fixed" /\ total_size = 0 /\ elem_size >= 0 ->
         Signed((elem_size * dim.count) % SizeMod)
    [] dim.type = "fixed" /\ total_size > 0 ->
         Signed((total_size * dim.count) % SizeMod)
    [] OTHER -> total_size

\* The total size of an array after one more dimension.
Extended(total_size, elem_size, dim) ==
  CASE ExtentType(dim) = "variable" -> -1
    [] ExtentType(dim) = "fixed" /\ total_size = 0 /\ elem_size >= 0 ->
         Signed((elem_size * ExtentCount(dim)) % SizeMod)
    [] ExtentType(dim) = "fixed" /\ total_size > 0 ->
         Signed((total_size * ExtentCount(dim)) % SizeMod)
    [] OTHER -> total_size
==============================================================================
