--------------------------- MODULE MCTypeContext ---------------------------
(***************************************************************************)
(* Values for TLC.  A size_t has 6 bits, so that the offsets near its end  *)
(* that a client may ask for make the sums wrap around.                    *)
(***************************************************************************)
EXTENDS HostTypeMap, TLC

CONSTANTS name1, field1, field2, field3, empty

\* The names of fields are only compared.
NameSymmetry == Permutations({field1, field2, field3})

\* The sizes of the mapped types of a 64 bit host, and two of those types
\* with what the host maps them to.
MCSizeOf ==
  [t \in AllMappedTypes |->
     <<1, 1, 2, 2, 4, 4, 8, 8, 8, 8, 8, 8, 8, 8, 8, 8, 2, 4, 8>>[t - 511]]
MCMappedTypes == {NumberOf("INT"), NumberOf("POINTER")}
MCTypeMap == [t \in MCMappedTypes |-> HostMap[t]]

MCAllKinds == BOOLEAN \X {"struct", "union"}
MCAligned == {FALSE} \X {"struct", "union"}
MCStruct == {<<FALSE, "struct">>}

MCNoMapped == {}
MCNoMap == [t \in {} |-> 0]

Fixed(n) ==
  [type |-> "fixed", count |-> n, padded |-> FALSE, pad_type |-> "fixed", pad_count |-> 0]
Variable ==
  [type |-> "variable", count |-> 0, padded |-> FALSE, pad_type |-> "fixed", pad_count |-> 0]
PaddedTo(n, dim) == [dim EXCEPT !.padded = TRUE, !.pad_count = n]

MCDimensions == {Fixed(0), Fixed(3), Variable, PaddedTo(3, Fixed(2)), PaddedTo(4, Variable)}
MCOneDimension == {Fixed(2)}

\* The objects there may be at most, of each kind.
Most(p, a, d, c, f, v) ==
  [pointer |-> p, array |-> a, dimension |-> d, construct |-> c, field |-> f, variable |-> v]
MCStructOrArrays == {Most(1, 0, 0, 1, 3, 0), Most(0, 2, 3, 0, 0, 0)}
MCTypes == {Most(0, 1, 1, 2, 4, 1)}
MCFailures == {Most(0, 1, 1, 1, 2, 1)}
MCTwoArrays == {Most(0, 2, 4, 0, 0, 0)}
==============================================================================
