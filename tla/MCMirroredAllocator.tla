------------------------ MODULE MCMirroredAllocator ------------------------
(***************************************************************************)
(* Values for TLC.  Addresses and sizes are 5 or 6 bits wide and the first *)
(* buffer has 4 or 8 bytes, so that a buffer fills up, is retired and is   *)
(* outgrown, and sums wrap around, after a few calls.                      *)
(***************************************************************************)
EXTENDS MirroredAllocator, TLC

CONSTANTS d1, d2, d3

\* Descriptors are interchangeable: no action tells one from another.
DescSymmetry == Permutations(Descs)
==============================================================================
