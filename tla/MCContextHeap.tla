--------------------------- MODULE MCContextHeap ---------------------------
(***************************************************************************)
(* Values for TLC.  Tables start with 2 buckets, chains of 2 start an      *)
(* expansion.  Of the names of variables two have the same hash value and  *)
(* four stay together in one bucket, so that a table of them expands,      *)
(* raises the expand_mult of that bucket, and at last stops expanding.     *)
(***************************************************************************)
EXTENDS ContextHeap, TLC

CONSTANTS v1, v2, v3, v4, v5, v6, c1, f1, f2, empty

MCHash ==
  v1 :> 0 @@ v2 :> 0 @@ v3 :> 16 @@ v4 :> 32 @@ v5 :> 1 @@ v6 :> 17
    @@ c1 :> 1 @@ f1 :> 2 @@ f2 :> 4 @@ empty :> 3
MCNamesOf ==
  [construct |-> {c1, empty}, field |-> {f1, f2}, variable |-> {v1, v2, v3, v4, v5, v6}]
Most(p, a, d, c, f, v) ==
  [pointer |-> p, array |-> a, dimension |-> d, construct |-> c, field |-> f, variable |-> v]
MCPopulations == {Most(0, 0, 0, 0, 0, 6), Most(0, 0, 0, 1, 2, 1), Most(1, 1, 1, 1, 0, 0)}
==============================================================================
