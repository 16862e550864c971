------------------------------- MODULE UtArray -------------------------------
(***************************************************************************)
(* The growable array of src/utarray.h, as far as the library uses it.     *)
(*                                                                         *)
(* An array is a record: `elems` is what has been pushed (utarray's `i` is *)
(* Len(elems)), `n` the number of slots the header claims, and `room` the  *)
(* number of slots the memory behind `d` really has.  `room` is not a C    *)
(* variable: it is the size given to the last realloc that succeeded, and  *)
(* 0 while `d` is NULL.  Keeping it apart from `n` is the point of the     *)
(* model, because the code updates `n` before it knows that realloc        *)
(* succeeded.                                                              *)
(***************************************************************************)
EXTENDS Naturals, Sequences

CONSTANT FirstSlots   \* slots of the first reservation (8 in the code)

ASSUME FirstSlotsAssumption == FirstSlots \in Nat \ {0}

\* The arrays of elements of a set.
UtArrayOf(set) == [elems : Seq(set), n : Nat, room : Nat]

\* What utarray_new leaves behind: no element, no slot, d = NULL.
EmptyArray == [elems |-> << >>, n |-> 0, room |-> 0]

\* The condition under which utarray_reserve(a, 1) calls realloc.
MustGrow(a) == Len(a.elems) + 1 > a.n

\* The slot count after the doubling loop; one turn is enough for one slot.
Doubled(n) == IF n = 0 THEN FirstSlots ELSE 2 * n

\* A reservation whose realloc returned NULL: `n` has already been doubled,
\* `d` still points to the old memory, and utarray_oom() leaves the macro.
ReserveFailed(a) == [a EXCEPT !.n = Doubled(a.n)]

\* A reservation that succeeds, or that finds a slot free.
Reserved(a) ==
  IF MustGrow(a)
    THEN [a EXCEPT !.n = Doubled(a.n), !.room = Doubled(a.n)]
    ELSE a

\* utarray_push_back would write the element past the memory behind `d`:
\* the header claims a free slot that was never allocated.
PushOverruns(a) == ~MustGrow(a) /\ Len(a.elems) >= a.room

\* utarray_push_back, utarray_pop_back when no error occurs.
PushedBack(a, x) == [Reserved(a) EXCEPT !.elems = Append(@, x)]
PoppedBack(a) == [a EXCEPT !.elems = SubSeq(@, 1, Len(@) - 1)]

\* utarray_len
UtLen(a) == Len(a.elems)
==============================================================================
