---------------------------- MODULE BufferGrowth ----------------------------
(***************************************************************************)
(* The same loop turn by turn: what MirroredAllocator takes as one step.   *)
(* One behaviour is one call, with any amount held and any size requested. *)
(***************************************************************************)
EXTENDS BufferSizing

VARIABLES
  total_size,      \* allocator->total_size at the call
  size,            \* the size requested
  buff_alloc_sz,   \* the candidate size
  pc               \* "loop", then "done" when the loop is left

vars == <<total_size, size, buff_alloc_sz, pc>>

Init ==
  /\ total_size \in SizeT
  /\ size \in SizeT \ {0}
  /\ buff_alloc_sz = FirstTry(total_size)
  /\ pc = "loop"

\* Mutant of Double: <= for <.
DoubleAtEquality ==
  /\ pc = "loop" /\ buff_alloc_sz <= size
  /\ buff_alloc_sz' = ShiftedLeft(buff_alloc_sz)
  /\ UNCHANGED <<total_size, size, pc>>

\* The condition of the loop holds: one more doubling.
Double ==
  /\ pc = "loop" /\ buff_alloc_sz < size
  /\ buff_alloc_sz' = ShiftedLeft(buff_alloc_sz)
  /\ UNCHANGED <<total_size, size, pc>>

\* Mutants of Leave: the loop is left at once; > for >=.
LeaveAtOnce ==
  /\ pc = "loop"
  /\ pc' = "done"
  /\ UNCHANGED <<total_size, size, buff_alloc_sz>>
LeavePastEquality ==
  /\ pc = "loop" /\ buff_alloc_sz > size
  /\ pc' = "done"
  /\ UNCHANGED <<total_size, size, buff_alloc_sz>>

\* It does not: the buffer is asked for.
Leave ==
  /\ pc = "loop" /\ buff_alloc_sz >= size
  /\ pc' = "done"
  /\ UNCHANGED <<total_size, size, buff_alloc_sz>>

Next == Double \/ Leave

\* The thread that runs the loop is not stopped.
Spec == Init /\ [][Next]_vars /\ WF_vars(Next)

------------------------------------------------------------------------------
TypeOK ==
  /\ total_size \in SizeT
  /\ size \in SizeT \ {0}
  /\ buff_alloc_sz \in SizeT
  /\ pc \in {"loop", "done"}

\* The loop computes the function that the allocator's model uses.
LoopComputesBuffAllocSize ==
  pc = "done" => buff_alloc_sz = BuffAllocSize(total_size, size)

\* The buffer asked for holds the request, and the doubling does not
\* overshoot: it is the first try or less than twice the request.
FitsWithoutExcess ==
  /\ pc = "done" => buff_alloc_sz >= size
  /\ buff_alloc_sz # FirstTry(total_size) => buff_alloc_sz < 2 * size

\* The candidate reaches 0, from where it never moves, only for a request
\* larger than half the address space.
ZeroOnlyForHuge == buff_alloc_sz = 0 => 2 * size > SizeMod

\* The loop ends for every request of at most half the address space.
EndsUnlessHuge == (size <= SizeMod \div 2) ~> (pc = "done")
==============================================================================
