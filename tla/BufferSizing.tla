---------------------------- MODULE BufferSizing ----------------------------
(***************************************************************************)
(* The size that _mam_allocator_alloc asks for when it needs a new buffer. *)
(* A size_t has SizeMod values; the arithmetic wraps around.               *)
(***************************************************************************)
EXTENDS Integers

CONSTANTS
  SizeMod,       \* 2^w for a size_t (and an address) of w bits
  DefaultSize    \* MAM_ALLOC_SIZE_DEFAULT

SizeT == 0 .. SizeMod - 1

\* A power of two: its only odd divisor is 1.
PowerOfTwo(x) == x > 0 /\ \A d \in 2 .. x : x % d = 0 => d % 2 = 0

ASSUME SizeModAssumption == SizeMod \in Nat \ {0, 1} /\ PowerOfTwo(SizeMod)
ASSUME DefaultSizeAssumption == DefaultSize \in SizeT \ {0}

\* Mutants of FirstTry: always the default, always what is held.
FirstTryDefault(total) == DefaultSize
FirstTryTotal(total) == total

\* Where the doubling starts: as much as is held already.
FirstTry(total) == IF total # 0 THEN total ELSE DefaultSize

\* Mutant of ShiftedLeft: no bit is ever lost.
ShiftedUnbounded(s) == 2 * s

\* s <<= 1
ShiftedLeft(s) == (2 * s) % SizeMod

\* What the doublings of a size_t multiply the first try by; the last one
\* shifts out every bit.
Factors == {p \in 1 .. SizeMod : PowerOfTwo(p)}

\* The size after the doublings that make up the factor p.
Candidate(total, p) == (FirstTry(total) * p) % SizeMod

\* The loop that doubles the size until the request is reached: the first
\* candidate that reaches it, or 0 when none does and the loop never ends.
BuffAllocSize(total, size) ==
  LET reaching == {p \in Factors : Candidate(total, p) >= size}
  IN  IF reaching = {} THEN 0
      ELSE Candidate(total, CHOOSE p \in reaching : \A q \in reaching : p <= q)
==============================================================================
