-------------------------- MODULE BufferGrowthProofs --------------------------
(***************************************************************************)
(* The doubling loop, for every width of size_t and every default size.    *)
(***************************************************************************)
EXTENDS BufferGrowth, BufferSizingProofs

\* Doubling wraps around only past half of the address space, and then the
\* result is smaller than what was doubled.
LEMMA ShiftFacts ==
  ASSUME NEW s \in SizeT
  PROVE  /\ ShiftedLeft(s) \in SizeT
         /\ 2 * s < SizeMod => ShiftedLeft(s) = 2 * s
         /\ ShiftedLeft(s) <= 2 * s
<1>1. SizeMod \in Nat \ {0}
  BY SizeModAssumption
<1>2. 2 * s \in Nat /\ 2 * s < 2 * SizeMod
  BY <1>1 DEF SizeT
<1>3. (2 * s) % SizeMod \in 0 .. SizeMod - 1
  BY <1>1, <1>2
<1>4. (2 * s) % SizeMod <= 2 * s /\ (2 * s < SizeMod => (2 * s) % SizeMod = 2 * s)
  BY <1>1, <1>2
<1>5. QED BY <1>3, <1>4 DEF ShiftedLeft, SizeT

\* The conjunction is inductive: 0 is reached only by wrapping around, which
\* takes a candidate of at least half the address space, below the request.
Inv ==
  /\ TypeOK
  /\ FitsWithoutExcess
  /\ ZeroOnlyForHuge

LEMMA InitInv == Init => Inv
<1> SUFFICES ASSUME Init PROVE Inv
  OBVIOUS
<1>1. FirstTry(total_size) \in SizeT \ {0}
  BY DefaultSizeAssumption DEF Init, FirstTry, SizeT
<1>2. TypeOK
  BY <1>1 DEF Init, TypeOK
<1>3. QED BY <1>1, <1>2 DEF Init, Inv, FitsWithoutExcess, ZeroOnlyForHuge, SizeT

LEMMA StepInv == Inv /\ [Next]_vars => Inv'
<1> SUFFICES ASSUME Inv, [Next]_vars PROVE Inv'
  OBVIOUS
<1>1. CASE Double
  <2>1. /\ buff_alloc_sz \in SizeT /\ size \in SizeT \ {0} /\ SizeMod \in Nat
        /\ buff_alloc_sz < size /\ pc = "loop"
        /\ buff_alloc_sz' = ShiftedLeft(buff_alloc_sz)
        /\ size' = size /\ total_size' = total_size /\ pc' = pc
    BY <1>1, SizeModAssumption DEF Double, Inv, TypeOK
  <2>2. TypeOK'
    BY <2>1, ShiftFacts DEF Inv, TypeOK
  <2>3. FitsWithoutExcess'
    BY <2>1, ShiftFacts DEF FitsWithoutExcess, SizeT
  <2>4. ZeroOnlyForHuge'
    <3>1. CASE 2 * buff_alloc_sz < SizeMod
      <4>1. buff_alloc_sz' = 2 * buff_alloc_sz
        BY <2>1, <3>1, ShiftFacts
      <4>2. buff_alloc_sz' = 0 => buff_alloc_sz = 0
        BY <2>1, <4>1 DEF SizeT
      <4>3. QED BY <2>1, <4>2 DEF Inv, ZeroOnlyForHuge
    <3>2. CASE 2 * buff_alloc_sz >= SizeMod
      BY <2>1, <3>2 DEF ZeroOnlyForHuge, SizeT
    <3>3. QED BY <2>1, <3>1, <3>2 DEF SizeT
  <2>5. QED BY <2>2, <2>3, <2>4 DEF Inv
<1>2. CASE Leave
  BY <1>2 DEF Leave, Inv, TypeOK, FitsWithoutExcess, ZeroOnlyForHuge
<1>3. CASE UNCHANGED vars
  BY <1>3 DEF vars, Inv, TypeOK, FitsWithoutExcess, ZeroOnlyForHuge
<1>4. QED BY <1>1, <1>2, <1>3 DEF Next

------------------------------------------------------------------------------
(* The loop against the function.                                          *)

\* The candidate is the one of some factor, and no earlier one sufficed.
Progress ==
  /\ \E p \in Factors :
       /\ buff_alloc_sz = Candidate(total_size, p)
       /\ \A q \in Factors : q < p => Candidate(total_size, q) < size
  /\ pc = "done" => buff_alloc_sz >= size

LEMMA InitProgress == Init => Progress
<1> SUFFICES ASSUME Init PROVE Progress
  OBVIOUS
<1>1. total_size \in SizeT /\ buff_alloc_sz = FirstTry(total_size) /\ pc # "done"
  BY DEF Init
<1>2. buff_alloc_sz = Candidate(total_size, 1)
  BY <1>1, FirstTryFacts
<1>3. 1 \in Factors /\ \A q \in Factors : ~(q < 1)
  BY OneIsFactor DEF Factors
<1>4. QED BY <1>1, <1>2, <1>3 DEF Progress

LEMMA StepProgress == Inv /\ Progress /\ [Next]_vars => Progress'
<1> SUFFICES ASSUME Inv, Progress, [Next]_vars PROVE Progress'
  OBVIOUS
<1>1. PICK p \in Factors :
        /\ buff_alloc_sz = Candidate(total_size, p)
        /\ \A q \in Factors : q < p => Candidate(total_size, q) < size
  BY DEF Progress
<1>2. CASE Double
  <2>1. /\ buff_alloc_sz < size /\ buff_alloc_sz' = ShiftedLeft(buff_alloc_sz)
        /\ size' = size /\ total_size' = total_size /\ pc' # "done"
        /\ total_size \in SizeT
    BY <1>2 DEF Double, Inv, TypeOK
  <2>2. CASE p = SizeMod
    <3>1. buff_alloc_sz' = Candidate(total_size, p)
      BY <1>1, <2>1, <2>2, LastCandidate
    <3>2. QED BY <1>1, <2>1, <3>1 DEF Progress
  <2>3. CASE p # SizeMod
    <3>1. 2 * p \in Factors /\ \A q \in Factors : q < 2 * p => q < p \/ q = p
      BY <2>3, NextFactor
    <3>2. buff_alloc_sz' = Candidate(total_size, 2 * p)
      BY <1>1, <2>1, NextCandidate DEF Candidate
    <3>3. \A q \in Factors : q < 2 * p => Candidate(total_size, q) < size
      BY <1>1, <2>1, <3>1
    <3>4. QED BY <2>1, <3>1, <3>2, <3>3 DEF Progress
  <2>4. QED BY <2>2, <2>3
<1>3. CASE Leave
  <2>1. /\ buff_alloc_sz >= size
        /\ buff_alloc_sz' = buff_alloc_sz /\ size' = size /\ total_size' = total_size
    BY <1>3 DEF Leave
  <2>2. QED BY <1>1, <2>1 DEF Progress
<1>4. CASE UNCHANGED vars
  BY <1>4 DEF vars, Progress
<1>5. QED BY <1>2, <1>3, <1>4 DEF Next

\* A candidate that is left with is the first that suffices.
LEMMA ProgressIsEnough == Inv /\ Progress => LoopComputesBuffAllocSize
<1> SUFFICES ASSUME Inv, Progress, pc = "done"
             PROVE  buff_alloc_sz = BuffAllocSize(total_size, size)
  BY DEF LoopComputesBuffAllocSize
<1>1. PICK p \in Factors :
        /\ buff_alloc_sz = Candidate(total_size, p)
        /\ \A q \in Factors : q < p => Candidate(total_size, q) < size
  BY DEF Progress
<1>2. total_size \in SizeT /\ size \in SizeT /\ Candidate(total_size, p) >= size
  BY <1>1 DEF Inv, TypeOK, Progress
<1>3. PICK least \in Factors :
        /\ BuffAllocSize(total_size, size) = Candidate(total_size, least)
        /\ Candidate(total_size, least) >= size
        /\ least <= p
  BY <1>2, LeastFactor
<1>4. ~(Candidate(total_size, least) < size)
  <2>1. FirstTry(total_size) * least \in Nat
    BY <1>2, FirstTryFacts DEF Factors, SizeT
  <2>2. Candidate(total_size, least) \in Nat
    BY <2>1, SizeModAssumption DEF Candidate
  <2>3. QED BY <1>2, <1>3, <2>2 DEF SizeT
<1>5. least = p
  BY <1>1, <1>3, <1>4 DEF Factors
<1>6. QED BY <1>1, <1>3, <1>5

------------------------------------------------------------------------------
\* Every variable keeps its type: the doubled candidate is a size_t.
THEOREM LoopTypes == Spec => []TypeOK
<1>1. Inv => TypeOK
  BY DEF Inv
<1>2. QED BY <1>1, InitInv, StepInv, PTL DEF Spec

\* When the loop is left it has computed the function that the allocator's
\* model takes as one step.
THEOREM LoopComputesTheFunction == Spec => []LoopComputesBuffAllocSize
BY InitInv, StepInv, InitProgress, StepProgress, ProgressIsEnough, PTL DEF Spec

\* The loop yields a size that holds the request and that is, unless it is
\* the first try, less than twice the request.
THEOREM LoopFits == Spec => []FitsWithoutExcess
<1>1. Inv => FitsWithoutExcess
  BY DEF Inv
<1>2. QED BY <1>1, InitInv, StepInv, PTL DEF Spec

\* The candidate never becomes 0, where the loop would be stuck, for a
\* request of at most half the address space.
THEOREM LoopStuckOnlyForHuge == Spec => []ZeroOnlyForHuge
<1>1. Inv => ZeroOnlyForHuge
  BY DEF Inv
<1>2. QED BY <1>1, InitInv, StepInv, PTL DEF Spec
==============================================================================
