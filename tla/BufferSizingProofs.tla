-------------------------- MODULE BufferSizingProofs --------------------------
(***************************************************************************)
(* The size of a new buffer, for every width of size_t and every default   *)
(* size.                                                                   *)
(***************************************************************************)
EXTENDS BufferSizing, CommonLemmas

\* One is the least factor: no doubling.
LEMMA OneIsFactor == 1 \in Factors /\ \A p \in Factors : 1 <= p
BY SizeModAssumption DEF Factors, PowerOfTwo

LEMMA FirstTryFacts ==
  ASSUME NEW total \in SizeT
  PROVE  /\ FirstTry(total) \in SizeT \ {0}
         /\ FirstTry(total) >= total
         /\ Candidate(total, 1) = FirstTry(total)
<1>1. FirstTry(total) \in SizeT \ {0} /\ FirstTry(total) >= total
  BY DefaultSizeAssumption DEF FirstTry, SizeT
<1>2. \A x \in SizeT : (x * 1) % SizeMod = x
  BY SizeModAssumption DEF SizeT
<1>3. QED BY <1>1, <1>2 DEF Candidate

\* The loop of _mam_allocator_alloc, as a function: a candidate that reaches
\* the request, after the least number of doublings.
LEMMA LeastFactor ==
  ASSUME NEW total \in SizeT, NEW size \in SizeT,
         NEW p \in Factors, Candidate(total, p) >= size
  PROVE  \E least \in Factors :
           /\ BuffAllocSize(total, size) = Candidate(total, least)
           /\ Candidate(total, least) >= size
           /\ \A q \in Factors : Candidate(total, q) >= size => least <= q
<1>1. PICK reaching : reaching = {q \in Factors : Candidate(total, q) >= size}
  OBVIOUS
<1>2. reaching # {} /\ reaching \subseteq Nat
  BY <1>1 DEF Factors
<1>3. \E least \in reaching : \A q \in reaching : least <= q
  BY <1>2, LeastExists
<1>4. PICK least : least = CHOOSE x \in reaching : \A q \in reaching : x <= q
  OBVIOUS
<1>5. least \in reaching /\ \A q \in reaching : least <= q
  BY <1>3, <1>4
<1>6. BuffAllocSize(total, size) = Candidate(total, least)
  BY <1>1, <1>2, <1>4 DEF BuffAllocSize
<1>7. QED BY <1>1, <1>5, <1>6

\* A size found by the loop holds the request and is at least what is held
\* already: a candidate that wrapped around is smaller than the request, and
\* is doubled again until it is past it or lost.
LEMMA GrowthFacts ==
  ASSUME NEW total \in SizeT, NEW size \in SizeT, BuffAllocSize(total, size) # 0
  PROVE  /\ BuffAllocSize(total, size) \in SizeT
         /\ BuffAllocSize(total, size) >= size
         /\ BuffAllocSize(total, size) >= total
<1>1. PICK p \in Factors : Candidate(total, p) >= size
  BY DEF BuffAllocSize
<1>2. PICK least \in Factors :
        /\ BuffAllocSize(total, size) = Candidate(total, least)
        /\ Candidate(total, least) >= size
        /\ \A q \in Factors : Candidate(total, q) >= size => least <= q
  BY <1>1, LeastFactor
<1>3. BuffAllocSize(total, size) \in SizeT
  <2>1. FirstTry(total) * least \in Nat
    BY FirstTryFacts DEF Factors, SizeT
  <2>2. QED BY <1>2, <2>1, SizeModAssumption DEF Candidate, SizeT
<1>4. CASE FirstTry(total) >= size
  <2>1. least = 1
    BY <1>2, <1>4, OneIsFactor, FirstTryFacts DEF Factors
  <2>2. QED BY <1>2, <1>3, <2>1, FirstTryFacts
<1>5. CASE FirstTry(total) < size
  BY <1>2, <1>3, <1>5, FirstTryFacts DEF SizeT
<1>6. QED BY <1>4, <1>5, FirstTryFacts DEF SizeT

------------------------------------------------------------------------------
(* The turns of the loop.                                                  *)

\* Twice a power of two is one: an odd divisor would divide the half.
LEMMA PowerDoubles ==
  ASSUME NEW p \in Nat \ {0}, PowerOfTwo(p)
  PROVE  PowerOfTwo(2 * p)
<1> SUFFICES ASSUME NEW d \in 2 .. 2 * p, (2 * p) % d = 0, d % 2 # 0
             PROVE  FALSE
  BY DEF PowerOfTwo
<1>1. PICK k \in Nat : 2 * p = d * k
  BY Divides
<1>2. PICK e \in Nat : d = 2 * e + 1
  OBVIOUS
<1>3. CASE k % 2 = 0
  <2>1. PICK h \in Nat : k = 2 * h
    BY <1>3
  <2>2. p = d * h
    BY <1>1, <2>1
  <2>3. h # 0
    BY <2>2
  <2>4. d <= p
    BY <2>2, <2>3
  <2>5. p % d = 0
    BY <2>2, Divides
  <2>6. QED BY <2>4, <2>5 DEF PowerOfTwo
<1>4. CASE k % 2 # 0
  <2>1. PICK h \in Nat : k = 2 * h + 1
    BY <1>4
  <2>2. 2 * p = (2 * e + 1) * (2 * h + 1)
    BY <1>1, <1>2, <2>1
  <2>3. (2 * e + 1) * (2 * h + 1) = 2 * (2 * (e * h) + e + h) + 1
    OBVIOUS
  <2>4. QED BY <2>2, <2>3
<1>5. QED BY <1>3, <1>4

LEMMA PowerHalves ==
  ASSUME NEW p \in Nat, PowerOfTwo(2 * p)
  PROVE  PowerOfTwo(p)
<1> SUFFICES ASSUME NEW d \in 2 .. p, p % d = 0
             PROVE  d % 2 = 0
  BY DEF PowerOfTwo
<1>1. PICK k \in Nat : p = d * k
  BY Divides
<1>2. 2 * p = d * (2 * k)
  BY <1>1
<1>3. (2 * p) % d = 0
  <2>1. 2 * p \in Nat /\ 2 * k \in Nat /\ d \in Nat \ {0}
    OBVIOUS
  <2>2. QED BY <1>2, <2>1, Divides
<1>4. QED BY <1>3 DEF PowerOfTwo

\* A power of two other than 1 is twice a power of two.
LEMMA PowerEven ==
  ASSUME NEW p \in Nat, PowerOfTwo(p), p # 1
  PROVE  \E h \in Nat : p = 2 * h /\ h < p /\ PowerOfTwo(h)
<1>1. p \in 2 .. p
  BY DEF PowerOfTwo
<1>2. p = p * 1
  OBVIOUS
<1>3. p % p = 0
  BY <1>1, <1>2, Divides
<1>4. PICK h \in Nat : p = 2 * h
  BY <1>1, <1>3 DEF PowerOfTwo
<1>5. h < p
  BY <1>1, <1>4
<1>6. QED BY <1>4, <1>5, PowerHalves

\* There is no power of two between one and its double: halve the two, and
\* there would be a smaller such pair.
LEMMA PowersApart ==
  ASSUME NEW p \in Nat, PowerOfTwo(p), NEW q \in Nat, PowerOfTwo(q), p < q
  PROVE  2 * p <= q
<1> DEFINE Between == {x \in Nat : PowerOfTwo(x) /\
                         \E y \in Nat : PowerOfTwo(y) /\ x < y /\ y < 2 * x}
<1>1. ASSUME Between # {}
      PROVE  FALSE
  <2>1. PICK x \in Between : \A z \in Between : x <= z
    BY <1>1, LeastExists
  <2>2. PICK y \in Nat : PowerOfTwo(y) /\ x < y /\ y < 2 * x
    OBVIOUS
  <2>3. x \in Nat /\ PowerOfTwo(x) /\ x # 1 /\ y # 1
    BY <2>2 DEF PowerOfTwo
  <2>4. PICK h \in Nat : x = 2 * h /\ h < x /\ PowerOfTwo(h)
    BY <2>3, PowerEven
  <2>5. PICK g \in Nat : y = 2 * g /\ g < y /\ PowerOfTwo(g)
    BY <2>2, <2>3, PowerEven
  <2>6. h < g /\ g < 2 * h
    BY <2>2, <2>4, <2>5
  <2>7. h \in Between
    BY <2>4, <2>5, <2>6
  <2>8. QED BY <2>1, <2>3, <2>4, <2>7
<1>2. p \notin Between
  BY <1>1
<1>3. QED BY <1>2

\* One more doubling: the next factor, and none in between.
LEMMA NextFactor ==
  ASSUME NEW p \in Factors, p # SizeMod
  PROVE  /\ 2 * p \in Factors
         /\ \A q \in Factors : q < 2 * p => q < p \/ q = p
<1>1. p \in Nat \ {0} /\ p <= SizeMod /\ PowerOfTwo(p) /\ SizeMod \in Nat /\ PowerOfTwo(SizeMod)
  BY SizeModAssumption DEF Factors
<1>2. 2 * p <= SizeMod
  BY <1>1, PowersApart
<1>3. PowerOfTwo(2 * p)
  BY <1>1, PowerDoubles
<1>4. ASSUME NEW q \in Factors, q < 2 * p
      PROVE  q < p \/ q = p
  <2>1. q \in Nat /\ PowerOfTwo(q)
    BY DEF Factors
  <2>2. p < q => 2 * p <= q
    BY <1>1, <2>1, PowersApart
  <2>3. QED BY <1>1, <1>4, <2>1, <2>2
<1>5. QED BY <1>1, <1>2, <1>3, <1>4 DEF Factors

\* A turn of the loop goes from a candidate to the next.
LEMMA NextCandidate ==
  ASSUME NEW total \in SizeT, NEW p \in Factors
  PROVE  ShiftedLeft(Candidate(total, p)) = (FirstTry(total) * (2 * p)) % SizeMod
<1>1. PICK f \in Nat : f = FirstTry(total)
  BY FirstTryFacts DEF SizeT
<1>2. p \in Nat /\ SizeMod \in Nat \ {0}
  BY SizeModAssumption DEF Factors
<1>3. f * p \in Nat /\ 2 * (f * p) = f * (2 * p)
  BY <1>2
<1>4. (2 * ((f * p) % SizeMod)) % SizeMod = (2 * (f * p)) % SizeMod
  BY <1>2, <1>3, DoubledRemainder
<1>5. ShiftedLeft(Candidate(total, p)) = (2 * ((f * p) % SizeMod)) % SizeMod
  BY <1>1 DEF ShiftedLeft, Candidate
<1>6. QED BY <1>1, <1>3, <1>4, <1>5

\* The last factor shifts out every bit, and 0 stays 0.
LEMMA LastCandidate ==
  ASSUME NEW total \in SizeT
  PROVE  Candidate(total, SizeMod) = 0 /\ ShiftedLeft(0) = 0
<1>1. PICK f \in Nat : f = FirstTry(total)
  BY FirstTryFacts DEF SizeT
<1>2. SizeMod \in Nat \ {0}
  BY SizeModAssumption
<1>3. f * SizeMod = SizeMod * f /\ f * SizeMod \in Nat
  BY <1>2
<1>4. (f * SizeMod) % SizeMod = 0
  BY <1>2, <1>3, Divides
<1>5. 0 % SizeMod = 0 /\ 2 * 0 = 0
  BY <1>2
<1>6. QED BY <1>1, <1>4, <1>5 DEF Candidate, ShiftedLeft
==============================================================================
