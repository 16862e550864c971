---------------------------- MODULE CommonLemmas ----------------------------
(***************************************************************************)
(* Facts that the proofs of several components need: on natural numbers,   *)
(* on sequences and on the arrays of UtArray.  The library's induction     *)
(* theorems have an operator as parameter; inductions here take a least    *)
(* counterexample instead, for which the theorem on minimal elements of a  *)
(* well-founded relation is enough.                                        *)
(***************************************************************************)
EXTENDS UtArray, Integers, NaturalsInduction, WellFoundedInduction,
        SequenceTheorems, FiniteSetTheorems, TLAPS

------------------------------------------------------------------------------
(* Natural numbers.                                                        *)

\* A non-empty set of natural numbers has a least element.
LEMMA LeastExists ==
  ASSUME NEW T, T \subseteq Nat, T # {}
  PROVE  \E x \in T : \A y \in T : x <= y
<1>1. PICK R : R = OpToRel(<, Nat)
  OBVIOUS
<1>2. IsWellFoundedOn(R, Nat)
  BY <1>1, NatLessThanWellFounded
<1>3. PICK x \in T : \A y \in T : <<y, x>> \notin R
  BY <1>2, WFMin
<1>4. \A y \in T : ~(y < x)
  BY <1>1, <1>3 DEF OpToRel
<1>5. QED BY <1>4

\* The remainder is unique.
LEMMA RemainderUnique ==
  ASSUME NEW a \in Nat, NEW m \in Nat \ {0}, NEW q \in Nat, NEW r \in 0 .. m - 1,
         a = m * q + r
  PROVE  a % m = r
<1>1. PICK k \in Int, s \in 0 .. m - 1 : a = m * k + s /\ s = a % m
  <2>1. a = m * (a \div m) + (a % m) /\ a \div m \in Int /\ a % m \in 0 .. m - 1
    OBVIOUS
  <2>2. QED BY <2>1
<1>2. m * (q - k) = s - r
  BY <1>1
<1>3. ~(q - k >= 1)
  <2>1. q - k >= 1 => m * (q - k) >= m
    OBVIOUS
  <2>2. QED BY <1>1, <1>2, <2>1
<1>4. ~(q - k <= -1)
  <2>1. q - k <= -1 => m * (q - k) <= -m
    OBVIOUS
  <2>2. QED BY <1>1, <1>2, <2>1
<1>5. q - k = 0
  BY <1>3, <1>4
<1>6. m * (q - k) = 0
  BY <1>5
<1>7. s - r = 0
  BY <1>2, <1>6
<1>8. s \in Int /\ r \in Int
  OBVIOUS
<1>9. s = r
  BY <1>7, <1>8
<1>10. QED BY <1>1, <1>9, Zenon

\* A remainder is 0 for multiples, and only for them.
LEMMA Divides ==
  ASSUME NEW x \in Nat, NEW d \in Nat \ {0}
  PROVE  x % d = 0 <=> \E k \in Nat : x = d * k
<1>1. ASSUME x % d = 0
      PROVE \E k \in Nat : x = d * k
  <2>1. x = d * (x \div d) + (x % d) /\ x \div d \in Nat
    OBVIOUS
  <2>2. x = d * (x \div d)
    BY <1>1, <2>1
  <2>3. QED BY <2>1, <2>2
<1>2. ASSUME NEW k \in Nat, x = d * k
      PROVE x % d = 0
  <2>1. x = d * k + 0
    BY <1>2
  <2>2. 0 \in 0 .. d - 1
    OBVIOUS
  <2>3. QED BY <2>1, <2>2, RemainderUnique
<1>3. QED BY <1>1, <1>2

\* Doubling a remainder is doubling what was divided.
LEMMA DoubledRemainder ==
  ASSUME NEW x \in Nat, NEW m \in Nat \ {0}
  PROVE  (2 * (x % m)) % m = (2 * x) % m
<1>1. PICK k \in Nat, r \in 0 .. m - 1 : x = m * k + r /\ r = x % m
  OBVIOUS
<1>2. PICK j \in Nat, s \in 0 .. m - 1 : 2 * r = m * j + s /\ s = (2 * r) % m
  OBVIOUS
<1>3. 2 * x = m * (2 * k + j) + s
  BY <1>1, <1>2
<1>4. (2 * x) % m = s
  <2>1. 2 * x \in Nat /\ 2 * k + j \in Nat
    OBVIOUS
  <2>2. QED BY <1>3, <2>1, RemainderUnique
<1>5. QED BY <1>1, <1>2, <1>4

------------------------------------------------------------------------------
(* Growable arrays.                                                        *)

LEMMA UtArrayFacts ==
  ASSUME NEW set, NEW a \in UtArrayOf(set)
  PROVE  /\ a.elems \in Seq(set) /\ UtLen(a) = Len(a.elems)
         /\ Len(a.elems) \in Nat /\ DOMAIN a.elems = 1 .. Len(a.elems)
         /\ \A i \in DOMAIN a.elems : a.elems[i] \in set
BY LenProperties, ElementOfSeq DEF UtArrayOf, UtLen

LEMMA EmptyArrayType == \A set : EmptyArray \in UtArrayOf(set)
BY DEF EmptyArray, UtArrayOf

LEMMA DoubledType == \A n \in Nat : Doubled(n) \in Nat
BY FirstSlotsAssumption DEF Doubled

\* A push that succeeds appends the element.
LEMMA PushFacts ==
  ASSUME NEW set, NEW a \in UtArrayOf(set), NEW x \in set
  PROVE  /\ PushedBack(a, x) \in UtArrayOf(set)
         /\ PushedBack(a, x).elems = Append(a.elems, x)
<1>1. PICK r : r = Reserved(a)
  OBVIOUS
<1>2. r \in UtArrayOf(set) /\ r.elems = a.elems
  BY <1>1, DoubledType DEF Reserved, UtArrayOf
<1>3. PushedBack(a, x) = [r EXCEPT !.elems = Append(a.elems, x)]
  BY <1>1, <1>2 DEF PushedBack
<1>4. Append(a.elems, x) \in Seq(set)
  BY AppendProperties, UtArrayFacts
<1>5. QED BY <1>2, <1>3, <1>4 DEF UtArrayOf

\* One element replaced.
LEMMA SetElemFacts ==
  ASSUME NEW set, NEW a \in UtArrayOf(set), NEW i \in DOMAIN a.elems, NEW x \in set,
         NEW b, b = [a EXCEPT !.elems[i] = x]
  PROVE  /\ b \in UtArrayOf(set)
         /\ Len(b.elems) = Len(a.elems) /\ DOMAIN b.elems = DOMAIN a.elems
         /\ b.elems[i] = x
         /\ \A j \in DOMAIN a.elems : j # i => b.elems[j] = a.elems[j]
<1>1. b = [a EXCEPT !.elems = [a.elems EXCEPT ![i] = x]]
  BY DEF UtArrayOf
<1>2. b.elems = [a.elems EXCEPT ![i] = x] /\ b.n = a.n /\ b.room = a.room
       /\ b = [elems |-> b.elems, n |-> b.n, room |-> b.room]
  BY <1>1 DEF UtArrayOf
<1>3. b.elems \in Seq(set) /\ Len(b.elems) = Len(a.elems)
       /\ \A j \in 1 .. Len(a.elems) : b.elems[j] = IF j = i THEN x ELSE a.elems[j]
  <2>1. PICK s \in Seq(set) : s = a.elems /\ i \in 1 .. Len(s)
    BY UtArrayFacts
  <2>2. /\ [s EXCEPT ![i] = x] \in Seq(set) /\ Len([s EXCEPT ![i] = x]) = Len(s)
        /\ \A j \in 1 .. Len(s) : [s EXCEPT ![i] = x][j] = IF j = i THEN x ELSE s[j]
    BY <2>1, ExceptSeq
  <2>3. QED BY <1>2, <2>1, <2>2
<1>4. b \in UtArrayOf(set)
  BY <1>2, <1>3 DEF UtArrayOf
<1>5. QED BY <1>3, <1>4, UtArrayFacts
=============================================================================
