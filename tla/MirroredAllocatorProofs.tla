----------------------- MODULE MirroredAllocatorProofs -----------------------
(***************************************************************************)
(* What is proved of MirroredAllocator for every size of an address, every *)
(* default size, every set of requests and whatever addresses the two      *)
(* platform allocators return.                                             *)
(*                                                                         *)
(* The inductive invariant says of every descriptor that its areas are     *)
(* regions and that a byte of it is free, that the platforms are owed      *)
(* exactly the areas of the descriptors, that these do not overlap, and    *)
(* that the blocks lie in the used part of their buffer.  A new block is   *)
(* carved past the used part, so that it overlaps no block of that buffer, *)
(* and buffers do not overlap.                                             *)
(***************************************************************************)
EXTENDS MirroredAllocator, BufferSizingProofs

\* A descriptor describes an area on each side; its last byte is not used.
BufferOK(b) ==
  /\ b \in DescRecord
  /\ <<b.addr, b.size>> \in Region
  /\ <<b.m_addr, b.size>> \in Region
  /\ b.free \in 1 .. b.size

BuffersOK == \A d \in DOMAIN desc : BufferOK(desc[d])

\* The list of the retired buffers and the current one names every
\* descriptor once.
Enumerated ==
  /\ Released = DOMAIN desc
  /\ IsFiniteSet(DOMAIN desc)
  /\ Len(BufferList) = Cardinality(DOMAIN desc)

NoneLeft == status = "none" => desc = << >>

\* The platforms are owed the areas of the descriptors, and only those.
LedgersMatch ==
  /\ hostMem = {<<desc[d].addr, desc[d].size>> : d \in DOMAIN desc}
  /\ mirrorMem = {<<desc[d].m_addr, desc[d].size>> : d \in DOMAIN desc}

BuffersApart ==
  \A d, e \in DOMAIN desc : d # e =>
    /\ Apart(<<desc[d].addr, desc[d].size>>, <<desc[e].addr, desc[e].size>>)
    /\ Apart(<<desc[d].m_addr, desc[d].size>>, <<desc[e].m_addr, desc[e].size>>)

\* A granted request was a valid one.
GrantsAreRequests == \A i \in DOMAIN granted : granted[i].size # 0

IInv ==
  /\ TypeOK
  /\ BuffersOK
  /\ Enumerated
  /\ NoneLeft
  /\ LedgersMatch
  /\ BuffersApart
  /\ GrantsAreRequests
  /\ BlocksInsideBuffers
  /\ MirrorAligned
  /\ BlocksDisjoint

------------------------------------------------------------------------------
(* Arithmetic of _mam_find_in_buffer.                                      *)

\* Adding what is missing to the next multiple gives a multiple: this is
\* what the padding computation of _mam_find_in_buffer relies on.
LEMMA PaddedIsMultiple ==
  ASSUME NEW x \in Nat, NEW m \in Nat \ {0}
  PROVE  /\ x % m \in 0 .. m - 1
         /\ (x + (m - (x % m))) % m = 0
<1>1. x % m \in 0 .. m - 1
  BY SMT
<1>2. (x + (m - (x % m))) % m = 0
  BY SMT
<1>3. QED BY <1>1, <1>2

\* Membership in Region, on a pair.
LEMMA RegionFacts ==
  ASSUME NEW a, NEW n
  PROVE  <<a, n>> \in Region <=>
           a \in SizeT \ {0} /\ n \in SizeT \ {0} /\ a + n <= SizeMod
BY DEF Region

\* What BufferOK says, in arithmetic.
LEMMA BufferFacts ==
  ASSUME NEW b, BufferOK(b)
  PROVE  /\ SizeMod \in Nat \ {0}
         /\ b.addr \in Nat \ {0} /\ b.m_addr \in Nat \ {0}
         /\ b.size \in Nat \ {0} /\ b.free \in 1 .. b.size /\ b.count \in Nat
         /\ b.addr + b.size <= SizeMod /\ b.m_addr + b.size <= SizeMod
         /\ Offset(b) \in Nat /\ Offset(b) < b.size
BY RegionFacts, SizeModAssumption DEF BufferOK, DescRecord, SizeT, Offset

\* The padding is a size_t.
LEMMA PadType ==
  ASSUME NEW b, BufferOK(b), NEW alignment \in SizeT
  PROVE  Pad(b, alignment) \in SizeT
<1>1. SizeMod \in Nat \ {0}
  BY SizeModAssumption
<1>2. PICK past : past = Masked((b.m_addr + Offset(b)) % SizeMod, alignment)
  OBVIOUS
<1>3. past \in Nat
  <2>1. (b.m_addr + Offset(b)) % SizeMod \in Nat
    BY <1>1, BufferFacts DEF Offset
  <2>2. CASE alignment = 0
    BY <1>2, <2>1, <2>2 DEF Masked
  <2>3. CASE alignment # 0
    BY <1>2, <2>1, <2>3 DEF Masked, SizeT
  <2>4. QED BY <2>2, <2>3
<1>4. (alignment - past) % SizeMod \in 0 .. SizeMod - 1
  BY <1>1, <1>3 DEF SizeT
<1>5. QED BY <1>1, <1>2, <1>4 DEF Pad, SizeT

\* Two things on both sides, blocks or buffers, that share no byte.
BothApart(x, y) ==
  /\ Apart(<<x.addr, x.size>>, <<y.addr, y.size>>)
  /\ Apart(<<x.m_addr, x.size>>, <<y.m_addr, y.size>>)

\* Block h lies in the first `used` bytes of buffer a, on both sides.
LiesIn(h, a, used) ==
  /\ a.addr <= h.addr /\ h.addr + h.size <= a.addr + used
  /\ a.m_addr <= h.m_addr /\ h.m_addr + h.size <= a.m_addr + used

LEMMA ApartFacts ==
  ASSUME NEW a, NEW n, NEW b, NEW m
  PROVE  Apart(<<a, n>>, <<b, m>>) <=> (a + n <= b \/ b + m <= a)
BY DEF Apart

LEMMA GrantFacts ==
  ASSUME NEW g \in GrantRecord
  PROVE  g.addr \in Nat /\ g.m_addr \in Nat /\ g.size \in Nat
BY DEF GrantRecord, SizeT

LEMMA MoreUsed ==
  ASSUME NEW h \in GrantRecord, NEW a, BufferOK(a),
         NEW used \in Nat, NEW more \in Nat, used <= more,
         h.addr + h.size <= a.addr + used
  PROVE  h.addr + h.size <= a.addr + more
BY GrantFacts, BufferFacts

\* A block at one offset of both areas lies in the used part of the mirror
\* area if it lies in the used part of the host area.
LEMMA SameOffset ==
  ASSUME NEW h \in GrantRecord, NEW a, BufferOK(a), NEW used \in Nat,
         h.addr - a.addr = h.m_addr - a.m_addr,
         h.addr >= a.addr, h.addr + h.size <= a.addr + used
  PROVE  LiesIn(h, a, used)
BY GrantFacts, BufferFacts DEF LiesIn

\* A block in the used part is apart from a block carved past it.
LEMMA CarvedAfter ==
  ASSUME NEW h \in GrantRecord, NEW g \in GrantRecord, NEW a, BufferOK(a),
         NEW used \in Nat, LiesIn(h, a, used),
         g.addr - a.addr = g.m_addr - a.m_addr, g.addr >= a.addr + used
  PROVE  BothApart(g, h) /\ BothApart(h, g)
BY GrantFacts, BufferFacts, ApartFacts DEF LiesIn, BothApart

\* Blocks of buffers that are apart are apart.
LEMMA ApartInside ==
  ASSUME NEW h \in GrantRecord, NEW a, BufferOK(a), LiesIn(h, a, a.size),
         NEW g \in GrantRecord, NEW c, BufferOK(c), LiesIn(g, c, c.size),
         BothApart(c, a)
  PROVE  BothApart(g, h) /\ BothApart(h, g)
BY GrantFacts, BufferFacts, ApartFacts DEF LiesIn, BothApart

\* A buffer that is carved stays a buffer, whatever the request: size plus
\* padding may wrap around, but what is taken is less than what was free.
LEMMA CarvedIsOK ==
  ASSUME NEW b, BufferOK(b), NEW size \in SizeT, NEW alignment \in SizeT
  PROVE  /\ BufferOK(AfterFind(b, size, alignment))
         /\ AfterFind(b, size, alignment).addr = b.addr
         /\ AfterFind(b, size, alignment).m_addr = b.m_addr
         /\ AfterFind(b, size, alignment).size = b.size
         /\ Offset(AfterFind(b, size, alignment)) >= Offset(b)
<1> DEFINE need == Needed(b, size, alignment)
<1>1. Pad(b, alignment) \in SizeT
  BY PadType
<1>2. need \in SizeT
  BY <1>1, SizeModAssumption DEF Needed, SizeT
<1>3. CASE Fits(b, size, alignment)
  <2>1. need < b.free
    BY <1>2, <1>3 DEF Fits, BufferOK, DescRecord, SizeT
  <2>2. PICK c : c = AfterFind(b, size, alignment)
    OBVIOUS
  <2> HIDE DEF need
  <2>3. c = [b EXCEPT !.free = b.free - need, !.count = b.count + 1]
    BY <1>3, <2>2 DEF AfterFind, Carved, need
  <2>4. b \in DescRecord
    BY DEF BufferOK
  <2>5. /\ c.addr = b.addr /\ c.m_addr = b.m_addr /\ c.size = b.size
        /\ c.free = b.free - need
    BY <2>3, <2>4 DEF DescRecord
  <2>6. c.free \in 1 .. b.size /\ c.free <= b.free
    BY <1>2, <2>1, <2>5, BufferFacts DEF SizeT
  <2>7. c \in DescRecord
    <3>1. b.free - need \in SizeT /\ b.count + 1 \in Nat
      BY <2>4, <2>5, <2>6, BufferFacts DEF DescRecord, SizeT
    <3>2. QED BY <2>3, <2>4, <3>1 DEF DescRecord
  <2>8. BufferOK(c)
    BY <2>5, <2>6, <2>7 DEF BufferOK
  <2>9. Offset(c) >= Offset(b)
    BY <2>5, <2>6, BufferFacts DEF Offset
  <2>10. QED BY <2>2, <2>5, <2>8, <2>9
<1>4. CASE ~Fits(b, size, alignment)
  BY <1>4 DEF AfterFind, BufferOK, DescRecord, Offset, SizeT
<1>5. QED BY <1>3, <1>4

\* Every grant is a record of the type of grants.
LEMMA GrantType ==
  ASSUME NEW b, BufferOK(b), NEW d \in Descs,
         NEW size \in SizeT, NEW alignment \in SizeT
  PROVE  Grant(d, b, size, alignment) \in GrantRecord
<1>1. \A x \in Int : x % SizeMod \in SizeT
  BY SizeModAssumption DEF SizeT
<1>2. b.addr + PlacedAt(b, alignment) \in Int /\ b.m_addr + PlacedAt(b, alignment) \in Int
  <2>1. Pad(b, alignment) \in SizeT
    BY PadType
  <2>2. QED BY <1>1, <2>1, BufferFacts DEF PlacedAt, Offset, SizeT
<1>3. 0 \in SizeT
  BY SizeModAssumption DEF SizeT
<1>4. QED BY <1>1, <1>2, <1>3 DEF Grant, GrantRecord

\* A sane block lies at one offset of both areas, past what was used before
\* and within what is used after the call, at an aligned mirror address.
LEMMA SaneGrant ==
  ASSUME NEW b, BufferOK(b), NEW d \in Descs,
         NEW size \in SizeT \ {0}, NEW alignment \in SizeT,
         NEW g, g = Grant(d, b, size, alignment), Sane(g),
         NEW c, c = AfterFind(b, size, alignment)
  PROVE  /\ g.buf = d /\ g.size = size /\ g.alignment = alignment
         /\ g.addr - b.addr = g.m_addr - b.m_addr
         /\ g.addr >= b.addr + Offset(b)
         /\ g.addr + size <= b.addr + Offset(c)
         /\ g.m_addr % alignment = 0
<1>1. /\ g.buf = d /\ g.size = size /\ g.alignment = alignment
      /\ Fits(b, size, alignment)
  BY DEF Grant, Sane
<1>2. alignment \in Nat \ {0} /\ size + alignment <= SizeMod
  BY <1>1 DEF Sane, SizeT
<1> DEFINE x == b.m_addr + Offset(b)
<1>3. x \in SizeT
  BY BufferFacts DEF Offset, SizeT
<1>4. x % SizeMod = x
  BY <1>3, SizeModAssumption DEF SizeT
<1> HIDE DEF x
<1>5. /\ x % alignment \in 0 .. alignment - 1
      /\ (x + (alignment - (x % alignment))) % alignment = 0
  <2>1. x \in Nat
    BY <1>3 DEF SizeT
  <2>2. QED BY <1>2, <2>1, PaddedIsMultiple
<1>6. PICK pad : pad = Pad(b, alignment)
  OBVIOUS
<1>7. pad \in 0 .. alignment - 1 /\ (x + pad) % alignment = 0
  <2>1. Masked(x % SizeMod, alignment) = x % alignment
    BY <1>2, <1>4 DEF Masked
  <2>2. pad = IF x % alignment = 0 THEN 0 ELSE (alignment - (x % alignment)) % SizeMod
    BY <1>6, <2>1 DEF Pad, x
  <2>3. CASE x % alignment = 0
    BY <1>2, <1>3, <2>2, <2>3 DEF SizeT
  <2>4. CASE x % alignment # 0
    <3>1. alignment - (x % alignment) \in 1 .. alignment - 1
      BY <1>2, <1>5, <2>4
    <3>2. (alignment - (x % alignment)) % SizeMod = alignment - (x % alignment)
      BY <3>1, SizeModAssumption DEF SizeT
    <3>3. QED BY <1>5, <2>2, <2>4, <3>1, <3>2
  <2>5. QED BY <2>3, <2>4
<1>8. Needed(b, size, alignment) = size + pad
  BY <1>2, <1>6, <1>7, SizeModAssumption DEF Needed, SizeT
<1>9. b.free > size + pad
  BY <1>1, <1>8 DEF Fits
<1>10. \A v \in Nat : v < SizeMod => v % SizeMod = v
  BY SizeModAssumption
<1>11. /\ (b.addr + PlacedAt(b, alignment)) % SizeMod = b.addr + Offset(b) + pad
       /\ (b.m_addr + PlacedAt(b, alignment)) % SizeMod = b.m_addr + Offset(b) + pad
  <2>1. Offset(b) + pad \in Nat /\ Offset(b) + pad < b.size
    BY <1>7, <1>9, BufferFacts DEF Offset, SizeT
  <2>2. PlacedAt(b, alignment) = Offset(b) + pad
    BY <1>6, <1>10, <2>1, BufferFacts DEF PlacedAt
  <2>3. /\ b.addr + (Offset(b) + pad) \in Nat /\ b.addr + (Offset(b) + pad) < SizeMod
        /\ b.m_addr + (Offset(b) + pad) \in Nat /\ b.m_addr + (Offset(b) + pad) < SizeMod
    BY <2>1, BufferFacts
  <2>4. /\ b.addr + (Offset(b) + pad) = b.addr + Offset(b) + pad
        /\ b.m_addr + (Offset(b) + pad) = b.m_addr + Offset(b) + pad
    BY <1>7, BufferFacts DEF Offset
  <2>5. QED BY <1>10, <2>2, <2>3, <2>4
<1>12. g.addr = b.addr + Offset(b) + pad /\ g.m_addr = x + pad
  BY <1>1, <1>11 DEF Grant, x
<1>13. c.free = b.free - (size + pad) /\ c.size = b.size
  BY <1>1, <1>8 DEF AfterFind, Carved, BufferOK, DescRecord
<1>14. QED
  BY <1>1, <1>3, <1>7, <1>9, <1>12, <1>13
  DEF Offset, BufferOK, Region, DescRecord, SizeT, x

------------------------------------------------------------------------------
(* The array of retired buffers keeps its type.                            *)

ArrayOK(a) == a \in [elems : Seq(Descs), n : Nat, room : Nat]

LEMMA ReservedFacts ==
  ASSUME NEW a, ArrayOK(a)
  PROVE  /\ Doubled(a.n) \in Nat
         /\ ArrayOK(Reserved(a)) /\ Reserved(a).elems = a.elems
<1>1. Doubled(a.n) \in Nat
  BY FirstSlotsAssumption DEF ArrayOK, Doubled
<1>2. QED BY <1>1 DEF ArrayOK, Reserved

LEMMA ArrayTypes ==
  ASSUME NEW a, ArrayOK(a)
  PROVE  /\ ArrayOK(EmptyArray)
         /\ ArrayOK(ReserveFailed(a))
         /\ \A d \in Descs : ArrayOK(PushedBack(a, d))
<1>1. ArrayOK(EmptyArray)
  BY EmptySeq DEF ArrayOK, EmptyArray
<1>2. Doubled(a.n) \in Nat
  BY ReservedFacts
<1>3. ArrayOK(ReserveFailed(a))
  BY <1>2 DEF ArrayOK, ReserveFailed
<1>4. ASSUME NEW d \in Descs
      PROVE  ArrayOK(PushedBack(a, d))
  <2>1. PICK r : r = Reserved(a)
    OBVIOUS
  <2>2. ArrayOK(r)
    BY <2>1, ReservedFacts
  <2>3. Append(r.elems, d) \in Seq(Descs)
    BY <2>2 DEF ArrayOK
  <2>4. PushedBack(a, d) = [r EXCEPT !.elems = Append(r.elems, d)]
    BY <2>1 DEF PushedBack
  <2>5. QED BY <2>2, <2>3, <2>4 DEF ArrayOK
<1>5. QED BY <1>1, <1>3, <1>4

LEMMA RetiredType ==
  ASSUME TypeOK
  PROVE  ArrayOK(Retired)
BY ArrayTypes DEF TypeOK, Retired, ArrayOK

\* The list of buffers is a sequence of descriptors, the current one last,
\* and retiring the current one leaves it as it is.
LEMMA ListFacts ==
  ASSUME TypeOK
  PROVE  /\ BufferList \in Seq(Descs)
         /\ current_buffer # NoDesc => current_buffer \in Released
         /\ Retired.elems = BufferList
<1>1. buffers.elems \in Seq(Descs)
  BY DEF TypeOK
<1>2. CASE current_buffer = NoDesc
  <2>1. BufferList = buffers.elems
    BY <1>1, <1>2, ConcatEmptySeq DEF BufferList
  <2>2. QED BY <1>1, <1>2, <2>1 DEF Retired
<1>3. CASE current_buffer # NoDesc
  <2>1. current_buffer \in Descs
    BY <1>3 DEF TypeOK
  <2>2. BufferList = buffers.elems \o <<current_buffer>>
    BY <1>3 DEF BufferList
  <2>3. Append(buffers.elems, current_buffer) = buffers.elems \o <<current_buffer>>
    BY <1>1, <2>1, AppendIsConcat
  <2>4. Retired.elems = Append(buffers.elems, current_buffer)
    <3>1. PICK r : r = Reserved(buffers)
      OBVIOUS
    <3>2. ArrayOK(r) /\ r.elems = buffers.elems
      BY <3>1, ReservedFacts DEF TypeOK, ArrayOK
    <3>3. QED BY <1>3, <3>1, <3>2 DEF Retired, PushedBack, ArrayOK
  <2>5. /\ Len(BufferList) \in DOMAIN BufferList
        /\ BufferList[Len(BufferList)] = current_buffer
        /\ BufferList \in Seq(Descs)
    BY <1>1, <2>1, <2>2, <2>3
  <2>6. QED BY <2>2, <2>3, <2>4, <2>5 DEF Released
<1>4. QED BY <1>2, <1>3

------------------------------------------------------------------------------
(* The invariant depends on few variables: calls that only retire the      *)
(* current buffer, fail, or list the buffers preserve it.                  *)

LEMMA InvariantUnchanged ==
  ASSUME IInv, TypeOK', BufferList' = BufferList,
         status = "none" \/ status' # "none",
         UNCHANGED <<desc, hostMem, mirrorMem, granted>>
  PROVE  IInv'
BY DEF IInv, Enumerated, Released, NoneLeft, BuffersOK, LedgersMatch, BuffersApart, GrantsAreRequests,
       BlocksInsideBuffers, MirrorAligned, BlocksDisjoint, Offset

\* Init establishes the invariant.
LEMMA InitInvariant == Init => IInv
<1> SUFFICES ASSUME Init PROVE IInv
  OBVIOUS
<1>1. DOMAIN desc = {} /\ DOMAIN granted = {} /\ desc = [d \in {} |-> d]
  BY DEF Init
<1>2. TypeOK
  <2>1. 0 \in SizeT
    BY SizeModAssumption DEF SizeT
  <2>2. QED
    BY <1>1, <2>1, EmptySeq DEF Init, TypeOK, EmptyArray
<1>3. Enumerated /\ NoneLeft
  <2>1. BufferList = << >> /\ Released = {}
    BY DEF Init, BufferList, Released, EmptyArray
  <2>2. QED BY <1>1, <2>1, FS_EmptySet DEF Init, Enumerated, NoneLeft
<1>4. LedgersMatch
  BY <1>1 DEF Init, LedgersMatch
<1>5. QED
  BY <1>1, <1>2, <1>3, <1>4
  DEF IInv, BuffersOK, BuffersApart, GrantsAreRequests, BlocksInsideBuffers,
      MirrorAligned, BlocksDisjoint

------------------------------------------------------------------------------
(* A successful allocation, in the current buffer or in a new one: the     *)
(* block is tried in buffer b of descriptor d.                             *)

LEMMA GrantStep ==
  ASSUME IInv, NEW d \in Descs, NEW b, BufferOK(b),
         NEW size \in SizeT \ {0}, NEW alignment \in SizeT,
         d \in DOMAIN desc => b = desc[d],
         d \notin DOMAIN desc =>
           \A e \in DOMAIN desc :
             /\ Apart(<<b.addr, b.size>>, <<desc[e].addr, desc[e].size>>)
             /\ Apart(<<b.m_addr, b.size>>, <<desc[e].m_addr, desc[e].size>>),
         desc' = [e \in DOMAIN desc \cup {d} |->
                    IF e = d THEN AfterFind(b, size, alignment) ELSE desc[e]],
         granted' = Append(granted, Grant(d, b, size, alignment))
  PROVE  /\ DOMAIN desc' \subseteq Descs /\ desc' \in [DOMAIN desc' -> DescRecord]
         /\ granted' \in Seq(GrantRecord)
         /\ BuffersOK' /\ BuffersApart' /\ GrantsAreRequests'
         /\ BlocksInsideBuffers' /\ MirrorAligned' /\ BlocksDisjoint'
<1> DEFINE c == AfterFind(b, size, alignment)
           g == Grant(d, b, size, alignment)
           last == Len(granted) + 1
<1>1. /\ BufferOK(c) /\ c.addr = b.addr /\ c.m_addr = b.m_addr /\ c.size = b.size
      /\ Offset(c) >= Offset(b)
  BY CarvedIsOK
<1>2. g \in GrantRecord
  BY GrantType
<1>3. /\ DOMAIN desc' = DOMAIN desc \cup {d} /\ desc'[d] = c
      /\ \A e \in DOMAIN desc : e # d => desc'[e] = desc[e]
  OBVIOUS
<1>4. /\ granted \in Seq(GrantRecord) /\ Len(granted) \in Nat
      /\ DOMAIN granted = 1 .. Len(granted)
      /\ granted' \in Seq(GrantRecord)
      /\ DOMAIN granted' = DOMAIN granted \cup {last}
      /\ granted'[last] = g
      /\ \A i \in DOMAIN granted : i # last /\ granted'[i] = granted[i]
  BY <1>2 DEF IInv, TypeOK
<1>5. Sane(g) => /\ g.buf = d /\ g.size = size /\ g.alignment = alignment
                 /\ g.addr - b.addr = g.m_addr - b.m_addr
                 /\ g.addr >= b.addr + Offset(b)
                 /\ g.addr + size <= b.addr + Offset(c)
                 /\ g.m_addr % alignment = 0
  BY SaneGrant
<1>6. g.size = size
  BY DEF Grant
<1>7. \A e \in DOMAIN desc : BufferOK(desc[e])
  BY DEF IInv, BuffersOK
<1>8. \A e \in DOMAIN desc :
        /\ desc'[e].addr = desc[e].addr /\ desc'[e].m_addr = desc[e].m_addr
        /\ desc'[e].size = desc[e].size
        /\ Offset(desc'[e]) >= Offset(desc[e])
  <2> SUFFICES ASSUME NEW e \in DOMAIN desc
               PROVE  /\ desc'[e].addr = desc[e].addr /\ desc'[e].m_addr = desc[e].m_addr
                      /\ desc'[e].size = desc[e].size
                      /\ Offset(desc'[e]) >= Offset(desc[e])
    OBVIOUS
  <2>1. CASE e = d
    BY <1>1, <1>3, <2>1
  <2>2. CASE e # d
    <3>1. Offset(desc[e]) \in Nat
      BY <1>7, BufferFacts DEF Offset
    <3>2. QED BY <1>3, <2>2, <3>1
  <2>3. QED BY <2>1, <2>2
<1> HIDE DEF c, g, last
<1>9. BuffersOK'
  BY <1>1, <1>3, <1>7 DEF BuffersOK
<1>10. desc' \in [DOMAIN desc' -> DescRecord] /\ DOMAIN desc' \subseteq Descs
  <2>1. \A e \in DOMAIN desc' : desc'[e] \in DescRecord
    BY <1>9 DEF BuffersOK, BufferOK
  <2>2. desc' = [e \in DOMAIN desc' |-> desc'[e]]
    BY <1>3
  <2>3. DOMAIN desc \subseteq Descs
    BY DEF IInv, TypeOK
  <2>4. QED BY <1>3, <2>1, <2>2, <2>3
<1>11. BuffersApart'
  <2> SUFFICES ASSUME NEW e \in DOMAIN desc', NEW f \in DOMAIN desc', e # f
               PROVE  /\ Apart(<<desc'[e].addr, desc'[e].size>>,
                               <<desc'[f].addr, desc'[f].size>>)
                      /\ Apart(<<desc'[e].m_addr, desc'[e].size>>,
                               <<desc'[f].m_addr, desc'[f].size>>)
    BY DEF BuffersApart
  <2>1. CASE e \in DOMAIN desc /\ f \in DOMAIN desc
    BY <1>8, <2>1 DEF IInv, BuffersApart
  <2>2. CASE e = d /\ d \notin DOMAIN desc
    BY <1>1, <1>3, <2>2 DEF Apart
  <2>3. CASE f = d /\ d \notin DOMAIN desc
    BY <1>1, <1>3, <2>3 DEF Apart
  <2>4. QED BY <1>3, <2>1, <2>2, <2>3
<1>12. GrantsAreRequests'
  BY <1>4, <1>6 DEF IInv, GrantsAreRequests
<1>13. BlocksInsideBuffers'
  <2> SUFFICES ASSUME NEW i \in DOMAIN granted', Sane(granted'[i])
               PROVE  LET h == granted'[i] IN
                      /\ h.buf \in DOMAIN desc'
                      /\ h.addr - desc'[h.buf].addr = h.m_addr - desc'[h.buf].m_addr
                      /\ h.addr >= desc'[h.buf].addr
                      /\ h.addr + h.size <= desc'[h.buf].addr + Offset(desc'[h.buf])
    BY DEF BlocksInsideBuffers, Offset
  <2>1. CASE i = last
    <3>1. Offset(b) \in Nat
      BY BufferFacts
    <3>2. b.addr \in Nat /\ g.addr \in Nat
      BY <1>2, BufferFacts DEF GrantRecord, SizeT
    <3>3. QED BY <1>1, <1>3, <1>4, <1>5, <2>1, <3>1, <3>2
  <2>2. CASE i \in DOMAIN granted
    <3>1. granted'[i] = granted[i] /\ granted[i] \in GrantRecord
      BY <1>4, <2>2
    <3>2. PICK h \in GrantRecord : h = granted[i]
      BY <3>1
    <3>3. PICK a, a2 : a = desc[h.buf] /\ a2 = desc'[h.buf]
      OBVIOUS
    <3>4. /\ h.buf \in DOMAIN desc
          /\ h.addr - a.addr = h.m_addr - a.m_addr
          /\ h.addr >= a.addr /\ h.addr + h.size <= a.addr + Offset(a)
      BY <2>2, <3>1, <3>2, <3>3 DEF IInv, BlocksInsideBuffers
    <3>5. BufferOK(a) /\ BufferOK(a2)
      BY <1>3, <1>7, <1>9, <3>3, <3>4 DEF BuffersOK
    <3>6. a2.addr = a.addr /\ a2.m_addr = a.m_addr /\ Offset(a2) >= Offset(a)
      BY <1>8, <3>3, <3>4
    <3>7. h.addr + h.size <= a2.addr + Offset(a2)
      <4>1. Offset(a) \in Nat /\ Offset(a2) \in Nat
        BY <3>5, BufferFacts
      <4>2. QED BY <3>4, <3>5, <3>6, <4>1, MoreUsed
    <3>8. QED BY <1>3, <3>1, <3>2, <3>3, <3>4, <3>6, <3>7
  <2>3. QED BY <1>4, <2>1, <2>2
<1>14. MirrorAligned'
  BY <1>4, <1>5 DEF IInv, MirrorAligned
<1>15. BlocksDisjoint'
  <2>1. ASSUME NEW i \in DOMAIN granted', Sane(granted'[i])
        PROVE  /\ granted'[i].buf \in DOMAIN desc'
               /\ BufferOK(desc'[granted'[i].buf])
               /\ LiesIn(granted'[i], desc'[granted'[i].buf], desc'[granted'[i].buf].size)
    <3>1. PICK h \in GrantRecord : h = granted'[i]
      BY <1>4
    <3>2. PICK a : a = desc'[h.buf]
      OBVIOUS
    <3>3. /\ h.buf \in DOMAIN desc'
          /\ h.addr - a.addr = h.m_addr - a.m_addr
          /\ h.addr >= a.addr /\ h.addr + h.size <= a.addr + Offset(a)
      BY <1>13, <2>1, <3>1, <3>2 DEF BlocksInsideBuffers, Offset
    <3>4. BufferOK(a)
      BY <1>9, <3>2, <3>3 DEF BuffersOK
    <3>5. h.addr + h.size <= a.addr + a.size /\ a.size \in Nat
      <4>1. Offset(a) \in Nat /\ a.size \in Nat /\ Offset(a) <= a.size
        BY <3>4, BufferFacts
      <4>2. QED BY <3>3, <3>4, <4>1, MoreUsed
    <3>6. LiesIn(h, a, a.size)
      BY <3>3, <3>4, <3>5, SameOffset
    <3>7. QED BY <3>1, <3>2, <3>3, <3>4, <3>6
  <2>2. ASSUME NEW i \in DOMAIN granted, Sane(granted[i]), Sane(g)
        PROVE  BothApart(g, granted[i]) /\ BothApart(granted[i], g)
    <3>1. PICK h \in GrantRecord : h = granted[i] /\ h = granted'[i]
      BY <1>4
    <3>2. h.buf \in DOMAIN desc /\ g.buf = d
      BY <1>5, <2>2, <3>1 DEF IInv, BlocksInsideBuffers
    <3>3. CASE h.buf = d
      <4>1. b = desc[d] /\ d \in DOMAIN desc
        BY <3>2, <3>3
      <4>2. /\ h.addr - b.addr = h.m_addr - b.m_addr
            /\ h.addr >= b.addr /\ h.addr + h.size <= b.addr + Offset(b)
        BY <2>2, <3>1, <3>3, <4>1 DEF IInv, BlocksInsideBuffers
      <4>3. LiesIn(h, b, Offset(b)) /\ Offset(b) \in Nat
        BY <4>2, BufferFacts, SameOffset
      <4>4. g.addr >= b.addr + Offset(b) /\ g.addr - b.addr = g.m_addr - b.m_addr
        BY <1>5, <2>2
      <4>5. QED BY <1>2, <3>1, <4>3, <4>4, CarvedAfter
    <3>4. CASE h.buf # d
      <4>1. PICK a : a = desc'[h.buf]
        OBVIOUS
      <4>2. BufferOK(a) /\ LiesIn(h, a, a.size)
        BY <1>4, <2>1, <2>2, <3>1, <4>1
      <4>3. BufferOK(c) /\ LiesIn(g, c, c.size)
        BY <1>3, <1>4, <2>1, <2>2, <3>2
      <4>4. BothApart(c, a)
        BY <1>3, <1>11, <3>2, <3>4, <4>1 DEF BuffersApart, BothApart
      <4>5. QED BY <1>2, <3>1, <4>2, <4>3, <4>4, ApartInside
    <3>5. QED BY <3>3, <3>4
  <2>3. ASSUME NEW i \in DOMAIN granted', NEW j \in DOMAIN granted', i # j,
               Sane(granted'[i]), Sane(granted'[j])
        PROVE  BothApart(granted'[i], granted'[j])
    <3>1. CASE i \in DOMAIN granted /\ j \in DOMAIN granted
      BY <1>4, <2>3, <3>1 DEF IInv, BlocksDisjoint, BothApart
    <3>2. CASE i = last /\ j \in DOMAIN granted
      BY <1>4, <2>2, <2>3, <3>2
    <3>3. CASE i \in DOMAIN granted /\ j = last
      BY <1>4, <2>2, <2>3, <3>3
    <3>4. QED BY <1>4, <2>3, <3>1, <3>2, <3>3
  <2>4. QED BY <2>3 DEF BlocksDisjoint, BothApart
<1>16. QED BY <1>4, <1>9, <1>10, <1>11, <1>12, <1>13, <1>14, <1>15

\* The request is served from the current buffer.
LEMMA FromCurrentStep ==
  ASSUME IInv, status = "live", NEW size \in SizeT \ {0}, NEW alignment \in SizeT,
         AllocFromCurrent(size, alignment)
  PROVE  IInv'
<1> DEFINE d == current_buffer
           b == desc[current_buffer]
<1>1. d \in DOMAIN desc /\ d \in Descs /\ BufferOK(b)
  BY ListFacts DEF IInv, Enumerated, BuffersOK, TypeOK, AllocFromCurrent
<1>2. desc' = [e \in DOMAIN desc \cup {d} |->
                 IF e = d THEN AfterFind(b, size, alignment) ELSE desc[e]]
  BY <1>1 DEF AllocFromCurrent, AfterFind, IInv, TypeOK
<1>3. granted' = Append(granted, Grant(d, b, size, alignment))
  BY DEF AllocFromCurrent
<1>4. /\ DOMAIN desc' \subseteq Descs /\ desc' \in [DOMAIN desc' -> DescRecord]
      /\ granted' \in Seq(GrantRecord)
      /\ BuffersOK' /\ BuffersApart' /\ GrantsAreRequests'
      /\ BlocksInsideBuffers' /\ MirrorAligned' /\ BlocksDisjoint'
  <2> HIDE DEF d, b
  <2>1. d \in DOMAIN desc => b = desc[d]
    BY DEF d, b
  <2>2. QED BY <1>1, <1>2, <1>3, <2>1, GrantStep
<1>5. TypeOK'
  BY <1>4 DEF IInv, TypeOK, AllocFromCurrent
<1>6. Enumerated' /\ NoneLeft'
  <2>1. BufferList' = BufferList /\ Released' = Released /\ DOMAIN desc' = DOMAIN desc
    BY <1>1, <1>2 DEF AllocFromCurrent, BufferList, Released
  <2>2. status' = "live"
    BY DEF AllocFromCurrent
  <2>3. QED BY <2>1, <2>2 DEF IInv, Enumerated, NoneLeft
<1>7. LedgersMatch'
  <2>1. \A e \in DOMAIN desc :
          /\ desc'[e].addr = desc[e].addr /\ desc'[e].m_addr = desc[e].m_addr
          /\ desc'[e].size = desc[e].size
    BY <1>1, <1>2, CarvedIsOK
  <2>2. DOMAIN desc' = DOMAIN desc
    BY <1>1, <1>2
  <2>3. hostMem' = hostMem /\ mirrorMem' = mirrorMem
    BY DEF AllocFromCurrent
  <2>4. QED BY <2>1, <2>2, <2>3 DEF IInv, LedgersMatch
<1>8. QED BY <1>4, <1>5, <1>6, <1>7 DEF IInv

\* The request is tried in a buffer obtained for it.
LEMMA FreshStep ==
  ASSUME IInv, status = "live", NEW size \in SizeT \ {0}, NEW alignment \in SizeT,
         AllocFresh(size, alignment)
  PROVE  IInv'
<1>1. PICK bytes : bytes = BuffAllocSize(total_size, size)
  OBVIOUS
<1>2. PICK d \in Descs \ DOMAIN desc,
           base \in Available(HostBases, hostMem, bytes),
           m_base \in Available(MirrorBases, mirrorMem, bytes) :
        /\ hostMem' = hostMem \cup {<<base, bytes>>}
        /\ mirrorMem' = mirrorMem \cup {<<m_base, bytes>>}
        /\ desc' = [e \in DOMAIN desc \cup {d} |->
                      IF e = d
                        THEN AfterFind(NewBuffer(base, m_base, bytes), size, alignment)
                        ELSE desc[e]]
        /\ current_buffer' = d
        /\ granted' = Append(granted, Grant(d, NewBuffer(base, m_base, bytes), size, alignment))
  BY <1>1 DEF AllocFresh
<1>3. PICK b : b = NewBuffer(base, m_base, bytes)
  OBVIOUS
<1>4. /\ <<base, bytes>> \in Region /\ <<m_base, bytes>> \in Region
      /\ \A r \in hostMem : Apart(<<base, bytes>>, r)
      /\ \A r \in mirrorMem : Apart(<<m_base, bytes>>, r)
  BY DEF Available
<1>5. /\ b.addr = base /\ b.m_addr = m_base /\ b.size = bytes /\ b.free = bytes
      /\ BufferOK(b)
  <2>1. /\ b.addr = base /\ b.m_addr = m_base /\ b.size = bytes /\ b.free = bytes
        /\ b = [addr |-> base, m_addr |-> m_base, size |-> bytes, free |-> bytes, count |-> 0]
    BY <1>3 DEF NewBuffer
  <2>2. base \in SizeT /\ m_base \in SizeT /\ bytes \in SizeT \ {0}
    BY <1>4, RegionFacts
  <2>3. b \in DescRecord /\ bytes \in 1 .. bytes
    BY <2>1, <2>2 DEF DescRecord, SizeT
  <2>4. QED BY <1>4, <2>1, <2>3 DEF BufferOK
<1>6. \A e \in DOMAIN desc :
        /\ Apart(<<b.addr, b.size>>, <<desc[e].addr, desc[e].size>>)
        /\ Apart(<<b.m_addr, b.size>>, <<desc[e].m_addr, desc[e].size>>)
  BY <1>4, <1>5 DEF IInv, LedgersMatch
<1>7. /\ DOMAIN desc' \subseteq Descs /\ desc' \in [DOMAIN desc' -> DescRecord]
      /\ granted' \in Seq(GrantRecord)
      /\ BuffersOK' /\ BuffersApart' /\ GrantsAreRequests'
      /\ BlocksInsideBuffers' /\ MirrorAligned' /\ BlocksDisjoint'
  <2>1. desc' = [e \in DOMAIN desc \cup {d} |->
                   IF e = d THEN AfterFind(b, size, alignment) ELSE desc[e]]
    BY <1>2, <1>3
  <2>2. granted' = Append(granted, Grant(d, b, size, alignment))
    BY <1>2, <1>3
  <2>3. d \in Descs /\ d \notin DOMAIN desc
    OBVIOUS
  <2>4. QED BY <1>5, <1>6, <2>1, <2>2, <2>3, GrantStep
<1>8. TypeOK'
  <2>1. hostMem' \subseteq Region /\ mirrorMem' \subseteq Region
    BY <1>2, <1>4 DEF IInv, TypeOK
  <2>2. ArrayOK(buffers')
    BY RetiredType DEF IInv, AllocFresh
  <2>3. total_size' \in SizeT
    <3>1. total_size \in Nat /\ bytes \in Nat
      BY <1>4, RegionFacts DEF IInv, TypeOK, SizeT
    <3>2. total_size' = TotalWith(bytes)
      BY <1>1 DEF AllocFresh
    <3>3. QED BY <3>1, <3>2, SizeModAssumption DEF SizeT, TotalWith
  <2>4. current_buffer' \in Descs
    BY <1>2
  <2>5. status' = status /\ listing' = listing /\ err' = "MAM_SUCCESS"
    BY DEF AllocFresh
  <2>6. QED BY <1>7, <2>1, <2>2, <2>3, <2>4, <2>5 DEF IInv, TypeOK, ArrayOK
<1>9. Enumerated'
  <2>1. BufferList' = BufferList \o <<d>> /\ BufferList \in Seq(Descs)
    BY <1>2, ListFacts, NoDescAssumption DEF IInv, BufferList, AllocFresh
  <2>2. /\ Len(BufferList') = Len(BufferList) + 1
        /\ DOMAIN BufferList' = DOMAIN BufferList \cup {Len(BufferList) + 1}
        /\ BufferList'[Len(BufferList) + 1] = d
        /\ \A i \in DOMAIN BufferList : BufferList'[i] = BufferList[i]
    BY <2>1
  <2>3. Released' = Released \cup {d} /\ DOMAIN desc' = DOMAIN desc \cup {d}
    BY <1>2, <2>2 DEF Released
  <2>4. /\ IsFiniteSet(DOMAIN desc \cup {d})
        /\ Cardinality(DOMAIN desc \cup {d}) = Cardinality(DOMAIN desc) + 1
    BY FS_AddElement DEF IInv, Enumerated
  <2>5. QED BY <2>2, <2>3, <2>4 DEF IInv, Enumerated
<1>10. LedgersMatch'
  <2>1. DOMAIN desc' = DOMAIN desc \cup {d}
    BY <1>2
  <2>2. /\ desc'[d].addr = base /\ desc'[d].m_addr = m_base /\ desc'[d].size = bytes
    BY <1>2, <1>3, <1>5, CarvedIsOK
  <2>3. \A e \in DOMAIN desc : desc'[e] = desc[e]
    BY <1>2
  <2>4. hostMem' = {<<desc'[e].addr, desc'[e].size>> : e \in DOMAIN desc'}
    BY <1>2, <2>1, <2>2, <2>3 DEF IInv, LedgersMatch
  <2>5. mirrorMem' = {<<desc'[e].m_addr, desc'[e].size>> : e \in DOMAIN desc'}
    BY <1>2, <2>1, <2>2, <2>3 DEF IInv, LedgersMatch
  <2>6. QED BY <2>4, <2>5 DEF LedgersMatch
<1>11. NoneLeft'
  BY DEF AllocFresh, NoneLeft
<1>12. QED BY <1>7, <1>8, <1>9, <1>10, <1>11 DEF IInv

\* mam_allocator_destroy releases every descriptor and both its areas.
LEMMA DestroyStep ==
  ASSUME IInv, Destroy
  PROVE  IInv'
<1>1. desc' = << >> /\ DOMAIN desc' = {} /\ granted' = << >>
  BY DEF IInv, Enumerated, Destroy
<1>2. hostMem' = {} /\ mirrorMem' = {}
  BY DEF IInv, Enumerated, LedgersMatch, Destroy
<1>3. BufferList' = << >> /\ Released' = {}
  BY DEF Destroy, BufferList, Released, EmptyArray
<1>4. Enumerated' /\ NoneLeft'
  BY <1>1, <1>3, FS_EmptySet DEF Enumerated, NoneLeft
<1>5. TypeOK'
  <2>1. 0 \in SizeT
    BY SizeModAssumption DEF SizeT
  <2>2. QED BY <1>1, <1>2, <2>1, EmptySeq DEF TypeOK, Destroy, EmptyArray
<1>6. QED
  BY <1>1, <1>2, <1>4, <1>5
  DEF IInv, LedgersMatch, BuffersOK, BuffersApart, GrantsAreRequests,
      BlocksInsideBuffers, MirrorAligned, BlocksDisjoint

\* mam_allocator_create starts from an empty list, which it already was.
LEMMA CreateStep ==
  ASSUME IInv, Create
  PROVE  IInv'
<1>1. desc = << >> /\ BufferList = << >>
  <2>1. desc = << >> /\ DOMAIN desc = {}
    BY DEF IInv, NoneLeft, Create
  <2>2. Len(BufferList) = 0
    BY <2>1, FS_EmptySet DEF IInv, Enumerated
  <2>3. BufferList \in Seq(Descs)
    BY ListFacts DEF IInv
  <2>4. QED BY <2>1, <2>2, <2>3, EmptySeq
<1>2. BufferList' = << >>
  BY DEF Create, BufferList, EmptyArray
<1>3. TypeOK'
  <2>1. 0 \in SizeT
    BY SizeModAssumption DEF SizeT
  <2>2. QED BY <2>1, EmptySeq DEF IInv, TypeOK, Create, EmptyArray
<1>4. QED BY <1>1, <1>2, <1>3, InvariantUnchanged DEF Create

\* The ways in which an allocation fails or does not return.
LEMMA FailingStep ==
  ASSUME IInv, status = "live", NEW size, NEW alignment,
         \/ AllocRetireFails(size, alignment)
         \/ AllocRetireOverruns(size, alignment)
         \/ AllocHangs(size, alignment)
         \/ AllocNoMemory(size, alignment)
  PROVE  IInv' /\ BufferList' = BufferList
<1>1. ArrayOK(buffers) /\ TypeOK /\ BufferList \in Seq(Descs)
  BY ListFacts DEF IInv, TypeOK, ArrayOK
<1>2. CASE AllocRetireFails(size, alignment)
  <2>1. ArrayOK(buffers') /\ buffers'.elems = buffers.elems
    BY <1>1, <1>2, ArrayTypes DEF AllocRetireFails, ReserveFailed, ArrayOK
  <2>2. BufferList' = BufferList
    BY <1>2, <2>1 DEF AllocRetireFails, BufferList
  <2>3. TypeOK'
    BY <1>1, <1>2, <2>1 DEF AllocRetireFails, TypeOK, ArrayOK
  <2>4. QED BY <1>2, <2>2, <2>3, InvariantUnchanged DEF AllocRetireFails
<1>3. CASE AllocRetireOverruns(size, alignment)
  <2>1. BufferList' = BufferList
    BY <1>3 DEF AllocRetireOverruns, memory, BufferList
  <2>2. TypeOK'
    BY <1>1, <1>3 DEF AllocRetireOverruns, memory, TypeOK
  <2>3. QED BY <1>3, <2>1, <2>2, InvariantUnchanged DEF AllocRetireOverruns, memory
<1>4. ASSUME buffers' = Retired, current_buffer' = NoDesc
      PROVE  BufferList' = BufferList /\ ArrayOK(buffers')
  <2>1. ArrayOK(Retired) /\ Retired.elems = BufferList
    BY <1>1, RetiredType, ListFacts
  <2>2. BufferList' = buffers'.elems \o << >>
    BY <1>4 DEF BufferList
  <2>3. QED BY <1>1, <1>4, <2>1, <2>2, ConcatEmptySeq
<1>5. CASE AllocHangs(size, alignment)
  <2>1. TypeOK'
    BY <1>1, <1>4, <1>5 DEF AllocHangs, TypeOK, ArrayOK
  <2>2. QED BY <1>4, <1>5, <2>1, InvariantUnchanged DEF AllocHangs
<1>6. CASE AllocNoMemory(size, alignment)
  <2>1. hostMem' = hostMem
    <3>1. \A base \in Available(HostBases, hostMem, BuffAllocSize(total_size, size)) :
            <<base, BuffAllocSize(total_size, size)>> \notin hostMem
      BY RegionFacts DEF Available, Apart, SizeT
    <3>2. QED BY <1>6, <3>1 DEF AllocNoMemory, RolledBack
  <2>2. TypeOK'
    BY <1>1, <1>4, <1>6, <2>1 DEF AllocNoMemory, TypeOK, ArrayOK
  <2>3. QED BY <1>4, <1>6, <2>1, <2>2, InvariantUnchanged DEF AllocNoMemory
<1>7. QED BY <1>2, <1>3, <1>5, <1>6

\* Calls that touch nothing but the client's array and the return code.
LEMMA QuietStep ==
  ASSUME IInv,
         \/ CreateFails
         \/ AllocInvalid
         \/ \E n \in ListSizes, hasArray \in BOOLEAN : GetBufferDescs(n, hasArray)
         \/ UNCHANGED vars
  PROVE  IInv' /\ BufferList' = BufferList
<1>1. /\ status' = status /\ total_size' = total_size /\ current_buffer' = current_buffer
      /\ buffers' = buffers /\ UNCHANGED <<desc, hostMem, mirrorMem, granted>>
  BY DEF CreateFails, AllocInvalid, GetBufferDescs, vars, memory
<1>2. BufferList' = BufferList
  BY <1>1 DEF BufferList
<1>3. listing' \in Seq(Descs \cup {NoDesc})
  <2>1. ASSUME NEW n \in ListSizes
        PROVE  [i \in 1 .. n |-> IF i <= Len(BufferList) THEN BufferList[i] ELSE NoDesc]
                 \in Seq(Descs \cup {NoDesc})
    <3>1. BufferList \in Seq(Descs)
      BY ListFacts DEF IInv
    <3>2. n \in Nat
      BY BoundsAssumption
    <3>3. \A i \in 1 .. n : (IF i <= Len(BufferList) THEN BufferList[i] ELSE NoDesc)
                               \in Descs \cup {NoDesc}
      BY <3>1
    <3>4. QED BY <3>2, <3>3, SeqDef
  <2>2. listing \in Seq(Descs \cup {NoDesc})
    BY DEF IInv, TypeOK
  <2>3. QED
    BY <2>1, <2>2 DEF CreateFails, AllocInvalid, GetBufferDescs, vars
<1>4. err' \in {"MAM_SUCCESS", "MAM_EINVAL", "MAM_ENOMEM"}
  BY DEF CreateFails, AllocInvalid, GetBufferDescs, vars, IInv, TypeOK
<1>5. TypeOK'
  BY <1>1, <1>3, <1>4 DEF IInv, TypeOK
<1>6. QED BY <1>1, <1>2, <1>5, InvariantUnchanged

------------------------------------------------------------------------------
(* Every step.                                                             *)

LEMMA RequestTypes ==
  ASSUME NEW size \in Sizes, NEW alignment \in Alignments,
         ValidRequest(size, alignment)
  PROVE  size \in SizeT \ {0} /\ alignment \in SizeT
BY RequestsAssumption DEF ValidRequest

LEMMA StepInvariant == IInv /\ [Next]_vars => IInv'
<1> SUFFICES ASSUME IInv, [Next]_vars PROVE IInv'
  OBVIOUS
<1>1. CASE Create
  BY <1>1, CreateStep
<1>2. CASE Destroy
  BY <1>2, DestroyStep
<1>3. ASSUME NEW size \in Sizes, NEW alignment \in Alignments, Alloc(size, alignment)
      PROVE  IInv'
  <2>1. size \in SizeT \ {0} /\ alignment \in SizeT /\ status = "live"
    BY <1>3, RequestTypes DEF Alloc
  <2>2. CASE AllocFromCurrent(size, alignment)
    BY <2>1, <2>2, FromCurrentStep
  <2>3. CASE AllocFresh(size, alignment)
    BY <2>1, <2>3, FreshStep
  <2>4. CASE \/ AllocRetireFails(size, alignment)
             \/ AllocRetireOverruns(size, alignment)
             \/ AllocHangs(size, alignment)
             \/ AllocNoMemory(size, alignment)
    BY <2>1, <2>4, FailingStep
  <2>5. QED BY <1>3, <2>2, <2>3, <2>4 DEF Alloc
<1>4. CASE \/ CreateFails
           \/ AllocInvalid
           \/ \E n \in ListSizes, hasArray \in BOOLEAN : GetBufferDescs(n, hasArray)
           \/ UNCHANGED vars
  BY <1>4, QuietStep
<1>5. QED BY <1>1, <1>2, <1>3, <1>4 DEF Next, Lost

\* The inductive invariant holds in every reachable state.
THEOREM Invariance == Spec => []IInv
BY InitInvariant, StepInvariant, PTL DEF Spec

\* Every variable keeps its type.
THEOREM TypeInvariant == Spec => []TypeOK
<1>1. IInv => TypeOK
  BY DEF IInv
<1>2. QED BY <1>1, Invariance, PTL

\* A placed block whose size and padding did not wrap lies at one offset of
\* both its buffers, in their used part, for whatever requests came before it,
\* those that wrap around included.
THEOREM BlocksStayInside == Spec => []BlocksInsideBuffers
<1>1. IInv => BlocksInsideBuffers
  BY DEF IInv
<1>2. QED BY <1>1, Invariance, PTL

\* No two placed blocks whose size and padding did not wrap ever share a byte,
\* on either side.
THEOREM BlocksStayDisjoint == Spec => []BlocksDisjoint
<1>1. IInv => BlocksDisjoint
  BY DEF IInv
<1>2. QED BY <1>1, Invariance, PTL

\* The mirror address of every placed block has the requested alignment, if
\* its size and padding did not wrap.
THEOREM MirrorStaysAligned == Spec => []MirrorAligned
<1>1. IInv => MirrorAligned
  BY DEF IInv
<1>2. QED BY <1>1, Invariance, PTL

\* The platforms are owed the areas of the listed descriptors, each listed
\* once, and nothing once the allocator is destroyed.
THEOREM NothingEverLeaks == Spec => []NothingLeaks
<1>1. IInv => NothingLeaks
  BY DEF IInv, Enumerated, NoneLeft, LedgersMatch, NothingLeaks
<1>2. QED BY <1>1, Invariance, PTL

------------------------------------------------------------------------------
(* The order of the buffers, as the client sees it.                        *)

\* What a step does to the list: a new buffer comes last, destroy empties
\* it, nothing else changes it.
LEMMA ListStep ==
  ASSUME IInv, Next
  PROVE  \/ BufferList' = BufferList
         \/ \E d \in Descs : BufferList' = BufferList \o <<d>>
         \/ Destroy
<1>1. CASE Create
  <2>1. status = "none"
    BY <1>1 DEF Create
  <2>2. Len(BufferList) = 0 /\ BufferList \in Seq(Descs)
    BY <2>1, ListFacts, FS_EmptySet DEF IInv, NoneLeft, Enumerated
  <2>3. BufferList' = << >>
    BY <1>1 DEF Create, BufferList, EmptyArray
  <2>4. QED BY <2>2, <2>3, EmptySeq
<1>2. ASSUME NEW size \in Sizes, NEW alignment \in Alignments, Alloc(size, alignment)
      PROVE  BufferList' = BufferList \/ \E d \in Descs : BufferList' = BufferList \o <<d>>
  <2>1. status = "live"
    BY <1>2 DEF Alloc
  <2>2. CASE AllocFromCurrent(size, alignment)
    BY <2>2 DEF AllocFromCurrent, BufferList
  <2>3. CASE AllocFresh(size, alignment)
    <3>1. PICK d \in Descs : current_buffer' = d /\ buffers' = Retired
      BY <2>3 DEF AllocFresh
    <3>2. BufferList' = BufferList \o <<d>>
      BY <3>1, ListFacts, NoDescAssumption DEF IInv, BufferList
    <3>3. QED BY <3>2
  <2>4. CASE \/ AllocRetireFails(size, alignment)
             \/ AllocRetireOverruns(size, alignment)
             \/ AllocHangs(size, alignment)
             \/ AllocNoMemory(size, alignment)
    BY <2>1, <2>4, FailingStep
  <2>5. QED BY <1>2, <2>2, <2>3, <2>4 DEF Alloc
<1>3. CASE \/ CreateFails
           \/ AllocInvalid
           \/ \E n \in ListSizes, hasArray \in BOOLEAN : GetBufferDescs(n, hasArray)
           \/ UNCHANGED vars
  BY <1>3, QuietStep
<1>4. QED BY <1>1, <1>2, <1>3 DEF Next, Lost

LEMMA ListingStep == ListingIsPrefix /\ IInv /\ [Next]_vars => ListingIsPrefix'
<1> SUFFICES ASSUME ListingIsPrefix, IInv, [Next]_vars PROVE ListingIsPrefix'
  OBVIOUS
<1>1. BufferList \in Seq(Descs)
  BY ListFacts DEF IInv
<1>2. CASE UNCHANGED vars
  BY <1>2, QuietStep DEF ListingIsPrefix, vars
<1>3. CASE Destroy
  BY <1>3 DEF Destroy, ListingIsPrefix
<1>4. CASE \E n \in ListSizes, hasArray \in BOOLEAN : GetBufferDescs(n, hasArray)
  <2>1. BufferList' = BufferList
    BY <1>4, QuietStep
  <2>2. PICK n \in ListSizes : \/ listing' = listing
                              \/ listing' = [i \in 1 .. n |->
                                    IF i <= Len(BufferList) THEN BufferList[i] ELSE NoDesc]
    BY <1>4 DEF GetBufferDescs
  <2>3. CASE listing' = listing
    BY <2>1, <2>3 DEF ListingIsPrefix
  <2>4. CASE listing' # listing
    BY <2>1, <2>2, <2>4 DEF ListingIsPrefix
  <2>5. QED BY <2>3, <2>4
<1>5. CASE /\ Next /\ listing' = listing /\ ~Destroy
  <2>1. \/ BufferList' = BufferList
        \/ \E d \in Descs : BufferList' = BufferList \o <<d>>
    BY <1>5, ListStep
  <2>2. \A i \in 1 .. Len(BufferList) : i <= Len(BufferList') /\ BufferList'[i] = BufferList[i]
    <3>1. CASE BufferList' = BufferList
      BY <1>1, <3>1
    <3>2. ASSUME NEW d \in Descs, BufferList' = BufferList \o <<d>>
          PROVE  \A i \in 1 .. Len(BufferList) :
                   i <= Len(BufferList') /\ BufferList'[i] = BufferList[i]
      <4>1. /\ Len(BufferList \o <<d>>) = Len(BufferList) + 1 /\ Len(BufferList) \in Nat
            /\ \A i \in 1 .. Len(BufferList) : (BufferList \o <<d>>)[i] = BufferList[i]
        BY <1>1
      <4>2. QED BY <3>2, <4>1
    <3>3. QED BY <2>1, <3>1, <3>2
  <2>3. DOMAIN listing \subseteq Nat \ {0}
    BY DEF IInv, TypeOK
  <2>4. QED BY <1>1, <1>5, <2>2, <2>3 DEF ListingIsPrefix
<1>6. Next /\ ~Destroy /\ ~(\E n \in ListSizes, hasArray \in BOOLEAN : GetBufferDescs(n, hasArray))
        => listing' = listing
  BY DEF Next, Create, CreateFails, AllocInvalid, Alloc, AllocFromCurrent, AllocRetireFails,
         AllocRetireOverruns, AllocHangs, AllocNoMemory, AllocFresh, Lost, vars
<1>7. QED BY <1>2, <1>3, <1>4, <1>5, <1>6

\* A list of the buffers obtained at any time stays a prefix of the list of
\* the buffers for the rest of the allocator's life.
THEOREM ListingStaysPrefix == Spec => []ListingIsPrefix
<1>1. Init => ListingIsPrefix
  BY DEF Init, ListingIsPrefix
<1>2. QED BY <1>1, ListingStep, Invariance, PTL DEF Spec

\* A call that fails leaves the blocks, the buffers and their order, and
\* the memory owed to the platforms as they were.
THEOREM FailuresAreHarmless == Spec => FailureIsHarmless
<1>1. ASSUME IInv, Next, err' # "MAM_SUCCESS"
      PROVE  /\ BufferList' = BufferList
             /\ UNCHANGED <<total_size, desc, hostMem, mirrorMem, granted>>
  <2>1. ~Create /\ ~Destroy
    BY <1>1 DEF Create, Destroy
  <2>2. ASSUME NEW size \in Sizes, NEW alignment \in Alignments, Alloc(size, alignment)
        PROVE  /\ BufferList' = BufferList
               /\ UNCHANGED <<total_size, desc, hostMem, mirrorMem, granted>>
    <3>1. ~AllocFromCurrent(size, alignment) /\ ~AllocFresh(size, alignment)
      BY <1>1 DEF AllocFromCurrent, AllocFresh
    <3>2. /\ status = "live"
          /\ \/ AllocRetireFails(size, alignment)
             \/ AllocRetireOverruns(size, alignment)
             \/ AllocHangs(size, alignment)
             \/ AllocNoMemory(size, alignment)
      BY <2>2, <3>1 DEF Alloc
    <3>3. BufferList' = BufferList
      BY <1>1, <3>2, FailingStep
    <3>4. \A base \in Available(HostBases, hostMem, BuffAllocSize(total_size, size)) :
            <<base, BuffAllocSize(total_size, size)>> \notin hostMem
      BY RegionFacts DEF Available, Apart, SizeT
    <3>5. UNCHANGED <<total_size, desc, hostMem, mirrorMem, granted>>
      BY <3>2, <3>4
      DEF AllocRetireFails, AllocRetireOverruns, AllocHangs, AllocNoMemory, RolledBack, memory
    <3>6. QED BY <3>3, <3>5
  <2>3. CASE \/ CreateFails
             \/ AllocInvalid
             \/ \E n \in ListSizes, hasArray \in BOOLEAN : GetBufferDescs(n, hasArray)
             \/ UNCHANGED vars
    <3>1. BufferList' = BufferList
      BY <1>1, <2>3, QuietStep
    <3>2. UNCHANGED <<total_size, desc, hostMem, mirrorMem, granted>>
      BY <2>3 DEF CreateFails, AllocInvalid, GetBufferDescs, vars, memory
    <3>3. QED BY <3>1, <3>2
  <2>4. QED BY <1>1, <2>1, <2>2, <2>3 DEF Next, Lost
<1>2. IInv /\ [Next]_vars =>
        [err' # "MAM_SUCCESS" =>
           /\ BufferList' = BufferList
           /\ UNCHANGED <<total_size, desc, hostMem, mirrorMem, granted>>]_vars
  BY <1>1
<1>3. QED BY <1>2, Invariance, PTL DEF Spec, FailureIsHarmless

------------------------------------------------------------------------------
(***************************************************************************)
(* The counters of the allocator: what total_size and count stand for, how *)
(* fast the buffers grow, and which requests are answered MAM_SUCCESS      *)
(* without an address.  The invariant is the conjunction of these facts    *)
(* with one more: every request granted names a descriptor in memory.  It  *)
(* rests on the invariant of the blocks and the memory.                    *)
(***************************************************************************)

\* The buffer of a granted request is in memory, placed or not.
GrantsHaveBuffers == \A i \in DOMAIN granted : granted[i].buf \in DOMAIN desc

Accounts ==
  /\ GrantsHaveBuffers
  /\ UnplacedOnlyWhenTight
  /\ CountMatches
  /\ TotalIsHeld
  /\ BuffersDouble

------------------------------------------------------------------------------
(* Bytes of the memory of a platform.                                      *)

\* The bytes of a platform are finitely many, and fewer than the addresses.
LEMMA BytesFacts ==
  ASSUME NEW mem, mem \subseteq Region
  PROVE  /\ Bytes(mem) \subseteq 1 .. SizeMod - 1
         /\ IsFiniteSet(Bytes(mem))
         /\ Cardinality(Bytes(mem)) \in SizeT
<1>1. SizeMod \in Nat \ {0, 1}
  BY SizeModAssumption
<1>2. Bytes(mem) \subseteq 1 .. SizeMod - 1
  <2> SUFFICES ASSUME NEW r \in mem, NEW x \in r[1] .. r[1] + r[2] - 1
               PROVE  x \in 1 .. SizeMod - 1
    BY DEF Bytes
  <2>1. r[1] \in Nat \ {0} /\ r[2] \in Nat \ {0} /\ r[1] + r[2] <= SizeMod
    BY <1>1 DEF Region, SizeT
  <2>2. QED BY <1>1, <2>1
<1>3. IsFiniteSet(1 .. SizeMod - 1) /\ Cardinality(1 .. SizeMod - 1) = SizeMod - 1
  BY <1>1, FS_Interval
<1>4. IsFiniteSet(Bytes(mem)) /\ Cardinality(Bytes(mem)) <= SizeMod - 1
  BY <1>2, <1>3, FS_Subset
<1>5. Cardinality(Bytes(mem)) \in Nat
  BY <1>4, FS_CardinalityType
<1>6. QED BY <1>1, <1>2, <1>4, <1>5 DEF SizeT

LEMMA NoBytes == Bytes({}) = {} /\ Cardinality(Bytes({})) = 0
BY FS_EmptySet DEF Bytes

\* A block apart from all the others adds its bytes.
LEMMA BytesAdd ==
  ASSUME NEW mem, mem \subseteq Region, NEW a, NEW n, <<a, n>> \in Region,
         \A r \in mem : Apart(<<a, n>>, r)
  PROVE  Cardinality(Bytes(mem \cup {<<a, n>>})) = Cardinality(Bytes(mem)) + n
<1>1. a \in Nat /\ n \in Nat \ {0}
  BY RegionFacts, SizeModAssumption DEF SizeT
<1>2. IsFiniteSet(a .. a + n - 1) /\ Cardinality(a .. a + n - 1) = n
  <2>1. PICK z \in Int : z = a + n - 1
    BY <1>1
  <2>2. ~(a > z) /\ z - a + 1 = n /\ a \in Int
    BY <1>1, <2>1
  <2>3. IsFiniteSet(a .. z) /\ Cardinality(a .. z) = z - a + 1
    BY <2>2, FS_Interval
  <2>4. QED BY <2>1, <2>2, <2>3
<1>3. PICK own : own = a .. a + n - 1
  OBVIOUS
<1>4. Bytes(mem \cup {<<a, n>>}) = Bytes(mem) \cup own
  BY <1>3 DEF Bytes
<1>5. Bytes(mem) \cap own = {}
  <2> SUFFICES ASSUME NEW r \in mem, NEW x \in r[1] .. r[1] + r[2] - 1, x \in own
               PROVE  FALSE
    BY DEF Bytes
  <2>1. r[1] \in Nat /\ r[2] \in Nat
    BY SizeModAssumption DEF Region, SizeT
  <2>2. a + n <= r[1] \/ r[1] + r[2] <= a
    BY DEF Apart
  <2>3. QED BY <1>1, <1>3, <2>1, <2>2
<1>6. IsFiniteSet(Bytes(mem)) /\ Cardinality(Bytes(mem)) \in Nat
  BY BytesFacts DEF SizeT
<1>7. Cardinality(Bytes(mem) \cap own) = 0
  BY <1>5, FS_EmptySet
<1>8. Cardinality(Bytes(mem) \cup own)
        = Cardinality(Bytes(mem)) + Cardinality(own) - Cardinality(Bytes(mem) \cap own)
  BY <1>2, <1>3, <1>6, FS_Union
<1>9. Cardinality(own) = n
  BY <1>2, <1>3
<1>10. Cardinality(Bytes(mem) \cup own) = Cardinality(Bytes(mem)) + n
  BY <1>1, <1>6, <1>7, <1>8, <1>9
<1>11. QED BY <1>4, <1>10

------------------------------------------------------------------------------
(* What a search in a buffer does to the accounts of that buffer.          *)

\* A padding is less than the alignment.
LEMMA PadBound ==
  ASSUME NEW b, BufferOK(b), NEW alignment \in SizeT \ {0}
  PROVE  Pad(b, alignment) \in 0 .. alignment - 1
<1>1. SizeMod \in Nat \ {0} /\ alignment \in Nat \ {0} /\ alignment < SizeMod
  BY SizeModAssumption DEF SizeT
<1>2. PICK x : x = (b.m_addr + Offset(b)) % SizeMod
  OBVIOUS
<1>3. x \in Nat
  BY <1>1, <1>2, BufferFacts
<1>4. PICK past : past = x % alignment
  OBVIOUS
<1>5. past \in 0 .. alignment - 1
  BY <1>1, <1>3, <1>4
<1>6. Pad(b, alignment) = IF past = 0 THEN 0 ELSE (alignment - past) % SizeMod
  BY <1>1, <1>2, <1>4 DEF Pad, Masked
<1>7. past # 0 => (alignment - past) % SizeMod = alignment - past
  BY <1>1, <1>5
<1>8. QED BY <1>1, <1>5, <1>6, <1>7

\* In an empty buffer only a request that with its alignment is larger than
\* the buffer finds no place.
LEMMA TightFacts ==
  ASSUME NEW b, BufferOK(b), b.free = b.size,
         NEW size \in SizeT, NEW alignment \in SizeT \ {0}, ~Fits(b, size, alignment)
  PROVE  size + alignment > b.size
<1>1. PICK pad \in 0 .. alignment - 1 : pad = Pad(b, alignment)
  BY PadBound
<1>2. b.size \in SizeT /\ ~(b.size > (size + pad) % SizeMod)
  BY <1>1 DEF Fits, Needed, BufferOK, DescRecord
<1>3. CASE size + pad < SizeMod
  <2>1. (size + pad) % SizeMod = size + pad
    BY <1>3, SizeModAssumption DEF SizeT
  <2>2. QED BY <1>2, <2>1, SizeModAssumption DEF SizeT
<1>4. CASE size + pad >= SizeMod
  BY <1>2, <1>4, SizeModAssumption DEF SizeT
<1>5. QED BY <1>3, <1>4, SizeModAssumption DEF SizeT

\* count goes up with every block placed, and only then.
LEMMA CountFacts ==
  ASSUME NEW d, NEW b, BufferOK(b), NEW size, NEW alignment,
         NEW g, g = Grant(d, b, size, alignment)
  PROVE  /\ g.buf = d /\ g.size = size /\ g.alignment = alignment
         /\ g.placed \in BOOLEAN /\ (g.placed <=> Fits(b, size, alignment))
         /\ AfterFind(b, size, alignment).count = IF g.placed THEN b.count + 1 ELSE b.count
<1>1. /\ g.buf = d /\ g.size = size /\ g.alignment = alignment
      /\ g.placed \in BOOLEAN /\ (g.placed <=> Fits(b, size, alignment))
  BY DEF Grant
<1>2. AfterFind(b, size, alignment).count = IF g.placed THEN b.count + 1 ELSE b.count
  <2>1. b \in DescRecord
    BY DEF BufferOK
  <2>2. CASE Fits(b, size, alignment)
    <3>1. PICK need : need = Needed(b, size, alignment)
      OBVIOUS
    <3>2. AfterFind(b, size, alignment) = [b EXCEPT !.free = b.free - need, !.count = b.count + 1]
      BY <2>2, <3>1 DEF AfterFind, Carved
    <3>3. QED BY <1>1, <2>1, <2>2, <3>2 DEF DescRecord
  <2>3. CASE ~Fits(b, size, alignment)
    BY <1>1, <2>3 DEF AfterFind
  <2>4. QED BY <2>2, <2>3
<1>3. QED BY <1>1, <1>2

\* The blocks that a descriptor counts.
Counted(d) == {i \in DOMAIN granted : granted[i].buf = d /\ granted[i].placed}

LEMMA CountedFinite ==
  ASSUME TypeOK
  PROVE  \A d : IsFiniteSet(Counted(d))
<1>1. Len(granted) \in Nat /\ DOMAIN granted = 1 .. Len(granted)
  BY DEF TypeOK
<1>2. IsFiniteSet(1 .. Len(granted))
  BY <1>1, FS_Interval
<1>3. \A d : Counted(d) \in SUBSET (1 .. Len(granted))
  BY <1>1 DEF Counted
<1>4. QED BY <1>2, <1>3, FS_Subset

LEMMA CountMatchesCounted ==
  CountMatches <=> \A d \in DOMAIN desc : desc[d].count = Cardinality(Counted(d))
BY DEF CountMatches, Counted

\* A successful allocation in buffer b of descriptor d, the current one or a
\* new one: in a current buffer the request was found to fit.
LEMMA GrantAccounts ==
  ASSUME IInv, Accounts, NEW d \in Descs, NEW b, BufferOK(b),
         NEW size \in SizeT \ {0}, NEW alignment \in SizeT,
         d \in DOMAIN desc => b = desc[d] /\ Fits(b, size, alignment),
         d \notin DOMAIN desc => b.free = b.size /\ b.count = 0,
         desc' = [e \in DOMAIN desc \cup {d} |->
                    IF e = d THEN AfterFind(b, size, alignment) ELSE desc[e]],
         granted' = Append(granted, Grant(d, b, size, alignment))
  PROVE  GrantsHaveBuffers' /\ UnplacedOnlyWhenTight' /\ CountMatches'
<1> DEFINE last == Len(granted) + 1
<1>1. PICK g, c : g = Grant(d, b, size, alignment) /\ c = AfterFind(b, size, alignment)
  OBVIOUS
<1>2. /\ g.buf = d /\ g.size = size /\ g.alignment = alignment
      /\ g.placed \in BOOLEAN /\ (g.placed <=> Fits(b, size, alignment))
      /\ c.count = IF g.placed THEN b.count + 1 ELSE b.count
  BY <1>1, CountFacts
<1>3. c.size = b.size
  BY <1>1, CarvedIsOK
<1>4. /\ DOMAIN desc' = DOMAIN desc \cup {d} /\ desc'[d] = c
      /\ \A e \in DOMAIN desc : e # d => desc'[e] = desc[e]
      /\ d \in DOMAIN desc => b = desc[d]
  BY <1>1
<1>5. /\ Len(granted) \in Nat /\ DOMAIN granted = 1 .. Len(granted)
      /\ DOMAIN granted' = DOMAIN granted \cup {last}
      /\ granted'[last] = g
      /\ \A i \in DOMAIN granted : i # last /\ granted'[i] = granted[i]
  <2>1. granted \in Seq(GrantRecord) /\ g \in GrantRecord
    BY <1>1, GrantType DEF IInv, TypeOK
  <2>2. QED BY <1>1, <2>1
<1> HIDE DEF last
<1>6. GrantsHaveBuffers'
  BY <1>2, <1>4, <1>5 DEF Accounts, GrantsHaveBuffers
<1>7. \A e \in DOMAIN desc : desc'[e].size = desc[e].size
  BY <1>3, <1>4
<1>8. UnplacedOnlyWhenTight'
  <2> SUFFICES ASSUME NEW i \in DOMAIN granted', ~granted'[i].placed, granted'[i].alignment # 0
               PROVE  granted'[i].size + granted'[i].alignment > desc'[granted'[i].buf].size
    BY DEF UnplacedOnlyWhenTight
  <2>1. CASE i = last
    <3>1. d \notin DOMAIN desc /\ ~Fits(b, size, alignment) /\ alignment \in SizeT \ {0}
      BY <1>2, <1>5, <2>1
    <3>2. size + alignment > b.size
      BY <3>1, TightFacts
    <3>3. QED BY <1>2, <1>3, <1>4, <1>5, <2>1, <3>2
  <2>2. CASE i \in DOMAIN granted
    BY <1>5, <1>7, <2>2 DEF Accounts, UnplacedOnlyWhenTight, GrantsHaveBuffers
  <2>3. QED BY <1>5, <2>1, <2>2
<1>9. CountMatches'
  <2>1. \A e : Counted(e)' = IF e = d /\ g.placed THEN Counted(e) \cup {last} ELSE Counted(e)
    <3>1. \A e : Counted(e)' = {i \in DOMAIN granted \cup {last} :
                                  granted'[i].buf = e /\ granted'[i].placed}
      BY <1>5 DEF Counted
    <3>2. QED BY <1>2, <1>5, <3>1 DEF Counted
  <2>2. \A e : last \notin Counted(e)
    BY <1>5 DEF Counted
  <2>3. \A e : IsFiniteSet(Counted(e))
    BY CountedFinite DEF IInv
  <2>4. \A e : Cardinality(Counted(e)) \in Nat
               /\ Cardinality(Counted(e) \cup {last}) = Cardinality(Counted(e)) + 1
    BY <2>2, <2>3, FS_AddElement, FS_CardinalityType
  <2>5. \A e \in DOMAIN desc : desc[e].count = Cardinality(Counted(e))
    BY CountMatchesCounted DEF Accounts
  <2>6. b.count = Cardinality(Counted(d))
    <3>1. CASE d \in DOMAIN desc
      BY <1>4, <2>5, <3>1
    <3>2. CASE d \notin DOMAIN desc
      <4>1. Counted(d) = {}
        BY <3>2 DEF Accounts, GrantsHaveBuffers, Counted
      <4>2. QED BY <3>2, <4>1, FS_EmptySet
    <3>3. QED BY <3>1, <3>2
  <2>7. \A e \in DOMAIN desc' : desc'[e].count = Cardinality(Counted(e)')
    <3> SUFFICES ASSUME NEW e \in DOMAIN desc' PROVE desc'[e].count = Cardinality(Counted(e)')
      OBVIOUS
    <3>1. CASE e = d /\ g.placed
      BY <1>2, <1>4, <2>1, <2>4, <2>6, <3>1
    <3>2. CASE e = d /\ ~g.placed
      BY <1>2, <1>4, <2>1, <2>6, <3>2
    <3>3. CASE e # d
      BY <1>4, <2>1, <2>5, <3>3
    <3>4. QED BY <3>1, <3>2, <3>3
  <2>8. QED BY <2>7 DEF CountMatches, Counted
<1>10. QED BY <1>6, <1>8, <1>9

\* Nothing in the accounts depends on the calls that fail or only look.
LEMMA AccountsUnchanged ==
  ASSUME Accounts, BufferList' = BufferList,
         UNCHANGED <<total_size, desc, hostMem, mirrorMem, granted>>
  PROVE  Accounts'
BY DEF Accounts, GrantsHaveBuffers, UnplacedOnlyWhenTight, CountMatches, TotalIsHeld, BuffersDouble, Bytes

\* The request is served from the current buffer: no memory is obtained.
LEMMA FromCurrentAccounts ==
  ASSUME IInv, Accounts, NEW size \in SizeT \ {0}, NEW alignment \in SizeT,
         AllocFromCurrent(size, alignment)
  PROVE  Accounts'
<1>1. PICK b : b = desc[current_buffer]
  OBVIOUS
<1>2. /\ current_buffer \in DOMAIN desc /\ current_buffer \in Descs /\ BufferOK(b)
      /\ Fits(b, size, alignment)
  BY <1>1, ListFacts DEF IInv, Enumerated, BuffersOK, TypeOK, AllocFromCurrent
<1>3. /\ desc' = [e \in DOMAIN desc \cup {current_buffer} |->
                    IF e = current_buffer THEN AfterFind(b, size, alignment) ELSE desc[e]]
      /\ granted' = Append(granted, Grant(current_buffer, b, size, alignment))
  BY <1>1, <1>2 DEF AllocFromCurrent, AfterFind, IInv, TypeOK
<1>4. GrantsHaveBuffers' /\ UnplacedOnlyWhenTight' /\ CountMatches'
  BY <1>1, <1>2, <1>3, GrantAccounts
<1>5. TotalIsHeld'
  BY DEF Accounts, TotalIsHeld, AllocFromCurrent, Bytes
<1>6. BuffersDouble'
  <2>1. BufferList' = BufferList
    BY DEF AllocFromCurrent, BufferList
  <2>2. \A e \in DOMAIN desc : desc'[e].addr = desc[e].addr /\ desc'[e].size = desc[e].size
    BY <1>1, <1>2, <1>3, CarvedIsOK
  <2>3. BufferList \in Seq(Descs) /\ \A i \in DOMAIN BufferList : BufferList[i] \in DOMAIN desc
    BY ListFacts DEF IInv, Enumerated, Released
  <2>4. ASSUME NEW i \in DOMAIN BufferList
        PROVE  {<<desc'[BufferList[j]].addr, desc'[BufferList[j]].size>> : j \in 1 .. i - 1}
                 = {<<desc[BufferList[j]].addr, desc[BufferList[j]].size>> : j \in 1 .. i - 1}
    <3>1. \A j \in 1 .. i - 1 : BufferList[j] \in DOMAIN desc
      BY <2>3, <2>4
    <3>2. QED BY <2>2, <3>1
  <2>5. ASSUME NEW i \in DOMAIN BufferList
        PROVE  desc'[BufferList[i]].size >=
                 Cardinality(Bytes({<<desc'[BufferList[j]].addr, desc'[BufferList[j]].size>>
                                      : j \in 1 .. i - 1}))
    BY <2>2, <2>3, <2>4 DEF Accounts, BuffersDouble
  <2>6. QED BY <2>1, <2>5 DEF BuffersDouble, Bytes
<1>7. QED BY <1>4, <1>5, <1>6 DEF Accounts

\* A buffer is obtained: its bytes are new, and it is no smaller than what
\* was held before.
LEMMA FreshAccounts ==
  ASSUME IInv, Accounts, NEW size \in SizeT \ {0}, NEW alignment \in SizeT,
         AllocFresh(size, alignment)
  PROVE  Accounts'
<1>1. PICK bytes : bytes = BuffAllocSize(total_size, size)
  OBVIOUS
<1>2. PICK d \in Descs \ DOMAIN desc,
           base \in Available(HostBases, hostMem, bytes),
           m_base \in Available(MirrorBases, mirrorMem, bytes) :
        /\ hostMem' = hostMem \cup {<<base, bytes>>}
        /\ mirrorMem' = mirrorMem \cup {<<m_base, bytes>>}
        /\ desc' = [e \in DOMAIN desc \cup {d} |->
                      IF e = d
                        THEN AfterFind(NewBuffer(base, m_base, bytes), size, alignment)
                        ELSE desc[e]]
        /\ current_buffer' = d
        /\ granted' = Append(granted, Grant(d, NewBuffer(base, m_base, bytes), size, alignment))
  BY <1>1 DEF AllocFresh
<1>3. PICK b : b = NewBuffer(base, m_base, bytes)
  OBVIOUS
<1>4. /\ <<base, bytes>> \in Region /\ <<m_base, bytes>> \in Region
      /\ \A r \in hostMem : Apart(<<base, bytes>>, r)
      /\ \A r \in mirrorMem : Apart(<<m_base, bytes>>, r)
  BY DEF Available
<1>5. /\ b.addr = base /\ b.size = bytes /\ b.free = bytes /\ b.count = 0 /\ BufferOK(b)
  <2>1. /\ b.addr = base /\ b.m_addr = m_base
        /\ b.size = bytes /\ b.free = bytes /\ b.count = 0
        /\ b = [addr |-> base, m_addr |-> m_base, size |-> bytes, free |-> bytes, count |-> 0]
    BY <1>3 DEF NewBuffer
  <2>2. base \in SizeT /\ m_base \in SizeT /\ bytes \in SizeT \ {0}
    BY <1>4, RegionFacts
  <2>3. b \in DescRecord /\ bytes \in 1 .. bytes
    BY <2>1, <2>2 DEF DescRecord, SizeT
  <2>4. QED BY <1>4, <2>1, <2>3 DEF BufferOK
<1>6. /\ desc' = [e \in DOMAIN desc \cup {d} |->
                    IF e = d THEN AfterFind(b, size, alignment) ELSE desc[e]]
      /\ granted' = Append(granted, Grant(d, b, size, alignment))
  BY <1>2, <1>3
<1>7. GrantsHaveBuffers' /\ UnplacedOnlyWhenTight' /\ CountMatches'
  <2>1. d \in Descs /\ d \notin DOMAIN desc
    OBVIOUS
  <2>2. QED BY <1>5, <1>6, <2>1, GrantAccounts
<1>8. hostMem \subseteq Region /\ mirrorMem \subseteq Region
  BY DEF IInv, TypeOK
<1>9. TotalIsHeld'
  <2>1. /\ Cardinality(Bytes(hostMem')) = total_size + bytes
        /\ Cardinality(Bytes(mirrorMem')) = total_size + bytes
    BY <1>2, <1>4, <1>8, BytesAdd DEF Accounts, TotalIsHeld
  <2>2. hostMem' \subseteq Region
    BY <1>2, <1>4, <1>8
  <2>3. total_size + bytes \in SizeT
    BY <2>1, <2>2, BytesFacts
  <2>4. total_size' = total_size + bytes
    <3>1. total_size' = (total_size + bytes) % SizeMod
      BY <1>1 DEF AllocFresh, TotalWith
    <3>2. QED BY <2>3, <3>1, SizeModAssumption DEF SizeT
  <2>5. QED BY <2>1, <2>4 DEF TotalIsHeld, Bytes
<1>10. BuffersDouble'
  <2>1. BufferList' = BufferList \o <<d>> /\ BufferList \in Seq(Descs)
    BY <1>2, ListFacts, NoDescAssumption DEF IInv, BufferList, AllocFresh
  <2>2. PICK n \in Nat : n = Len(BufferList)
    BY <2>1
  <2>3. /\ DOMAIN BufferList = 1 .. n /\ DOMAIN BufferList' = 1 .. n + 1
        /\ BufferList'[n + 1] = d
        /\ \A i \in 1 .. n : BufferList'[i] = BufferList[i] /\ BufferList[i] \in DOMAIN desc
    BY <2>1, <2>2 DEF IInv, Enumerated, Released
  <2>4. \A e \in DOMAIN desc : desc'[e] = desc[e]
    BY <1>6
  <2>5. desc'[d].size = bytes
    BY <1>5, <1>6, CarvedIsOK
  <2> DEFINE Earlier(i) ==
        {<<desc[BufferList[j]].addr, desc[BufferList[j]].size>> : j \in 1 .. i - 1}
  <2>6. \A i \in 1 .. n + 1 :
          {<<desc'[BufferList'[j]].addr, desc'[BufferList'[j]].size>> : j \in 1 .. i - 1}
            = Earlier(i)
    BY <2>3, <2>4
  <2>7. Earlier(n + 1) = hostMem
    <3>1. {BufferList[j] : j \in 1 .. n} = DOMAIN desc
      BY <2>3 DEF IInv, Enumerated, Released
    <3>2. hostMem = {<<desc[e].addr, desc[e].size>> : e \in DOMAIN desc}
      BY DEF IInv, LedgersMatch
    <3>3. \A j \in 1 .. n + 1 - 1 : j \in 1 .. n
      OBVIOUS
    <3>4. 1 .. n + 1 - 1 = 1 .. n
      OBVIOUS
    <3>5. QED BY <3>1, <3>2, <3>4
  <2>8. bytes >= Cardinality(Bytes(Earlier(n + 1)))
    <3>1. bytes # 0 /\ total_size \in SizeT /\ size \in SizeT
      BY <1>1 DEF AllocFresh, IInv, TypeOK
    <3>2. bytes >= total_size
      BY <1>1, <3>1, GrowthFacts
    <3>3. QED BY <2>7, <3>2 DEF Accounts, TotalIsHeld
  <2>9. \A i \in 1 .. n : desc[BufferList[i]].size >= Cardinality(Bytes(Earlier(i)))
    BY <2>3 DEF Accounts, BuffersDouble
  <2> HIDE DEF Earlier
  <2>10. ASSUME NEW i \in 1 .. n + 1
         PROVE  desc'[BufferList'[i]].size >= Cardinality(Bytes(Earlier(i)))
    <3>1. CASE i = n + 1
      BY <2>3, <2>5, <2>8, <3>1
    <3>2. CASE i \in 1 .. n
      BY <2>3, <2>4, <2>9, <3>2
    <3>3. QED BY <3>1, <3>2
  <2>11. \A i \in 1 .. n + 1 :
           desc'[BufferList'[i]].size >=
             Cardinality(Bytes({<<desc'[BufferList'[j]].addr, desc'[BufferList'[j]].size>>
                                  : j \in 1 .. i - 1}))
    BY <2>6, <2>10
  <2>12. QED BY <2>3, <2>11 DEF BuffersDouble, Bytes
<1>11. QED BY <1>7, <1>9, <1>10 DEF Accounts

\* An allocator without buffers, just created or just destroyed.
LEMMA EmptyAccounts ==
  ASSUME DOMAIN desc = {}, DOMAIN granted = {}, BufferList = << >>,
         total_size = 0, hostMem = {}, mirrorMem = {}
  PROVE  Accounts
BY NoBytes DEF Accounts, GrantsHaveBuffers, UnplacedOnlyWhenTight, CountMatches, TotalIsHeld,
               BuffersDouble

LEMMA AccountsStep == IInv /\ Accounts /\ [Next]_vars => Accounts'
<1> SUFFICES ASSUME IInv, Accounts, [Next]_vars PROVE Accounts'
  OBVIOUS
<1>1. CASE Create
  <2>1. status = "none"
    BY <1>1 DEF Create
  <2>2. desc = << >> /\ DOMAIN desc = {}
    BY <2>1 DEF IInv, NoneLeft
  <2>3. hostMem = {} /\ mirrorMem = {}
    BY <2>2 DEF IInv, LedgersMatch
  <2>4. BufferList = << >>
    <3>1. Len(BufferList) = 0
      BY <2>2, FS_EmptySet DEF IInv, Enumerated
    <3>2. BufferList \in Seq(Descs)
      BY ListFacts DEF IInv
    <3>3. QED BY <3>1, <3>2, EmptySeq
  <2>5. total_size = 0
    BY <2>3, NoBytes DEF Accounts, TotalIsHeld
  <2>6. BufferList' = << >>
    BY <1>1 DEF Create, BufferList, EmptyArray
  <2>7. QED BY <1>1, <2>4, <2>5, <2>6, AccountsUnchanged DEF Create
<1>2. CASE Destroy
  <2>1. DOMAIN desc' = {} /\ DOMAIN granted' = {}
    BY <1>2 DEF IInv, Enumerated, Destroy
  <2>2. hostMem' = {} /\ mirrorMem' = {} /\ total_size' = 0
    BY <1>2 DEF IInv, Enumerated, LedgersMatch, Destroy
  <2>3. BufferList' = << >>
    BY <1>2 DEF Destroy, BufferList, EmptyArray
  <2>4. DOMAIN BufferList' = {}
    BY <2>3
  <2>5. TotalIsHeld'
    BY <2>2, NoBytes DEF TotalIsHeld, Bytes
  <2>6. QED
    BY <2>1, <2>4, <2>5
    DEF Accounts, GrantsHaveBuffers, UnplacedOnlyWhenTight, CountMatches, BuffersDouble
<1>3. ASSUME NEW size \in Sizes, NEW alignment \in Alignments, Alloc(size, alignment)
      PROVE  Accounts'
  <2>1. size \in SizeT \ {0} /\ alignment \in SizeT /\ status = "live"
    BY <1>3, RequestTypes DEF Alloc
  <2>2. CASE AllocFromCurrent(size, alignment)
    BY <2>1, <2>2, FromCurrentAccounts
  <2>3. CASE AllocFresh(size, alignment)
    BY <2>1, <2>3, FreshAccounts
  <2>4. CASE \/ AllocRetireFails(size, alignment)
             \/ AllocRetireOverruns(size, alignment)
             \/ AllocHangs(size, alignment)
             \/ AllocNoMemory(size, alignment)
    <3>1. BufferList' = BufferList
      BY <2>1, <2>4, FailingStep
    <3>2. \A base \in Available(HostBases, hostMem, BuffAllocSize(total_size, size)) :
            <<base, BuffAllocSize(total_size, size)>> \notin hostMem
      BY RegionFacts DEF Available, Apart, SizeT
    <3>3. UNCHANGED <<total_size, desc, hostMem, mirrorMem, granted>>
      BY <2>4, <3>2
      DEF AllocRetireFails, AllocRetireOverruns, AllocHangs, AllocNoMemory, RolledBack, memory
    <3>4. QED BY <3>1, <3>3, AccountsUnchanged
  <2>5. QED BY <1>3, <2>2, <2>3, <2>4 DEF Alloc
<1>4. CASE \/ CreateFails
           \/ AllocInvalid
           \/ \E n \in ListSizes, hasArray \in BOOLEAN : GetBufferDescs(n, hasArray)
           \/ UNCHANGED vars
  <2>1. BufferList' = BufferList
    BY <1>4, QuietStep
  <2>2. UNCHANGED <<total_size, desc, hostMem, mirrorMem, granted>>
    BY <1>4 DEF CreateFails, AllocInvalid, GetBufferDescs, vars, memory
  <2>3. QED BY <2>1, <2>2, AccountsUnchanged
<1>5. QED BY <1>1, <1>2, <1>3, <1>4 DEF Next, Lost

\* The accounts are right in every reachable state.
LEMMA AccountsInvariance == Spec => []Accounts
<1>1. Init => Accounts
  <2> SUFFICES ASSUME Init PROVE Accounts
    OBVIOUS
  <2>1. BufferList = << >> /\ DOMAIN desc = {} /\ DOMAIN granted = {}
    BY DEF Init, BufferList, EmptyArray
  <2>2. QED BY <2>1, EmptyAccounts DEF Init
<1>2. QED BY <1>1, AccountsStep, Invariance, PTL DEF Spec

\* MAM_SUCCESS comes without an address only for a request that, with its
\* alignment, is larger than the buffer obtained for it.
THEOREM UnplacedStaysTight == Spec => []UnplacedOnlyWhenTight
<1>1. Accounts => UnplacedOnlyWhenTight
  BY DEF Accounts
<1>2. QED BY <1>1, AccountsInvariance, PTL

\* desc->count is the number of blocks held in the buffer.
THEOREM CountStaysRight == Spec => []CountMatches
<1>1. Accounts => CountMatches
  BY DEF Accounts
<1>2. QED BY <1>1, AccountsInvariance, PTL

\* total_size is the number of bytes owed to each platform: the addition
\* that updates it never wraps around.
THEOREM TotalStaysHeld == Spec => []TotalIsHeld
<1>1. Accounts => TotalIsHeld
  BY DEF Accounts
<1>2. QED BY <1>1, AccountsInvariance, PTL

\* A buffer is at least as large as all the earlier ones together, even when
\* the doubling of its size wrapped around.
THEOREM BuffersKeepDoubling == Spec => []BuffersDouble
<1>1. Accounts => BuffersDouble
  BY DEF Accounts
<1>2. QED BY <1>1, AccountsInvariance, PTL

------------------------------------------------------------------------------
(***************************************************************************)
(* The allocator implements the arena of MirroredArena, whatever the size  *)
(* of an address, the requests and the answers of the platforms.  Every    *)
(* step is mapped to a step of the arena or to a stutter, by the invariant *)
(* at both of its ends: that the new pair and the new block are in free    *)
(* space is what the invariant says of the state after the step.           *)
(***************************************************************************)

\* A descriptor and a granted request, as the arena knows them.
PairOf(b) == [addr |-> b.addr, m_addr |-> b.m_addr, size |-> b.size]

BlockOf(g) ==
  [addr |-> g.addr, m_addr |-> g.m_addr, size |-> g.size, alignment |-> g.alignment]

LEMMA Mapping ==
  /\ HeldPairs = {PairOf(desc[d]) : d \in DOMAIN desc}
  /\ HeldBlocks = {BlockOf(granted[i]) : i \in {k \in DOMAIN granted : Sane(granted[k])}}
BY DEF HeldPairs, HeldBlocks, PairOf, BlockOf

\* Apart and Disjoint say the same thing, of areas as of blocks.
LEMMA ApartIsDisjoint ==
  ASSUME NEW x, NEW y,
         x.addr \in Nat, x.m_addr \in Nat, x.size \in Nat,
         y.addr \in Nat, y.m_addr \in Nat, y.size \in Nat,
         BothApart(x, y)
  PROVE  Arena!Disjoint(x, y)
BY ApartFacts DEF BothApart, Arena!Disjoint, Arena!Overlap

\* Two things that hold a byte and share none are not the same.
LEMMA ApartIsNotEqual ==
  ASSUME NEW x, NEW y,
         x.addr \in Nat, x.size \in Nat \ {0}, BothApart(x, y)
  PROVE  x.addr # y.addr \/ x.size # y.size
BY ApartFacts DEF BothApart

\* The areas in use stay, and at most those of one descriptor come in.
LEMMA GrowStep ==
  ASSUME BuffersOK', BuffersApart', NEW d,
         DOMAIN desc' = DOMAIN desc \cup {d},
         \A e \in DOMAIN desc : PairOf(desc'[e]) = PairOf(desc[e])
  PROVE  Arena!Grow
<1>1. HeldPairs' = {PairOf(desc'[e]) : e \in DOMAIN desc'}
  BY DEF HeldPairs, PairOf
<1>2. HeldPairs' = HeldPairs \cup {PairOf(desc'[d])}
  BY <1>1, Mapping
<1>3. CASE d \in DOMAIN desc
  <2>1. PairOf(desc'[d]) \in HeldPairs
    BY <1>3, Mapping
  <2>2. HeldPairs' = HeldPairs
    BY <1>2, <2>1
  <2>3. QED BY <2>2 DEF Arena!Grow
<1>4. CASE d \notin DOMAIN desc
  <2>1. PICK p : p = PairOf(desc'[d])
    OBVIOUS
  <2>2. p.addr \in Nat /\ p.m_addr \in Nat /\ p.size \in Nat \ {0}
    BY <2>1, BufferFacts DEF BuffersOK, PairOf
  <2>3. ASSUME NEW q \in HeldPairs
        PROVE  Arena!Disjoint(p, q) /\ p # q
    <3>1. PICK e \in DOMAIN desc : q = PairOf(desc'[e])
      BY Mapping
    <3>2. e # d /\ e \in DOMAIN desc'
      BY <1>4
    <3>3. q.addr \in Nat /\ q.m_addr \in Nat /\ q.size \in Nat
      BY <3>1, <3>2, BufferFacts DEF BuffersOK, PairOf
    <3>4. BothApart(p, q)
      BY <2>1, <3>1, <3>2 DEF BuffersApart, BothApart, PairOf
    <3>5. QED BY <2>2, <3>3, <3>4, ApartIsDisjoint, ApartIsNotEqual
  <2>4. p \in HeldPairs' \ HeldPairs /\ HeldPairs' = HeldPairs \cup {p}
    BY <1>2, <2>1, <2>3
  <2>5. QED BY <2>3, <2>4 DEF Arena!Grow
<1>5. QED BY <1>3, <1>4

\* One more granted request is at most one more block of the arena.
LEMMA ServeStep ==
  ASSUME IInv, TypeOK', BuffersOK', GrantsAreRequests', BlocksInsideBuffers', MirrorAligned', BlocksDisjoint',
         NEW g \in GrantRecord, granted' = Append(granted, g)
  PROVE  Arena!Serve
<1> DEFINE last == Len(granted) + 1
<1>1. /\ granted \in Seq(GrantRecord) /\ Len(granted) \in Nat
      /\ DOMAIN granted' = DOMAIN granted \cup {last}
      /\ granted'[last] = g
      /\ \A i \in DOMAIN granted : i # last /\ granted'[i] = granted[i]
  BY DEF IInv, TypeOK
<1> HIDE DEF last
<1>2. HeldBlocks' = {BlockOf(granted'[i]) : i \in {k \in DOMAIN granted' : Sane(granted'[k])}}
  BY DEF HeldBlocks, BlockOf, Sane
<1>3. CASE ~Sane(g)
  <2>1. {k \in DOMAIN granted' : Sane(granted'[k])} = {k \in DOMAIN granted : Sane(granted[k])}
    BY <1>1, <1>3
  <2>2. HeldBlocks' = HeldBlocks
    BY <1>1, <1>2, <2>1, Mapping
  <2>3. QED BY <2>2 DEF Arena!Serve
<1>4. CASE Sane(g)
  <2>1. PICK b : b = BlockOf(g)
    OBVIOUS
  <2>2. b.addr \in Nat /\ b.m_addr \in Nat /\ b.size \in Nat \ {0}
    BY <1>1, <2>1, GrantFacts DEF BlockOf, GrantsAreRequests
  <2>3. ASSUME NEW c \in HeldBlocks
        PROVE  Arena!Disjoint(b, c) /\ b # c
    <3>1. PICK i \in DOMAIN granted : Sane(granted[i]) /\ c = BlockOf(granted[i])
      BY Mapping
    <3>2. c.addr \in Nat /\ c.m_addr \in Nat /\ c.size \in Nat
      BY <1>1, <3>1, GrantFacts DEF BlockOf
    <3>3. BothApart(g, granted[i])
      BY <1>1, <1>4, <3>1 DEF BlocksDisjoint, BothApart
    <3>4. BothApart(b, c)
      BY <2>1, <3>1, <3>3 DEF BothApart, BlockOf
    <3>5. QED BY <2>2, <3>2, <3>4, ApartIsDisjoint, ApartIsNotEqual
  <2>4. HeldBlocks' = HeldBlocks \cup {b}
    <3>1. {k \in DOMAIN granted' : Sane(granted'[k])}
            = {k \in DOMAIN granted : Sane(granted[k])} \cup {last}
      BY <1>1, <1>4
    <3>2. QED BY <1>1, <1>2, <2>1, <3>1, Mapping
  <2>5. \E p \in HeldPairs' : Arena!Mirrors(b, p)
    <3>1. PICK a : a = desc'[g.buf]
      OBVIOUS
    <3>2. /\ g.buf \in DOMAIN desc'
          /\ g.addr - a.addr = g.m_addr - a.m_addr
          /\ g.addr >= a.addr /\ g.addr + g.size <= a.addr + Offset(a)
      BY <1>1, <1>4, <3>1 DEF BlocksInsideBuffers, Offset
    <3>3. BufferOK(a)
      BY <3>1, <3>2 DEF BuffersOK
    <3>4. g.addr + g.size <= a.addr + a.size
      BY <3>2, <3>3, BufferFacts, MoreUsed
    <3>5. PairOf(a) \in HeldPairs'
      BY <3>1, <3>2 DEF HeldPairs, PairOf
    <3>6. Arena!Mirrors(b, PairOf(a))
      BY <2>1, <3>2, <3>3, <3>4, BufferFacts, GrantFacts DEF Arena!Mirrors, PairOf, BlockOf
    <3>7. QED BY <3>5, <3>6
  <2>6. b.m_addr % b.alignment = 0
    BY <1>1, <1>4, <2>1 DEF MirrorAligned, BlockOf
  <2>7. b \in HeldBlocks' \ HeldBlocks
    BY <2>3, <2>4
  <2>8. QED BY <2>3, <2>4, <2>5, <2>6, <2>7 DEF Arena!Serve
<1>5. QED BY <1>3, <1>4

\* A successful allocation, in the current buffer or in a new one.
LEMMA ArenaAllocStep ==
  ASSUME IInv, IInv', status = "live", NEW size \in SizeT \ {0}, NEW alignment \in SizeT,
         AllocFromCurrent(size, alignment) \/ AllocFresh(size, alignment)
  PROVE  Arena!Alloc
<1>1. /\ TypeOK' /\ BuffersOK' /\ BuffersApart' /\ GrantsAreRequests'
      /\ BlocksInsideBuffers' /\ MirrorAligned' /\ BlocksDisjoint'
  BY DEF IInv
<1>2. CASE AllocFromCurrent(size, alignment)
  <2>1. PICK b : b = desc[current_buffer]
    OBVIOUS
  <2>2. current_buffer \in DOMAIN desc /\ current_buffer \in Descs /\ BufferOK(b)
    BY <1>2, <2>1, ListFacts DEF IInv, Enumerated, BuffersOK, TypeOK, AllocFromCurrent
  <2>3. /\ desc' = [desc EXCEPT ![current_buffer] = AfterFind(b, size, alignment)]
        /\ granted' = Append(granted, Grant(current_buffer, b, size, alignment))
    BY <1>2, <2>1 DEF AllocFromCurrent, AfterFind
  <2>4. PairOf(AfterFind(b, size, alignment)) = PairOf(b)
    BY <2>2, CarvedIsOK DEF PairOf
  <2>5. \A e \in DOMAIN desc : PairOf(desc'[e]) = PairOf(desc[e])
    BY <2>1, <2>3, <2>4
  <2>6. DOMAIN desc' = DOMAIN desc \cup {current_buffer}
    BY <2>2, <2>3
  <2>7. Arena!Grow
    BY <1>1, <2>5, <2>6, GrowStep
  <2>8. Arena!Serve
    BY <1>1, <2>2, <2>3, GrantType, ServeStep
  <2>9. QED BY <2>7, <2>8 DEF Arena!Alloc
<1>3. CASE AllocFresh(size, alignment)
  <2>1. PICK d, b, g :
          /\ d \in Descs \ DOMAIN desc
          /\ g = Grant(d, b, size, alignment)
          /\ desc' = [e \in DOMAIN desc \cup {d} |->
                        IF e = d THEN AfterFind(b, size, alignment) ELSE desc[e]]
          /\ granted' = Append(granted, g)
    BY <1>3 DEF AllocFresh
  <2>2. /\ DOMAIN desc' = DOMAIN desc \cup {d}
        /\ \A e \in DOMAIN desc : PairOf(desc'[e]) = PairOf(desc[e])
    BY <2>1
  <2>3. g \in GrantRecord
    <3>1. granted' \in Seq(GrantRecord) /\ granted \in Seq(GrantRecord)
      BY <1>1 DEF IInv, TypeOK
    <3>2. granted'[Len(granted) + 1] = g /\ Len(granted) + 1 \in 1 .. Len(granted')
      BY <2>1, <3>1
    <3>3. QED BY <3>1, <3>2
  <2>4. Arena!Grow
    BY <1>1, <2>2, GrowStep
  <2>5. Arena!Serve
    BY <1>1, <2>1, <2>3, ServeStep
  <2>6. QED BY <2>4, <2>5 DEF Arena!Alloc
<1>4. QED BY <1>2, <1>3

LEMMA ArenaUnchanged ==
  ASSUME UNCHANGED <<desc, granted>>
  PROVE  UNCHANGED Arena!vars
BY DEF Arena!vars, HeldPairs, HeldBlocks, Sane

\* Every step of the allocator is a step of the arena or changes nothing in it.
LEMMA ArenaStep == IInv /\ IInv' /\ [Next]_vars => [Arena!Next]_(Arena!vars)
<1> SUFFICES ASSUME IInv, IInv', [Next]_vars PROVE Arena!Next \/ UNCHANGED Arena!vars
  OBVIOUS
<1>1. CASE Destroy
  <2>1. DOMAIN desc' = {} /\ DOMAIN granted' = {}
    BY <1>1 DEF IInv, Enumerated, Destroy
  <2>2. HeldPairs' = {} /\ HeldBlocks' = {}
    BY <2>1 DEF HeldPairs, HeldBlocks, Sane
  <2>3. QED BY <2>2 DEF Arena!Next, Arena!Close
<1>2. ASSUME NEW size \in Sizes, NEW alignment \in Alignments, Alloc(size, alignment)
      PROVE  Arena!Next \/ UNCHANGED Arena!vars
  <2>1. size \in SizeT \ {0} /\ alignment \in SizeT /\ status = "live"
    BY <1>2, RequestTypes DEF Alloc
  <2>2. CASE AllocFromCurrent(size, alignment) \/ AllocFresh(size, alignment)
    BY <2>1, <2>2, ArenaAllocStep DEF Arena!Next
  <2>3. CASE \/ AllocRetireFails(size, alignment)
             \/ AllocRetireOverruns(size, alignment)
             \/ AllocHangs(size, alignment)
             \/ AllocNoMemory(size, alignment)
    <3>1. UNCHANGED <<desc, granted>>
      BY <2>3 DEF AllocRetireFails, AllocRetireOverruns, AllocHangs, AllocNoMemory, memory
    <3>2. QED BY <3>1, ArenaUnchanged
  <2>4. QED BY <1>2, <2>2, <2>3 DEF Alloc
<1>3. CASE \/ Create
           \/ CreateFails
           \/ AllocInvalid
           \/ \E n \in ListSizes, hasArray \in BOOLEAN : GetBufferDescs(n, hasArray)
           \/ UNCHANGED vars
  <2>1. UNCHANGED <<desc, granted>>
    BY <1>3 DEF Create, CreateFails, AllocInvalid, GetBufferDescs, vars, memory
  <2>2. QED BY <2>1, ArenaUnchanged
<1>4. QED BY <1>1, <1>2, <1>3 DEF Next, Lost

\* Seen from its client, the allocator is an arena: mirrored areas that never
\* move, and aligned blocks inside them that never overlap.
THEOREM AllocatorImplementsArena == Spec => ImplementsArena
<1>1. Init => Arena!Init
  BY DEF Init, Arena!Init, HeldPairs, HeldBlocks, Sane
<1>2. QED BY <1>1, ArenaStep, Invariance, PTL DEF Spec, ImplementsArena, Arena!Spec
=============================================================================
