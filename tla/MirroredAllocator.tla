-------------------------- MODULE MirroredAllocator --------------------------
(***************************************************************************)
(* The allocator of src/mirrored-allocators.c.  It hands out blocks that   *)
(* live at the same offset of two buffers obtained from two platform       *)
(* allocators, `alloc1` (the host side) and `alloc2` (the mirror side).    *)
(* Only the last buffer, current_buffer, is carved; when a request does    *)
(* not fit in it, it is retired to the array `buffers` and a larger one is *)
(* asked for.  Nothing is given back before mam_allocator_destroy.         *)
(*                                                                         *)
(* The program is sequential: one action is one call by the client, with   *)
(* one action for each way the call can go.  Every allocation the call     *)
(* makes (calloc, realloc, alloc1, alloc2) may fail.                       *)
(***************************************************************************)
EXTENDS BufferSizing, UtArray, FiniteSets

CONSTANTS
  Descs,         \* the identities of the descriptors calloc can return
  NoDesc,        \* the NULL descriptor
  HostBases,     \* the addresses alloc1.alloc can return
  MirrorBases,   \* the addresses alloc2.alloc can return
  Sizes,         \* the sizes requested by the client
  Alignments,    \* the alignments requested by the client
  ListSizes,     \* the lengths of the arrays given to get_buffer_descs
  MaxBlocks      \* bound on the successful allocations between two creates

ASSUME NoDescAssumption == NoDesc \notin Descs
ASSUME BasesAssumption == HostBases \subseteq SizeT \ {0} /\ MirrorBases \subseteq SizeT \ {0}
ASSUME RequestsAssumption == Sizes \subseteq SizeT /\ Alignments \subseteq SizeT
ASSUME BoundsAssumption == ListSizes \subseteq Nat /\ MaxBlocks \in Nat

VARIABLES
  status,          \* "none", "live", or lost in a call: "hung", "undefined"
  total_size,      \* allocator->total_size
  current_buffer,  \* allocator->current_buffer
  buffers,         \* allocator->buffers, a UtArray
  desc,            \* the descriptors in memory: identity -> mam_buff_desc_s
  hostMem,         \* the <<address, size>> alloc1 gave and has not got back
  mirrorMem,       \* the same for alloc2
  granted,         \* the allocations that returned MAM_SUCCESS, oldest first
  listing,         \* the client's array after the last get_buffer_descs
  err              \* what the last call returned

memory == <<total_size, current_buffer, buffers, desc, hostMem, mirrorMem>>
vars == <<status, memory, granted, listing, err>>

------------------------------------------------------------------------------
(* The platform allocators, as far as the library relies on them: a block  *)
(* they return does not wrap around and overlaps no block they still owe.  *)

Region == {r \in (SizeT \ {0}) \X (SizeT \ {0}) : r[1] + r[2] <= SizeMod}

Apart(r, s) == r[1] + r[2] <= s[1] \/ s[1] + s[2] <= r[1]

Available(bases, mem, size) ==
  {b \in bases : <<b, size>> \in Region /\ \A r \in mem : Apart(<<b, size>>, r)}

------------------------------------------------------------------------------
(* _mam_find_in_buffer, on a descriptor b.  All arithmetic is on size_t.   *)

Offset(b) == b.size - b.free

\* x & (alignment - 1); the mask is all ones when the alignment is 0.
Masked(x, alignment) == IF alignment = 0 THEN x ELSE x % alignment

\* Mutant of Pad: the padding is computed for the host address.
PadForHost(b, alignment) ==
  LET past == Masked((b.addr + Offset(b)) % SizeMod, alignment)
  IN  IF past = 0 THEN 0 ELSE (alignment - past) % SizeMod

\* Mutant of Pad: an aligned address is padded by a whole alignment.
PadAlways(b, alignment) ==
  LET past == Masked((b.m_addr + Offset(b)) % SizeMod, alignment)
  IN  (alignment - past) % SizeMod

Pad(b, alignment) ==
  LET past == Masked((b.m_addr + Offset(b)) % SizeMod, alignment)
  IN  IF past = 0 THEN 0 ELSE (alignment - past) % SizeMod

Needed(b, size, alignment) == (size + Pad(b, alignment)) % SizeMod

\* Mutant of Fits: the padding is forgotten in the test.
FitsUnpadded(b, size, alignment) == b.free > size

Fits(b, size, alignment) == b.free > Needed(b, size, alignment)

\* Mutants of Carved: only the size is deducted, only the padding is.
CarvedUnpadded(b, size, alignment) ==
  [b EXCEPT !.free = @ - size, !.count = @ + 1]
CarvedPadding(b, size, alignment) ==
  [b EXCEPT !.free = @ - Pad(b, alignment), !.count = @ + 1]

Carved(b, size, alignment) ==
  [b EXCEPT !.free = @ - Needed(b, size, alignment), !.count = @ + 1]

PlacedAt(b, alignment) == (Offset(b) + Pad(b, alignment)) % SizeMod

\* What the client has after the call: the out-parameters are written only
\* when the block was placed.
Grant(d, b, size, alignment) ==
  IF Fits(b, size, alignment)
    THEN [buf |-> d, size |-> size, alignment |-> alignment, placed |-> TRUE,
          addr |-> (b.addr + PlacedAt(b, alignment)) % SizeMod,
          m_addr |-> (b.m_addr + PlacedAt(b, alignment)) % SizeMod]
    ELSE [buf |-> d, size |-> size, alignment |-> alignment, placed |-> FALSE,
          addr |-> 0, m_addr |-> 0]

\* Mutant of AfterFind: a failed search counts too.
AfterFindCounting(b, size, alignment) ==
  IF Fits(b, size, alignment) THEN Carved(b, size, alignment) ELSE [b EXCEPT !.count = @ + 1]

AfterFind(b, size, alignment) ==
  IF Fits(b, size, alignment) THEN Carved(b, size, alignment) ELSE b

------------------------------------------------------------------------------
(* The buffers held.                                                       *)

\* Mutant of BufferList: the current buffer comes first.
BufferListCurrentFirst ==
  (IF current_buffer = NoDesc THEN << >> ELSE <<current_buffer>>) \o buffers.elems

\* The retired buffers, then the current one.
BufferList ==
  buffers.elems \o (IF current_buffer = NoDesc THEN << >> ELSE <<current_buffer>>)

\* The condition under which alloc and alloc_aligned go past their checks.
ValidRequest(size, alignment) ==
  size # 0 /\ (alignment = 0 \/ PowerOfTwo(alignment))

------------------------------------------------------------------------------
Init ==
  /\ status = "none"
  /\ total_size = 0
  /\ current_buffer = NoDesc
  /\ buffers = EmptyArray
  /\ desc = << >>
  /\ hostMem = {} /\ mirrorMem = {}
  /\ granted = << >>
  /\ listing = << >>
  /\ err = "MAM_SUCCESS"

\* mam_allocator_create, on valid arguments and with memory for the
\* allocator and its array: everything in it starts at zero.
Create ==
  /\ status = "none"
  /\ status' = "live"
  /\ total_size' = 0 /\ current_buffer' = NoDesc /\ buffers' = EmptyArray
  /\ err' = "MAM_SUCCESS"
  /\ UNCHANGED <<desc, hostMem, mirrorMem, granted, listing>>

\* mam_allocator_create with a missing argument, or out of memory.
CreateFails ==
  /\ status = "none"
  /\ err' \in {"MAM_EINVAL", "MAM_ENOMEM"}
  /\ UNCHANGED <<status, memory, granted, listing>>

\* Mutant of Released: the current buffer is forgotten.
ReleasedRetired == {buffers.elems[i] : i \in DOMAIN buffers.elems}

\* The descriptors mam_allocator_destroy releases with _mam_free_buffer.
Released == {BufferList[i] : i \in DOMAIN BufferList}

\* mam_allocator_destroy.  The client's blocks and listing die with it.
Destroy ==
  /\ status = "live"
  /\ status' = "none"
  /\ hostMem' = hostMem \ {<<desc[d].addr, desc[d].size>> : d \in Released}
  /\ mirrorMem' = mirrorMem \ {<<desc[d].m_addr, desc[d].size>> : d \in Released}
  /\ desc' = [d \in DOMAIN desc \ Released |-> desc[d]]
  /\ total_size' = 0 /\ current_buffer' = NoDesc /\ buffers' = EmptyArray
  /\ granted' = << >> /\ listing' = << >>
  /\ err' = "MAM_SUCCESS"

\* mam_allocator_alloc and alloc_aligned, refused by their checks.
AllocInvalid ==
  /\ status = "live"
  /\ \E size \in Sizes, alignment \in Alignments : ~ValidRequest(size, alignment)
  /\ err' = "MAM_EINVAL"
  /\ UNCHANGED <<status, memory, granted, listing>>

\* The request fits in the current buffer.
AllocFromCurrent(size, alignment) ==
  /\ current_buffer # NoDesc
  /\ Fits(desc[current_buffer], size, alignment)
  /\ Len(granted) < MaxBlocks
  /\ desc' = [desc EXCEPT ![current_buffer] = Carved(@, size, alignment)]
  /\ granted' = Append(granted, Grant(current_buffer, desc[current_buffer], size, alignment))
  /\ err' = "MAM_SUCCESS"
  /\ UNCHANGED <<status, total_size, current_buffer, buffers, hostMem, mirrorMem, listing>>

\* The current buffer, if there is one, cannot hold the request.
NeedsBuffer(size, alignment) ==
  current_buffer # NoDesc => ~Fits(desc[current_buffer], size, alignment)

\* The push into `buffers` has to grow the array and realloc fails.
AllocRetireFails(size, alignment) ==
  /\ current_buffer # NoDesc
  /\ NeedsBuffer(size, alignment)
  /\ MustGrow(buffers)
  /\ buffers' = ReserveFailed(buffers)
  /\ err' = "MAM_ENOMEM"
  /\ UNCHANGED <<status, total_size, current_buffer, desc, hostMem, mirrorMem, granted, listing>>

\* The push finds a free slot in the header that no memory backs.
AllocRetireOverruns(size, alignment) ==
  /\ current_buffer # NoDesc
  /\ NeedsBuffer(size, alignment)
  /\ PushOverruns(buffers)
  /\ status' = "undefined"
  /\ UNCHANGED <<memory, granted, listing, err>>

\* Mutant of Retired: current_buffer is overwritten without being listed.
RetiredNowhere == buffers

\* `buffers` once the current buffer, if any, has been put in the list.
Retired ==
  IF current_buffer = NoDesc THEN buffers ELSE PushedBack(buffers, current_buffer)

CanRetire == current_buffer = NoDesc \/ ~PushOverruns(buffers)

\* The doubling loop never ends: the call does not return.
AllocHangs(size, alignment) ==
  /\ NeedsBuffer(size, alignment) /\ CanRetire
  /\ BuffAllocSize(total_size, size) = 0
  /\ status' = "hung"
  /\ buffers' = Retired
  /\ current_buffer' = NoDesc
  /\ UNCHANGED <<total_size, desc, hostMem, mirrorMem, granted, listing, err>>

\* Mutant of RolledBack: the failure of alloc2 forgets the host block.
RolledBackNothing(mem, region) == mem

\* The labels err_addr and err_desc: what alloc2's failure leaves of the
\* host block obtained just before.
RolledBack(mem, region) == mem \ {region}

\* _mam_allocate_buffer fails in calloc, in alloc1, or in alloc2.
AllocNoMemory(size, alignment) ==
  LET bytes == BuffAllocSize(total_size, size) IN
  /\ NeedsBuffer(size, alignment) /\ CanRetire
  /\ bytes # 0
  /\ \/ UNCHANGED hostMem
     \/ \E base \in Available(HostBases, hostMem, bytes) :
          hostMem' = RolledBack(hostMem \cup {<<base, bytes>>}, <<base, bytes>>)
  /\ buffers' = Retired
  /\ current_buffer' = NoDesc
  /\ err' = "MAM_ENOMEM"
  /\ UNCHANGED <<status, total_size, desc, mirrorMem, granted, listing>>

NewBuffer(addr, m_addr, bytes) ==
  [addr |-> addr, m_addr |-> m_addr, size |-> bytes, free |-> bytes, count |-> 0]

\* Mutant of TotalWith: only the newest buffer is counted.
TotalNewest(bytes) == bytes

TotalWith(bytes) == (total_size + bytes) % SizeMod

\* A new buffer is obtained and becomes the current one.  The request is
\* then tried in it; the call succeeds whether or not it was placed.
AllocFresh(size, alignment) ==
  LET bytes == BuffAllocSize(total_size, size) IN
  /\ NeedsBuffer(size, alignment) /\ CanRetire
  /\ bytes # 0
  /\ Len(granted) < MaxBlocks
  /\ \E d \in Descs \ DOMAIN desc,
        base \in Available(HostBases, hostMem, bytes),
        m_base \in Available(MirrorBases, mirrorMem, bytes) :
       LET b == NewBuffer(base, m_base, bytes) IN
       /\ hostMem' = hostMem \cup {<<base, bytes>>}
       /\ mirrorMem' = mirrorMem \cup {<<m_base, bytes>>}
       /\ desc' = [e \in DOMAIN desc \cup {d} |->
                     IF e = d THEN AfterFind(b, size, alignment) ELSE desc[e]]
       /\ current_buffer' = d
       /\ granted' = Append(granted, Grant(d, b, size, alignment))
  /\ total_size' = TotalWith(bytes)
  /\ buffers' = Retired
  /\ err' = "MAM_SUCCESS"
  /\ UNCHANGED <<status, listing>>

Alloc(size, alignment) ==
  /\ status = "live"
  /\ ValidRequest(size, alignment)
  /\ \/ AllocFromCurrent(size, alignment)
     \/ AllocRetireFails(size, alignment)
     \/ AllocRetireOverruns(size, alignment)
     \/ AllocHangs(size, alignment)
     \/ AllocNoMemory(size, alignment)
     \/ AllocFresh(size, alignment)

\* mam_allocator_get_buffer_descs, given an array of n entries.  Without an
\* array only the count is reported.
GetBufferDescs(n, hasArray) ==
  /\ status = "live"
  /\ \/ /\ hasArray /\ n >= Len(BufferList)
        /\ listing' = [i \in 1 .. n |->
                         IF i <= Len(BufferList) THEN BufferList[i] ELSE NoDesc]
        /\ err' = "MAM_SUCCESS"
     \/ /\ IF hasArray THEN n < Len(BufferList) ELSE n > 0
        /\ err' = "MAM_EINVAL"
        /\ UNCHANGED listing
     \/ /\ ~hasArray /\ n = 0
        /\ err' = "MAM_SUCCESS"
        /\ UNCHANGED listing
  /\ UNCHANGED <<status, memory, granted>>

\* The call that hung never returns, and after an undefined write the
\* program may do anything: neither is followed further.
Lost == status \in {"hung", "undefined"} /\ UNCHANGED vars

Next ==
  \/ Create
  \/ CreateFails
  \/ Destroy
  \/ AllocInvalid
  \/ \E size \in Sizes, alignment \in Alignments : Alloc(size, alignment)
  \/ \E n \in ListSizes, hasArray \in BOOLEAN : GetBufferDescs(n, hasArray)
  \/ Lost

Spec == Init /\ [][Next]_vars

------------------------------------------------------------------------------
(* Properties.                                                             *)

DescRecord ==
  [addr : SizeT, m_addr : SizeT, size : SizeT, free : SizeT, count : Nat]

GrantRecord ==
  [buf : Descs, addr : SizeT, m_addr : SizeT, size : SizeT, alignment : SizeT,
   placed : BOOLEAN]

\* The type of every variable.
TypeOK ==
  /\ status \in {"none", "live", "hung", "undefined"}
  /\ total_size \in SizeT
  /\ current_buffer \in Descs \cup {NoDesc}
  /\ buffers \in [elems : Seq(Descs), n : Nat, room : Nat]
  /\ DOMAIN desc \subseteq Descs
  /\ desc \in [DOMAIN desc -> DescRecord]
  /\ hostMem \subseteq Region /\ mirrorMem \subseteq Region
  /\ granted \in Seq(GrantRecord)
  /\ listing \in Seq(Descs \cup {NoDesc})
  /\ err \in {"MAM_SUCCESS", "MAM_EINVAL", "MAM_ENOMEM"}

\* A request whose size and padding cannot wrap around, and that was placed.
Sane(g) == g.placed /\ g.alignment # 0 /\ g.size + g.alignment <= SizeMod

\* A block lies at one offset of both its buffers, within the part of them
\* that later calls to _mam_find_in_buffer will not carve again.
BlocksInsideBuffers ==
  \A i \in DOMAIN granted : LET g == granted[i] IN Sane(g) =>
    /\ g.buf \in DOMAIN desc
    /\ g.addr - desc[g.buf].addr = g.m_addr - desc[g.buf].m_addr
    /\ g.addr >= desc[g.buf].addr
    /\ g.addr + g.size <= desc[g.buf].addr + Offset(desc[g.buf])

\* Two blocks granted by any two calls never share a byte, on either side,
\* whatever other calls were made before, between and after them.
BlocksDisjoint ==
  \A i, j \in DOMAIN granted :
    i # j /\ Sane(granted[i]) /\ Sane(granted[j]) =>
      /\ Apart(<<granted[i].addr, granted[i].size>>, <<granted[j].addr, granted[j].size>>)
      /\ Apart(<<granted[i].m_addr, granted[i].size>>, <<granted[j].m_addr, granted[j].size>>)

\* The mirror address has the requested alignment, at whatever address the
\* mirror platform put the buffer and whatever was carved before.
MirrorAligned ==
  \A i \in DOMAIN granted :
    Sane(granted[i]) => granted[i].m_addr % granted[i].alignment = 0

\* The platforms are owed exactly the memory of the live descriptors, and
\* destroy will meet each of these once: nothing leaks and nothing is freed
\* twice, through failed pushes, failed allocations and rollbacks.
NothingLeaks ==
  /\ hostMem = {<<desc[d].addr, desc[d].size>> : d \in DOMAIN desc}
  /\ mirrorMem = {<<desc[d].m_addr, desc[d].size>> : d \in DOMAIN desc}
  /\ Released = DOMAIN desc
  /\ Len(BufferList) = Cardinality(DOMAIN desc)
  /\ status = "none" => desc = << >>

\* desc->count is the number of allocations the client holds in the buffer.
CountMatches ==
  \A d \in DOMAIN desc :
    desc[d].count =
      Cardinality({i \in DOMAIN granted : granted[i].buf = d /\ granted[i].placed})

\* The addresses of the bytes of the blocks of a platform.
Bytes(mem) == UNION {r[1] .. r[1] + r[2] - 1 : r \in mem}

\* total_size never wraps: it is the number of bytes each platform is owed.
TotalIsHeld ==
  /\ total_size = Cardinality(Bytes(hostMem))
  /\ total_size = Cardinality(Bytes(mirrorMem))

\* A buffer is at least as large as all the earlier ones together, so that
\* their number stays logarithmic in the memory held.
BuffersDouble ==
  \A i \in DOMAIN BufferList :
    desc[BufferList[i]].size >=
      Cardinality(Bytes({<<desc[BufferList[j]].addr, desc[BufferList[j]].size>> : j \in 1 .. i - 1}))

\* A listing obtained from get_buffer_descs stays right: later calls that
\* retire the current buffer, fail or succeed only add entries after it.
ListingIsPrefix ==
  \A i \in DOMAIN listing :
    listing[i] # NoDesc => i <= Len(BufferList) /\ BufferList[i] = listing[i]

\* MAM_SUCCESS without an address can only be the answer to a request that,
\* with its alignment, is larger than the buffer obtained for it.
UnplacedOnlyWhenTight ==
  \A i \in DOMAIN granted : LET g == granted[i] IN
    ~g.placed /\ g.alignment # 0 => g.size + g.alignment > desc[g.buf].size

\* A call that fails takes nothing from the client: its blocks, the buffers
\* in their order and the memory owed to the platforms stay as they were.
FailureIsHarmless ==
  [][err' # "MAM_SUCCESS" =>
       /\ BufferList' = BufferList
       /\ UNCHANGED <<total_size, desc, hostMem, mirrorMem, granted>>]_vars

\* The allocator implements the arena of MirroredArena, for the blocks that
\* were placed by requests that do not wrap around.
HeldPairs ==
  {[addr |-> desc[d].addr, m_addr |-> desc[d].m_addr, size |-> desc[d].size]
     : d \in DOMAIN desc}

HeldBlocks ==
  {[addr |-> granted[i].addr, m_addr |-> granted[i].m_addr, size |-> granted[i].size,
    alignment |-> granted[i].alignment] : i \in {k \in DOMAIN granted : Sane(granted[k])}}

Arena == INSTANCE MirroredArena WITH pairs <- HeldPairs, blocks <- HeldBlocks

\* Seen from the client, every call of the allocator is a step of the arena:
\* it adds at most one pair of areas and one block, in free space.
ImplementsArena == Arena!Spec

------------------------------------------------------------------------------
(* What the comments and the tests of the repository say, and the code     *)
(* does not keep.                                                          *)

\* test/mam-test.c: after MAM_SUCCESS the address is there.
EverySuccessIsPlaced == \A i \in DOMAIN granted : granted[i].placed

\* test/mam-test.c: the next block of the same buffer starts past the end of
\* the one before it.
NextBlockIsBeyond ==
  \A i \in DOMAIN granted :
    /\ i + 1 \in DOMAIN granted
    /\ granted[i].buf = granted[i + 1].buf
    /\ granted[i].placed /\ granted[i + 1].placed
    => (granted[i + 1].addr - granted[i].addr) % SizeMod >= granted[i].size

\* utarray.h: n is the number of slots, and d has n slots.
SlotsAreBacked == buffers.n = buffers.room

==============================================================================
