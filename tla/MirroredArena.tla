---------------------------- MODULE MirroredArena ----------------------------
(***************************************************************************)
(* What the mirrored allocator promises its client, without descriptors,   *)
(* free counters or growth policy: pairs of equally large areas, one on    *)
(* each side, and blocks that lie at the same place of both areas of a     *)
(* pair and never overlap.  Nothing moves or shrinks until all is closed.  *)
(***************************************************************************)
EXTENDS Integers

VARIABLES
  pairs,    \* records [addr, m_addr, size]: the areas held
  blocks    \* records [addr, m_addr, size, alignment]: what the client holds

vars == <<pairs, blocks>>

Overlap(a, asize, b, bsize) == a < b + bsize /\ b < a + asize

\* Two things that lie on both sides share no byte on either.
Disjoint(x, y) ==
  /\ ~Overlap(x.addr, x.size, y.addr, y.size)
  /\ ~Overlap(x.m_addr, x.size, y.m_addr, y.size)

Mirrors(block, pair) ==
  /\ block.addr - pair.addr = block.m_addr - pair.m_addr
  /\ pair.addr <= block.addr
  /\ block.addr + block.size <= pair.addr + pair.size

Init == pairs = {} /\ blocks = {}

\* At most one new pair of areas, away from those already held.
Grow ==
  \/ pairs' = pairs
  \/ \E p \in pairs' \ pairs :
       pairs' = pairs \cup {p} /\ \A q \in pairs : Disjoint(p, q)

\* At most one new block: inside a pair, aligned on the mirror side, away
\* from every block the client already holds.
Serve ==
  \/ blocks' = blocks
  \/ \E b \in blocks' \ blocks :
       /\ blocks' = blocks \cup {b}
       /\ \E p \in pairs' : Mirrors(b, p)
       /\ b.m_addr % b.alignment = 0
       /\ \A c \in blocks : Disjoint(b, c)

Alloc == Grow /\ Serve

Close == pairs' = {} /\ blocks' = {}

Next == Alloc \/ Close

Spec == Init /\ [][Next]_vars

==============================================================================
