---------------------------- MODULE UtHashProofs ----------------------------
(***************************************************************************)
(* What the hash table operators do to a table that is whole: one whose    *)
(* list and chains can be walked forth and back, hold the same elements,   *)
(* each element in the chain of its hash value, and whose counts are       *)
(* right (Whole, below).  An addition, the rollback of one and an          *)
(* expansion leave a whole table whole and say what it holds then; a       *)
(* whole table passes HASH_FSCK, and a look-up in it finds an element of   *)
(* the key if there is one.                                                *)
(*                                                                         *)
(* Each proof goes in two steps.  The first says what an operator does to  *)
(* every member of the record (IsLinkedIn, IsRolledBack, IsMoved ...),     *)
(* the second that the table is whole.                                     *)
(***************************************************************************)
EXTENDS UtHash, CommonLemmas

------------------------------------------------------------------------------
(* Sequences of elements and their links.                                  *)

FirstOf(s) == IF s = << >> THEN NULL ELSE s[1]
LastOf(s) == IF s = << >> THEN NULL ELSE s[Len(s)]
Before(s, i) == IF i = 1 THEN NULL ELSE s[i - 1]
After(s, i) == IF i = Len(s) THEN NULL ELSE s[i + 1]

\* The links of one kind lead from each element of s to the next.
Linked(t, s, link) == \A i \in DOMAIN s : t.hh[s[i]][link] = After(s, i)

LEMMA CountToN == \A n \in Nat : IsFiniteSet(1 .. n) /\ Cardinality(1 .. n) = n
BY FS_Interval

\* A sequence without repetitions is no longer than its elements are many.
LEMMA InjectiveLength ==
  ASSUME NEW S, IsFiniteSet(S), NEW s \in Seq(S), IsInjective(s)
  PROVE  Len(s) \in Nat /\ Len(s) <= Cardinality(S)
<1>1. Len(s) \in Nat /\ s \in [1 .. Len(s) -> S]
  BY LenProperties
<1>2. s \in Injection(1 .. Len(s), S)
  BY <1>1 DEF Injection, IsInjective
<1>3. Cardinality(1 .. Len(s)) <= Cardinality(S)
  BY <1>2, FS_Injection
<1>4. Cardinality(1 .. Len(s)) = Len(s)
  BY <1>1, FS_Interval
<1>5. QED BY <1>1, <1>3, <1>4

LEMMA WalkIs ==
  ASSUME NEW t, IsFiniteSet(DOMAIN t.hh), NULL \notin DOMAIN t.hh, NEW link,
         NEW s \in Seq(DOMAIN t.hh), IsInjective(s), Linked(t, s, link)
  PROVE  Walk(t, FirstOf(s), link) = s
<1>1. PICK size \in Nat : size = Cardinality(DOMAIN t.hh)
  BY FS_CardinalityType
<1>2. PICK len \in Nat : len = Len(s) /\ DOMAIN s = 1 .. len /\ len <= size
                          /\ \A i \in 1 .. len : s[i] \in DOMAIN t.hh
  BY <1>1, InjectiveLength, LenProperties, ElementOfSeq
<1>3. PICK e : e = FirstOf(s)
  OBVIOUS
<1>4. PICK to : to = [x \in DOMAIN t.hh \cup {NULL} |-> IF x = NULL THEN NULL ELSE t.hh[x][link]]
  OBVIOUS
<1> DEFINE Rec(g) == [n \in 0 .. size |-> IF n = 0 THEN e ELSE to[g[n - 1]]]
<1>5. PICK f : f = [n \in 0 .. size |-> IF n < len THEN s[n + 1] ELSE NULL]
  OBVIOUS
<1>7. f[0] = e
  BY <1>2, <1>3, <1>5, EmptySeq DEF FirstOf
<1>8. ASSUME NEW n \in 1 .. size PROVE f[n] = to[f[n - 1]]
  <2>1. CASE n - 1 < len
    <3>1. f[n - 1] = s[n] /\ n \in 1 .. len /\ s[n] # NULL
      BY <2>1, <1>2, <1>5
    <3>2. to[s[n]] = After(s, n)
      BY <3>1, <1>2, <1>4 DEF Linked
    <3>3. f[n] = After(s, n)
      BY <3>1, <1>2, <1>5 DEF After
    <3>4. QED BY <3>1, <3>2, <3>3
  <2>2. CASE ~(n - 1 < len)
    BY <2>2, <1>2, <1>4, <1>5
  <2>3. QED BY <2>1, <2>2
<1>9. f = Rec(f)
  <2>1. \A n \in 0 .. size : f[n] = IF n = 0 THEN e ELSE to[f[n - 1]]
    BY <1>7, <1>8
  <2>2. f = [n \in 0 .. size |-> f[n]]
    BY <1>5
  <2>3. QED BY <2>1, <2>2
<1>10. PICK r : r = Rec(r) /\ Walk(t, e, link) =
          LET length == Cardinality({n \in 1 .. size : r[n - 1] # NULL})
          IN  [n \in 1 .. length |-> r[n - 1]]
  <2>1. PICK r : r = CHOOSE g : g = Rec(g)
    OBVIOUS
  <2>2. r = Rec(r)
    BY <1>9, <2>1
  <2>3. Walk(t, e, link) =
          LET length == Cardinality({n \in 1 .. size : r[n - 1] # NULL})
          IN  [n \in 1 .. length |-> r[n - 1]]
    BY <1>1, <1>4, <2>1 DEF Walk
  <2>4. QED BY <2>2, <2>3
<1>11. \A n \in 0 .. size : r[n] = f[n]
  <2>1. PICK bad : bad = {n \in 0 .. size : r[n] # f[n]}
    OBVIOUS
  <2>2. ASSUME NEW n \in bad, \A k \in bad : n <= k PROVE FALSE
    <3>1. n # 0
      BY <1>7, <1>10, <2>1
    <3>2. n \in 1 .. size /\ n - 1 \in 0 .. size /\ n - 1 \notin bad
      BY <2>1, <2>2, <3>1
    <3>3. QED BY <1>8, <1>10, <2>1, <3>2
  <2>3. bad \subseteq Nat
    BY <2>1
  <2>4. bad = {}
    BY <2>2, <2>3, LeastExists
  <2>5. QED BY <2>1, <2>4
<1>12. {n \in 1 .. size : r[n - 1] # NULL} = 1 .. len
  <2>1. \A n \in 1 .. size : r[n - 1] = IF n <= len THEN s[n] ELSE NULL
    BY <1>2, <1>5, <1>11
  <2>2. QED BY <1>2, <2>1
<1>13. Cardinality(1 .. len) = len
  BY CountToN
<1>14. Walk(t, e, link) = [n \in 1 .. len |-> s[n]]
  <2>1. \A n \in 1 .. len : r[n - 1] = s[n]
    BY <1>2, <1>5, <1>11
  <2>2. QED BY <1>10, <1>12, <1>13, <2>1
<1>15. QED
  <2>1. s = [n \in 1 .. len |-> s[n]]
    BY <1>2, LenProperties
  <2>2. QED BY <1>3, <1>14, <2>1

------------------------------------------------------------------------------
(* What the steps of an addition do to each member of a table.             *)

Handle ==
  [prev : Nat, next : Nat, hh_prev : Nat, hh_next : Nat, key : DOMAIN HASH_FUNCTION, hashv : Nat]
Bucket == [hh_head : Nat, count : Int, expand_mult : Nat]

\* The tables with n buckets and the handles of the elements in E.
TableOf(E, n) ==
  [head : Nat, tail : Nat, buckets : [0 .. n - 1 -> Bucket], num_items : Int,
   ineff_expands : Nat, noexpand : BOOLEAN, hh : [E -> Handle],
   mem : SUBSET ({"tbl", "buckets"} \X Nat)]

\* The two differ in their links and buckets only.
SameTable(r, t) ==
  /\ r.head = t.head /\ r.tail = t.tail /\ r.num_items = t.num_items
  /\ r.ineff_expands = t.ineff_expands /\ r.noexpand = t.noexpand /\ r.mem = t.mem

\* The handles have the same key and the same hash value.
SameKey(g, h) == g.key = h.key /\ g.hashv = h.hashv

\* What calloc and HASH_ADD_KEYPTR make of a handle.
NewHandle(h, key) ==
  /\ h.prev = NULL /\ h.next = NULL /\ h.hh_prev = NULL /\ h.hh_next = NULL
  /\ h.key = key /\ h.hashv = HASH_FUNCTION[key]

LEMMA TableFacts ==
  ASSUME NEW E, NEW n \in Nat, NEW t \in TableOf(E, n)
  PROVE  /\ DOMAIN t.hh = E /\ \A x \in E : t.hh[x] \in Handle
         /\ DOMAIN t.buckets = 0 .. n - 1 /\ \A b \in 0 .. n - 1 : t.buckets[b] \in Bucket
         /\ NumBuckets(t) = n
<1>1. DOMAIN t.buckets = 0 .. n - 1
  BY DEF TableOf
<1>2. Cardinality(0 .. n - 1) = n
  BY FS_Interval
<1>3. QED BY <1>1, <1>2 DEF TableOf, NumBuckets

LEMMA NewLinksFacts ==
  ASSUME NEW E, NEW n, NEW t \in TableOf(E, n), NEW H \in [E -> Handle],
         NEW r, r = [t EXCEPT !.hh = H]
  PROVE  r \in TableOf(E, n) /\ SameTable(r, t) /\ r.buckets = t.buckets /\ r.hh = H
BY DEF TableOf, SameTable

LEMMA NewBucketsFacts ==
  ASSUME NEW E, NEW n, NEW t \in TableOf(E, n), NEW m, NEW B \in [0 .. m - 1 -> Bucket],
         NEW r, r = [t EXCEPT !.buckets = B]
  PROVE  r \in TableOf(E, m) /\ SameTable(r, t) /\ r.hh = t.hh /\ r.buckets = B
BY DEF TableOf, SameTable

\* r is t with e before first in the chain of b.
IsLinkedIn(r, t, E, n, b, e, first) ==
  /\ r \in TableOf(E, n) /\ SameTable(r, t)
  /\ \A x \in E :
       /\ SameKey(r.hh[x], t.hh[x])
       /\ r.hh[x].prev = t.hh[x].prev /\ r.hh[x].next = t.hh[x].next
       /\ r.hh[x].hh_next = IF x = e THEN first ELSE t.hh[x].hh_next
       /\ r.hh[x].hh_prev = IF x = e THEN NULL ELSE IF x = first THEN e ELSE t.hh[x].hh_prev
  /\ \A k \in 0 .. n - 1 : k # b => r.buckets[k] = t.buckets[k]
  /\ r.buckets[b].hh_head = e /\ r.buckets[b].count = t.buckets[b].count + 1
  /\ r.buckets[b].expand_mult = t.buckets[b].expand_mult

LEMMA LinkedInFacts ==
  ASSUME NEW E, NEW n, NEW t \in TableOf(E, n), NULL \notin E, E \subseteq Nat,
         NEW b \in 0 .. n - 1, NEW e \in E,
         NEW first, first = t.buckets[b].hh_head, first \in (E \ {e}) \cup {NULL},
         NEW r, r = LinkedIn(t, b, e)
  PROVE  IsLinkedIn(r, t, E, n, b, e, first)
<1>1. t.hh \in [E -> Handle] /\ t.buckets \in [0 .. n - 1 -> Bucket] /\ NULL \in Nat
  BY DEF TableOf, NULL
<1>2. PICK k : k = [[t.buckets[b] EXCEPT !.count = @ + 1] EXCEPT !.hh_head = e]
  OBVIOUS
<1>3. t.buckets[b] \in Bucket /\ t.hh[e] \in Handle /\ e \in Nat /\ first \in Nat
  BY <1>1
<1>4. k \in Bucket /\ k.hh_head = e /\ k.count = t.buckets[b].count + 1
      /\ k.expand_mult = t.buckets[b].expand_mult
  <2>1. PICK old \in Bucket : old = t.buckets[b]
    BY <1>3
  <2>2. PICK c \in Int : c = old.count + 1
    BY <2>1 DEF Bucket
  <2>3. k = [[old EXCEPT !.count = c] EXCEPT !.hh_head = e]
    BY <1>2, <2>1, <2>2
  <2>4. k \in Bucket /\ k.hh_head = e /\ k.count = c /\ k.expand_mult = old.expand_mult
    BY <1>3, <2>1, <2>2, <2>3 DEF Bucket
  <2>5. QED BY <2>1, <2>2, <2>4
<1>5. PICK h : h = [[t.hh[e] EXCEPT !.hh_next = first] EXCEPT !.hh_prev = NULL]
  OBVIOUS
<1>6. h \in Handle /\ SameKey(h, t.hh[e]) /\ h.prev = t.hh[e].prev /\ h.next = t.hh[e].next
      /\ h.hh_next = first /\ h.hh_prev = NULL
  BY <1>1, <1>3, <1>5 DEF Handle, SameKey
<1>7. PICK B : B = [t.buckets EXCEPT ![b] = k]
  OBVIOUS
<1>8. PICK H : H = [t.hh EXCEPT ![e] = h]
  OBVIOUS
<1>9. B \in [0 .. n - 1 -> Bucket] /\ H \in [E -> Handle]
  BY <1>1, <1>4, <1>6, <1>7, <1>8
<1>10. PICK u : u = [[t EXCEPT !.buckets = B] EXCEPT !.hh = H]
  OBVIOUS
<1>11. u = [t EXCEPT !.buckets[b].count = @ + 1, !.buckets[b].hh_head = e,
                     !.hh[e].hh_next = first, !.hh[e].hh_prev = NULL]
  BY <1>2, <1>5, <1>7, <1>8, <1>10 DEF TableOf
<1>12. u \in TableOf(E, n) /\ SameTable(u, t) /\ u.buckets = B /\ u.hh = H
  BY <1>9, <1>10 DEF TableOf, SameTable
<1> DEFINE InBuckets(v) ==
      /\ \A j \in 0 .. n - 1 : j # b => v.buckets[j] = t.buckets[j]
      /\ v.buckets[b].hh_head = e /\ v.buckets[b].count = t.buckets[b].count + 1
      /\ v.buckets[b].expand_mult = t.buckets[b].expand_mult
<1>13. InBuckets(u)
  BY <1>1, <1>4, <1>7, <1>12
<1>14. CASE first = NULL
  <2>1. r = u
    BY <1>11, <1>14 DEF LinkedIn, SetLink
  <2>2. \A x \in E : x # first
    BY <1>14
  <2>3. \A x \in E : H[x] = IF x = e THEN h ELSE t.hh[x]
    BY <1>1, <1>8
  <2>4. QED BY <1>6, <1>12, <1>14, <1>13, <2>1, <2>2, <2>3 DEF SameKey, IsLinkedIn
<1>15. CASE first # NULL
  <2>1. r = [u EXCEPT !.hh[first].hh_prev = e]
    BY <1>11, <1>15 DEF LinkedIn, SetLink
  <2>2. first \in E /\ first # e /\ t.hh[first] \in Handle
    BY <1>1, <1>15
  <2>3. PICK g : g = [t.hh[first] EXCEPT !.hh_prev = e]
    OBVIOUS
  <2>4. g \in Handle /\ SameKey(g, t.hh[first]) /\ g.prev = t.hh[first].prev
        /\ g.next = t.hh[first].next /\ g.hh_next = t.hh[first].hh_next /\ g.hh_prev = e
    BY <1>3, <2>2, <2>3 DEF Handle, SameKey
  <2>5. PICK G : G = [H EXCEPT ![first] = g]
    OBVIOUS
  <2>6. G \in [E -> Handle]
    BY <1>9, <2>4, <2>5
  <2>7. H[first] = t.hh[first]
    BY <1>1, <1>8, <2>2
  <2>8. r = [u EXCEPT !.hh = G]
    BY <1>9, <1>12, <2>1, <2>2, <2>3, <2>5, <2>7 DEF TableOf
  <2>9. r \in TableOf(E, n) /\ SameTable(r, u) /\ r.buckets = u.buckets /\ r.hh = G
    BY <1>12, <2>6, <2>8, NewLinksFacts
  <2>10. SameTable(r, t)
    BY <1>12, <2>9 DEF SameTable
  <2>11. \A x \in E : G[x] = IF x = first THEN g ELSE IF x = e THEN h ELSE t.hh[x]
    BY <1>1, <1>8, <1>9, <2>5
  <2>12. InBuckets(r)
    BY <1>13, <2>9
  <2>13. QED BY <1>6, <2>2, <2>4, <2>9, <2>10, <2>11, <2>12 DEF SameKey, IsLinkedIn
<1>16. QED BY <1>14, <1>15

LEMMA WithHandleFacts ==
  ASSUME NEW E, NEW n, NEW t \in TableOf(E, n), NEW e, NEW key \in DOMAIN HASH_FUNCTION,
         NEW r, r = WithHandle(t, e, key), NEW F, F = E \cup {e}
  PROVE  /\ r \in TableOf(F, n) /\ SameTable(r, t) /\ r.buckets = t.buckets
         /\ \A x \in E : x # e => r.hh[x] = t.hh[x]
         /\ NewHandle(r.hh[e], key)
<1>1. PICK h : h = [prev |-> NULL, next |-> NULL, hh_prev |-> NULL, hh_next |-> NULL,
                    key |-> key, hashv |-> HASH_FUNCTION[key]]
  OBVIOUS
<1>2. HASH_FUNCTION[key] \in Nat
  BY HashAssumption
<1>3. h \in Handle
  BY <1>1, <1>2 DEF Handle, NULL
<1>9. NewHandle(h, key)
  BY <1>1 DEF NewHandle
<1>4. PICK H : H = [x \in F |-> IF x = e THEN h ELSE t.hh[x]]
  OBVIOUS
<1>5. H \in [F -> Handle]
  <2>1. \A x \in E : t.hh[x] \in Handle
    BY DEF TableOf
  <2>2. QED BY <1>3, <1>4, <2>1
<1>6. r = [t EXCEPT !.hh = H]
  BY <1>1, <1>4 DEF TableOf, WithHandle
<1>7. r \in TableOf(F, n) /\ SameTable(r, t) /\ r.buckets = t.buckets /\ r.hh = H
  BY <1>5, <1>6 DEF TableOf, SameTable
<1>8. QED BY <1>4, <1>7, <1>9

LEMMA WithoutHandleFacts ==
  ASSUME NEW E, NEW n, NEW t \in TableOf(E, n), NEW e, NEW F, F = E \ {e},
         NEW r, r = WithoutHandle(t, e)
  PROVE  /\ r \in TableOf(F, n) /\ SameTable(r, t) /\ r.buckets = t.buckets
         /\ \A x \in F : r.hh[x] = t.hh[x]
<1>1. PICK H : H = [x \in F |-> t.hh[x]]
  OBVIOUS
<1>2. H \in [F -> Handle]
  BY <1>1 DEF TableOf
<1>3. r = [t EXCEPT !.hh = H]
  BY <1>1 DEF TableOf, WithoutHandle
<1>4. QED BY <1>1, <1>2, <1>3 DEF TableOf, SameTable

LEMMA AppendedFacts ==
  ASSUME NEW E, NEW n, NEW t \in TableOf(E, n), NEW e \in E, t.tail \in E \ {e}, E \subseteq Nat,
         NEW r, r = Appended(t, e)
  PROVE  /\ r \in TableOf(E, n) /\ r.head = t.head /\ r.tail = e /\ r.num_items = t.num_items
         /\ r.noexpand = t.noexpand /\ r.mem = t.mem /\ r.buckets = t.buckets
         /\ \A x \in E :
              /\ SameKey(r.hh[x], t.hh[x])
              /\ r.hh[x].hh_prev = t.hh[x].hh_prev /\ r.hh[x].hh_next = t.hh[x].hh_next
              /\ r.hh[x].prev = IF x = e THEN t.tail ELSE t.hh[x].prev
              /\ r.hh[x].next = IF x = e THEN NULL ELSE IF x = t.tail THEN e ELSE t.hh[x].next
<1>1. t.hh \in [E -> Handle] /\ NULL \in Nat /\ e \in Nat /\ t.tail \in Nat
  BY DEF TableOf, NULL
<1>2. PICK h : h = [[t.hh[e] EXCEPT !.next = NULL] EXCEPT !.prev = t.tail]
  OBVIOUS
<1>3. t.hh[e] \in Handle /\ t.hh[t.tail] \in Handle
  BY <1>1
<1>4. h \in Handle /\ SameKey(h, t.hh[e]) /\ h.next = NULL /\ h.prev = t.tail
      /\ h.hh_prev = t.hh[e].hh_prev /\ h.hh_next = t.hh[e].hh_next
  BY <1>1, <1>2, <1>3 DEF Handle, SameKey
<1>5. PICK g : g = [t.hh[t.tail] EXCEPT !.next = e]
  OBVIOUS
<1>6. g \in Handle /\ SameKey(g, t.hh[t.tail]) /\ g.next = e /\ g.prev = t.hh[t.tail].prev
      /\ g.hh_prev = t.hh[t.tail].hh_prev /\ g.hh_next = t.hh[t.tail].hh_next
  BY <1>1, <1>3, <1>5 DEF Handle, SameKey
<1>7. PICK H : H = [[t.hh EXCEPT ![e] = h] EXCEPT ![t.tail] = g]
  OBVIOUS
<1>8. H \in [E -> Handle]
  BY <1>1, <1>4, <1>6, <1>7
<1>9. r = [[t EXCEPT !.hh = H] EXCEPT !.tail = e]
  BY <1>1, <1>2, <1>5, <1>7 DEF Appended, TableOf
<1>10. /\ r \in TableOf(E, n) /\ r.head = t.head /\ r.tail = e /\ r.num_items = t.num_items
       /\ r.noexpand = t.noexpand /\ r.mem = t.mem /\ r.buckets = t.buckets /\ r.hh = H
  BY <1>1, <1>8, <1>9 DEF TableOf
<1>11. \A x \in E : H[x] = IF x = t.tail THEN g ELSE IF x = e THEN h ELSE t.hh[x]
  BY <1>1, <1>7
<1>12. QED BY <1>1, <1>4, <1>6, <1>10, <1>11 DEF SameKey

\* The members of a handle that are links.
Links == {"prev", "next", "hh_prev", "hh_next"}

\* r is t but for one link, or for nothing if x is NULL.
IsRelinked(r, t, E, n, x, link, to) ==
  /\ r \in TableOf(E, n) /\ SameTable(r, t) /\ r.buckets = t.buckets
  /\ \A y \in E :
       /\ SameKey(r.hh[y], t.hh[y])
       /\ \A l \in Links : r.hh[y][l] = IF y = x /\ l = link THEN to ELSE t.hh[y][l]

LEMMA HandleLinkFacts ==
  ASSUME NEW h \in Handle, NEW link \in Links, NEW to \in Nat, NEW g, g = [h EXCEPT ![link] = to]
  PROVE  /\ g \in Handle /\ SameKey(g, h)
         /\ \A l \in Links : g[l] = IF l = link THEN to ELSE h[l]
<1>1. CASE link = "prev" BY <1>1 DEF Handle, Links, SameKey
<1>2. CASE link = "next" BY <1>2 DEF Handle, Links, SameKey
<1>3. CASE link = "hh_prev" BY <1>3 DEF Handle, Links, SameKey
<1>4. CASE link = "hh_next" BY <1>4 DEF Handle, Links, SameKey
<1>5. QED BY <1>1, <1>2, <1>3, <1>4 DEF Links

LEMMA SetLinkFacts ==
  ASSUME NEW E, NEW n, NEW t \in TableOf(E, n), NULL \notin E, NEW x \in E \cup {NULL},
         NEW link \in Links, NEW to \in Nat, NEW r, r = SetLink(t, x, link, to)
  PROVE  IsRelinked(r, t, E, n, x, link, to)
<1>1. t.hh \in [E -> Handle]
  BY DEF TableOf
<1>2. CASE x = NULL
  <2>1. r = t /\ \A y \in E : y # x
    BY <1>2 DEF SetLink
  <2>2. QED BY <2>1 DEF IsRelinked, SameTable, SameKey
<1>3. CASE x # NULL
  <2>1. x \in E /\ t.hh[x] \in Handle
    BY <1>1, <1>3
  <2>2. PICK g : g = [t.hh[x] EXCEPT ![link] = to]
    OBVIOUS
  <2>3. g \in Handle /\ SameKey(g, t.hh[x])
        /\ \A l \in Links : g[l] = IF l = link THEN to ELSE t.hh[x][l]
    BY <2>1, <2>2, HandleLinkFacts
  <2>4. PICK H : H = [t.hh EXCEPT ![x] = g]
    OBVIOUS
  <2>5. H \in [E -> Handle] /\ \A y \in E : H[y] = IF y = x THEN g ELSE t.hh[y]
    BY <1>1, <2>1, <2>3, <2>4
  <2>6. r = [t EXCEPT !.hh = H]
    BY <1>3, <2>1, <2>2, <2>4 DEF SetLink, TableOf
  <2>7. r \in TableOf(E, n) /\ SameTable(r, t) /\ r.buckets = t.buckets /\ r.hh = H
    BY <2>5, <2>6, NewLinksFacts
  <2>8. ASSUME NEW y \in E
        PROVE  /\ SameKey(r.hh[y], t.hh[y])
               /\ \A l \in Links : r.hh[y][l] = IF y = x /\ l = link THEN to ELSE t.hh[y][l]
    <3>1. CASE y = x BY <2>3, <2>5, <2>7, <3>1
    <3>2. CASE y # x
      <4>1. r.hh[y] = t.hh[y]
        BY <2>5, <2>7, <3>2
      <4>2. QED BY <3>2, <4>1 DEF SameKey
    <3>3. QED BY <3>1, <3>2
  <2>9. QED BY <2>7, <2>8 DEF IsRelinked
<1>4. QED BY <1>2, <1>3


\* r is t but for one bucket, which is k.
IsRebucketed(r, t, E, n, b, k) ==
  /\ r \in TableOf(E, n) /\ SameTable(r, t) /\ r.hh = t.hh /\ r.buckets[b] = k
  /\ \A j \in 0 .. n - 1 : j # b => r.buckets[j] = t.buckets[j]
Rebucketed(t, b, k) == [t EXCEPT !.buckets = [t.buckets EXCEPT ![b] = k]]

LEMMA BucketFacts ==
  ASSUME NEW E, NEW n, NEW t \in TableOf(E, n), NEW b \in 0 .. n - 1, NEW k \in Bucket,
         NEW r, r = Rebucketed(t, b, k)
  PROVE  IsRebucketed(r, t, E, n, b, k)
<1>1. t.buckets \in [0 .. n - 1 -> Bucket]
  BY DEF TableOf
<1>2. PICK B : B = [t.buckets EXCEPT ![b] = k]
  OBVIOUS
<1>3. B \in [0 .. n - 1 -> Bucket] /\ B[b] = k
      /\ \A j \in 0 .. n - 1 : j # b => B[j] = t.buckets[j]
  BY <1>1, <1>2
<1>4. r = [t EXCEPT !.buckets = B]
  BY <1>2 DEF Rebucketed
<1>5. r \in TableOf(E, n) /\ SameTable(r, t) /\ r.hh = t.hh /\ r.buckets = B
  BY <1>3, <1>4 DEF TableOf, SameTable
<1>6. QED BY <1>3, <1>5 DEF IsRebucketed

\* r is t without its element e in the chain of b, if that was the first.
IsUnchained(r, t, E, n, b, first, next) ==
  /\ r \in TableOf(E, n) /\ SameTable(r, t)
  /\ \A k \in 0 .. n - 1 : k # b => r.buckets[k] = t.buckets[k]
  /\ r.buckets[b].hh_head = first /\ r.buckets[b].count = t.buckets[b].count - 1
  /\ r.buckets[b].expand_mult = t.buckets[b].expand_mult
  /\ \A y \in E :
       /\ SameKey(r.hh[y], t.hh[y])
       /\ \A l \in Links : r.hh[y][l] = IF y = next /\ l = "hh_prev" THEN NULL ELSE t.hh[y][l]

LEMMA UnchainedFacts ==
  ASSUME NEW E, NEW n, NEW t \in TableOf(E, n), NULL \notin E, NEW b \in 0 .. n - 1, NEW e \in E,
         NEW next \in E \cup {NULL}, next = t.hh[e].hh_next, t.hh[e].hh_prev = NULL,
         NEW first, first = IF t.buckets[b].hh_head = e THEN next ELSE t.buckets[b].hh_head,
         NEW r, r = DelInBkt(t, b, e)
  PROVE  IsUnchained(r, t, E, n, b, first, next)
<1>1. t.hh \in [E -> Handle] /\ t.buckets \in [0 .. n - 1 -> Bucket] /\ NULL \in Nat
  BY DEF TableOf, NULL
<1>2. t.hh[e] \in Handle /\ t.buckets[b] \in Bucket
  BY <1>1
<1>3. next \in Nat /\ first \in Nat
  BY <1>2 DEF Handle, Bucket
<1>4. PICK k : k = [[t.buckets[b] EXCEPT !.count = @ - 1] EXCEPT !.hh_head = first]
  OBVIOUS
<1>5. k \in Bucket /\ k.hh_head = first /\ k.count = t.buckets[b].count - 1
      /\ k.expand_mult = t.buckets[b].expand_mult
  <2>1. PICK old \in Bucket : old = t.buckets[b]
    BY <1>2
  <2>2. PICK c \in Int : c = old.count - 1
    BY <2>1 DEF Bucket
  <2>3. k = [[old EXCEPT !.count = c] EXCEPT !.hh_head = first]
    BY <1>4, <2>1, <2>2
  <2>4. k \in Bucket /\ k.hh_head = first /\ k.count = c /\ k.expand_mult = old.expand_mult
    BY <1>3, <2>1, <2>2, <2>3 DEF Bucket
  <2>5. QED BY <2>1, <2>2, <2>4
<1>6. PICK u : u = Rebucketed(t, b, k)
  OBVIOUS
<1>7. IsRebucketed(u, t, E, n, b, k)
  BY <1>5, <1>6, BucketFacts
<1>8. u = [t EXCEPT !.buckets[b].count = @ - 1,
                    !.buckets[b].hh_head = IF @ = e THEN next ELSE @]
  BY <1>1, <1>2, <1>4, <1>6 DEF Rebucketed, TableOf, Bucket
<1>9. r = SetLink(SetLink(u, NULL, "hh_next", next), next, "hh_prev", NULL)
  BY <1>8 DEF DelInBkt
<1>10. r = SetLink(u, next, "hh_prev", NULL)
  BY <1>9 DEF SetLink
<1>11. u \in TableOf(E, n) /\ SameTable(u, t) /\ u.hh = t.hh
  BY <1>7 DEF IsRebucketed
<1>12. IsRelinked(r, u, E, n, next, "hh_prev", NULL)
  BY <1>1, <1>10, <1>11, SetLinkFacts DEF Links
<1>13. r \in TableOf(E, n) /\ SameTable(r, t) /\ r.buckets = u.buckets
  BY <1>11, <1>12 DEF IsRelinked, SameTable
<1>14. /\ \A j \in 0 .. n - 1 : j # b => r.buckets[j] = t.buckets[j]
       /\ r.buckets[b].hh_head = first /\ r.buckets[b].count = t.buckets[b].count - 1
       /\ r.buckets[b].expand_mult = t.buckets[b].expand_mult
  BY <1>5, <1>7, <1>13 DEF IsRebucketed
<1>15. \A y \in E :
         /\ SameKey(r.hh[y], t.hh[y])
         /\ \A l \in Links : r.hh[y][l] = IF y = next /\ l = "hh_prev" THEN NULL ELSE t.hh[y][l]
  BY <1>11, <1>12 DEF IsRelinked
<1>16. QED BY <1>13, <1>14, <1>15 DEF IsUnchained

\* r is t without its last element e, which was the first of its chain.
IsRolledBack(r, t, E, n, b, e, prev, next) ==
  /\ r \in TableOf(E, n) /\ r.head = t.head /\ r.tail = prev /\ r.num_items = t.num_items - 1
  /\ r.noexpand = t.noexpand /\ r.mem = t.mem
  /\ \A k \in 0 .. n - 1 : k # b => r.buckets[k] = t.buckets[k]
  /\ r.buckets[b].hh_head = next /\ r.buckets[b].count = t.buckets[b].count - 1
  /\ r.buckets[b].expand_mult = t.buckets[b].expand_mult
  /\ \A y \in E : SameKey(r.hh[y], t.hh[y])
  /\ \A y \in E \ {e} : \A l \in Links :
       r.hh[y][l] = IF (y = next /\ l = "hh_prev") \/ (y = prev /\ l = "next")
                      THEN NULL ELSE t.hh[y][l]

LEMMA RolledBackFacts ==
  ASSUME NEW E, NEW n \in Nat, NEW t \in TableOf(E, n), NULL \notin E, E \subseteq Nat,
         NEW e \in E, NEW b \in 0 .. n - 1, b = BucketWith(t, e), t.buckets[b].hh_head = e,
         t.tail = e, t.hh[e].hh_prev = NULL, t.hh[e].next = NULL,
         NEW next \in (E \ {e}) \cup {NULL}, next = t.hh[e].hh_next,
         NEW prev \in E \ {e}, prev = t.hh[e].prev,
         NEW r, r = RolledBack(t, e)
  PROVE  IsRolledBack(r, t, E, n, b, e, prev, next)
<1>1. NULL \in Nat /\ next \in Nat /\ prev \in Nat /\ e # NULL /\ prev # NULL
  BY DEF NULL
<1>2. PICK d : d = DelInBkt(t, b, e)
  OBVIOUS
<1>3. IsUnchained(d, t, E, n, b, next, next)
  <2>1. next = IF t.buckets[b].hh_head = e THEN next ELSE t.buckets[b].hh_head
    OBVIOUS
  <2>2. next \in E \cup {NULL}
    OBVIOUS
  <2>3. QED BY <1>2, <2>1, <2>2, UnchainedFacts
<1>4. d \in TableOf(E, n) /\ d.buckets[b].hh_head = next
  BY <1>3 DEF IsUnchained
<1>5. PICK k : k = [d.buckets[b] EXCEPT !.count = @ + 1]
  OBVIOUS
<1>6. k \in Bucket /\ k.hh_head = next /\ k.count = t.buckets[b].count
      /\ k.expand_mult = t.buckets[b].expand_mult
  <2>1. PICK old \in Bucket : old = d.buckets[b]
    BY <1>4 DEF TableOf
  <2>2. PICK c \in Int : c = old.count + 1
    BY <2>1 DEF Bucket
  <2>3. k = [old EXCEPT !.count = c]
    BY <1>5, <2>1, <2>2
  <2>4. k \in Bucket /\ k.hh_head = old.hh_head /\ k.count = c /\ k.expand_mult = old.expand_mult
    BY <2>1, <2>2, <2>3 DEF Bucket
  <2>5. PICK was \in Int : was = t.buckets[b].count
    <3>1. t.buckets[b] \in Bucket
      BY DEF TableOf
    <3>2. QED BY <3>1 DEF Bucket
  <2>6. old.count = was - 1 /\ old.expand_mult = t.buckets[b].expand_mult
    BY <1>3, <2>1, <2>5 DEF IsUnchained
  <2>7. c = was
    BY <2>2, <2>5, <2>6
  <2>8. QED BY <1>4, <2>1, <2>4, <2>5, <2>6, <2>7
<1>7. PICK u : u = Rebucketed(d, b, k)
  OBVIOUS
<1>8. IsRebucketed(u, d, E, n, b, k)
  BY <1>4, <1>6, <1>7, BucketFacts
<1>9. u = [d EXCEPT !.buckets[b].count = @ + 1]
  BY <1>4, <1>5, <1>7 DEF Rebucketed, TableOf
<1>10. PICK v : v = SetLink(u, e, "hh_next", NULL)
  OBVIOUS
<1>11. PICK w : w = SetLink(v, e, "hh_prev", NULL)
  OBVIOUS
<1>12. u \in TableOf(E, n)
  BY <1>8 DEF IsRebucketed
<1>13. IsRelinked(v, u, E, n, e, "hh_next", NULL) /\ v \in TableOf(E, n)
  <2>1. IsRelinked(v, u, E, n, e, "hh_next", NULL)
    BY <1>1, <1>10, <1>12, SetLinkFacts DEF Links
  <2>2. QED BY <2>1 DEF IsRelinked
<1>14. IsRelinked(w, v, E, n, e, "hh_prev", NULL) /\ w \in TableOf(E, n)
  <2>1. IsRelinked(w, v, E, n, e, "hh_prev", NULL)
    BY <1>1, <1>11, <1>13, SetLinkFacts DEF Links
  <2>2. QED BY <2>1 DEF IsRelinked
<1>15. w = [d EXCEPT !.buckets[b].count = @ + 1, !.hh[e].hh_next = NULL, !.hh[e].hh_prev = NULL]
  BY <1>1, <1>9, <1>10, <1>11 DEF SetLink
<1>16. r = Deleted(w, e)
  BY <1>2, <1>15 DEF RolledBack
<1>17. /\ SameTable(w, t)
       /\ \A j \in 0 .. n - 1 : j # b => w.buckets[j] = t.buckets[j]
       /\ w.buckets[b].hh_head = next /\ w.buckets[b].count = t.buckets[b].count
       /\ w.buckets[b].expand_mult = t.buckets[b].expand_mult
  <2>1. SameTable(w, t) /\ w.buckets = u.buckets
    BY <1>3, <1>8, <1>13, <1>14 DEF IsUnchained, IsRebucketed, IsRelinked, SameTable
  <2>2. QED BY <1>3, <1>6, <1>8, <2>1 DEF IsUnchained, IsRebucketed
<1>18. \A y \in E :
         /\ SameKey(w.hh[y], t.hh[y])
         /\ \A l \in Links :
              w.hh[y][l] = IF (y = next /\ l = "hh_prev") \/ (y = e /\ l \in {"hh_next", "hh_prev"})
                             THEN NULL ELSE t.hh[y][l]
  <2>1. ASSUME NEW y \in E, NEW l \in Links
        PROVE  /\ SameKey(w.hh[y], t.hh[y])
               /\ w.hh[y][l] = IF (y = next /\ l = "hh_prev") \/ (y = e /\ l \in {"hh_next", "hh_prev"})
                                 THEN NULL ELSE t.hh[y][l]
    <3>1. /\ SameKey(d.hh[y], t.hh[y])
          /\ d.hh[y][l] = IF y = next /\ l = "hh_prev" THEN NULL ELSE t.hh[y][l]
      BY <1>3 DEF IsUnchained
    <3>2. u.hh = d.hh
      BY <1>8 DEF IsRebucketed
    <3>3. /\ SameKey(v.hh[y], u.hh[y])
          /\ v.hh[y][l] = IF y = e /\ l = "hh_next" THEN NULL ELSE u.hh[y][l]
      BY <1>13 DEF IsRelinked
    <3>4. /\ SameKey(w.hh[y], v.hh[y])
          /\ w.hh[y][l] = IF y = e /\ l = "hh_prev" THEN NULL ELSE v.hh[y][l]
      BY <1>14 DEF IsRelinked
    <3>5. SameKey(w.hh[y], t.hh[y])
      BY <3>1, <3>2, <3>3, <3>4 DEF SameKey
    <3>6. QED BY <3>1, <3>2, <3>3, <3>4, <3>5
  <2>2. QED BY <2>1 DEF Links
<1>19. w.hh[e].prev = prev /\ w.hh[e].next = NULL /\ w.hh[e].hh_prev = NULL /\ w.hh[e].hh_next = NULL
  <2>1. \A l \in Links : w.hh[e][l] = IF l \in {"hh_next", "hh_prev"} THEN NULL ELSE t.hh[e][l]
    BY <1>18
  <2>2. QED BY <2>1 DEF Links
<1>20. BucketWith(w, e) = b
  <2>1. NumBuckets(w) = n /\ NumBuckets(t) = n
    BY <1>14, TableFacts
  <2>2. w.hh[e].hashv = t.hh[e].hashv
    BY <1>18 DEF SameKey, Links
  <2>3. QED BY <2>1, <2>2 DEF BucketWith
<1>21. PICK c \in Int : c = t.num_items - 1
  <2>1. t.num_items \in Int
    BY DEF TableOf
  <2>2. QED BY <2>1
<1>22. PICK ends : ends = [[w EXCEPT !.tail = prev] EXCEPT !.num_items = c]
  OBVIOUS
<1>23. ends = [w EXCEPT !.tail = IF @ = e THEN prev ELSE @,
                        !.head = IF prev = NULL THEN NULL ELSE @,
                        !.num_items = @ - 1]
  <2>1. w.tail = e /\ w.num_items = t.num_items
    BY <1>17 DEF SameTable
  <2>2. QED BY <1>1, <1>14, <1>21, <1>22, <2>1 DEF TableOf
<1>24. /\ ends \in TableOf(E, n) /\ ends.head = t.head /\ ends.tail = prev /\ ends.num_items = c
       /\ ends.noexpand = t.noexpand /\ ends.mem = t.mem /\ ends.hh = w.hh /\ ends.buckets = w.buckets
  <2>1. w.head = t.head /\ w.noexpand = t.noexpand /\ w.mem = t.mem
    BY <1>17 DEF SameTable
  <2>2. QED BY <1>1, <1>14, <1>21, <1>22, <2>1 DEF TableOf
<1>25. PICK x : x = SetLink(ends, prev, "next", NULL)
  OBVIOUS
<1>26. IsRelinked(x, ends, E, n, prev, "next", NULL) /\ x \in TableOf(E, n)
  <2>1. IsRelinked(x, ends, E, n, prev, "next", NULL)
    BY <1>1, <1>24, <1>25, SetLinkFacts DEF Links
  <2>2. QED BY <2>1 DEF IsRelinked
<1>27. r = DelInBkt(x, b, e)
  <2>1. SetLink(x, NULL, "prev", prev) = x
    BY DEF SetLink
  <2>2. ~(prev = NULL /\ NULL = NULL)
    BY <1>1
  <2>3. QED BY <1>16, <1>19, <1>20, <1>23, <1>25, <2>1, <2>2 DEF Deleted
<1>28. \A y \in E :
         /\ SameKey(x.hh[y], w.hh[y])
         /\ \A l \in Links : x.hh[y][l] = IF y = prev /\ l = "next" THEN NULL ELSE w.hh[y][l]
  BY <1>24, <1>26 DEF IsRelinked
<1>29. x.hh[e].hh_prev = NULL /\ x.hh[e].hh_next = NULL
  <2>1. \A l \in Links : x.hh[e][l] = w.hh[e][l]
    BY <1>28
  <2>2. QED BY <1>19, <2>1 DEF Links
<1>30. IsUnchained(r, x, E, n, b, next, NULL)
  <2>1. x.buckets[b].hh_head = next
    BY <1>17, <1>24, <1>26 DEF IsRelinked
  <2>2. next = IF x.buckets[b].hh_head = e THEN NULL ELSE x.buckets[b].hh_head
    BY <1>1, <2>1
  <2>3. NULL \in E \cup {NULL} /\ NULL = x.hh[e].hh_next
    BY <1>29
  <2>4. QED BY <1>26, <1>27, <1>29, <2>2, <2>3, UnchainedFacts
<1>31. /\ r \in TableOf(E, n) /\ r.head = t.head /\ r.tail = prev /\ r.num_items = t.num_items - 1
       /\ r.noexpand = t.noexpand /\ r.mem = t.mem
  BY <1>21, <1>24, <1>26, <1>30 DEF IsRelinked, IsUnchained, SameTable
<1>32. /\ \A j \in 0 .. n - 1 : j # b => r.buckets[j] = t.buckets[j]
       /\ r.buckets[b].hh_head = next /\ r.buckets[b].count = t.buckets[b].count - 1
       /\ r.buckets[b].expand_mult = t.buckets[b].expand_mult
  <2>1. x.buckets = w.buckets
    BY <1>24, <1>26 DEF IsRelinked
  <2>2. QED BY <1>17, <1>30, <2>1 DEF IsUnchained
<1>33. \A y \in E : SameKey(r.hh[y], t.hh[y])
  <2>1. \A y \in E : SameKey(r.hh[y], x.hh[y]) /\ SameKey(x.hh[y], w.hh[y]) /\ SameKey(w.hh[y], t.hh[y])
    BY <1>18, <1>28, <1>30 DEF IsUnchained
  <2>2. QED BY <2>1 DEF SameKey
<1>34. ASSUME NEW y \in E \ {e}, NEW l \in Links
       PROVE  r.hh[y][l] = IF (y = next /\ l = "hh_prev") \/ (y = prev /\ l = "next")
                             THEN NULL ELSE t.hh[y][l]
  <2>1. r.hh[y][l] = x.hh[y][l]
    <3>1. y # NULL
      BY <1>1
    <3>2. QED BY <1>30, <3>1 DEF IsUnchained
  <2>2. x.hh[y][l] = IF y = prev /\ l = "next" THEN NULL ELSE w.hh[y][l]
    BY <1>28
  <2>3. w.hh[y][l] = IF y = next /\ l = "hh_prev" THEN NULL ELSE t.hh[y][l]
    <3>1. y \in E /\ y # e
      OBVIOUS
    <3>2. w.hh[y][l] = IF (y = next /\ l = "hh_prev") \/ (y = e /\ l \in {"hh_next", "hh_prev"})
                         THEN NULL ELSE t.hh[y][l]
      BY <1>18, <3>1
    <3>3. QED BY <3>1, <3>2
  <2>4. QED BY <2>1, <2>2, <2>3
<1>35. QED BY <1>31, <1>32, <1>33, <1>34 DEF IsRolledBack

------------------------------------------------------------------------------
(* Whole tables.                                                           *)

\* Both links of one kind lead through s, forth and back.
Doubly(t, s, back, on) ==
  \A i \in DOMAIN s : t.hh[s[i]][back] = Before(s, i) /\ t.hh[s[i]][on] = After(s, i)

\* c is the chain of bucket b of a table of the elements of s.
IsChain(t, s, b, c) ==
  /\ c \in Seq(Range(s)) /\ IsInjective(c)
  /\ \A e \in Range(s) : e \in Range(c) <=> BucketWith(t, e) = b
  /\ t.buckets[b].hh_head = FirstOf(c) /\ t.buckets[b].count = Len(c)
  /\ Doubly(t, c, "hh_prev", "hh_next")

\* The table holds the elements of s, in the order in which they were added,
\* and chains[b] are those in bucket b.
Whole(t, s, chains) ==
  /\ t \in TableOf(DOMAIN t.hh, NumBuckets(t)) /\ NumBuckets(t) \in Nat
  /\ IsFiniteSet(DOMAIN t.hh) /\ DOMAIN t.hh \subseteq Nat \ {0}
  /\ \A e \in DOMAIN t.hh : t.hh[e].hashv = HASH_FUNCTION[t.hh[e].key]
  /\ s \in Seq(DOMAIN t.hh) /\ IsInjective(s)
  /\ t.head = FirstOf(s) /\ t.tail = LastOf(s) /\ t.num_items = Len(s)
  /\ Doubly(t, s, "prev", "next")
  /\ NumBuckets(t) = 0 <=> s = << >>
  /\ t.mem = IF s = << >> THEN {} ELSE TableMemory(NumBuckets(t))
  /\ \A b \in 0 .. NumBuckets(t) - 1 : IsChain(t, s, b, chains[b])

\* The same, with names for what is in it.
LEMMA WholeFacts ==
  ASSUME NEW t, NEW s, NEW chains, Whole(t, s, chains)
  PROVE  \E E \in SUBSET (Nat \ {0}), n \in Nat, len \in Nat :
           /\ t \in TableOf(E, n) /\ E = DOMAIN t.hh /\ n = NumBuckets(t)
           /\ IsFiniteSet(E) /\ 0 \notin E /\ NULL \notin E
           /\ s \in Seq(E) /\ len = Len(s) /\ DOMAIN s = 1 .. len /\ Range(s) \subseteq E
           /\ \A i \in 1 .. len : s[i] \in E /\ s[i] \in Range(s)
           /\ len = 0 <=> s = << >>
<1>1. PICK E \in SUBSET (Nat \ {0}), n \in Nat : E = DOMAIN t.hh /\ n = NumBuckets(t)
  BY DEF Whole
<1>2. s \in Seq(E)
  BY <1>1 DEF Whole
<1>3. PICK len \in Nat : len = Len(s) /\ DOMAIN s = 1 .. len
  BY <1>2, LenProperties
<1>4. \A i \in 1 .. len : s[i] \in E /\ s[i] \in Range(s)
  BY <1>2, <1>3, ElementOfSeq DEF Range
<1>5. Range(s) \subseteq E
  BY <1>2, RangeOfSeq
<1>6. len = 0 <=> s = << >>
  BY <1>2, <1>3, EmptySeq
<1>7. QED BY <1>1, <1>2, <1>3, <1>4, <1>5, <1>6 DEF Whole, NULL

\* An element after the others ...
IsAppended(r, s, S, e) ==
  /\ r \in Seq(S \cup {e}) /\ IsInjective(r) /\ Range(r) = Range(s) \cup {e}
  /\ Len(r) = Len(s) + 1 /\ r # << >> /\ FirstOf(r) = (IF s = << >> THEN e ELSE FirstOf(s))
  /\ r[Len(s) + 1] = e
  /\ LastOf(r) = e /\ Before(r, Len(s) + 1) = LastOf(s) /\ After(r, Len(s) + 1) = NULL
  /\ \A i \in 1 .. Len(s) :
       /\ r[i] = s[i] /\ Before(r, i) = Before(s, i)
       /\ After(r, i) = IF i = Len(s) THEN e ELSE After(s, i)

LEMMA AppendOne ==
  ASSUME NEW S, NEW s \in Seq(S), IsInjective(s), NEW e, e \notin Range(s),
         NEW r, r = Append(s, e)
  PROVE  IsAppended(r, s, S, e)
<1>1. PICK T : T = S \cup {e}
  OBVIOUS
<1>2. s \in Seq(T) /\ e \in T
  BY <1>1, SeqMonotonic
<1>3. PICK n \in Nat : n = Len(s) /\ DOMAIN s = 1 .. n
  BY LenProperties
<1>4. r \in Seq(T) /\ r # << >> /\ Len(r) = n + 1 /\ r[n + 1] = e /\ \A i \in 1 .. n : r[i] = s[i]
  BY <1>2, <1>3, AppendProperties
<1>5. DOMAIN r = 1 .. n + 1
  BY <1>4, LenProperties
<1>6. \A i \in 1 .. n : s[i] # e
  BY <1>3 DEF Range
<1>7. IsInjective(r)
  BY <1>3, <1>4, <1>5, <1>6 DEF IsInjective
<1>8. Range(r) = Range(s) \cup {e}
  BY <1>3, <1>4, <1>5 DEF Range
<1>9. n = 0 <=> s = << >>
  BY <1>3, EmptySeq
<1>10. QED BY <1>1, <1>3, <1>4, <1>7, <1>8, <1>9 DEF FirstOf, LastOf, Before, After, IsAppended

\* ... and before them.
IsPreceded(r, s, S, e) ==
  /\ r \in Seq(S) /\ IsInjective(r) /\ Range(r) = Range(s) \cup {e}
  /\ Len(r) = Len(s) + 1 /\ FirstOf(r) = e
  /\ r[1] = e /\ Before(r, 1) = NULL /\ After(r, 1) = FirstOf(s)
  /\ \A i \in 1 .. Len(s) :
       /\ r[i + 1] = s[i] /\ Before(r, i + 1) = (IF i = 1 THEN e ELSE Before(s, i))
       /\ After(r, i + 1) = After(s, i)

LEMMA ConsOne ==
  ASSUME NEW S, NEW s \in Seq(S), IsInjective(s), NEW e \in S, e \notin Range(s),
         NEW r, r = <<e>> \o s
  PROVE  IsPreceded(r, s, S, e)
<1>1. PICK n \in Nat : n = Len(s) /\ DOMAIN s = 1 .. n
  BY LenProperties
<1>2. <<e>> \in Seq(S) /\ Len(<<e>>) = 1 /\ <<e>>[1] = e
  OBVIOUS
<1>3. r \in Seq(S) /\ Len(r) = n + 1
      /\ \A i \in 1 .. n + 1 : r[i] = IF i <= 1 THEN <<e>>[i] ELSE s[i - 1]
  BY <1>1, <1>2, ConcatProperties
<1>4. r[1] = e /\ \A i \in 1 .. n : r[i + 1] = s[i]
  BY <1>1, <1>2, <1>3
<1>5. DOMAIN r = 1 .. n + 1
  BY <1>3, LenProperties
<1>6. \A i \in 1 .. n : s[i] # e
  BY <1>1 DEF Range
<1>7. ASSUME NEW i \in 1 .. n + 1, NEW j \in 1 .. n + 1, r[i] = r[j] PROVE i = j
  <2>1. CASE i = 1 \/ j = 1
    <3>1. \A k \in 1 .. n + 1 : k # 1 => k - 1 \in 1 .. n /\ r[k] = s[k - 1]
      BY <1>3
    <3>2. QED BY <2>1, <3>1, <1>4, <1>6, <1>7
  <2>2. CASE i # 1 /\ j # 1
    <3>1. i - 1 \in 1 .. n /\ j - 1 \in 1 .. n /\ s[i - 1] = s[j - 1]
      BY <1>3, <1>7, <2>2
    <3>2. i - 1 = j - 1
      BY <1>1, <3>1 DEF IsInjective
    <3>3. QED BY <3>2
  <2>3. QED BY <2>1, <2>2
<1>8. IsInjective(r)
  BY <1>5, <1>7 DEF IsInjective
<1>9. Range(r) = Range(s) \cup {e}
  <2>1. \A x \in Range(s) \cup {e} : x \in Range(r)
    <3>1. ASSUME NEW i \in 1 .. n PROVE s[i] \in Range(r)
      <4>1. i + 1 \in 1 .. n + 1
        OBVIOUS
      <4>2. QED BY <1>4, <1>5, <4>1 DEF Range
    <3>2. QED BY <1>1, <1>4, <1>5, <3>1 DEF Range
  <2>2. \A i \in 1 .. n + 1 : r[i] \in Range(s) \cup {e}
    <3>1. \A k \in 1 .. n + 1 : k # 1 => k - 1 \in 1 .. n /\ r[k] = s[k - 1]
      BY <1>3
    <3>2. QED BY <1>1, <1>4, <3>1 DEF Range
  <2>3. QED BY <1>5, <2>1, <2>2 DEF Range
<1>10. n = 0 <=> s = << >>
  BY <1>1, EmptySeq
<1>11. r # << >>
  BY <1>1, <1>3, EmptySeq
<1>12. After(r, 1) = FirstOf(s)
  BY <1>1, <1>3, <1>4, <1>10 DEF After, FirstOf
<1>13. ASSUME NEW i \in 1 .. n
       PROVE  Before(r, i + 1) = (IF i = 1 THEN e ELSE Before(s, i)) /\ After(r, i + 1) = After(s, i)
  <2>1. Before(r, i + 1) = r[i] /\ After(r, i + 1) = IF i = n THEN NULL ELSE r[i + 2]
    BY <1>3 DEF Before, After
  <2>2. i # 1 => r[i] = s[i - 1]
    BY <1>3
  <2>3. i # n => r[i + 2] = s[i + 1]
    BY <1>3
  <2>4. QED BY <1>1, <1>4, <2>1, <2>2, <2>3 DEF Before, After
<1>14. QED BY <1>1, <1>3, <1>4, <1>8, <1>9, <1>11, <1>12, <1>13 DEF FirstOf, Before, IsPreceded

\* Names for parts of HashAdd.
AddedToList(t, e, key) ==
  IF t.head = NULL THEN MadeTable(WithHandle(t, e, key), e) ELSE Appended(WithHandle(t, e, key), e)
Counted(t) == [t EXCEPT !.num_items = @ + 1]
BucketsFor(t, s) == IF s = << >> THEN HASH_INITIAL_NUM_BUCKETS ELSE NumBuckets(t)

\* u is t with e at the end of the list, and not yet in the chain of a bucket.
IsListed(u, t, s, e, key, E, n) ==
  /\ u \in TableOf(E, n) /\ NumBuckets(u) = n /\ n \in Nat \ {0}
  /\ u.head = (IF s = << >> THEN e ELSE FirstOf(s)) /\ u.tail = e
  /\ u.num_items = Len(s) + 1 /\ u.noexpand = t.noexpand /\ u.mem = TableMemory(n)
  /\ u.buckets = IF s = << >> THEN EmptyBuckets(n) ELSE t.buckets
  /\ u.hh[e].key = key /\ u.hh[e].hashv = HASH_FUNCTION[key]
  /\ u.hh[e].prev = LastOf(s) /\ u.hh[e].next = NULL
  /\ \A x \in DOMAIN t.hh \ {e} :
       /\ SameKey(u.hh[x], t.hh[x]) /\ u.hh[x].prev = t.hh[x].prev
       /\ u.hh[x].hh_prev = t.hh[x].hh_prev /\ u.hh[x].hh_next = t.hh[x].hh_next
       /\ u.hh[x].next = IF x = LastOf(s) THEN e ELSE t.hh[x].next

LEMMA ListedFacts ==
  ASSUME NEW t, NEW s, NEW chains, Whole(t, s, chains), NEW e \in Nat \ {0}, e \notin Range(s),
         NEW key \in DOMAIN HASH_FUNCTION, NEW listed, listed = AddedToList(t, e, key),
         NEW u, u = Counted(listed), NEW E, E = DOMAIN t.hh \cup {e}, NEW n, n = BucketsFor(t, s)
  PROVE  IsListed(u, t, s, e, key, E, n) /\ NumBuckets(listed) = n
<1>1. PICK D \in SUBSET (Nat \ {0}), k \in Nat, len \in Nat :
           /\ t \in TableOf(D, k) /\ D = DOMAIN t.hh /\ k = NumBuckets(t)
           /\ IsFiniteSet(D) /\ 0 \notin D /\ NULL \notin D
           /\ s \in Seq(D) /\ len = Len(s) /\ DOMAIN s = 1 .. len /\ Range(s) \subseteq D
           /\ \A i \in 1 .. len : s[i] \in D /\ s[i] \in Range(s)
           /\ len = 0 <=> s = << >>
  BY WholeFacts
<1>2. PICK h : h = WithHandle(t, e, key)
  OBVIOUS
<1>3. listed = IF t.head = NULL THEN MadeTable(h, e) ELSE Appended(h, e)
  BY <1>2 DEF AddedToList
<1>4. u = [listed EXCEPT !.num_items = @ + 1]
  BY DEF Counted
<1>5. n = IF s = << >> THEN HASH_INITIAL_NUM_BUCKETS ELSE NumBuckets(t)
  BY DEF BucketsFor
<1>6. /\ h \in TableOf(E, k) /\ SameTable(h, t) /\ h.buckets = t.buckets
      /\ \A x \in D : x # e => h.hh[x] = t.hh[x]
      /\ NewHandle(h.hh[e], key)
  <2>1. E = D \cup {e} /\ t \in TableOf(D, k)
    BY <1>1
  <2>2. QED BY <1>2, <2>1, WithHandleFacts
<1>7. t.head = FirstOf(s) /\ t.tail = LastOf(s) /\ t.num_items = len
  BY <1>1 DEF Whole
<1>8. CASE s = << >>
  <2>1. t.head = NULL /\ LastOf(s) = NULL /\ FirstOf(s) = NULL /\ NULL \notin DOMAIN t.hh
        /\ t.mem = {} /\ len = 0 /\ n = HASH_INITIAL_NUM_BUCKETS /\ n \in Nat \ {0}
    BY <1>1, <1>7, <1>8, <1>5, BucketsAssumption DEF Whole, FirstOf, LastOf
  <2>2. PICK B : B = EmptyBuckets(n)
    OBVIOUS
  <2>3. B \in [0 .. n - 1 -> Bucket]
    BY <2>2 DEF EmptyBuckets, EmptyBucket, Bucket, NULL
  <2>4. h.mem = {} /\ h.num_items = 0 /\ h.noexpand = t.noexpand
    BY <1>6, <1>7, <2>1 DEF SameTable
  <2>5. PICK M \in SUBSET ({"tbl", "buckets"} \X Nat) : M = TableMemory(n)
    <3>1. TableMemory(n) \in SUBSET ({"tbl", "buckets"} \X Nat)
      BY <2>1 DEF TableMemory
    <3>2. QED BY <3>1
  <2>6. listed = [[[[h EXCEPT !.head = e] EXCEPT !.tail = e] EXCEPT !.buckets = B]
                      EXCEPT !.mem = M]
    BY <1>6, <1>3, <2>1, <2>2, <2>4, <2>5 DEF MadeTable, TableOf
  <2>7. /\ listed \in TableOf(E, n) /\ listed.head = e /\ listed.tail = e /\ listed.buckets = B
        /\ listed.mem = TableMemory(n) /\ listed.num_items = 0 /\ listed.hh = h.hh
        /\ listed.noexpand = t.noexpand
    <3>1. h \in TableOf(E, k) /\ e \in Nat
      BY <1>6
    <3>2. QED BY <3>1, <2>3, <2>6, <2>4, <2>5 DEF TableOf
  <2>8. /\ u \in TableOf(E, n) /\ u.head = e /\ u.tail = e /\ u.buckets = B
        /\ u.mem = TableMemory(n) /\ u.num_items = 1 /\ u.hh = h.hh /\ u.noexpand = t.noexpand
    BY <1>4, <2>7 DEF TableOf
  <2>9. NumBuckets(listed) = n
    BY <2>1, <2>7, TableFacts
  <2>10. NumBuckets(u) = n
    BY <2>1, <2>8, TableFacts
  <2>11. QED BY <1>1, <1>6, <1>8, <2>1, <2>2, <2>8, <2>9, <2>10 DEF SameKey, NewHandle, IsListed
<1>9. CASE s # << >>
  <2>1. len \in 1 .. len /\ LastOf(s) = s[len] /\ FirstOf(s) = s[1] /\ 1 \in 1 .. len
    BY <1>1, <1>9 DEF LastOf, FirstOf
  <2>2. /\ t.head # NULL /\ n = k /\ n \in Nat \ {0} /\ t.mem = TableMemory(n)
        /\ LastOf(s) \in E \ {e}
    BY <1>1, <1>7, <1>9, <1>5, <2>1 DEF Whole
  <2>3. listed = Appended(h, e) /\ h.tail = LastOf(s) /\ E \subseteq Nat /\ e \in E
    BY <1>1, <1>6, <1>7, <1>3, <2>2 DEF SameTable
  <2>4. /\ listed \in TableOf(E, n) /\ listed.head = h.head /\ listed.tail = e
        /\ listed.num_items = h.num_items
        /\ listed.noexpand = h.noexpand /\ listed.mem = h.mem /\ listed.buckets = h.buckets
        /\ \A x \in E :
              /\ SameKey(listed.hh[x], h.hh[x])
              /\ listed.hh[x].hh_prev = h.hh[x].hh_prev /\ listed.hh[x].hh_next = h.hh[x].hh_next
              /\ listed.hh[x].prev = IF x = e THEN h.tail ELSE h.hh[x].prev
              /\ listed.hh[x].next = IF x = e THEN NULL ELSE IF x = h.tail THEN e ELSE h.hh[x].next
    BY <1>6, <2>2, <2>3, AppendedFacts
  <2>5. /\ u \in TableOf(E, n) /\ u.head = listed.head /\ u.tail = e
        /\ u.num_items = listed.num_items + 1 /\ u.hh = listed.hh
        /\ u.noexpand = listed.noexpand /\ u.mem = listed.mem /\ u.buckets = listed.buckets
    BY <1>4, <2>4 DEF TableOf
  <2>6. NumBuckets(listed) = n
    BY <2>2, <2>4, TableFacts
  <2>7. /\ u.head = FirstOf(s) /\ u.num_items = Len(s) + 1 /\ u.noexpand = t.noexpand
        /\ u.mem = TableMemory(n) /\ u.buckets = t.buckets
    BY <1>1, <1>6, <1>7, <2>2, <2>4, <2>5 DEF SameTable
  <2>8. /\ u.hh[e].key = key /\ u.hh[e].hashv = HASH_FUNCTION[key]
        /\ u.hh[e].prev = LastOf(s) /\ u.hh[e].next = NULL
    BY <1>6, <2>3, <2>4, <2>5 DEF SameKey, NewHandle
  <2>9. \A x \in DOMAIN t.hh \ {e} :
              /\ SameKey(u.hh[x], t.hh[x]) /\ u.hh[x].prev = t.hh[x].prev
              /\ u.hh[x].hh_prev = t.hh[x].hh_prev /\ u.hh[x].hh_next = t.hh[x].hh_next
              /\ u.hh[x].next = IF x = LastOf(s) THEN e ELSE t.hh[x].next
    <3>1. ASSUME NEW x \in DOMAIN t.hh \ {e}
          PROVE  /\ SameKey(u.hh[x], t.hh[x]) /\ u.hh[x].prev = t.hh[x].prev
                 /\ u.hh[x].hh_prev = t.hh[x].hh_prev /\ u.hh[x].hh_next = t.hh[x].hh_next
                 /\ u.hh[x].next = IF x = LastOf(s) THEN e ELSE t.hh[x].next
      <4>1. x \in E /\ x # e /\ h.hh[x] = t.hh[x]
        BY <1>1, <1>6
      <4>2. QED BY <2>3, <2>4, <2>5, <4>1
    <3>2. QED BY <3>1
  <2>10. NumBuckets(u) = n
    BY <2>2, <2>5, TableFacts
  <2>11. QED BY <1>9, <2>2, <2>5, <2>6, <2>7, <2>8, <2>9, <2>10 DEF IsListed
<1>10. QED BY <1>8, <1>9

\* The members of a chain.
LEMMA ChainFacts ==
  ASSUME NEW t, NEW s, NEW b, NEW c, IsChain(t, s, b, c)
  PROVE  /\ Len(c) \in Nat /\ DOMAIN c = 1 .. Len(c) /\ (Len(c) = 0 <=> c = << >>)
         /\ \A i \in 1 .. Len(c) : c[i] \in Range(s) /\ c[i] \in Range(c)
         /\ Range(c) \subseteq Range(s)
         /\ \A i, j \in 1 .. Len(c) : c[i] = c[j] => i = j
<1>1. c \in Seq(Range(s)) /\ IsInjective(c)
  BY DEF IsChain
<1>2. Len(c) \in Nat /\ DOMAIN c = 1 .. Len(c)
  BY <1>1, LenProperties
<1>3. \A i \in 1 .. Len(c) : c[i] \in Range(s) /\ c[i] \in Range(c)
  BY <1>1, <1>2, ElementOfSeq DEF Range
<1>4. Range(c) \subseteq Range(s)
  BY <1>1, RangeOfSeq
<1>6. Len(c) = 0 <=> c = << >>
  BY <1>1, <1>2, EmptySeq
<1>7. \A i, j \in 1 .. Len(c) : c[i] = c[j] => i = j
  BY <1>1, <1>2 DEF IsInjective
<1>8. QED BY <1>2, <1>3, <1>4, <1>6, <1>7

\* The chains that an addition finds.
ChainsFound(t, s, chains, n) == IF s = << >> THEN [b \in 0 .. n - 1 |-> << >>] ELSE chains

LEMMA ListedChains ==
  ASSUME NEW t, NEW s, NEW chains, Whole(t, s, chains), NEW e \in Nat \ {0}, e \notin Range(s),
         NEW n \in Nat \ {0}, n = IF s = << >> THEN HASH_INITIAL_NUM_BUCKETS ELSE NumBuckets(t),
         NEW u, NumBuckets(u) = n,
         u.buckets = IF s = << >> THEN EmptyBuckets(n) ELSE t.buckets,
         \A x \in DOMAIN t.hh \ {e} :
           /\ SameKey(u.hh[x], t.hh[x])
           /\ u.hh[x].hh_prev = t.hh[x].hh_prev /\ u.hh[x].hh_next = t.hh[x].hh_next,
         NEW b \in 0 .. n - 1
  PROVE  IsChain(u, s, b, ChainsFound(t, s, chains, n)[b])
<1>1. CASE s = << >>
  <2>1. Range(s) = {} /\ << >> \in Seq(Range(s)) /\ IsInjective(<< >>) /\ Range(<< >>) = {}
        /\ Len(<< >>) = 0 /\ DOMAIN << >> = {}
    BY <1>1 DEF Range, IsInjective
  <2>2. u.buckets[b] = EmptyBucket
    BY <1>1 DEF EmptyBuckets
  <2>3. ChainsFound(t, s, chains, n)[b] = << >>
    BY <1>1 DEF ChainsFound
  <2>4. IsChain(u, s, b, << >>)
    BY <2>1, <2>2 DEF IsChain, EmptyBucket, FirstOf, Doubly
  <2>5. QED BY <2>3, <2>4
<1>2. CASE s # << >>
  <2>1. PICK c : c = chains[b]
    OBVIOUS
  <2>2. n = NumBuckets(t) /\ u.buckets = t.buckets /\ IsChain(t, s, b, c)
    BY <1>2, <2>1 DEF Whole
  <2>3. PICK E \in SUBSET (Nat \ {0}) : E = DOMAIN t.hh /\ Range(s) \subseteq E
    BY WholeFacts
  <2>4. PICK m \in Nat : /\ DOMAIN c = 1 .. m
                         /\ \A i \in 1 .. m : c[i] \in Range(s)
    BY <2>2, ChainFacts
  <2>5. \A x \in Range(s) : x \in DOMAIN t.hh \ {e}
    BY <2>3
  <2>6. Doubly(u, c, "hh_prev", "hh_next")
    <3>1. Doubly(t, c, "hh_prev", "hh_next")
      BY <2>2 DEF IsChain
    <3>2. ASSUME NEW i \in 1 .. m
          PROVE  u.hh[c[i]].hh_prev = Before(c, i) /\ u.hh[c[i]].hh_next = After(c, i)
      BY <2>4, <2>5, <3>1 DEF Doubly
    <3>3. QED BY <2>4, <3>2 DEF Doubly
  <2>7. \A x \in Range(s) : BucketWith(u, x) = BucketWith(t, x)
    BY <2>2, <2>5 DEF SameKey, BucketWith
  <2>8. IsChain(u, s, b, c)
    BY <2>2, <2>6, <2>7 DEF IsChain
  <2>9. QED BY <1>2, <2>1, <2>8 DEF ChainsFound
<1>3. QED BY <1>1, <1>2

\* The chains after LinkedIn.
LEMMA LinkedInChains ==
  ASSUME NEW E \in SUBSET (Nat \ {0}), NEW n \in Nat, NEW u \in TableOf(E, n),
         NEW s \in Seq(E), IsInjective(s), NEW e \in E, e \notin Range(s),
         NEW b \in 0 .. n - 1, BucketWith(u, e) = b,
         NEW found, \A k \in 0 .. n - 1 : IsChain(u, s, k, found[k]),
         NEW r, r = LinkedIn(u, b, e), NEW k \in 0 .. n - 1
  PROVE  IsChain(r, Append(s, e), k, IF k = b THEN <<e>> \o found[b] ELSE found[k])
<1>1. PICK q : q = Append(s, e)
  OBVIOUS
<1>2. Range(q) = Range(s) \cup {e} /\ Range(s) \subseteq E /\ NULL \notin E /\ E \subseteq Nat
      /\ NULL = 0
  <2>1. Range(q) = Range(s) \cup {e}
    <3>1. IsAppended(q, s, E, e)
      BY <1>1, AppendOne
    <3>2. QED BY <3>1 DEF IsAppended
  <2>2. QED BY <2>1, RangeOfSeq DEF NULL
<1>3. PICK first : first = u.buckets[b].hh_head
  OBVIOUS
<1>4. PICK c : c = found[b]
  OBVIOUS
<1>5. IsChain(u, s, b, c)
  BY <1>4
<1>6. PICK m \in Nat :
           /\ m = Len(c) /\ DOMAIN c = 1 .. m /\ (m = 0 <=> c = << >>)
           /\ \A i \in 1 .. m : c[i] \in Range(s) /\ c[i] \in E /\ c[i] \in Range(c)
           /\ Range(c) \subseteq Range(s)
           /\ \A i, j \in 1 .. m : c[i] = c[j] => i = j
  <2>1. /\ Len(c) \in Nat /\ DOMAIN c = 1 .. Len(c) /\ (Len(c) = 0 <=> c = << >>)
        /\ \A i \in 1 .. Len(c) : c[i] \in Range(s) /\ c[i] \in Range(c)
        /\ Range(c) \subseteq Range(s)
        /\ \A i, j \in 1 .. Len(c) : c[i] = c[j] => i = j
    BY <1>5, ChainFacts
  <2>2. QED BY <1>2, <2>1
<1>7. first = FirstOf(c) /\ first \in (E \ {e}) \cup {NULL}
  <2>1. first = FirstOf(c)
    BY <1>3, <1>5 DEF IsChain
  <2>2. c # << >> => 1 \in 1 .. m
    BY <1>6
  <2>3. QED BY <1>6, <2>1, <2>2 DEF FirstOf
<1>8. /\ r \in TableOf(E, n)
      /\ \A x \in E :
           /\ SameKey(r.hh[x], u.hh[x])
           /\ r.hh[x].hh_next = IF x = e THEN first ELSE u.hh[x].hh_next
           /\ r.hh[x].hh_prev = IF x = e THEN NULL ELSE IF x = first THEN e ELSE u.hh[x].hh_prev
      /\ \A j \in 0 .. n - 1 : j # b => r.buckets[j] = u.buckets[j]
      /\ r.buckets[b].hh_head = e /\ r.buckets[b].count = u.buckets[b].count + 1
  <2>1. E \subseteq Nat /\ NULL \notin E
    BY <1>2
  <2>2. IsLinkedIn(r, u, E, n, b, e, first)
    BY <1>3, <1>7, <2>1, LinkedInFacts
  <2>3. QED BY <2>2 DEF IsLinkedIn
<1>9. NumBuckets(r) = n /\ NumBuckets(u) = n
  BY <1>8, TableFacts
<1>10. \A x \in E : BucketWith(r, x) = BucketWith(u, x)
  BY <1>8, <1>9 DEF SameKey, BucketWith
<1>11. CASE k = b
  <2>1. PICK d : d = <<e>> \o c
    OBVIOUS
  <2>2. PICK R : R = Range(q)
    OBVIOUS
  <2>3. c \in Seq(Range(s)) /\ IsInjective(c) /\ u.buckets[b].count = m
    BY <1>5, <1>6 DEF IsChain
  <2>4. c \in Seq(R) /\ e \in R /\ e \notin Range(c)
    <3>1. Range(s) \subseteq R
      BY <1>2, <2>2
    <3>2. c \in Seq(R)
      BY <2>3, <3>1, SeqMonotonic
    <3>3. QED BY <1>2, <1>6, <2>2, <3>2
  <2>5. /\ d \in Seq(R) /\ IsInjective(d) /\ Range(d) = Range(c) \cup {e}
        /\ Len(d) = m + 1 /\ FirstOf(d) = e
        /\ d[1] = e /\ Before(d, 1) = NULL /\ After(d, 1) = FirstOf(c)
        /\ \A i \in 1 .. m :
             /\ d[i + 1] = c[i] /\ Before(d, i + 1) = (IF i = 1 THEN e ELSE Before(c, i))
             /\ After(d, i + 1) = After(c, i)
    <3>1. m = Len(c)
      BY <1>6
    <3>2. IsPreceded(d, c, R, e)
      BY <2>1, <2>3, <2>4, ConsOne
    <3>3. QED BY <3>1, <3>2 DEF IsPreceded
  <2>6. DOMAIN d = 1 .. m + 1
    BY <2>5, LenProperties
  <2>7. r.buckets[b].hh_head = FirstOf(d) /\ r.buckets[b].count = Len(d)
    BY <1>8, <2>3, <2>5
  <2>8. ASSUME NEW i \in 1 .. m
        PROVE  /\ r.hh[d[i + 1]].hh_prev = Before(d, i + 1)
               /\ r.hh[d[i + 1]].hh_next = After(d, i + 1)
    <3>1. c[i] \in E /\ c[i] # e /\ d[i + 1] = c[i]
      BY <1>6, <2>5
    <3>2. u.hh[c[i]].hh_prev = Before(c, i) /\ u.hh[c[i]].hh_next = After(c, i)
      BY <1>5, <1>6 DEF IsChain, Doubly
    <3>3. c[i] = first <=> i = 1
      <4>1. first = c[1] /\ 1 \in 1 .. m
        BY <1>6, <1>7 DEF FirstOf
      <4>2. QED BY <1>6, <4>1
    <3>4. Before(d, i + 1) = (IF i = 1 THEN e ELSE Before(c, i)) /\ After(d, i + 1) = After(c, i)
      BY <2>5
    <3>5. /\ r.hh[c[i]].hh_next = u.hh[c[i]].hh_next
          /\ r.hh[c[i]].hh_prev = IF c[i] = first THEN e ELSE u.hh[c[i]].hh_prev
      BY <1>8, <3>1
    <3>6. QED BY <3>1, <3>2, <3>3, <3>4, <3>5
  <2>9. r.hh[d[1]].hh_prev = Before(d, 1) /\ r.hh[d[1]].hh_next = After(d, 1)
    BY <1>7, <1>8, <2>5
  <2>10. Doubly(r, d, "hh_prev", "hh_next")
    <3>1. ASSUME NEW i \in 1 .. m + 1
          PROVE  r.hh[d[i]].hh_prev = Before(d, i) /\ r.hh[d[i]].hh_next = After(d, i)
      <4>1. CASE i = 1
        BY <2>9, <4>1
      <4>2. CASE i # 1
        <5>1. PICK j \in 1 .. m : i = j + 1
          <6>1. i - 1 \in 1 .. m /\ i = (i - 1) + 1
            BY <4>2
          <6>2. QED BY <6>1
        <5>2. QED BY <2>8, <5>1
      <4>3. QED BY <4>1, <4>2
    <3>2. QED BY <2>6, <3>1 DEF Doubly
  <2>11. ASSUME NEW x \in Range(q) PROVE x \in Range(d) <=> BucketWith(r, x) = b
    BY <1>2, <1>5, <1>10, <2>5 DEF IsChain
  <2>12. IsChain(r, q, b, d)
    BY <2>2, <2>5, <2>7, <2>10, <2>11 DEF IsChain
  <2>13. QED BY <1>1, <1>4, <1>11, <2>1, <2>12
<1>12. CASE k # b
  <2>1. PICK d : d = found[k]
    OBVIOUS
  <2>2. IsChain(u, s, k, d)
    BY <2>1
  <2>3. PICK l \in Nat :
           /\ l = Len(d) /\ DOMAIN d = 1 .. l
           /\ \A i \in 1 .. l : d[i] \in Range(s) /\ d[i] \in E /\ d[i] \in Range(d)
           /\ Range(d) \subseteq Range(s)
    <3>1. /\ Len(d) \in Nat /\ DOMAIN d = 1 .. Len(d)
          /\ \A i \in 1 .. Len(d) : d[i] \in Range(s) /\ d[i] \in Range(d)
          /\ Range(d) \subseteq Range(s)
      BY <2>2, ChainFacts
    <3>2. QED BY <1>2, <3>1
  <2>4. d \in Seq(Range(q)) /\ IsInjective(d)
    <3>1. d \in Seq(Range(s)) /\ IsInjective(d) /\ Range(s) \subseteq Range(q)
      BY <1>2, <2>2 DEF IsChain
    <3>2. QED BY <3>1, SeqMonotonic
  <2>5. ASSUME NEW i \in 1 .. l PROVE d[i] # e /\ d[i] # first
    <3>1. BucketWith(u, d[i]) = k
      BY <2>2, <2>3 DEF IsChain
    <3>2. first # NULL => BucketWith(u, first) = b
      <4>1. first # NULL => 1 \in 1 .. m /\ first = c[1]
        BY <1>6, <1>7 DEF FirstOf
      <4>2. QED BY <1>5, <1>6, <4>1 DEF IsChain
    <3>3. QED BY <1>2, <1>12, <2>3, <3>1, <3>2
  <2>6. Doubly(r, d, "hh_prev", "hh_next")
    <3>1. ASSUME NEW i \in 1 .. l
          PROVE  r.hh[d[i]].hh_prev = Before(d, i) /\ r.hh[d[i]].hh_next = After(d, i)
      <4>1. u.hh[d[i]].hh_prev = Before(d, i) /\ u.hh[d[i]].hh_next = After(d, i)
        BY <2>2, <2>3 DEF IsChain, Doubly
      <4>2. QED BY <1>8, <2>3, <2>5, <4>1
    <3>2. QED BY <2>3, <3>1 DEF Doubly
  <2>7. ASSUME NEW x \in Range(q) PROVE x \in Range(d) <=> BucketWith(r, x) = k
    <3>1. CASE x = e
      BY <1>8, <1>10, <1>12, <2>3, <3>1
    <3>2. CASE x \in Range(s)
      BY <1>2, <1>10, <2>2, <3>2 DEF IsChain
    <3>3. QED BY <1>2, <3>1, <3>2
  <2>8. r.buckets[k].hh_head = FirstOf(d) /\ r.buckets[k].count = Len(d)
    BY <1>8, <1>12, <2>2 DEF IsChain
  <2>9. IsChain(r, q, k, d)
    BY <2>4, <2>6, <2>7, <2>8 DEF IsChain
  <2>10. QED BY <1>1, <1>12, <2>1, <2>9
<1>13. QED BY <1>11, <1>12

\* An element of t that the addition of e leaves alone, but for its links.
IsAdded(r, t, s, e, key, n, b) ==
  /\ n \in Nat \ {0} /\ n = (IF s = << >> THEN HASH_INITIAL_NUM_BUCKETS ELSE NumBuckets(t))
  /\ NumBuckets(r) = n /\ b \in 0 .. n - 1 /\ b = BucketOf(HASH_FUNCTION[key], n)
  /\ BucketWith(r, e) = b /\ r.buckets[b].hh_head = e /\ r.noexpand = t.noexpand
  /\ DOMAIN r.hh = DOMAIN t.hh \cup {e} /\ r.hh[e].key = key
  /\ \A x \in DOMAIN t.hh \ {e} : SameKey(r.hh[x], t.hh[x])
  /\ \A k \in 0 .. n - 1 :
       LET old == IF s = << >> THEN EmptyBucket ELSE t.buckets[k]
       IN  /\ r.buckets[k].expand_mult = old.expand_mult
           /\ r.buckets[k].count = IF k = b THEN old.count + 1 ELSE old.count

\* The chains after the addition: e is put before the others of its bucket.
ChainsAdded(found, n, b, e) ==
  [k \in 0 .. n - 1 |-> IF k = b THEN <<e>> \o found[b] ELSE found[k]]

\* HASH_ADD_KEYPTR keeps a table whole and adds the element to it.
THEOREM HashAddWhole ==
  ASSUME NEW t, NEW s, NEW chains, Whole(t, s, chains), NEW e \in Nat \ {0}, e \notin Range(s),
         NEW key \in DOMAIN HASH_FUNCTION, NEW r, r = HashAdd(t, e, key)
  PROVE  \E n, b :
           /\ IsAdded(r, t, s, e, key, n, b)
           /\ Whole(r, Append(s, e), ChainsAdded(ChainsFound(t, s, chains, n), n, b, e))
<1>1. PICK D \in SUBSET (Nat \ {0}), nt \in Nat, len \in Nat :
           /\ t \in TableOf(D, nt) /\ D = DOMAIN t.hh /\ nt = NumBuckets(t)
           /\ IsFiniteSet(D) /\ 0 \notin D /\ NULL \notin D
           /\ s \in Seq(D) /\ len = Len(s) /\ DOMAIN s = 1 .. len /\ Range(s) \subseteq D
           /\ \A i \in 1 .. len : s[i] \in D /\ s[i] \in Range(s)
           /\ len = 0 <=> s = << >>
  BY WholeFacts
<1>2. PICK n : n = BucketsFor(t, s)
  OBVIOUS
<1>3. n = IF s = << >> THEN HASH_INITIAL_NUM_BUCKETS ELSE NumBuckets(t)
  BY <1>2 DEF BucketsFor
<1>4. PICK E : E = DOMAIN t.hh \cup {e}
  OBVIOUS
<1>5. PICK listed : listed = AddedToList(t, e, key)
  OBVIOUS
<1>6. PICK u : u = Counted(listed)
  OBVIOUS
<1>7. IsListed(u, t, s, e, key, E, n) /\ NumBuckets(listed) = n
  BY <1>2, <1>4, <1>5, <1>6, ListedFacts
<1>8. n \in Nat \ {0} /\ u \in TableOf(E, n) /\ NumBuckets(u) = n
  BY <1>7 DEF IsListed
<1>9. PICK b : b = BucketOf(HASH_FUNCTION[key], n)
  OBVIOUS
<1>10. b \in 0 .. n - 1 /\ BucketWith(u, e) = b
  <2>1. HASH_FUNCTION[key] \in Nat
    BY HashAssumption
  <2>2. HASH_FUNCTION[key] % n \in 0 .. n - 1
    BY <1>8, <2>1
  <2>3. u.hh[e].hashv = HASH_FUNCTION[key] /\ NumBuckets(u) = n
    BY <1>7 DEF IsListed
  <2>4. QED BY <1>9, <2>2, <2>3 DEF BucketWith, BucketOf
<1>11. r = LinkedIn(u, b, e)
  BY <1>5, <1>6, <1>7, <1>9 DEF HashAdd, AddedToList, Counted
<1>12. E \in SUBSET (Nat \ {0}) /\ IsFiniteSet(E) /\ e \in E /\ NULL \notin E /\ E \subseteq Nat
       /\ D \subseteq E /\ E = D \cup {e} /\ NULL \in Nat
  <2>1. E = D \cup {e}
    BY <1>1, <1>4
  <2>2. IsFiniteSet(E)
    BY <1>1, <2>1, FS_AddElement
  <2>3. QED BY <1>1, <2>1, <2>2 DEF NULL
<1>13. s \in Seq(E) /\ IsInjective(s)
  <2>1. s \in Seq(D) /\ IsInjective(s)
    BY <1>1 DEF Whole
  <2>2. QED BY <1>12, <2>1, SeqMonotonic
<1>14. PICK found : found = ChainsFound(t, s, chains, n)
  OBVIOUS
<1>15. ASSUME NEW k \in 0 .. n - 1 PROVE IsChain(u, s, k, found[k])
  <2>1. NumBuckets(u) = n
    BY <1>7 DEF IsListed
  <2>2. u.buckets = IF s = << >> THEN EmptyBuckets(n) ELSE t.buckets
    BY <1>7 DEF IsListed
  <2>3. \A x \in DOMAIN t.hh \ {e} :
           /\ SameKey(u.hh[x], t.hh[x])
           /\ u.hh[x].hh_prev = t.hh[x].hh_prev /\ u.hh[x].hh_next = t.hh[x].hh_next
    BY <1>7 DEF IsListed
  <2>4. IsChain(u, s, k, ChainsFound(t, s, chains, n)[k])
    BY <1>3, <1>8, <2>1, <2>2, <2>3, ListedChains
  <2>5. QED BY <1>14, <2>4
<1>16. PICK first : first = u.buckets[b].hh_head
  OBVIOUS
<1>17. first \in (E \ {e}) \cup {NULL}
  <2>1. PICK c : c = found[b]
    OBVIOUS
  <2>2. IsChain(u, s, b, c)
    BY <1>10, <1>15, <2>1
  <2>3. Len(c) \in Nat /\ (Len(c) = 0 <=> c = << >>) /\ \A i \in 1 .. Len(c) : c[i] \in Range(s)
    BY <2>2, ChainFacts
  <2>4. first = FirstOf(c)
    BY <1>16, <2>2 DEF IsChain
  <2>5. c # << >> => first \in Range(s)
    <3>1. c # << >> => 1 \in 1 .. Len(c)
      BY <2>3
    <3>2. QED BY <2>3, <2>4, <3>1 DEF FirstOf
  <2>6. QED BY <1>1, <1>12, <2>4, <2>5 DEF FirstOf
<1>18. IsLinkedIn(r, u, E, n, b, e, first)
  BY <1>8, <1>10, <1>11, <1>12, <1>16, <1>17, LinkedInFacts
<1>19. r \in TableOf(E, n) /\ DOMAIN r.hh = E /\ NumBuckets(r) = n
  <2>1. r \in TableOf(E, n)
    BY <1>18 DEF IsLinkedIn
  <2>2. QED BY <1>8, <2>1, TableFacts
<1>20. PICK q : q = Append(s, e)
  OBVIOUS
<1>21. IsAppended(q, s, E, e)
  BY <1>13, <1>20, AppendOne
<1>22. PICK cs : cs = ChainsAdded(found, n, b, e)
  OBVIOUS
<1>23. ASSUME NEW k \in 0 .. n - 1 PROVE IsChain(r, q, k, cs[k])
  <2>1. IsChain(r, Append(s, e), k, IF k = b THEN <<e>> \o found[b] ELSE found[k])
    BY <1>8, <1>10, <1>11, <1>12, <1>13, <1>15, LinkedInChains
  <2>2. QED BY <1>20, <1>22, <2>1 DEF ChainsAdded
<1>24. Doubly(r, q, "prev", "next")
  <2>1. ASSUME NEW i \in 1 .. len
        PROVE  r.hh[q[i]].prev = Before(q, i) /\ r.hh[q[i]].next = After(q, i)
    <3>1. PICK x : x = s[i]
      OBVIOUS
    <3>2. x \in D \ {e} /\ x \in E /\ q[i] = x
      BY <1>1, <1>12, <1>21, <3>1 DEF IsAppended
    <3>3. r.hh[x].prev = u.hh[x].prev /\ r.hh[x].next = u.hh[x].next
      BY <1>18, <3>2 DEF IsLinkedIn
    <3>4. u.hh[x].prev = t.hh[x].prev /\ u.hh[x].next = IF x = LastOf(s) THEN e ELSE t.hh[x].next
      BY <1>1, <1>7, <3>2 DEF IsListed
    <3>5. t.hh[x].prev = Before(s, i) /\ t.hh[x].next = After(s, i)
      BY <1>1, <3>1 DEF Whole, Doubly
    <3>6. x = LastOf(s) <=> i = len
      <4>1. LastOf(s) = s[len] /\ len \in 1 .. len
        BY <1>1 DEF LastOf
      <4>2. IsInjective(s)
        BY <1>13
      <4>3. QED BY <1>1, <3>1, <4>1, <4>2 DEF IsInjective
    <3>7. Before(q, i) = Before(s, i) /\ After(q, i) = IF i = len THEN e ELSE After(s, i)
      BY <1>1, <1>21 DEF IsAppended
    <3>8. QED BY <3>2, <3>3, <3>4, <3>5, <3>6, <3>7
  <2>2. r.hh[q[len + 1]].prev = Before(q, len + 1) /\ r.hh[q[len + 1]].next = After(q, len + 1)
    <3>1. q[len + 1] = e /\ Before(q, len + 1) = LastOf(s) /\ After(q, len + 1) = NULL
      BY <1>1, <1>21 DEF IsAppended
    <3>2. r.hh[e].prev = u.hh[e].prev /\ r.hh[e].next = u.hh[e].next
      BY <1>12, <1>18 DEF IsLinkedIn
    <3>3. u.hh[e].prev = LastOf(s) /\ u.hh[e].next = NULL
      BY <1>7 DEF IsListed
    <3>4. QED BY <3>1, <3>2, <3>3
  <2>3. DOMAIN q = 1 .. len + 1
    <3>1. q \in Seq(E \cup {e}) /\ Len(q) = len + 1
      BY <1>1, <1>21 DEF IsAppended
    <3>2. QED BY <3>1, LenProperties
  <2>4. ASSUME NEW i \in 1 .. len + 1
        PROVE  r.hh[q[i]].prev = Before(q, i) /\ r.hh[q[i]].next = After(q, i)
    <3>1. i \in 1 .. len \/ i = len + 1
      OBVIOUS
    <3>2. QED BY <2>1, <2>2, <3>1
  <2>5. QED BY <2>3, <2>4 DEF Doubly
<1>25. \A x \in D \ {e} : SameKey(r.hh[x], t.hh[x])
  <2>1. \A x \in D \ {e} : SameKey(u.hh[x], t.hh[x])
    BY <1>1, <1>7 DEF IsListed
  <2>2. \A x \in D \ {e} : SameKey(r.hh[x], u.hh[x])
    BY <1>12, <1>18 DEF IsLinkedIn
  <2>3. QED BY <2>1, <2>2 DEF SameKey
<1>26. r.hh[e].key = key /\ r.hh[e].hashv = HASH_FUNCTION[key]
  <2>1. SameKey(r.hh[e], u.hh[e])
    BY <1>12, <1>18 DEF IsLinkedIn
  <2>2. u.hh[e].key = key /\ u.hh[e].hashv = HASH_FUNCTION[key]
    BY <1>7 DEF IsListed
  <2>3. QED BY <2>1, <2>2 DEF SameKey
<1>27. \A x \in E : r.hh[x].hashv = HASH_FUNCTION[r.hh[x].key]
  <2>1. \A x \in D : t.hh[x].hashv = HASH_FUNCTION[t.hh[x].key]
    BY <1>1 DEF Whole
  <2>2. QED BY <1>12, <1>25, <1>26, <2>1 DEF SameKey
<1>28. r.head = u.head /\ r.tail = u.tail /\ r.num_items = u.num_items
       /\ r.noexpand = u.noexpand /\ r.mem = u.mem
  BY <1>18 DEF IsLinkedIn, SameTable
<1>29. u.head = (IF s = << >> THEN e ELSE FirstOf(s)) /\ u.tail = e
       /\ u.num_items = Len(s) + 1 /\ u.noexpand = t.noexpand /\ u.mem = TableMemory(n)
  BY <1>7 DEF IsListed
<1>30. q \in Seq(E) /\ IsInjective(q) /\ q # << >> /\ Len(q) = Len(s) + 1 /\ LastOf(q) = e
       /\ FirstOf(q) = (IF s = << >> THEN e ELSE FirstOf(s))
  <2>1. E \cup {e} = E
    BY <1>12
  <2>2. QED BY <1>21, <2>1 DEF IsAppended
<1>31. Whole(r, q, cs)
  BY <1>8, <1>12, <1>19, <1>23, <1>24, <1>27, <1>28, <1>29, <1>30 DEF Whole
<1>32. IsAdded(r, t, s, e, key, n, b)
  <2>1. DOMAIN r.hh = DOMAIN t.hh \cup {e}
    BY <1>4, <1>19
  <2>2. ASSUME NEW k \in 0 .. n - 1, NEW old, old = IF s = << >> THEN EmptyBucket ELSE t.buckets[k]
        PROVE  /\ r.buckets[k].expand_mult = old.expand_mult
               /\ r.buckets[k].count = IF k = b THEN old.count + 1 ELSE old.count
    <3>1. u.buckets = IF s = << >> THEN EmptyBuckets(n) ELSE t.buckets
      BY <1>7 DEF IsListed
    <3>2. u.buckets[k] = old
      BY <1>3, <2>2, <3>1 DEF EmptyBuckets
    <3>3. /\ k # b => r.buckets[k] = u.buckets[k]
          /\ r.buckets[b].count = u.buckets[b].count + 1
          /\ r.buckets[b].expand_mult = u.buckets[b].expand_mult
      BY <1>18 DEF IsLinkedIn
    <3>4. QED BY <3>2, <3>3
  <2>3. r.buckets[b].hh_head = e
    BY <1>18 DEF IsLinkedIn
  <2>4. BucketWith(r, e) = b
    BY <1>9, <1>19, <1>26 DEF BucketWith
  <2>5. \A x \in DOMAIN t.hh \ {e} : SameKey(r.hh[x], t.hh[x])
    BY <1>1, <1>25
  <2>6. QED BY <1>3, <1>8, <1>9, <1>10, <1>19, <1>26, <1>28, <1>29, <2>1, <2>2, <2>3, <2>4, <2>5 DEF IsAdded
<1>33. QED BY <1>14, <1>20, <1>22, <1>31, <1>32

------------------------------------------------------------------------------
(* Expansions that fail.                                                   *)

\* The others when the last is taken away ...
Front(s) == SubSeq(s, 1, Len(s) - 1)
IsFront(q, s, S) ==
  /\ q \in Seq(S) /\ IsInjective(q) /\ Range(q) = Range(s) \ {LastOf(s)} /\ Len(q) = Len(s) - 1
  /\ (Len(s) > 1 => q # << >> /\ FirstOf(q) = FirstOf(s))
  /\ LastOf(q) = Before(s, Len(s))
  /\ \A i \in 1 .. Len(s) - 1 :
       /\ q[i] = s[i] /\ Before(q, i) = Before(s, i)
       /\ After(q, i) = IF i = Len(s) - 1 THEN NULL ELSE After(s, i)

LEMMA FrontFacts ==
  ASSUME NEW S, NEW s \in Seq(S), IsInjective(s), s # << >>, NEW q, q = Front(s)
  PROVE  IsFront(q, s, S)
<1>1. PICK n \in Nat : n = Len(s) /\ DOMAIN s = 1 .. n /\ n > 0
  <2>1. Len(s) # 0
    BY EmptySeq
  <2>2. QED BY <2>1, LenProperties
<1>2. q \in Seq(S) /\ Len(q) = n - 1 /\ \A i \in 1 .. n - 1 : q[i] = s[i]
  <2>1. q = SubSeq(s, 1, n - 1)
    BY <1>1 DEF Front
  <2>2. \A i \in 1 .. n - 1 : s[i] \in S
    BY <1>1, ElementOfSeq
  <2>3. CASE n = 1
    <3>1. q = << >>
      BY <1>1, <2>1, <2>3
    <3>2. QED BY <2>3, <3>1
  <2>4. CASE n > 1
    <3>1. n - 1 \in Nat /\ n - 1 <= n
      BY <2>4
    <3>2. QED BY <1>1, <2>1, <2>2, <3>1, SubSeqProperties
  <2>5. QED BY <1>1, <2>3, <2>4
<1>3. DOMAIN q = 1 .. n - 1
  BY <1>2, LenProperties
<1>4. IsInjective(q)
  <2>1. \A i, j \in 1 .. n : s[i] = s[j] => i = j
    BY <1>1 DEF IsInjective
  <2>2. \A i, j \in 1 .. n - 1 : q[i] = q[j] => i = j
    BY <1>2, <2>1
  <2>3. QED BY <1>3, <2>2 DEF IsInjective
<1>5. LastOf(s) = s[n] /\ \A i \in 1 .. n - 1 : s[i] # s[n]
  <2>1. \A i, j \in 1 .. n : s[i] = s[j] => i = j
    BY <1>1 DEF IsInjective
  <2>2. QED BY <1>1, <2>1 DEF LastOf
<1>6. Range(q) = Range(s) \ {LastOf(s)}
  BY <1>1, <1>2, <1>3, <1>5 DEF Range
<1>7. n - 1 = 0 <=> q = << >>
  BY <1>2, EmptySeq
<1>8. QED BY <1>1, <1>2, <1>4, <1>6, <1>7 DEF FirstOf, LastOf, Before, After, IsFront

\* ... and when the first is.
IsTail(q, s, S) ==
  /\ q \in Seq(S) /\ IsInjective(q) /\ Range(q) = Range(s) \ {FirstOf(s)} /\ Len(q) = Len(s) - 1
  /\ FirstOf(q) = After(s, 1)
  /\ \A i \in 1 .. Len(s) - 1 :
       /\ q[i] = s[i + 1] /\ Before(q, i) = (IF i = 1 THEN NULL ELSE Before(s, i + 1))
       /\ After(q, i) = After(s, i + 1)

LEMMA TailFacts ==
  ASSUME NEW S, NEW s \in Seq(S), IsInjective(s), s # << >>, NEW q, q = Tail(s)
  PROVE  IsTail(q, s, S)
<1>1. PICK n \in Nat : n = Len(s) /\ DOMAIN s = 1 .. n /\ n > 0
  <2>1. Len(s) # 0
    BY EmptySeq
  <2>2. QED BY <2>1, LenProperties
<1>2. q \in Seq(S) /\ Len(q) = n - 1 /\ \A i \in 1 .. n - 1 : q[i] = s[i + 1]
  BY <1>1, HeadTailProperties
<1>3. DOMAIN q = 1 .. n - 1
  BY <1>2, LenProperties
<1>4. \A i, j \in 1 .. n : s[i] = s[j] => i = j
  BY <1>1 DEF IsInjective
<1>5. IsInjective(q)
  <2>1. ASSUME NEW i \in 1 .. n - 1, NEW j \in 1 .. n - 1, q[i] = q[j] PROVE i = j
    <3>1. i + 1 \in 1 .. n /\ j + 1 \in 1 .. n /\ s[i + 1] = s[j + 1]
      BY <1>2, <2>1
    <3>2. i + 1 = j + 1
      BY <1>4, <3>1
    <3>3. QED BY <3>2
  <2>2. QED BY <1>3, <2>1 DEF IsInjective
<1>6. FirstOf(s) = s[1] /\ \A i \in 1 .. n - 1 : s[i + 1] # s[1]
  <2>1. \A i \in 1 .. n - 1 : i + 1 \in 1 .. n /\ i + 1 # 1
    OBVIOUS
  <2>2. QED BY <1>1, <1>4, <2>1 DEF FirstOf
<1>7. Range(q) = Range(s) \ {FirstOf(s)}
  <2>1. \A i \in 1 .. n - 1 : q[i] \in Range(s) \ {FirstOf(s)}
    <3>1. \A i \in 1 .. n - 1 : i + 1 \in 1 .. n
      OBVIOUS
    <3>2. QED BY <1>1, <1>2, <1>6, <3>1 DEF Range
  <2>2. ASSUME NEW i \in 1 .. n, s[i] # FirstOf(s) PROVE s[i] \in Range(q)
    <3>1. i - 1 \in 1 .. n - 1 /\ s[i] = q[i - 1]
      BY <1>2, <1>6, <2>2
    <3>2. QED BY <1>3, <3>1 DEF Range
  <2>3. QED BY <1>1, <1>3, <2>1, <2>2 DEF Range
<1>8. n - 1 = 0 <=> q = << >>
  BY <1>2, EmptySeq
<1>9. FirstOf(q) = After(s, 1)
  BY <1>1, <1>2, <1>8 DEF FirstOf, After
<1>10. ASSUME NEW i \in 1 .. n - 1
       PROVE  /\ Before(q, i) = (IF i = 1 THEN NULL ELSE Before(s, i + 1))
              /\ After(q, i) = After(s, i + 1)
  <2>1. i # 1 => q[i - 1] = s[i]
    <3>1. i # 1 => i - 1 \in 1 .. n - 1 /\ (i - 1) + 1 = i
      OBVIOUS
    <3>2. QED BY <1>2, <3>1
  <2>2. i # n - 1 => q[i + 1] = s[i + 2]
    <3>1. i # n - 1 => i + 1 \in 1 .. n - 1 /\ (i + 1) + 1 = i + 2
      OBVIOUS
    <3>2. QED BY <1>2, <3>1
  <2>3. Before(s, i + 1) = s[i]
    BY DEF Before
  <2>4. After(s, i + 1) = IF i = n - 1 THEN NULL ELSE s[i + 2]
    BY <1>1 DEF After
  <2>5. QED BY <1>1, <1>2, <2>1, <2>2, <2>3, <2>4 DEF Before, After
<1>11. QED BY <1>1, <1>2, <1>5, <1>7, <1>9, <1>10 DEF IsTail

\* The chains when the last element added is taken out again.
ChainsLess(chains, n, b) == [k \in 0 .. n - 1 |-> IF k = b THEN Tail(chains[b]) ELSE chains[k]]

TakesBack(r, t, s, chains, n, b, e) ==
  /\ Whole(r, Front(s), ChainsLess(chains, n, b))
  /\ IsRolledBack(r, t, DOMAIN t.hh, n, b, e, t.hh[e].prev, t.hh[e].hh_next)
  /\ NumBuckets(r) = n

\* The rollback of an addition that got no memory for new buckets leaves the
\* table whole, and without the element: the three macros that take part in
\* it undo each structure exactly once.
THEOREM RolledBackWhole ==
  ASSUME NEW t, NEW s, NEW chains, Whole(t, s, chains), NEW e, NEW b, NEW n, NEW r,
         n = NumBuckets(t), s # << >>, Len(s) # 1, e = LastOf(s), b = BucketWith(t, e),
         t.buckets[b].hh_head = e, r = RolledBack(t, e)
  PROVE  TakesBack(r, t, s, chains, n, b, e)
<1>1. PICK E \in SUBSET (Nat \ {0}), nt \in Nat, len \in Nat :
           /\ t \in TableOf(E, nt) /\ E = DOMAIN t.hh /\ nt = NumBuckets(t)
           /\ IsFiniteSet(E) /\ 0 \notin E /\ NULL \notin E
           /\ s \in Seq(E) /\ len = Len(s) /\ DOMAIN s = 1 .. len /\ Range(s) \subseteq E
           /\ \A i \in 1 .. len : s[i] \in E /\ s[i] \in Range(s)
           /\ len = 0 <=> s = << >>
  BY WholeFacts
<1>2. n = nt /\ n \in Nat /\ t \in TableOf(E, n) /\ E = DOMAIN t.hh /\ E \subseteq Nat
      /\ NULL \notin E /\ n # 0 /\ IsInjective(s) /\ len > 1 /\ NULL \in Nat
  BY <1>1 DEF Whole, NULL
<1>3. e = s[len] /\ e \in E /\ e \in Range(s) /\ e # NULL
  <2>1. len \in 1 .. len
    BY <1>2
  <2>2. e = s[len]
    BY <1>1 DEF LastOf
  <2>3. QED BY <1>1, <2>1, <2>2
<1>4. t.hh[e].next = NULL /\ t.hh[e].prev = s[len - 1] /\ t.tail = e
      /\ s[len - 1] \in E \ {e} /\ len - 1 \in 1 .. len
  <2>1. len \in 1 .. len /\ len - 1 \in 1 .. len /\ len - 1 # len
    BY <1>2
  <2>2. t.hh[e].prev = Before(s, len) /\ t.hh[e].next = After(s, len)
    BY <1>1, <1>3, <2>1 DEF Whole, Doubly
  <2>3. s[len - 1] # s[len]
    BY <1>1, <1>2, <2>1 DEF IsInjective
  <2>4. QED BY <1>1, <1>3, <2>1, <2>2, <2>3 DEF Before, After, Whole
<1>5. b \in 0 .. n - 1
  <2>1. t.hh[e].hashv \in Nat
    <3>1. t.hh[e] \in Handle
      BY <1>2, <1>3 DEF TableOf
    <3>2. QED BY <3>1 DEF Handle
  <2>2. t.hh[e].hashv % n \in 0 .. n - 1
    BY <1>2, <2>1
  <2>3. QED BY <2>2 DEF BucketWith, BucketOf
<1>6. PICK c : c = chains[b]
  OBVIOUS
<1>7. IsChain(t, s, b, c)
  BY <1>2, <1>5, <1>6 DEF Whole
<1>8. PICK m \in Nat :
           /\ m = Len(c) /\ DOMAIN c = 1 .. m /\ (m = 0 <=> c = << >>)
           /\ \A i \in 1 .. m : c[i] \in Range(s) /\ c[i] \in E /\ c[i] \in Range(c)
           /\ Range(c) \subseteq Range(s)
           /\ \A i, j \in 1 .. m : c[i] = c[j] => i = j
  <2>1. /\ Len(c) \in Nat /\ DOMAIN c = 1 .. Len(c) /\ (Len(c) = 0 <=> c = << >>)
        /\ \A i \in 1 .. Len(c) : c[i] \in Range(s) /\ c[i] \in Range(c)
        /\ Range(c) \subseteq Range(s)
        /\ \A i, j \in 1 .. Len(c) : c[i] = c[j] => i = j
    BY <1>7, ChainFacts
  <2>2. QED BY <1>1, <2>1
<1>9. c # << >> /\ c[1] = e /\ FirstOf(c) = e /\ m > 0
  BY <1>3, <1>7, <1>8 DEF IsChain, FirstOf
<1>10. t.hh[e].hh_prev = NULL /\ t.hh[e].hh_next = After(c, 1)
  <2>1. 1 \in DOMAIN c
    BY <1>8, <1>9
  <2>2. t.hh[c[1]].hh_prev = Before(c, 1) /\ t.hh[c[1]].hh_next = After(c, 1)
    BY <1>7, <2>1 DEF IsChain, Doubly
  <2>3. QED BY <1>9, <2>2 DEF Before
<1>11. PICK next \in (E \ {e}) \cup {NULL} : next = t.hh[e].hh_next
  <2>1. m # 1 => c[2] \in E /\ c[2] # e
    <3>1. m # 1 => 2 \in 1 .. m /\ 1 \in 1 .. m
      BY <1>9
    <3>2. QED BY <1>8, <1>9, <3>1
  <2>2. After(c, 1) \in (E \ {e}) \cup {NULL}
    BY <1>8, <2>1 DEF After
  <2>3. QED BY <1>10, <2>2
<1>12. PICK prev \in E \ {e} : prev = t.hh[e].prev
  BY <1>4
<1>13. IsRolledBack(r, t, E, n, b, e, prev, next)
  BY <1>2, <1>3, <1>4, <1>5, <1>10, <1>11, <1>12, RolledBackFacts
<1>14. r \in TableOf(E, n) /\ DOMAIN r.hh = E /\ NumBuckets(r) = n /\ NumBuckets(t) = n
  <2>1. r \in TableOf(E, n)
    BY <1>13 DEF IsRolledBack
  <2>2. QED BY <1>2, <2>1, TableFacts
<1>15. PICK q : q = Front(s)
  OBVIOUS
<1>16. IsFront(q, s, E)
  BY <1>1, <1>2, <1>15, FrontFacts
<1>17. q \in Seq(E) /\ IsInjective(q) /\ Range(q) = Range(s) \ {e} /\ Len(q) = len - 1
       /\ q # << >> /\ FirstOf(q) = FirstOf(s) /\ LastOf(q) = prev
  <2>1. LastOf(s) = e /\ Before(s, len) = prev
    BY <1>2, <1>4, <1>12 DEF Before
  <2>2. QED BY <1>1, <1>2, <1>16, <2>1 DEF IsFront
<1>18. DOMAIN q = 1 .. len - 1
  BY <1>17, LenProperties
<1>19. \A x \in E : BucketWith(r, x) = BucketWith(t, x)
  BY <1>13, <1>14 DEF IsRolledBack, SameKey, BucketWith
<1>20. Doubly(r, q, "prev", "next")
  <2>1. ASSUME NEW i \in 1 .. len - 1
        PROVE  r.hh[q[i]].prev = Before(q, i) /\ r.hh[q[i]].next = After(q, i)
    <3>1. PICK x : x = s[i]
      OBVIOUS
    <3>2. x \in E \ {e} /\ q[i] = x /\ i \in 1 .. len
      <4>1. i \in 1 .. len /\ i # len /\ len \in 1 .. len
        BY <1>2
      <4>2. s[i] # s[len]
        BY <1>1, <1>2, <4>1 DEF IsInjective
      <4>3. QED BY <1>1, <1>3, <1>16, <3>1, <4>1, <4>2 DEF IsFront
    <3>3. t.hh[x].prev = Before(s, i) /\ t.hh[x].next = After(s, i)
      BY <1>1, <3>1, <3>2 DEF Whole, Doubly
    <3>4. r.hh[x].prev = t.hh[x].prev /\ r.hh[x].next = IF x = prev THEN NULL ELSE t.hh[x].next
      BY <1>13, <3>2 DEF IsRolledBack, Links
    <3>5. x = prev <=> i = len - 1
      BY <1>1, <1>2, <1>4, <1>12, <3>1, <3>2 DEF IsInjective
    <3>6. Before(q, i) = Before(s, i) /\ After(q, i) = IF i = len - 1 THEN NULL ELSE After(s, i)
      BY <1>1, <1>16 DEF IsFront
    <3>7. QED BY <3>2, <3>3, <3>4, <3>5, <3>6
  <2>2. QED BY <1>18, <2>1 DEF Doubly
<1>21. PICK cs : cs = ChainsLess(chains, n, b)
  OBVIOUS
<1>22. IsChain(r, q, b, cs[b])
  <2>1. PICK d : d = Tail(c)
    OBVIOUS
  <2>2. c \in Seq(Range(s)) /\ IsInjective(c) /\ t.buckets[b].count = m
    BY <1>7, <1>8 DEF IsChain
  <2>3. IsTail(d, c, Range(s))
    BY <1>9, <2>1, <2>2, TailFacts
  <2>4. d \in Seq(Range(s)) /\ IsInjective(d) /\ Range(d) = Range(c) \ {e} /\ Len(d) = m - 1
        /\ FirstOf(d) = After(c, 1)
    BY <1>8, <1>9, <2>3 DEF IsTail
  <2>5. DOMAIN d = 1 .. m - 1
    BY <2>4, LenProperties
  <2>6. ASSUME NEW i \in 1 .. m - 1
        PROVE  /\ d[i] = c[i + 1] /\ d[i] \in E \ {e} /\ d[i] \in Range(q) /\ i + 1 \in 1 .. m
               /\ Before(d, i) = (IF i = 1 THEN NULL ELSE Before(c, i + 1))
               /\ After(d, i) = After(c, i + 1)
    <3>1. i + 1 \in 1 .. m /\ 1 \in 1 .. m /\ i + 1 # 1
      OBVIOUS
    <3>2. d[i] = c[i + 1] /\ Before(d, i) = (IF i = 1 THEN NULL ELSE Before(c, i + 1))
          /\ After(d, i) = After(c, i + 1)
      BY <1>8, <2>3 DEF IsTail
    <3>3. c[i + 1] # e /\ c[i + 1] \in E /\ c[i + 1] \in Range(s)
      BY <1>8, <1>9, <3>1
    <3>4. QED BY <1>17, <3>1, <3>2, <3>3
  <2>7. d \in Seq(Range(q))
    <3>1. \A i \in 1 .. m - 1 : d[i] \in Range(q)
      BY <2>6
    <3>2. d = [i \in 1 .. m - 1 |-> d[i]]
      BY <2>4, <2>5, LenProperties
    <3>3. m - 1 \in Nat
      BY <1>9
    <3>4. QED BY <3>1, <3>2, <3>3
  <2>8. Doubly(r, d, "hh_prev", "hh_next")
    <3>1. ASSUME NEW i \in 1 .. m - 1
          PROVE  r.hh[d[i]].hh_prev = Before(d, i) /\ r.hh[d[i]].hh_next = After(d, i)
      <4>1. PICK x : x = d[i]
        OBVIOUS
      <4>2. x \in E \ {e} /\ x = c[i + 1] /\ i + 1 \in 1 .. m
        BY <2>6, <4>1
      <4>3. t.hh[x].hh_prev = Before(c, i + 1) /\ t.hh[x].hh_next = After(c, i + 1)
        BY <1>7, <1>8, <4>2 DEF IsChain, Doubly
      <4>4. r.hh[x].hh_prev = (IF x = next THEN NULL ELSE t.hh[x].hh_prev)
            /\ r.hh[x].hh_next = t.hh[x].hh_next
        BY <1>13, <4>2 DEF IsRolledBack, Links
      <4>5. x = next <=> i = 1
        <5>1. m # 1 /\ 2 \in 1 .. m /\ next = c[2]
          BY <1>8, <1>10, <1>11 DEF After
        <5>2. QED BY <1>8, <4>2, <5>1
      <4>6. QED BY <2>6, <4>1, <4>3, <4>4, <4>5
    <3>2. QED BY <2>5, <3>1 DEF Doubly
  <2>9. ASSUME NEW x \in Range(q) PROVE x \in Range(d) <=> BucketWith(r, x) = b
    <3>1. x \in E /\ x \in Range(s) /\ x # e
      BY <1>1, <1>17
    <3>2. x \in Range(c) <=> BucketWith(t, x) = b
      BY <1>7, <3>1 DEF IsChain
    <3>3. QED BY <1>19, <2>4, <3>1, <3>2
  <2>10. r.buckets[b].hh_head = FirstOf(d) /\ r.buckets[b].count = Len(d)
    BY <1>10, <1>11, <1>13, <2>2, <2>4 DEF IsRolledBack
  <2>11. IsChain(r, q, b, d)
    BY <2>4, <2>7, <2>8, <2>9, <2>10 DEF IsChain
  <2>12. cs[b] = d
    BY <1>5, <1>6, <1>21, <2>1 DEF ChainsLess
  <2>13. QED BY <2>11, <2>12
<1>23. ASSUME NEW k \in 0 .. n - 1, k # b PROVE IsChain(r, q, k, cs[k])
  <2>1. PICK d : d = chains[k]
    OBVIOUS
  <2>2. IsChain(t, s, k, d)
    BY <1>2, <2>1 DEF Whole
  <2>3. PICK l \in Nat :
           /\ l = Len(d) /\ DOMAIN d = 1 .. l
           /\ \A i \in 1 .. l : d[i] \in Range(s) /\ d[i] \in E /\ d[i] \in Range(d)
           /\ Range(d) \subseteq Range(s)
    <3>1. /\ Len(d) \in Nat /\ DOMAIN d = 1 .. Len(d)
          /\ \A i \in 1 .. Len(d) : d[i] \in Range(s) /\ d[i] \in Range(d)
          /\ Range(d) \subseteq Range(s)
      BY <2>2, ChainFacts
    <3>2. QED BY <1>1, <3>1
  <2>4. e \notin Range(d) /\ next \notin Range(d)
    <3>1. \A x \in Range(s) : x \in Range(d) <=> BucketWith(t, x) = k
      BY <2>2 DEF IsChain
    <3>2. \A x \in Range(s) : x \in Range(c) <=> BucketWith(t, x) = b
      BY <1>7 DEF IsChain
    <3>3. next # NULL => next \in Range(c)
      <4>1. m # 1 => 2 \in 1 .. m
        BY <1>9
      <4>2. next # NULL => m # 1 /\ next = c[2]
        BY <1>8, <1>10, <1>11 DEF After
      <4>3. QED BY <1>8, <4>1, <4>2
    <3>4. NULL \notin Range(d)
      BY <1>1, <2>3
    <3>5. e \notin Range(d)
      BY <1>3, <1>23, <3>1
    <3>6. next \in Range(c) => next \notin Range(d)
      BY <1>8, <1>23, <3>1, <3>2
    <3>7. QED BY <3>3, <3>4, <3>5, <3>6
  <2>5. ASSUME NEW i \in 1 .. l
        PROVE  d[i] \in E \ {e} /\ d[i] # next /\ d[i] \in Range(q)
    BY <1>17, <2>3, <2>4
  <2>6. d \in Seq(Range(q)) /\ IsInjective(d)
    <3>1. d \in Seq(Range(s)) /\ IsInjective(d)
      BY <2>2 DEF IsChain
    <3>2. d = [i \in 1 .. l |-> d[i]]
      BY <2>3, <3>1, LenProperties
    <3>3. \A i \in 1 .. l : d[i] \in Range(q)
      BY <2>5
    <3>4. QED BY <3>1, <3>2, <3>3
  <2>7. Doubly(r, d, "hh_prev", "hh_next")
    <3>1. ASSUME NEW i \in 1 .. l
          PROVE  r.hh[d[i]].hh_prev = Before(d, i) /\ r.hh[d[i]].hh_next = After(d, i)
      <4>1. PICK x : x = d[i]
        OBVIOUS
      <4>2. x \in E \ {e} /\ x # next
        BY <2>5, <4>1
      <4>3. t.hh[x].hh_prev = Before(d, i) /\ t.hh[x].hh_next = After(d, i)
        BY <2>2, <2>3, <4>1 DEF IsChain, Doubly
      <4>4. r.hh[x].hh_prev = t.hh[x].hh_prev /\ r.hh[x].hh_next = t.hh[x].hh_next
        BY <1>13, <4>2 DEF IsRolledBack, Links
      <4>5. QED BY <4>1, <4>3, <4>4
    <3>2. QED BY <2>3, <3>1 DEF Doubly
  <2>8. ASSUME NEW x \in Range(q) PROVE x \in Range(d) <=> BucketWith(r, x) = k
    <3>1. x \in E /\ x \in Range(s)
      BY <1>1, <1>17
    <3>2. QED BY <1>19, <2>2, <3>1 DEF IsChain
  <2>9. r.buckets[k] = t.buckets[k]
    BY <1>13, <1>23 DEF IsRolledBack
  <2>10. r.buckets[k].hh_head = FirstOf(d) /\ r.buckets[k].count = Len(d)
    BY <2>2, <2>9 DEF IsChain
  <2>11. IsChain(r, q, k, d)
    BY <2>6, <2>7, <2>8, <2>10 DEF IsChain
  <2>12. cs[k] = d
    BY <1>21, <1>23, <2>1 DEF ChainsLess
  <2>13. QED BY <2>11, <2>12
<1>24. \A x \in E : r.hh[x].hashv = HASH_FUNCTION[r.hh[x].key]
  <2>1. \A x \in E : t.hh[x].hashv = HASH_FUNCTION[t.hh[x].key]
    BY <1>1 DEF Whole
  <2>2. QED BY <1>13, <2>1 DEF IsRolledBack, SameKey
<1>25. /\ r.head = FirstOf(q) /\ r.tail = LastOf(q) /\ r.num_items = Len(q)
       /\ r.mem = TableMemory(n)
  <2>1. t.head = FirstOf(s) /\ t.num_items = len /\ t.mem = TableMemory(n)
    BY <1>1, <1>2 DEF Whole
  <2>2. QED BY <1>13, <1>17, <2>1 DEF IsRolledBack
<1>26. \A k \in 0 .. n - 1 : IsChain(r, q, k, cs[k])
  BY <1>22, <1>23
<1>27. Whole(r, q, cs)
  BY <1>1, <1>2, <1>14, <1>17, <1>20, <1>24, <1>25, <1>26 DEF Whole
<1>28. QED BY <1>1, <1>11, <1>12, <1>13, <1>14, <1>15, <1>21, <1>27 DEF TakesBack

\* f follows from its value for 0 by one step after the other.
Follows(f, n, base, step, S) ==
  f \in [0 .. n -> S] /\ f[0] = base /\ \A i \in 1 .. n : f[i] = step[i][f[i - 1]]

\* If the steps are functions there is such a function.
LEMMA RecursionExists ==
  ASSUME NEW S, NEW n \in Nat, NEW base \in S, NEW step \in [1 .. n -> [S -> S]]
  PROVE  \E f : Follows(f, n, base, step, S)
<1> DEFINE Sols(m) == {f \in [0 .. m -> S] : f[0] = base /\ \A i \in 1 .. m : f[i] = step[i][f[i - 1]]}
<1>1. PICK bad : bad = {m \in 0 .. n : Sols(m) = {}}
  OBVIOUS
<1>2. Sols(0) # {}
  <2>1. PICK f : f = [i \in 0 .. 0 |-> base]
    OBVIOUS
  <2>2. f \in Sols(0)
    BY <2>1
  <2>3. QED BY <2>2
<1>3. ASSUME NEW m \in 1 .. n, NEW g \in Sols(m - 1) PROVE Sols(m) # {}
  <2>1. g \in [0 .. m - 1 -> S] /\ m - 1 \in 0 .. m - 1
    BY <1>3
  <2>2. PICK v \in S : v = step[m][g[m - 1]]
    BY <2>1
  <2>3. PICK f : f = [i \in 0 .. m |-> IF i = m THEN v ELSE g[i]]
    OBVIOUS
  <2>4. f \in [0 .. m -> S]
    BY <2>1, <2>2, <2>3
  <2>5. f[0] = base
    BY <1>3, <2>3
  <2>6. ASSUME NEW i \in 1 .. m PROVE f[i] = step[i][f[i - 1]]
    <3>1. CASE i = m
      BY <2>2, <2>3, <3>1
    <3>2. CASE i # m
      <4>1. i \in 1 .. m - 1 /\ i \in 0 .. m /\ i - 1 \in 0 .. m /\ i - 1 # m
        BY <3>2
      <4>2. g[i] = step[i][g[i - 1]]
        BY <1>3, <4>1
      <4>3. QED BY <2>3, <3>2, <4>1, <4>2
    <3>3. QED BY <3>1, <3>2
  <2>7. f \in Sols(m)
    BY <2>4, <2>5, <2>6
  <2>8. QED BY <2>7
<1>4. ASSUME NEW m \in bad, \A k \in bad : m <= k PROVE FALSE
  <2>1. m # 0 /\ m \in 0 .. n /\ Sols(m) = {}
    BY <1>1, <1>2
  <2>2. m \in 1 .. n /\ m - 1 \in 0 .. n /\ m - 1 \notin bad
    BY <1>4, <2>1
  <2>3. Sols(m - 1) # {}
    BY <1>1, <2>2
  <2>4. PICK g : g \in Sols(m - 1)
    BY <2>3
  <2>5. Sols(m) # {}
    BY <1>3, <2>2, <2>4
  <2>6. QED BY <2>1, <2>5
<1>5. bad \subseteq Nat
  BY <1>1
<1>6. bad = {}
  BY <1>4, <1>5, LeastExists
<1>7. PICK f : f \in Sols(n)
  BY <1>1, <1>6
<1>8. f \in [0 .. n -> S] /\ f[0] = base /\ \A i \in 1 .. n : f[i] = step[i][f[i - 1]]
  BY <1>7
<1>9. QED BY <1>8 DEF Follows

\* The remainder for twice the divisor determines the one for the divisor.
LEMMA HalvedRemainder ==
  ASSUME NEW x \in Nat, NEW n \in Nat \ {0}
  PROVE  (x % (2 * n)) % n = x % n
<1>1. PICK m \in Nat \ {0} : m = 2 * n
  OBVIOUS
<1>2. PICK k \in Nat, r \in 0 .. m - 1 : x = m * k + r /\ r = x % m
  <2>1. x = m * (x \div m) + (x % m) /\ x \div m \in Nat /\ x % m \in 0 .. m - 1
    OBVIOUS
  <2>2. QED BY <2>1
<1>3. PICK j \in Nat, q \in 0 .. n - 1 : r = n * j + q /\ q = r % n
  <2>1. r = n * (r \div n) + (r % n) /\ r \div n \in Nat /\ r % n \in 0 .. n - 1
    OBVIOUS
  <2>2. QED BY <2>1
<1>4. x = n * (2 * k + j) + q
  <2>1. m * k = n * (2 * k)
    BY <1>1
  <2>2. n * (2 * k + j) = n * (2 * k) + n * j
    OBVIOUS
  <2>3. PICK a \in Nat, c \in Nat : a = n * (2 * k) /\ c = n * j
    OBVIOUS
  <2>4. x = a + c + q
    <3>1. m * k = a
      BY <2>1, <2>3
    <3>2. x = a + r /\ r = c + q
      BY <1>2, <1>3, <2>3, <3>1
    <3>3. QED BY <3>2
  <2>5. QED BY <2>2, <2>3, <2>4
<1>5. x % n = q
  <2>1. 2 * k + j \in Nat
    OBVIOUS
  <2>2. QED BY <1>4, <2>1, RemainderUnique
<1>6. QED BY <1>1, <1>2, <1>3, <1>5

\* The walks over a whole table are its list and its chains.
LEMMA WalksOfWhole ==
  ASSUME NEW t, NEW s, NEW chains, Whole(t, s, chains)
  PROVE  /\ AppOrder(t) = s
         /\ \A b \in 0 .. NumBuckets(t) - 1 : Chain(t, b) = chains[b]
<1>1. PICK E \in SUBSET (Nat \ {0}), n \in Nat, len \in Nat :
           /\ t \in TableOf(E, n) /\ E = DOMAIN t.hh /\ n = NumBuckets(t)
           /\ IsFiniteSet(E) /\ 0 \notin E /\ NULL \notin E
           /\ s \in Seq(E) /\ len = Len(s) /\ DOMAIN s = 1 .. len /\ Range(s) \subseteq E
           /\ \A i \in 1 .. len : s[i] \in E /\ s[i] \in Range(s)
           /\ len = 0 <=> s = << >>
  BY WholeFacts
<1>2. AppOrder(t) = s
  <2>1. s \in Seq(DOMAIN t.hh) /\ IsInjective(s) /\ IsFiniteSet(DOMAIN t.hh) /\ NULL \notin DOMAIN t.hh
    BY <1>1 DEF Whole
  <2>2. Linked(t, s, "next")
    BY DEF Whole, Doubly, Linked
  <2>3. Walk(t, FirstOf(s), "next") = s
    BY <2>1, <2>2, WalkIs
  <2>4. t.head = FirstOf(s)
    BY DEF Whole
  <2>5. QED BY <2>3, <2>4 DEF AppOrder
<1>3. ASSUME NEW b \in 0 .. NumBuckets(t) - 1 PROVE Chain(t, b) = chains[b]
  <2>1. PICK c : c = chains[b]
    OBVIOUS
  <2>2. IsChain(t, s, b, c)
    BY <2>1 DEF Whole
  <2>3. c \in Seq(Range(s)) /\ IsInjective(c)
    BY <2>2 DEF IsChain
  <2>4. c \in Seq(DOMAIN t.hh)
    BY <1>1, <2>3, SeqMonotonic
  <2>5. Linked(t, c, "hh_next")
    BY <2>2 DEF IsChain, Doubly, Linked
  <2>6. IsFiniteSet(DOMAIN t.hh) /\ NULL \notin DOMAIN t.hh
    BY <1>1
  <2>7. Walk(t, FirstOf(c), "hh_next") = c
    BY <2>3, <2>4, <2>5, <2>6, WalkIs
  <2>8. t.buckets[b].hh_head = FirstOf(c)
    BY <2>2 DEF IsChain
  <2>9. QED BY <2>1, <2>7, <2>8 DEF Chain
<1>4. QED BY <1>2, <1>3

\* A new chain has the elements of the old one that belong to its bucket.
LEMMA NewChainFacts ==
  ASSUME NEW t, NEW n, NEW b, NEW S, NEW c \in Seq(S), IsInjective(c),
         NEW d, d = NewChain(t, n, b, c)
  PROVE  /\ d \in Seq(S) /\ IsInjective(d)
         /\ Range(d) = {x \in Range(c) : BucketOf(t.hh[x].hashv, n) = b}
<1>1. PICK len \in Nat : len = Len(c) /\ DOMAIN c = 1 .. len /\ \A i \in 1 .. len : c[i] \in S
  BY LenProperties, ElementOfSeq
<1> DEFINE Hit(i) == BucketOf(t.hh[c[i]].hashv, n) = b
           Rec(g) == [i \in 0 .. len |-> IF i = 0 THEN << >>
                                         ELSE IF Hit(i) THEN <<c[i]>> \o g[i - 1] ELSE g[i - 1]]
<1>2. PICK step : step = [i \in 1 .. len |-> [v \in Seq(S) |-> IF Hit(i) THEN <<c[i]>> \o v ELSE v]]
  OBVIOUS
<1>3. step \in [1 .. len -> [Seq(S) -> Seq(S)]]
  <2>1. ASSUME NEW i \in 1 .. len, NEW v \in Seq(S) PROVE <<c[i]>> \o v \in Seq(S)
    <3>1. <<c[i]>> \in Seq(S)
      BY <1>1
    <3>2. QED BY <3>1, ConcatProperties
  <2>2. ASSUME NEW i \in 1 .. len PROVE step[i] \in [Seq(S) -> Seq(S)]
    BY <1>2, <2>1
  <2>3. QED BY <1>2, <2>2
<1>4. PICK f \in [0 .. len -> Seq(S)] :
        f[0] = << >> /\ \A i \in 1 .. len : f[i] = step[i][f[i - 1]]
  <2>1. << >> \in Seq(S)
    OBVIOUS
  <2>2. PICK f : Follows(f, len, << >>, step, Seq(S))
    BY <1>3, <2>1, RecursionExists
  <2>3. QED BY <2>2 DEF Follows
<1>5. f = Rec(f)
  <2>1. ASSUME NEW i \in 0 .. len
        PROVE  f[i] = IF i = 0 THEN << >>
                      ELSE IF Hit(i) THEN <<c[i]>> \o f[i - 1] ELSE f[i - 1]
    <3>1. CASE i = 0
      BY <1>4, <3>1
    <3>2. CASE i # 0
      <4>1. i \in 1 .. len /\ f[i - 1] \in Seq(S)
        BY <3>2
      <4>2. f[i] = step[i][f[i - 1]]
        BY <1>4, <4>1
      <4>3. QED BY <1>2, <3>2, <4>1, <4>2
    <3>3. QED BY <3>1, <3>2
  <2>2. f = [i \in 0 .. len |-> f[i]]
    OBVIOUS
  <2>3. QED BY <2>1, <2>2
<1>6. PICK r : r = Rec(r) /\ d = r[len]
  <2>1. PICK r : r = CHOOSE g : g = Rec(g)
    OBVIOUS
  <2>2. r = Rec(r)
    BY <1>5, <2>1
  <2>3. d = r[len]
    BY <1>1, <2>1 DEF NewChain
  <2>4. QED BY <2>2, <2>3
<1> DEFINE Upto(i) == {c[j] : j \in {k \in 1 .. i : Hit(k)}}
           Good(i) == r[i] \in Seq(S) /\ IsInjective(r[i]) /\ Range(r[i]) = Upto(i)
<1>7. Good(0)
  <2>1. r[0] = << >>
    BY <1>6
  <2>2. << >> \in Seq(S) /\ IsInjective(<< >>) /\ Range(<< >>) = {}
    BY DEF IsInjective, Range
  <2>3. Upto(0) = {}
    OBVIOUS
  <2>4. QED BY <2>1, <2>2, <2>3
<1>8. ASSUME NEW i \in 1 .. len, Good(i - 1) PROVE Good(i)
  <2>1. PICK v : v = r[i - 1]
    OBVIOUS
  <2>2. v \in Seq(S) /\ IsInjective(v) /\ Range(v) = Upto(i - 1)
    BY <1>8, <2>1
  <2>3. r[i] = IF Hit(i) THEN <<c[i]>> \o v ELSE v
    <3>1. i \in 0 .. len /\ i # 0
      OBVIOUS
    <3>2. Rec(r)[i] = IF i = 0 THEN << >> ELSE IF Hit(i) THEN <<c[i]>> \o r[i - 1] ELSE r[i - 1]
      BY <3>1
    <3>3. QED BY <1>6, <2>1, <3>1, <3>2
  <2>4. \A k \in 1 .. i : k \in 1 .. i - 1 \/ k = i
    OBVIOUS
  <2>5. \A k \in 1 .. i - 1 : k \in 1 .. i
    OBVIOUS
  <2>6. CASE ~Hit(i)
    <3>1. Upto(i) = Upto(i - 1)
      BY <2>4, <2>5, <2>6
    <3>2. QED BY <2>2, <2>3, <2>6, <3>1
  <2>7. CASE Hit(i)
    <3>1. c[i] \in S /\ c[i] \notin Range(v)
      <4>1. \A k \in 1 .. i - 1 : c[k] # c[i]
        BY <1>1 DEF IsInjective
      <4>2. QED BY <1>1, <2>2, <4>1
    <3>2. PICK w : w = <<c[i]>> \o v
      OBVIOUS
    <3>3. IsPreceded(w, v, S, c[i])
      BY <2>2, <3>1, <3>2, ConsOne
    <3>4. w \in Seq(S) /\ IsInjective(w) /\ Range(w) = Range(v) \cup {c[i]}
      BY <3>3 DEF IsPreceded
    <3>5. Upto(i) = Upto(i - 1) \cup {c[i]}
      <4>1. {k \in 1 .. i : Hit(k)} = {k \in 1 .. i - 1 : Hit(k)} \cup {i}
        BY <2>4, <2>5, <2>7
      <4>2. QED BY <4>1
    <3>6. QED BY <2>2, <2>3, <2>7, <3>2, <3>4, <3>5
  <2>8. QED BY <2>6, <2>7
<1>9. Good(len)
  <2>1. PICK bad : bad = {i \in 0 .. len : ~Good(i)}
    OBVIOUS
  <2>2. ASSUME NEW i \in bad, \A k \in bad : i <= k PROVE FALSE
    <3>1. i # 0 /\ ~Good(i) /\ i \in 0 .. len
      BY <1>7, <2>1
    <3>2. i \in 1 .. len /\ i - 1 \in 0 .. len /\ i - 1 \notin bad
      BY <2>2, <3>1
    <3>3. Good(i - 1)
      BY <2>1, <3>2
    <3>4. Good(i)
      BY <1>8, <3>2, <3>3
    <3>5. QED BY <3>1, <3>4
  <2>3. bad \subseteq Nat
    BY <2>1
  <2>4. bad = {}
    BY <2>2, <2>3, LeastExists
  <2>5. len \in 0 .. len
    OBVIOUS
  <2>6. QED BY <2>1, <2>4, <2>5
<1>10. Upto(len) = {x \in Range(c) : BucketOf(t.hh[x].hashv, n) = b}
  BY <1>1 DEF Range
<1>11. QED BY <1>6, <1>9, <1>10

\* A bucket is as long as its expand_mult says, at most.
LEMMA ExpandMultFacts ==
  ASSUME NEW count \in Nat, NEW ideal \in Nat \ {0}
  PROVE  ExpandMult(count, ideal) \in Nat /\ count <= (ExpandMult(count, ideal) + 1) * ideal
<1> DEFINE Turn(k, m) == IF k <= ideal THEN 0 ELSE IF k > m * ideal THEN m + 1 ELSE m
           Rec(g) == [k \in 0 .. count |->
                        IF k <= ideal THEN 0
                        ELSE LET m == g[k - 1] IN IF k > m * ideal THEN m + 1 ELSE m]
<1>1. PICK step : step = [k \in 1 .. count |-> [m \in Nat |-> Turn(k, m)]]
  OBVIOUS
<1>2. step \in [1 .. count -> [Nat -> Nat]]
  BY <1>1
<1>3. PICK f \in [0 .. count -> Nat] : f[0] = 0 /\ \A k \in 1 .. count : f[k] = step[k][f[k - 1]]
  <2>1. PICK f : Follows(f, count, 0, step, Nat)
    BY <1>2, RecursionExists
  <2>2. QED BY <2>1 DEF Follows
<1>4. f = Rec(f)
  <2>1. ASSUME NEW k \in 0 .. count
        PROVE  f[k] = IF k <= ideal THEN 0
                      ELSE LET m == f[k - 1] IN IF k > m * ideal THEN m + 1 ELSE m
    <3>1. CASE k = 0
      BY <1>3, <3>1
    <3>2. CASE k # 0
      <4>1. k \in 1 .. count /\ f[k - 1] \in Nat
        BY <3>2
      <4>2. f[k] = step[k][f[k - 1]]
        BY <1>3, <3>2
      <4>3. f[k] = Turn(k, f[k - 1])
        BY <1>1, <4>1, <4>2
      <4>4. QED BY <4>3
    <3>3. QED BY <3>1, <3>2
  <2>2. f = [k \in 0 .. count |-> f[k]]
    OBVIOUS
  <2>3. QED BY <2>1, <2>2
<1>5. PICK r : r = Rec(r) /\ ExpandMult(count, ideal) = r[count]
  <2>1. PICK r : r = CHOOSE g : g = Rec(g)
    OBVIOUS
  <2>2. r = Rec(r)
    BY <1>4, <2>1
  <2>3. ExpandMult(count, ideal) = r[count]
    BY <2>1 DEF ExpandMult
  <2>4. QED BY <2>2, <2>3
<1> DEFINE Good(k) == r[k] \in Nat /\ k <= (r[k] + 1) * ideal
<1>6. ASSUME NEW k \in 0 .. count, k <= ideal PROVE Good(k)
  BY <1>5, <1>6
<1>7. ASSUME NEW k \in 1 .. count, k > ideal, Good(k - 1) PROVE Good(k)
  <2>1. PICK m \in Nat : m = r[k - 1]
    BY <1>7
  <2>2. k - 1 <= (m + 1) * ideal
    BY <1>7, <2>1
  <2>3. r[k] = IF k > m * ideal THEN m + 1 ELSE m
    BY <1>5, <1>7, <2>1
  <2>4. (m + 2) * ideal = (m + 1) * ideal + ideal /\ (m + 1) * ideal = m * ideal + ideal
    OBVIOUS
  <2>5. PICK p \in Nat : p = m * ideal
    OBVIOUS
  <2>6. CASE k > p
    <3>1. r[k] = m + 1
      BY <2>3, <2>5, <2>6
    <3>2. (r[k] + 1) * ideal = p + ideal + ideal
      BY <2>4, <2>5, <3>1
    <3>3. k - 1 <= p + ideal
      BY <2>2, <2>4, <2>5
    <3>4. QED BY <3>1, <3>2, <3>3
  <2>7. CASE ~(k > p)
    <3>1. r[k] = m
      BY <2>3, <2>5, <2>7
    <3>2. (r[k] + 1) * ideal = p + ideal
      BY <2>4, <2>5, <3>1
    <3>3. QED BY <2>7, <3>1, <3>2
  <2>8. QED BY <2>6, <2>7
<1>8. Good(count)
  <2>1. PICK bad : bad = {k \in 0 .. count : ~Good(k)}
    OBVIOUS
  <2>2. ASSUME NEW k \in bad, \A j \in bad : k <= j PROVE FALSE
    <3>1. k \in 0 .. count /\ ~Good(k) /\ k > ideal
      BY <1>6, <2>1
    <3>2. k \in 1 .. count /\ k - 1 \in 0 .. count /\ k - 1 \notin bad
      BY <2>2, <3>1
    <3>3. Good(k - 1)
      BY <2>1, <3>2
    <3>4. Good(k)
      BY <1>7, <3>1, <3>2, <3>3
    <3>5. QED BY <3>1, <3>4
  <2>3. bad \subseteq Nat
    BY <2>1
  <2>4. bad = {}
    BY <2>2, <2>3, LeastExists
  <2>5. count \in 0 .. count
    OBVIOUS
  <2>6. QED BY <2>1, <2>4, <2>5
<1>9. QED BY <1>5, <1>8

LEMMA IdealLengthFacts ==
  ASSUME NEW items \in Nat \ {0}, NEW n \in Nat \ {0}
  PROVE  IdealLength(items, n) \in Nat \ {0}
<1>1. PICK q \in Nat, r \in 0 .. n - 1 : items = n * q + r /\ q = items \div n /\ r = items % n
  OBVIOUS
<1>2. CASE r # 0
  BY <1>1, <1>2 DEF IdealLength
<1>3. CASE r = 0
  <2>1. q # 0
    <3>1. n * 0 = 0
      OBVIOUS
    <3>2. q = 0 => items = 0
      BY <1>1, <1>3, <3>1
    <3>3. QED BY <3>2
  <2>2. QED BY <1>1, <1>3, <2>1 DEF IdealLength
<1>4. QED BY <1>2, <1>3

\* One more element does not make the ideal length less.
LEMMA IdealLengthGrows ==
  ASSUME NEW items \in Nat, NEW n \in Nat \ {0}
  PROVE  /\ IdealLength(items, n) \in Nat /\ IdealLength(items + 1, n) \in Nat
         /\ IdealLength(items, n) <= IdealLength(items + 1, n)
<1>1. PICK q \in Nat, r \in 0 .. n - 1 : items = n * q + r /\ q = items \div n /\ r = items % n
  OBVIOUS
<1>2. PICK p \in Nat, s \in 0 .. n - 1 :
        items + 1 = n * p + s /\ p = (items + 1) \div n /\ s = (items + 1) % n
  OBVIOUS
<1>3. IdealLength(items, n) = q + (IF r # 0 THEN 1 ELSE 0)
      /\ IdealLength(items + 1, n) = p + (IF s # 0 THEN 1 ELSE 0)
  BY <1>1, <1>2 DEF IdealLength
<1>4. n * (p - q) = r + 1 - s
  <2>1. n * (p - q) = n * p - n * q
    OBVIOUS
  <2>2. PICK a \in Nat, b \in Nat : a = n * p /\ b = n * q
    OBVIOUS
  <2>3. b + r + 1 = a + s
    BY <1>1, <1>2, <2>2
  <2>4. a - b = r + 1 - s
    BY <2>3
  <2>5. QED BY <2>1, <2>2, <2>4
<1>5. p >= q
  <2>1. p - q <= -1 => n * (p - q) <= -n
    OBVIOUS
  <2>2. QED BY <1>4, <2>1
<1>6. p = q => s # 0
  <2>1. p = q => n * (p - q) = 0
    OBVIOUS
  <2>2. QED BY <1>4, <2>1
<1>7. QED BY <1>3, <1>5, <1>6

\* A handle in its new chain.
LEMMA InChainFacts ==
  ASSUME NEW h \in Handle, NEW c \in Seq(Nat), IsInjective(c), NEW i \in DOMAIN c, NEW e, e = c[i],
         NEW g, g = InChain(h, e, c)
  PROVE  /\ g \in Handle /\ SameKey(g, h) /\ g.prev = h.prev /\ g.next = h.next
         /\ g.hh_prev = Before(c, i) /\ g.hh_next = After(c, i)
<1>1. PICK n \in Nat : n = Len(c) /\ DOMAIN c = 1 .. n /\ \A j \in 1 .. n : c[j] \in Nat
  BY LenProperties, ElementOfSeq
<1>2. i = CHOOSE k \in DOMAIN c : c[k] = e
  <2>1. PICK k : k = CHOOSE j \in DOMAIN c : c[j] = e
    OBVIOUS
  <2>2. k \in DOMAIN c /\ c[k] = e
    BY <2>1
  <2>3. k = i
    BY <2>2 DEF IsInjective
  <2>4. QED BY <2>1, <2>3
<1>3. PICK back \in Nat : back = IF i = 1 THEN NULL ELSE c[i - 1]
  <2>1. i # 1 => i - 1 \in 1 .. n
    BY <1>1
  <2>2. QED BY <1>1, <2>1 DEF NULL
<1>4. PICK on \in Nat : on = IF i = Len(c) THEN NULL ELSE c[i + 1]
  <2>1. i # n => i + 1 \in 1 .. n
    BY <1>1
  <2>2. QED BY <1>1, <2>1 DEF NULL
<1>5. g = [[h EXCEPT !.hh_prev = back] EXCEPT !.hh_next = on]
  BY <1>2, <1>3, <1>4 DEF InChain
<1>6. /\ g \in Handle /\ SameKey(g, h) /\ g.prev = h.prev /\ g.next = h.next
      /\ g.hh_prev = back /\ g.hh_next = on
  BY <1>5 DEF Handle, SameKey
<1>7. QED BY <1>3, <1>4, <1>6 DEF Before, After

\* The bucket of e when there are n.
BucketAmong(t, e, n) == BucketOf(t.hh[e].hashv, n)

\* r is t with its elements in the given chains.
IsMoved(r, t, E, n, chains) ==
  /\ r \in TableOf(E, n) /\ r.head = t.head /\ r.tail = t.tail /\ r.num_items = t.num_items
  /\ r.mem = t.mem
  /\ \A e \in E :
       /\ SameKey(r.hh[e], t.hh[e]) /\ r.hh[e].prev = t.hh[e].prev /\ r.hh[e].next = t.hh[e].next
       /\ \A i \in DOMAIN chains[BucketAmong(t, e, n)] :
            chains[BucketAmong(t, e, n)][i] = e =>
              /\ r.hh[e].hh_prev = Before(chains[BucketAmong(t, e, n)], i)
              /\ r.hh[e].hh_next = After(chains[BucketAmong(t, e, n)], i)
  /\ \A b \in 0 .. n - 1 :
       /\ r.buckets[b].hh_head = FirstOf(chains[b]) /\ r.buckets[b].count = Len(chains[b])
       /\ r.buckets[b].expand_mult = ExpandMult(Len(chains[b]), IdealLength(t.num_items, n))

LEMMA MovedIntoFacts ==
  ASSUME NEW E \in SUBSET (Nat \ {0}), NEW m \in Nat \ {0}, NEW t \in TableOf(E, m),
         NEW n \in Nat \ {0}, n = 2 * m, t.num_items \in Nat \ {0}, NEW chains,
         \A b \in 0 .. n - 1 : chains[b] \in Seq(E) /\ IsInjective(chains[b]),
         \A e \in E : e \in Range(chains[BucketAmong(t, e, n)]),
         NEW r, r = MovedInto(t, chains)
  PROVE  IsMoved(r, t, E, n, chains)
<1>1. t.hh \in [E -> Handle] /\ NumBuckets(t) = m /\ E \subseteq Nat /\ DOMAIN t.hh = E
  BY TableFacts DEF TableOf
<1>2. PICK ideal \in Nat \ {0} : ideal = IdealLength(t.num_items, n)
  BY IdealLengthFacts
<1>3. PICK H : H = [e \in E |-> InChain(t.hh[e], e, chains[BucketAmong(t, e, n)])]
  OBVIOUS
<1>4. ASSUME NEW e \in E
      PROVE  /\ H[e] \in Handle
             /\ SameKey(H[e], t.hh[e]) /\ H[e].prev = t.hh[e].prev /\ H[e].next = t.hh[e].next
             /\ \A i \in DOMAIN chains[BucketAmong(t, e, n)] :
                  chains[BucketAmong(t, e, n)][i] = e =>
                    /\ H[e].hh_prev = Before(chains[BucketAmong(t, e, n)], i)
                    /\ H[e].hh_next = After(chains[BucketAmong(t, e, n)], i)
  <2>1. PICK c : c = chains[BucketAmong(t, e, n)]
    OBVIOUS
  <2>2. PICK h \in Handle : h = t.hh[e]
    BY <1>1
  <2>3. BucketAmong(t, e, n) \in 0 .. n - 1
    <3>1. h.hashv \in Nat
      BY DEF Handle
    <3>2. h.hashv % n \in 0 .. n - 1
      BY <3>1
    <3>3. QED BY <2>2, <3>2 DEF BucketAmong, BucketOf
  <2>4. c \in Seq(E) /\ IsInjective(c)
    BY <2>1, <2>3
  <2>5. c \in Seq(Nat)
    BY <1>1, <2>4, SeqMonotonic
  <2>6. PICK i \in DOMAIN c : c[i] = e
    BY <2>1 DEF Range
  <2>7. PICK g : g = InChain(h, e, c)
    OBVIOUS
  <2>8. /\ g \in Handle /\ SameKey(g, h) /\ g.prev = h.prev /\ g.next = h.next
        /\ g.hh_prev = Before(c, i) /\ g.hh_next = After(c, i)
    BY <2>4, <2>5, <2>6, <2>7, InChainFacts
  <2>9. H[e] = g
    BY <1>3, <2>1, <2>2, <2>7
  <2>10. \A j \in DOMAIN c : c[j] = e => j = i
    BY <2>4, <2>6 DEF IsInjective
  <2>11. QED BY <2>1, <2>2, <2>8, <2>9, <2>10
<1>5. H \in [E -> Handle]
  BY <1>3, <1>4
<1>6. PICK B : B = [b \in 0 .. n - 1 |->
                      [hh_head |-> IF chains[b] = << >> THEN NULL ELSE chains[b][1],
                       count |-> Len(chains[b]),
                       expand_mult |-> ExpandMult(Len(chains[b]), ideal)]]
  OBVIOUS
<1>7. ASSUME NEW b \in 0 .. n - 1
      PROVE  /\ B[b] \in Bucket
             /\ B[b].hh_head = FirstOf(chains[b]) /\ B[b].count = Len(chains[b])
             /\ B[b].expand_mult = ExpandMult(Len(chains[b]), ideal)
  <2>1. PICK c : c = chains[b]
    OBVIOUS
  <2>2. c \in Seq(E)
    BY <2>1
  <2>3. PICK len \in Nat : len = Len(c) /\ \A i \in 1 .. len : c[i] \in Nat
    BY <1>1, <2>2, LenProperties, ElementOfSeq
  <2>4. FirstOf(c) \in Nat
    <3>1. c # << >> => 1 \in 1 .. len
      BY <2>2, <2>3, EmptySeq
    <3>2. QED BY <2>3, <3>1 DEF FirstOf, NULL
  <2>5. ExpandMult(len, ideal) \in Nat
    BY ExpandMultFacts
  <2>6. B[b] = [hh_head |-> FirstOf(c), count |-> len, expand_mult |-> ExpandMult(len, ideal)]
    BY <1>6, <2>1, <2>3 DEF FirstOf
  <2>7. QED BY <2>1, <2>3, <2>4, <2>5, <2>6 DEF Bucket
<1>8. B \in [0 .. n - 1 -> Bucket]
  BY <1>6, <1>7
<1>9. PICK ineff : ineff = LET nonideal == UNION {{b} \X (ideal + 1 .. Len(chains[b])) : b \in 0 .. n - 1}
                           IN IF Cardinality(nonideal) > t.num_items \div 2 THEN t.ineff_expands + 1 ELSE 0
  OBVIOUS
<1>10. ineff \in Nat
  <2>1. t.ineff_expands \in Nat
    BY DEF TableOf
  <2>2. ineff = t.ineff_expands + 1 \/ ineff = 0
    BY <1>9
  <2>3. QED BY <2>1, <2>2
<1>11. PICK no \in BOOLEAN : no = (t.noexpand \/ ineff > 1)
  OBVIOUS
<1>12. H = [e \in DOMAIN t.hh |-> InChain(t.hh[e], e, chains[BucketOf(t.hh[e].hashv, n)])]
  BY <1>1, <1>3 DEF BucketAmong
<1>13. r = [t EXCEPT !.hh = H, !.buckets = B, !.ineff_expands = ineff, !.noexpand = no]
  BY <1>1, <1>2, <1>6, <1>9, <1>11, <1>12 DEF MovedInto, TableOf
<1>14. /\ r \in TableOf(E, n) /\ r.head = t.head /\ r.tail = t.tail /\ r.num_items = t.num_items
       /\ r.mem = t.mem /\ r.hh = H /\ r.buckets = B
  BY <1>5, <1>8, <1>10, <1>13 DEF TableOf
<1>15. QED BY <1>2, <1>4, <1>7, <1>14 DEF IsMoved

\* The expansion keeps a table whole, and no chain is longer than its
\* expand_mult allows.
IsExpanded(r, t, n) ==
  /\ NumBuckets(r) = n /\ r.num_items = t.num_items /\ DOMAIN r.hh = DOMAIN t.hh
  /\ \A e \in DOMAIN t.hh : SameKey(r.hh[e], t.hh[e])
  /\ \A b \in 0 .. n - 1 :
       r.buckets[b].count <= (r.buckets[b].expand_mult + 1) * IdealLength(r.num_items, n)

\* HASH_EXPAND_BUCKETS keeps a table whole with the elements it held, in
\* twice the buckets, and no chain is longer than its expand_mult allows.
THEOREM ExpandedWhole ==
  ASSUME NEW t, NEW s, NEW chains, Whole(t, s, chains), s # << >>, DOMAIN t.hh = Range(s),
         NEW n, n = 2 * NumBuckets(t), NEW r, r = Expanded(t)
  PROVE  Whole(r, s, NewChains(t, n)) /\ IsExpanded(r, t, n)
<1>1. PICK E \in SUBSET (Nat \ {0}), m \in Nat, len \in Nat :
           /\ t \in TableOf(E, m) /\ E = DOMAIN t.hh /\ m = NumBuckets(t)
           /\ IsFiniteSet(E) /\ 0 \notin E /\ NULL \notin E
           /\ s \in Seq(E) /\ len = Len(s) /\ DOMAIN s = 1 .. len /\ Range(s) \subseteq E
           /\ \A i \in 1 .. len : s[i] \in E /\ s[i] \in Range(s)
           /\ len = 0 <=> s = << >>
  BY WholeFacts
<1>2. m \in Nat \ {0} /\ n = 2 * m /\ n \in Nat \ {0} /\ E = Range(s) /\ IsInjective(s)
      /\ t.num_items = len /\ len \in Nat \ {0}
  BY <1>1 DEF Whole
<1>3. PICK cs : cs = NewChains(t, n)
  OBVIOUS
<1>4. PICK u : u = MovedInto(t, cs)
  OBVIOUS
<1>5. r = [u EXCEPT !.mem = (@ \ TableMemory(m)) \cup TableMemory(n)]
  <2>1. Moved(t) = u
    BY <1>1, <1>2, <1>3, <1>4 DEF Moved
  <2>2. QED BY <1>1, <1>2, <2>1 DEF Expanded
<1>6. \A e \in E : t.hh[e].hashv \in Nat
  <2>1. \A e \in E : t.hh[e] \in Handle
    BY <1>1 DEF TableOf
  <2>2. QED BY <2>1 DEF Handle
<1>7. ASSUME NEW b \in 0 .. n - 1
      PROVE  /\ cs[b] \in Seq(E) /\ IsInjective(cs[b])
             /\ \A e \in E : e \in Range(cs[b]) <=> BucketAmong(t, e, n) = b
  <2>1. b % m \in 0 .. m - 1
    BY <1>2
  <2>2. PICK c : c = chains[b % m]
    OBVIOUS
  <2>3. Chain(t, b % m) = c /\ IsChain(t, s, b % m, c)
    <3>1. b % m \in 0 .. NumBuckets(t) - 1
      BY <1>1, <2>1
    <3>2. Chain(t, b % m) = chains[b % m]
      BY <3>1, WalksOfWhole
    <3>3. IsChain(t, s, b % m, chains[b % m])
      BY <3>1 DEF Whole
    <3>4. QED BY <2>2, <3>2, <3>3
  <2>4. cs[b] = NewChain(t, n, b, c)
    BY <1>1, <1>3, <2>3 DEF NewChains
  <2>5. c \in Seq(E) /\ IsInjective(c)
    BY <1>2, <2>3 DEF IsChain
  <2>6. /\ cs[b] \in Seq(E) /\ IsInjective(cs[b])
        /\ Range(cs[b]) = {x \in Range(c) : BucketOf(t.hh[x].hashv, n) = b}
    BY <2>4, <2>5, NewChainFacts
  <2>7. ASSUME NEW e \in E PROVE e \in Range(cs[b]) <=> BucketAmong(t, e, n) = b
    <3>1. e \in Range(c) <=> BucketWith(t, e) = b % m
      BY <1>2, <2>3 DEF IsChain
    <3>2. BucketAmong(t, e, n) = b => BucketWith(t, e) = b % m
      <4>1. PICK v \in Nat : v = t.hh[e].hashv
        BY <1>6
      <4>2. (v % n) % m = v % m
        BY <1>2, HalvedRemainder
      <4>3. QED BY <1>1, <4>1, <4>2 DEF BucketAmong, BucketWith, BucketOf
    <3>3. QED BY <2>6, <3>1, <3>2 DEF BucketAmong
  <2>8. QED BY <2>6, <2>7
<1>8. \A e \in E : e \in Range(cs[BucketAmong(t, e, n)]) /\ BucketAmong(t, e, n) \in 0 .. n - 1
  <2>1. ASSUME NEW e \in E PROVE BucketAmong(t, e, n) \in 0 .. n - 1
    <3>1. t.hh[e].hashv % n \in 0 .. n - 1
      BY <1>2, <1>6
    <3>2. QED BY <3>1 DEF BucketAmong, BucketOf
  <2>2. QED BY <1>7, <2>1
<1>9. IsMoved(u, t, E, n, cs)
  <2>1. \A b \in 0 .. n - 1 : cs[b] \in Seq(E) /\ IsInjective(cs[b])
    BY <1>7
  <2>2. \A e \in E : e \in Range(cs[BucketAmong(t, e, n)])
    BY <1>8
  <2>3. t.num_items \in Nat \ {0} /\ t \in TableOf(E, m)
    BY <1>1, <1>2
  <2>4. QED BY <1>2, <1>4, <2>1, <2>2, <2>3, MovedIntoFacts
<1>10. u \in TableOf(E, n) /\ u.mem = TableMemory(m)
  BY <1>1, <1>2, <1>9 DEF IsMoved, Whole
<1>11. /\ r \in TableOf(E, n) /\ r.head = u.head /\ r.tail = u.tail /\ r.num_items = u.num_items
       /\ r.hh = u.hh /\ r.buckets = u.buckets /\ r.mem = TableMemory(n)
  <2>1. PICK M \in SUBSET ({"tbl", "buckets"} \X Nat) : M = TableMemory(n)
    <3>1. TableMemory(n) \in SUBSET ({"tbl", "buckets"} \X Nat)
      BY <1>2 DEF TableMemory
    <3>2. QED BY <3>1
  <2>2. (TableMemory(m) \ TableMemory(m)) \cup TableMemory(n) = M
    BY <2>1
  <2>3. r = [u EXCEPT !.mem = M]
    BY <1>5, <1>10, <2>2
  <2>4. QED BY <1>10, <2>1, <2>3 DEF TableOf
<1>12. DOMAIN r.hh = E /\ NumBuckets(r) = n
  BY <1>2, <1>11, TableFacts
<1>13. \A e \in E : SameKey(r.hh[e], t.hh[e]) /\ r.hh[e].prev = t.hh[e].prev /\ r.hh[e].next = t.hh[e].next
  BY <1>9, <1>11 DEF IsMoved
<1>14. \A e \in E : BucketWith(r, e) = BucketAmong(t, e, n)
  BY <1>12, <1>13 DEF SameKey, BucketWith, BucketAmong
<1>15. ASSUME NEW b \in 0 .. n - 1 PROVE IsChain(r, s, b, cs[b])
  <2>1. PICK c : c = cs[b]
    OBVIOUS
  <2>2. c \in Seq(E) /\ IsInjective(c) /\ \A e \in E : e \in Range(c) <=> BucketAmong(t, e, n) = b
    BY <1>7, <2>1
  <2>3. r.buckets[b].hh_head = FirstOf(c) /\ r.buckets[b].count = Len(c)
    BY <1>9, <1>11, <2>1 DEF IsMoved
  <2>4. Doubly(r, c, "hh_prev", "hh_next")
    <3>1. ASSUME NEW i \in DOMAIN c
          PROVE  r.hh[c[i]].hh_prev = Before(c, i) /\ r.hh[c[i]].hh_next = After(c, i)
      <4>1. PICK e : e = c[i]
        OBVIOUS
      <4>2. e \in E /\ e \in Range(c)
        BY <2>2, <4>1, LenProperties, ElementOfSeq DEF Range
      <4>3. cs[BucketAmong(t, e, n)] = c
        BY <2>1, <2>2, <4>2
      <4>4. u.hh[e].hh_prev = Before(c, i) /\ u.hh[e].hh_next = After(c, i)
        BY <1>9, <4>1, <4>2, <4>3 DEF IsMoved
      <4>5. QED BY <1>11, <4>1, <4>4
    <3>2. QED BY <3>1 DEF Doubly
  <2>5. IsChain(r, s, b, c)
    BY <1>2, <1>14, <2>2, <2>3, <2>4 DEF IsChain
  <2>6. QED BY <2>1, <2>5
<1>16. \A e \in E : r.hh[e].hashv = HASH_FUNCTION[r.hh[e].key]
  <2>1. \A e \in E : t.hh[e].hashv = HASH_FUNCTION[t.hh[e].key]
    BY <1>1 DEF Whole
  <2>2. QED BY <1>13, <2>1 DEF SameKey
<1>17. Doubly(r, s, "prev", "next")
  <2>1. Doubly(t, s, "prev", "next")
    BY DEF Whole
  <2>2. \A i \in DOMAIN s : s[i] \in E
    BY <1>1
  <2>3. QED BY <1>13, <2>1, <2>2 DEF Doubly
<1>18. r.head = FirstOf(s) /\ r.tail = LastOf(s) /\ r.num_items = Len(s)
  BY <1>9, <1>11 DEF IsMoved, Whole
<1>19. Whole(r, s, cs)
  BY <1>1, <1>2, <1>11, <1>12, <1>15, <1>16, <1>17, <1>18 DEF Whole
<1>20. ASSUME NEW b \in 0 .. n - 1
       PROVE  r.buckets[b].count <= (r.buckets[b].expand_mult + 1) * IdealLength(r.num_items, n)
  <2>1. PICK ideal \in Nat \ {0} : ideal = IdealLength(t.num_items, n)
    BY <1>2, IdealLengthFacts
  <2>2. PICK count \in Nat : count = Len(cs[b])
    BY <1>7, LenProperties
  <2>3. r.buckets[b].count = count /\ r.buckets[b].expand_mult = ExpandMult(count, ideal)
    BY <1>9, <1>11, <2>1, <2>2 DEF IsMoved
  <2>4. count <= (ExpandMult(count, ideal) + 1) * ideal
    BY ExpandMultFacts
  <2>5. IdealLength(r.num_items, n) = ideal
    <3>1. r.num_items = t.num_items
      BY <1>9, <1>11 DEF IsMoved
    <3>2. QED BY <2>1, <3>1
  <2>6. QED BY <2>3, <2>4, <2>5
<1>21. IsExpanded(r, t, n)
  BY <1>1, <1>2, <1>12, <1>13, <1>18, <1>20 DEF IsExpanded
<1>22. QED BY <1>3, <1>19, <1>21

------------------------------------------------------------------------------
(* Tables without elements, and handles that come and go.                  *)

\* A table without elements is whole, whatever handles are still there.
LEMMA EmptyWhole ==
  ASSUME NEW E \in SUBSET (Nat \ {0}), IsFiniteSet(E), NEW t \in TableOf(E, 0), NEW chains,
         \A e \in E : t.hh[e].hashv = HASH_FUNCTION[t.hh[e].key],
         t.head = NULL, t.tail = NULL, t.num_items = 0, t.mem = {}
  PROVE  Whole(t, << >>, chains)
<1>1. DOMAIN t.hh = E /\ NumBuckets(t) = 0
  BY TableFacts
<1>2. << >> \in Seq(E) /\ IsInjective(<< >>) /\ Len(<< >>) = 0 /\ Doubly(t, << >>, "prev", "next")
  BY DEF IsInjective, Doubly
<1>3. FirstOf(<< >>) = NULL /\ LastOf(<< >>) = NULL
  BY DEF FirstOf, LastOf
<1>4. \A b \in 0 .. 0 - 1 : FALSE
  OBVIOUS
<1>5. /\ t \in TableOf(DOMAIN t.hh, NumBuckets(t)) /\ DOMAIN t.hh \in SUBSET (Nat \ {0})
      /\ IsFiniteSet(DOMAIN t.hh) /\ NumBuckets(t) \in Nat
  BY <1>1
<1>6. << >> \in Seq(DOMAIN t.hh)
  BY <1>1, <1>2
<1>7. /\ t.head = FirstOf(<< >>) /\ t.tail = LastOf(<< >>) /\ t.num_items = Len(<< >>)
      /\ t.mem = IF << >> = << >> THEN {} ELSE TableMemory(NumBuckets(t))
  BY <1>2, <1>3
<1>8. \A b \in 0 .. NumBuckets(t) - 1 : IsChain(t, << >>, b, chains[b])
  BY <1>1, <1>4
<1>9. \A e \in DOMAIN t.hh : t.hh[e].hashv = HASH_FUNCTION[t.hh[e].key]
  BY <1>1
<1>10. QED BY <1>1, <1>2, <1>5, <1>6, <1>7, <1>8, <1>9 DEF Whole

LEMMA NoTableWhole == \A chains : Whole(NoTable, << >>, chains)
<1>1. NoTable \in TableOf({}, 0)
  BY DEF NoTable, TableOf, EmptyBuckets, NULL
<1>2. IsFiniteSet({}) /\ {} \in SUBSET (Nat \ {0})
  BY FS_EmptySet
<1>3. NoTable.head = NULL /\ NoTable.tail = NULL /\ NoTable.num_items = 0 /\ NoTable.mem = {}
  BY DEF NoTable
<1>4. QED BY <1>1, <1>2, <1>3, EmptyWhole

\* HASH_CLEAR leaves no element and no memory.
LEMMA HashClearWhole ==
  ASSUME NEW t, NEW s, NEW chains, Whole(t, s, chains), NEW r, r = HashClear(t)
  PROVE  Whole(r, << >>, chains) /\ r.mem = {} /\ DOMAIN r.hh = DOMAIN t.hh
         /\ \A e \in DOMAIN t.hh : r.hh[e] = t.hh[e]
<1>1. PICK E \in SUBSET (Nat \ {0}), n \in Nat, len \in Nat :
           /\ t \in TableOf(E, n) /\ E = DOMAIN t.hh /\ n = NumBuckets(t)
           /\ IsFiniteSet(E) /\ 0 \notin E /\ NULL \notin E
           /\ s \in Seq(E) /\ len = Len(s) /\ DOMAIN s = 1 .. len /\ Range(s) \subseteq E
           /\ \A i \in 1 .. len : s[i] \in E /\ s[i] \in Range(s)
           /\ len = 0 <=> s = << >>
  BY WholeFacts
<1>2. t.head = NULL <=> s = << >>
  <2>1. s # << >> => 1 \in 1 .. len
    BY <1>1
  <2>2. t.head = FirstOf(s)
    BY DEF Whole
  <2>3. QED BY <1>1, <2>1, <2>2 DEF FirstOf
<1>3. CASE s = << >>
  <2>1. r = t /\ t.mem = {}
    BY <1>2, <1>3 DEF HashClear, Whole
  <2>2. QED BY <1>3, <2>1
<1>4. CASE s # << >>
  <2>1. PICK B \in [0 .. 0 - 1 -> Bucket] : B = EmptyBuckets(0)
    <3>1. \A b \in 0 .. 0 - 1 : EmptyBucket \in Bucket
      OBVIOUS
    <3>2. EmptyBuckets(0) \in [0 .. 0 - 1 -> Bucket]
      BY <3>1 DEF EmptyBuckets
    <3>3. QED BY <3>2
  <2>2. PICK H \in [E -> Handle] : H = t.hh
    BY <1>1 DEF TableOf
  <2>3. t.mem = TableMemory(n)
    BY <1>1, <1>4 DEF Whole
  <2>4. t.mem \ TableMemory(n) = {}
    BY <2>3
  <2>5. r = [head |-> NULL, tail |-> NULL, buckets |-> B, num_items |-> 0,
             ineff_expands |-> 0, noexpand |-> FALSE, hh |-> H, mem |-> {}]
    BY <1>1, <1>2, <1>4, <2>1, <2>2, <2>4 DEF HashClear, Emptied, NoTable
  <2>6. r \in TableOf(E, 0) /\ r.head = NULL /\ r.tail = NULL /\ r.num_items = 0 /\ r.mem = {}
        /\ r.hh = t.hh
    BY <2>2, <2>5 DEF TableOf, NULL
  <2>7. \A e \in E : r.hh[e].hashv = HASH_FUNCTION[r.hh[e].key]
    BY <1>1, <2>6 DEF Whole
  <2>8. Whole(r, << >>, chains)
    BY <1>1, <2>6, <2>7, EmptyWhole
  <2>9. QED BY <2>6, <2>8
<1>5. QED BY <1>3, <1>4

\* The handles of what a table does not hold do not matter.
LEMMA OtherHandlesWhole ==
  ASSUME NEW t, NEW s, NEW chains, Whole(t, s, chains), NEW F \in SUBSET (Nat \ {0}),
         IsFiniteSet(F), Range(s) \subseteq F, NEW r \in TableOf(F, NumBuckets(t)),
         SameTable(r, t), r.buckets = t.buckets, \A x \in Range(s) : r.hh[x] = t.hh[x],
         \A x \in F : r.hh[x].hashv = HASH_FUNCTION[r.hh[x].key]
  PROVE  Whole(r, s, chains)
<1>1. PICK E \in SUBSET (Nat \ {0}), n \in Nat, len \in Nat :
           /\ t \in TableOf(E, n) /\ E = DOMAIN t.hh /\ n = NumBuckets(t)
           /\ IsFiniteSet(E) /\ 0 \notin E /\ NULL \notin E
           /\ s \in Seq(E) /\ len = Len(s) /\ DOMAIN s = 1 .. len /\ Range(s) \subseteq E
           /\ \A i \in 1 .. len : s[i] \in E /\ s[i] \in Range(s)
           /\ len = 0 <=> s = << >>
  BY WholeFacts
<1>2. DOMAIN r.hh = F /\ NumBuckets(r) = n
  BY <1>1, TableFacts
<1>3. s \in Seq(F)
  <2>1. s \in Seq(Range(s))
    <3>1. \A i \in 1 .. len : s[i] \in Range(s)
      BY <1>1
    <3>2. s = [i \in 1 .. len |-> s[i]]
      <4>1. s \in [1 .. Len(s) -> E]
        BY <1>1, LenProperties
      <4>2. QED BY <1>1, <4>1
    <3>3. [i \in 1 .. len |-> s[i]] \in Seq(Range(s))
      BY <3>1
    <3>4. QED BY <3>2, <3>3
  <2>2. QED BY <2>1, SeqMonotonic
<1>4. Doubly(r, s, "prev", "next")
  BY <1>1 DEF Whole, Doubly
<1>5. ASSUME NEW b \in 0 .. n - 1 PROVE IsChain(r, s, b, chains[b])
  <2>1. PICK c : c = chains[b]
    OBVIOUS
  <2>2. IsChain(t, s, b, c)
    BY <1>1, <2>1 DEF Whole
  <2>3. DOMAIN c = 1 .. Len(c) /\ \A i \in 1 .. Len(c) : c[i] \in Range(s)
    BY <2>2, ChainFacts
  <2>4. Doubly(r, c, "hh_prev", "hh_next")
    BY <2>2, <2>3 DEF IsChain, Doubly
  <2>5. \A x \in Range(s) : BucketWith(r, x) = BucketWith(t, x)
    BY <1>1, <1>2 DEF BucketWith
  <2>6. IsChain(r, s, b, c)
    BY <2>2, <2>4, <2>5 DEF IsChain
  <2>7. QED BY <2>1, <2>6
<1>6. /\ r.head = t.head /\ r.tail = t.tail /\ r.num_items = t.num_items /\ r.mem = t.mem
  BY DEF SameTable
<1>7. QED BY <1>1, <1>2, <1>3, <1>4, <1>5, <1>6 DEF Whole

LEMMA WithHandleWhole ==
  ASSUME NEW t, NEW s, NEW chains, Whole(t, s, chains), NEW e \in Nat \ {0}, e \notin Range(s),
         NEW key \in DOMAIN HASH_FUNCTION, NEW r, r = WithHandle(t, e, key)
  PROVE  /\ Whole(r, s, chains) /\ SameTable(r, t) /\ r.buckets = t.buckets
         /\ DOMAIN r.hh = DOMAIN t.hh \cup {e} /\ \A x \in DOMAIN t.hh : x # e => r.hh[x] = t.hh[x]
<1>1. PICK E \in SUBSET (Nat \ {0}), n \in Nat, len \in Nat :
           /\ t \in TableOf(E, n) /\ E = DOMAIN t.hh /\ n = NumBuckets(t)
           /\ IsFiniteSet(E) /\ 0 \notin E /\ NULL \notin E
           /\ s \in Seq(E) /\ len = Len(s) /\ DOMAIN s = 1 .. len /\ Range(s) \subseteq E
           /\ \A i \in 1 .. len : s[i] \in E /\ s[i] \in Range(s)
           /\ len = 0 <=> s = << >>
  BY WholeFacts
<1>2. PICK F \in SUBSET (Nat \ {0}) : F = E \cup {e}
  OBVIOUS
<1>3. IsFiniteSet(F) /\ Range(s) \subseteq F
  BY <1>1, <1>2, FS_AddElement
<1>4. /\ r \in TableOf(F, n) /\ SameTable(r, t) /\ r.buckets = t.buckets
      /\ \A x \in E : x # e => r.hh[x] = t.hh[x]
      /\ NewHandle(r.hh[e], key)
  <2>1. t \in TableOf(E, n)
    BY <1>1
  <2>2. QED BY <1>2, <2>1, WithHandleFacts
<1>5. \A x \in F : r.hh[x].hashv = HASH_FUNCTION[r.hh[x].key]
  <2>1. \A x \in E : t.hh[x].hashv = HASH_FUNCTION[t.hh[x].key]
    BY <1>1 DEF Whole
  <2>2. QED BY <1>2, <1>4, <2>1 DEF NewHandle
<1>6. \A x \in Range(s) : r.hh[x] = t.hh[x]
  BY <1>1, <1>4
<1>7. Whole(r, s, chains)
  <2>1. r \in TableOf(F, NumBuckets(t))
    BY <1>1, <1>4
  <2>2. QED BY <1>3, <1>4, <1>5, <1>6, <2>1, OtherHandlesWhole
<1>8. DOMAIN r.hh = F
  BY <1>1, <1>4, TableFacts
<1>9. QED BY <1>1, <1>2, <1>4, <1>7, <1>8

LEMMA WithoutHandleWhole ==
  ASSUME NEW t, NEW s, NEW chains, Whole(t, s, chains), NEW e, e \notin Range(s),
         NEW r, r = WithoutHandle(t, e)
  PROVE  /\ Whole(r, s, chains) /\ SameTable(r, t) /\ r.buckets = t.buckets
         /\ DOMAIN r.hh = DOMAIN t.hh \ {e} /\ \A x \in DOMAIN t.hh : x # e => r.hh[x] = t.hh[x]
<1>1. PICK E \in SUBSET (Nat \ {0}), n \in Nat, len \in Nat :
           /\ t \in TableOf(E, n) /\ E = DOMAIN t.hh /\ n = NumBuckets(t)
           /\ IsFiniteSet(E) /\ 0 \notin E /\ NULL \notin E
           /\ s \in Seq(E) /\ len = Len(s) /\ DOMAIN s = 1 .. len /\ Range(s) \subseteq E
           /\ \A i \in 1 .. len : s[i] \in E /\ s[i] \in Range(s)
           /\ len = 0 <=> s = << >>
  BY WholeFacts
<1>2. PICK F \in SUBSET (Nat \ {0}) : F = E \ {e}
  OBVIOUS
<1>3. IsFiniteSet(F) /\ Range(s) \subseteq F
  BY <1>1, <1>2, FS_RemoveElement
<1>4. /\ r \in TableOf(F, n) /\ SameTable(r, t) /\ r.buckets = t.buckets
      /\ \A x \in F : r.hh[x] = t.hh[x]
  <2>1. t \in TableOf(E, n)
    BY <1>1
  <2>2. QED BY <1>2, <2>1, WithoutHandleFacts
<1>5. \A x \in F : r.hh[x].hashv = HASH_FUNCTION[r.hh[x].key]
  <2>1. \A x \in E : t.hh[x].hashv = HASH_FUNCTION[t.hh[x].key]
    BY <1>1 DEF Whole
  <2>2. QED BY <1>2, <1>4, <2>1
<1>6. \A x \in Range(s) : r.hh[x] = t.hh[x]
  BY <1>3, <1>4
<1>7. Whole(r, s, chains)
  <2>1. r \in TableOf(F, NumBuckets(t))
    BY <1>1, <1>4
  <2>2. QED BY <1>3, <1>4, <1>5, <1>6, <2>1, OtherHandlesWhole
<1>8. DOMAIN r.hh = F
  BY <1>1, <1>4, TableFacts
<1>9. QED BY <1>1, <1>2, <1>4, <1>7, <1>8

------------------------------------------------------------------------------
(* What HASH_FSCK and HASH_FIND say of a whole table.                      *)

\* A sequence without repetitions has as many elements as places.
LEMMA RangeSize ==
  ASSUME NEW S, NEW s \in Seq(S), IsInjective(s)
  PROVE  IsFiniteSet(Range(s)) /\ Cardinality(Range(s)) = Len(s)
<1>1. Len(s) \in Nat /\ DOMAIN s = 1 .. Len(s) /\ s \in [1 .. Len(s) -> Range(s)]
  <2>1. Len(s) \in Nat /\ s \in [1 .. Len(s) -> S]
    BY LenProperties
  <2>2. QED BY <2>1 DEF Range
<1>2. s \in Bijection(1 .. Len(s), Range(s))
  BY <1>1 DEF Bijection, Injection, Surjection, IsInjective, Range
<1>3. ExistsBijection(1 .. Len(s), Range(s))
  BY <1>2 DEF ExistsBijection
<1>4. IsFiniteSet(1 .. Len(s)) /\ Cardinality(1 .. Len(s)) = Len(s)
  BY <1>1, CountToN
<1>5. QED BY <1>3, <1>4, FS_Bijection

\* length[b] elements of S are in b; sum adds the lengths up.
Measures(length, in, S, n) ==
  \A b \in 0 .. n - 1 : length[b] = Cardinality({e \in S : in[e] = b})
Adds(sum, length, n) ==
  \A k \in 0 .. n : sum[k] = IF k = 0 THEN 0 ELSE sum[k - 1] + length[k - 1]

\* The lengths of the chains add up to the number of elements.
LEMMA ChainsHoldAll ==
  ASSUME NEW n \in Nat \ {0}, NEW S, IsFiniteSet(S), NEW in \in [S -> 0 .. n - 1],
         NEW length, Measures(length, in, S, n), NEW sum, Adds(sum, length, n)
  PROVE  sum[n] = Cardinality(S)
<1> DEFINE Part(k) == {e \in S : in[e] < k}
<1>1. \A k \in 0 .. n : IsFiniteSet(Part(k)) /\ Cardinality(Part(k)) \in Nat
  <2>1. \A k \in 0 .. n : Part(k) \in SUBSET S
    OBVIOUS
  <2>2. QED BY <2>1, FS_Subset, FS_CardinalityType
<1>2. sum[0] = Cardinality(Part(0))
  <2>1. Part(0) = {}
    OBVIOUS
  <2>2. sum[0] = 0
    BY DEF Adds
  <2>3. QED BY <2>1, <2>2, FS_EmptySet
<1>3. ASSUME NEW k \in 1 .. n, sum[k - 1] = Cardinality(Part(k - 1))
      PROVE  sum[k] = Cardinality(Part(k))
  <2>1. PICK T : T = {e \in S : in[e] = k - 1}
    OBVIOUS
  <2>2. T \in SUBSET S /\ IsFiniteSet(T)
    <3>1. T \in SUBSET S
      BY <2>1
    <3>2. QED BY <3>1, FS_Subset
  <2>3. PICK P : P = Part(k - 1)
    OBVIOUS
  <2>4. k - 1 \in 0 .. n /\ k - 1 \in 0 .. n - 1
    OBVIOUS
  <2>5. IsFiniteSet(P)
    BY <1>1, <2>3, <2>4
  <2>6. Part(k) = P \cup T /\ P \cap T = {}
    BY <2>1, <2>3
  <2>7. Cardinality(P \cup T) = Cardinality(P) + Cardinality(T) - Cardinality(P \cap T)
    BY <2>2, <2>5, FS_Union
  <2>8. Cardinality(P \cap T) = 0
    BY <2>6, FS_EmptySet
  <2>9. Cardinality(P) \in Nat /\ Cardinality(T) \in Nat
    BY <2>2, <2>5, FS_CardinalityType
  <2>10. Cardinality(Part(k)) = Cardinality(P) + Cardinality(T)
    <3>1. PICK a \in Nat, b \in Nat : a = Cardinality(P) /\ b = Cardinality(T)
      BY <2>9
    <3>2. Cardinality(P \cup T) = a + b
      BY <2>7, <2>8, <3>1
    <3>3. Part(k) = P \cup T
      BY <2>6
    <3>4. Cardinality(Part(k)) = Cardinality(P \cup T)
      BY ONLY <3>3
    <3>5. QED BY <3>1, <3>2, <3>4
  <2>11. sum[k] = sum[k - 1] + length[k - 1]
    <3>1. k \in 0 .. n /\ k # 0
      OBVIOUS
    <3>2. QED BY <3>1 DEF Adds
  <2>12. length[k - 1] = Cardinality(T)
    BY <2>1, <2>4 DEF Measures
  <2>13. QED BY <1>3, <2>3, <2>10, <2>11, <2>12
<1>4. sum[n] = Cardinality(Part(n))
  <2>1. PICK bad : bad = {k \in 0 .. n : sum[k] # Cardinality(Part(k))}
    OBVIOUS
  <2>2. ASSUME NEW k \in bad, \A j \in bad : k <= j PROVE FALSE
    <3>1. k \in 0 .. n /\ sum[k] # Cardinality(Part(k))
      BY <2>1
    <3>2. k \in 1 .. n /\ k - 1 \in 0 .. n
      <4>1. k # 0
        BY <1>2, <3>1
      <4>2. QED BY <3>1, <4>1
    <3>3. k - 1 \notin bad
      BY <2>2, <3>1
    <3>4. sum[k - 1] = Cardinality(Part(k - 1))
      BY <2>1, <3>2, <3>3
    <3>5. QED BY <1>3, <3>1, <3>2, <3>4
  <2>3. bad \subseteq Nat
    BY <2>1
  <2>4. bad = {}
    BY <2>2, <2>3, LeastExists
  <2>5. n \in 0 .. n
    OBVIOUS
  <2>6. QED BY <2>1, <2>4, <2>5
<1>5. Part(n) = S
  OBVIOUS
<1>6. QED BY <1>4, <1>5

\* A table that is whole passes HASH_FSCK.
THEOREM FsckOfWhole ==
  ASSUME NEW t, NEW s, NEW chains, Whole(t, s, chains)
  PROVE  HashFsck(t)
<1>1. PICK E \in SUBSET (Nat \ {0}), n \in Nat, len \in Nat :
           /\ t \in TableOf(E, n) /\ E = DOMAIN t.hh /\ n = NumBuckets(t)
           /\ IsFiniteSet(E) /\ 0 \notin E /\ NULL \notin E
           /\ s \in Seq(E) /\ len = Len(s) /\ DOMAIN s = 1 .. len /\ Range(s) \subseteq E
           /\ \A i \in 1 .. len : s[i] \in E /\ s[i] \in Range(s)
           /\ len = 0 <=> s = << >>
  BY WholeFacts
<1>2. AppOrder(t) = s /\ \A b \in 0 .. n - 1 : Chain(t, b) = chains[b]
  BY <1>1, WalksOfWhole
<1>3. DOMAIN t.buckets = 0 .. n - 1
  BY <1>1, TableFacts
<1>4. \A b \in 0 .. n - 1 : IsChain(t, s, b, chains[b])
  BY <1>1 DEF Whole
<1>5. ASSUME NEW b \in 0 .. n - 1
      PROVE  /\ t.buckets[b].count = Len(chains[b])
             /\ \A i \in DOMAIN chains[b] :
                  t.hh[chains[b][i]].hh_prev = IF i = 1 THEN NULL ELSE chains[b][i - 1]
  BY <1>4 DEF IsChain, Doubly, Before
<1>6. \A i \in DOMAIN s : t.hh[s[i]].prev = IF i = 1 THEN NULL ELSE s[i - 1]
  BY DEF Whole, Doubly, Before
<1> DEFINE Rec(g) == [k \in 0 .. NumBuckets(t) |->
                        IF k = 0 THEN 0 ELSE g[k - 1] + Len(Chain(t, k - 1))]
<1>7. PICK r : r = CHOOSE g : g = Rec(g)
  OBVIOUS
<1>8. \A b \in 0 .. n - 1 : Len(chains[b]) \in Nat
  BY <1>4, ChainFacts
<1>9. r = Rec(r)
  <2>1. PICK step : step = [k \in 1 .. n |-> [v \in Nat |-> v + Len(Chain(t, k - 1))]]
    OBVIOUS
  <2>2. step \in [1 .. n -> [Nat -> Nat]]
    <3>1. ASSUME NEW k \in 1 .. n PROVE Len(Chain(t, k - 1)) \in Nat
      <4>1. k - 1 \in 0 .. n - 1
        OBVIOUS
      <4>2. QED BY <1>2, <1>8, <4>1
    <3>2. QED BY <2>1, <3>1
  <2>3. PICK f \in [0 .. n -> Nat] : f[0] = 0 /\ \A k \in 1 .. n : f[k] = step[k][f[k - 1]]
    <3>1. PICK f : Follows(f, n, 0, step, Nat)
      BY <2>2, RecursionExists
    <3>2. QED BY <3>1 DEF Follows
  <2>4. f = Rec(f)
    <3>1. ASSUME NEW k \in 0 .. n
          PROVE  f[k] = IF k = 0 THEN 0 ELSE f[k - 1] + Len(Chain(t, k - 1))
      <4>1. CASE k = 0
        BY <2>3, <4>1
      <4>2. CASE k # 0
        <5>1. k \in 1 .. n /\ f[k - 1] \in Nat
          BY <4>2
        <5>2. f[k] = step[k][f[k - 1]]
          BY <2>3, <5>1
        <5>3. QED BY <2>1, <4>2, <5>1, <5>2
      <4>3. QED BY <4>1, <4>2
    <3>2. f = [k \in 0 .. n |-> f[k]]
      OBVIOUS
    <3>3. f = [k \in 0 .. n |-> IF k = 0 THEN 0 ELSE f[k - 1] + Len(Chain(t, k - 1))]
      BY <3>1, <3>2
    <3>4. QED BY <1>1, <3>3
  <2>5. QED BY <1>7, <2>4
<1>10. ASSUME t.head # NULL PROVE r[n] = len
  <2>1. s # << >> /\ n \in Nat \ {0}
    BY <1>1, <1>10 DEF Whole, FirstOf
  <2>2. PICK S : S = Range(s)
    OBVIOUS
  <2>3. IsFiniteSet(S) /\ Cardinality(S) = len
    <3>1. IsInjective(s)
      BY DEF Whole
    <3>2. QED BY <1>1, <2>2, <3>1, RangeSize
  <2>4. PICK in : in = [e \in S |-> BucketWith(t, e)]
    OBVIOUS
  <2>5. in \in [S -> 0 .. n - 1]
    <3>1. ASSUME NEW e \in S PROVE BucketWith(t, e) \in 0 .. n - 1
      <4>1. e \in E /\ t.hh[e] \in Handle
        BY <1>1, <2>2, TableFacts
      <4>2. t.hh[e].hashv \in Nat
        BY <4>1 DEF Handle
      <4>3. QED BY <1>1, <2>1, <4>2 DEF BucketWith, BucketOf
    <3>2. QED BY <2>4, <3>1
  <2>6. PICK length : length = [b \in 0 .. n - 1 |-> Len(chains[b])]
    OBVIOUS
  <2>7. ASSUME NEW b \in 0 .. n - 1 PROVE length[b] = Cardinality({e \in S : in[e] = b})
    <3>1. IsChain(t, s, b, chains[b])
      BY <1>4
    <3>2. PICK c : c = chains[b]
      OBVIOUS
    <3>3. c \in Seq(S) /\ IsInjective(c) /\ \A e \in S : e \in Range(c) <=> BucketWith(t, e) = b
      BY <2>2, <3>1, <3>2 DEF IsChain
    <3>4. Range(c) \subseteq S
      BY <3>3, RangeOfSeq
    <3>5. Range(c) = {e \in S : in[e] = b}
      BY <2>4, <3>3, <3>4
    <3>6. Cardinality(Range(c)) = Len(c)
      BY <3>3, RangeSize
    <3>7. QED BY <2>6, <3>2, <3>5, <3>6
  <2>8. Measures(length, in, S, n)
    BY <2>7 DEF Measures
  <2>9. Adds(r, length, n)
    <3>1. ASSUME NEW k \in 0 .. n
          PROVE  r[k] = IF k = 0 THEN 0 ELSE r[k - 1] + length[k - 1]
      <4>1. r[k] = IF k = 0 THEN 0 ELSE r[k - 1] + Len(Chain(t, k - 1))
        BY <1>1, <1>9
      <4>2. k # 0 => k - 1 \in 0 .. n - 1
        OBVIOUS
      <4>3. k # 0 => Len(Chain(t, k - 1)) = length[k - 1]
        BY <1>2, <2>6, <4>2
      <4>4. QED BY <4>1, <4>3
    <3>2. QED BY <3>1 DEF Adds
  <2>10. r[n] = Cardinality(S)
    BY <2>1, <2>3, <2>5, <2>8, <2>9, ChainsHoldAll
  <2>11. QED BY <2>3, <2>10
<1>11. t.num_items = len
  BY <1>1 DEF Whole
<1>12. \A b \in DOMAIN t.buckets :
         /\ \A i \in DOMAIN Chain(t, b) :
              t.hh[Chain(t, b)[i]].hh_prev = IF i = 1 THEN NULL ELSE Chain(t, b)[i - 1]
         /\ t.buckets[b].count = Len(Chain(t, b))
  BY <1>2, <1>3, <1>5
<1>13. /\ \A i \in DOMAIN AppOrder(t) :
            t.hh[AppOrder(t)[i]].prev = IF i = 1 THEN NULL ELSE AppOrder(t)[i - 1]
       /\ Len(AppOrder(t)) = t.num_items
  BY <1>1, <1>2, <1>6, <1>11
<1>14. t.head # NULL => (CHOOSE g : g = Rec(g))[NumBuckets(t)] = t.num_items
  BY <1>1, <1>7, <1>10, <1>11
<1>15. QED BY <1>12, <1>13, <1>14 DEF HashFsck

\* The first of some positions of a chain.
LEMMA FirstAtFacts ==
  ASSUME NEW c, NEW hits \in SUBSET Nat, hits # {}
  PROVE  \E i \in hits : FirstAt(c, hits) = c[i]
<1>1. \E i \in hits : \A j \in hits : i <= j
  BY LeastExists
<1>2. QED BY <1>1 DEF FirstAt

\* What HASH_FIND finds in a whole table.
IsFound(x, t, s, key) ==
  \/ x = NULL /\ \A e \in Range(s) : t.hh[e].key # key
  \/ x \in Range(s) /\ t.hh[x].key = key

\* HASH_FIND in a whole table finds an element with the key, and nothing if
\* no element has it.
THEOREM HashFindOfWhole ==
  ASSUME NEW t, NEW s, NEW chains, Whole(t, s, chains), NEW key \in DOMAIN HASH_FUNCTION,
         NEW x, x = HashFind(t, key)
  PROVE  IsFound(x, t, s, key)
<1>1. PICK E \in SUBSET (Nat \ {0}), n \in Nat, len \in Nat :
           /\ t \in TableOf(E, n) /\ E = DOMAIN t.hh /\ n = NumBuckets(t)
           /\ IsFiniteSet(E) /\ 0 \notin E /\ NULL \notin E
           /\ s \in Seq(E) /\ len = Len(s) /\ DOMAIN s = 1 .. len /\ Range(s) \subseteq E
           /\ \A i \in 1 .. len : s[i] \in E /\ s[i] \in Range(s)
           /\ len = 0 <=> s = << >>
  BY WholeFacts
<1>2. CASE t.head = NULL
  <2>1. x = NULL
    BY <1>2 DEF HashFind
  <2>2. len = 0
    <3>1. len # 0 => 1 \in 1 .. len
      OBVIOUS
    <3>2. t.head = FirstOf(s)
      BY DEF Whole
    <3>3. QED BY <1>1, <1>2, <3>1, <3>2 DEF FirstOf
  <2>3. Range(s) = {}
    BY <1>1, <2>2 DEF Range
  <2>4. QED BY <2>1, <2>3 DEF IsFound
<1>3. CASE t.head # NULL
  <2>1. n \in Nat \ {0}
    BY <1>1, <1>3 DEF Whole, FirstOf
  <2>2. HASH_FUNCTION[key] \in Nat
    BY HashAssumption
  <2>3. PICK b \in 0 .. n - 1 : b = BucketOf(HASH_FUNCTION[key], n)
    BY <2>1, <2>2 DEF BucketOf
  <2>4. PICK c : c = Chain(t, b)
    OBVIOUS
  <2>5. IsChain(t, s, b, c)
    <3>1. c = chains[b]
      BY <1>1, <2>3, <2>4, WalksOfWhole
    <3>2. QED BY <1>1, <2>3, <3>1 DEF Whole
  <2>6. PICK hits : hits = {i \in DOMAIN c : t.hh[c[i]].key = key}
    OBVIOUS
  <2>7. x = FirstAt(c, hits)
    BY <1>1, <1>3, <2>3, <2>4, <2>6 DEF HashFind
  <2>8. DOMAIN c = 1 .. Len(c) /\ Len(c) \in Nat /\ \A i \in 1 .. Len(c) : c[i] \in Range(s)
    BY <2>5, ChainFacts
  <2>9. CASE hits = {}
    <3>1. x = NULL
      BY <2>7, <2>9 DEF FirstAt
    <3>2. ASSUME NEW e \in Range(s), t.hh[e].key = key PROVE FALSE
      <4>1. e \in E /\ t.hh[e].hashv = HASH_FUNCTION[key]
        BY <1>1, <3>2 DEF Whole
      <4>2. BucketWith(t, e) = b
        BY <1>1, <2>3, <4>1 DEF BucketWith
      <4>3. e \in Range(c)
        BY <2>5, <4>2 DEF IsChain
      <4>4. PICK i \in DOMAIN c : c[i] = e
        BY <4>3 DEF Range
      <4>5. QED BY <2>6, <2>9, <3>2, <4>4
    <3>3. QED BY <3>1, <3>2 DEF IsFound
  <2>10. CASE hits # {}
    <3>1. hits \in SUBSET Nat
      BY <2>6, <2>8
    <3>2. PICK i \in hits : x = c[i]
      BY <2>7, <2>10, <3>1, FirstAtFacts
    <3>3. QED BY <2>6, <2>8, <3>2 DEF IsFound
  <2>11. QED BY <2>9, <2>10
<1>4. QED BY <1>2, <1>3

------------------------------------------------------------------------------
(* The lengths of the chains.                                              *)

\* The bound on chains, and that before the addition that expands the table.
Bound(mult, count, items, n) ==
  \/ count < (mult + 1) * HASH_BKT_CAPACITY_THRESH
  \/ count <= (mult + 1) * IdealLength(items, n)
ChainsShort(t) ==
  \A b \in 0 .. NumBuckets(t) - 1 :
    t.noexpand \/ Bound(t.buckets[b].expand_mult, t.buckets[b].count, t.num_items, NumBuckets(t))
ChainsWereShort(t, e) ==
  \A b \in 0 .. NumBuckets(t) - 1 :
    Bound(t.buckets[b].expand_mult,
          IF b = BucketWith(t, e) THEN t.buckets[b].count - 1 ELSE t.buckets[b].count,
          t.num_items - 1, NumBuckets(t))
IsExpanding(t, e) ==
  /\ ChainsWereShort(t, e)
  /\ t.buckets[BucketWith(t, e)].hh_head = e
  /\ t.buckets[BucketWith(t, e)].count >= 2

\* One more element in another bucket does not break the bound.
LEMMA BoundGrows ==
  ASSUME NEW mult \in Nat, NEW count \in Int, NEW items \in Nat, NEW n \in Nat \ {0},
         Bound(mult, count, items, n)
  PROVE  Bound(mult, count, items + 1, n)
<1>1. PICK i \in Nat, j \in Nat :
        i = IdealLength(items, n) /\ j = IdealLength(items + 1, n) /\ i <= j
  BY IdealLengthGrows
<1>2. (mult + 1) * i <= (mult + 1) * j
  <2>1. PICK d \in Nat : j = i + d
    <3>1. j - i \in Nat /\ j = i + (j - i)
      BY <1>1
    <3>2. QED BY <3>1
  <2>2. (mult + 1) * (i + d) = (mult + 1) * i + (mult + 1) * d
    OBVIOUS
  <2>3. (mult + 1) * d \in Nat /\ (mult + 1) * i \in Nat
    OBVIOUS
  <2>4. PICK p \in Nat, q \in Nat : p = (mult + 1) * i /\ q = (mult + 1) * d
    BY <2>3
  <2>5. QED BY <2>1, <2>2, <2>4
<1>3. PICK p \in Nat, q \in Nat : p = (mult + 1) * i /\ q = (mult + 1) * j
  OBVIOUS
<1>4. QED BY <1>1, <1>2, <1>3 DEF Bound

\* An addition that asks for no expansion leaves short chains short; one
\* that does finds them short, and the element at the head of its chain.
LEMMA AddedShort ==
  ASSUME NEW t, NEW s, NEW chains, Whole(t, s, chains), ChainsShort(t),
         NEW r, NEW u, NEW cs, Whole(r, u, cs), Len(u) = Len(s) + 1,
         NEW e, NEW key, NEW n, NEW b, IsAdded(r, t, s, e, key, n, b)
  PROVE  /\ ~Full(r, BucketWith(r, e)) => ChainsShort(r)
         /\ Full(r, BucketWith(r, e)) => IsExpanding(r, e) /\ s # << >>
<1>1. PICK E \in SUBSET (Nat \ {0}), m \in Nat, len \in Nat :
           /\ t \in TableOf(E, m) /\ E = DOMAIN t.hh /\ m = NumBuckets(t)
           /\ IsFiniteSet(E) /\ 0 \notin E /\ NULL \notin E
           /\ s \in Seq(E) /\ len = Len(s) /\ DOMAIN s = 1 .. len /\ Range(s) \subseteq E
           /\ \A i \in 1 .. len : s[i] \in E /\ s[i] \in Range(s)
           /\ len = 0 <=> s = << >>
  BY WholeFacts
<1>2. n \in Nat \ {0} /\ NumBuckets(r) = n /\ b \in 0 .. n - 1 /\ BucketWith(r, e) = b
      /\ r.buckets[b].hh_head = e /\ r.noexpand = t.noexpand
  BY DEF IsAdded
<1>3. r.num_items = len + 1 /\ t.num_items = len
  BY <1>1 DEF Whole
<1>4. \A k \in 0 .. n - 1 : r.buckets[k].count \in Int /\ r.buckets[k].expand_mult \in Nat
  <2>1. r \in TableOf(DOMAIN r.hh, n)
    BY <1>2 DEF Whole
  <2>2. \A k \in 0 .. n - 1 : r.buckets[k] \in Bucket
    BY <1>2, <2>1, TableFacts
  <2>3. QED BY <2>2 DEF Bucket
<1>5. r.noexpand \in BOOLEAN
  <2>1. r \in TableOf(DOMAIN r.hh, n)
    BY <1>2 DEF Whole
  <2>2. QED BY <2>1 DEF TableOf
<1>6. PICK T \in Nat \ {0, 1} : T = HASH_BKT_CAPACITY_THRESH
  BY ThresholdAssumption
<1> DEFINE old(k) == IF k = b THEN r.buckets[k].count - 1 ELSE r.buckets[k].count
           mult(k) == r.buckets[k].expand_mult
<1>7. \A k \in 0 .. n - 1 : old(k) \in Int /\ mult(k) \in Nat
  BY <1>4
<1>8. ASSUME NEW k \in 0 .. n - 1 PROVE r.noexpand \/ Bound(mult(k), old(k), len, n)
  <2>1. CASE s = << >>
    <3>1. r.buckets[k].expand_mult = EmptyBucket.expand_mult
          /\ r.buckets[k].count = IF k = b THEN EmptyBucket.count + 1 ELSE EmptyBucket.count
      BY <2>1 DEF IsAdded
    <3>2. mult(k) = 0 /\ old(k) = 0
      BY <3>1 DEF EmptyBucket
    <3>3. 0 < (0 + 1) * T
      OBVIOUS
    <3>4. QED BY <1>6, <3>2, <3>3 DEF Bound
  <2>2. CASE s # << >>
    <3>1. n = m /\ r.buckets[k].expand_mult = t.buckets[k].expand_mult
          /\ r.buckets[k].count = IF k = b THEN t.buckets[k].count + 1 ELSE t.buckets[k].count
      BY <1>1, <2>2 DEF IsAdded
    <3>2. t.buckets[k] \in Bucket
      BY <1>1, <3>1, TableFacts
    <3>3. t.buckets[k].count \in Int
      BY <3>2 DEF Bucket
    <3>4. mult(k) = t.buckets[k].expand_mult /\ old(k) = t.buckets[k].count
      BY <3>1, <3>3
    <3>5. t.noexpand \/ Bound(t.buckets[k].expand_mult, t.buckets[k].count, len, n)
      BY <1>1, <1>3, <3>1 DEF ChainsShort
    <3>6. QED BY <1>2, <3>4, <3>5
  <2>3. QED BY <2>1, <2>2
<1>9. PICK own \in Int, p \in Nat :
        own = r.buckets[b].count /\ p = (mult(b) + 1) * HASH_BKT_CAPACITY_THRESH
  <2>1. (mult(b) + 1) * T \in Nat
    BY <1>2, <1>7
  <2>2. QED BY <1>2, <1>4, <1>6, <2>1
<1>10. Full(r, b) <=> own >= p /\ ~r.noexpand
  BY <1>9 DEF Full
<1>11. ASSUME ~Full(r, b) PROVE ChainsShort(r)
  <2>1. ASSUME NEW k \in 0 .. n - 1
        PROVE  r.noexpand \/ Bound(mult(k), r.buckets[k].count, len + 1, n)
    <3>1. CASE k = b
      BY <1>5, <1>9, <1>10, <1>11, <3>1 DEF Bound
    <3>2. CASE k # b
      <4>1. r.noexpand \/ Bound(mult(k), old(k), len, n)
        BY <1>8
      <4>2. Bound(mult(k), old(k), len, n) => Bound(mult(k), old(k), len + 1, n)
        BY <1>2, <1>7, BoundGrows
      <4>3. QED BY <3>2, <4>1, <4>2
    <3>3. QED BY <3>1, <3>2
  <2>2. QED BY <1>2, <1>3, <2>1 DEF ChainsShort
<1>12. ASSUME Full(r, b) PROVE IsExpanding(r, e) /\ s # << >>
  <2>1. own >= p /\ ~r.noexpand
    BY <1>10, <1>12
  <2>2. p >= 2
    <3>1. PICK k \in Nat : k = mult(b)
      BY <1>2, <1>7
    <3>2. (k + 1) * T = k * T + T /\ k * T \in Nat
      OBVIOUS
    <3>3. p = (k + 1) * T
      BY <1>6, <1>9, <3>1
    <3>4. PICK q \in Nat : q = k * T
      BY <3>2
    <3>5. QED BY <3>2, <3>3, <3>4
  <2>3. s # << >>
    <3>1. s = << >> => own = 1
      BY <1>2, <1>9 DEF IsAdded, EmptyBucket
    <3>2. QED BY <2>1, <2>2, <3>1
  <2>4. ChainsWereShort(r, e)
    <3>1. len + 1 - 1 = len
      OBVIOUS
    <3>2. QED BY <1>2, <1>3, <1>8, <2>1, <3>1 DEF ChainsWereShort
  <2>5. QED BY <1>2, <1>9, <2>1, <2>2, <2>3, <2>4 DEF IsExpanding
<1>13. QED BY <1>2, <1>11, <1>12

\* A chain is no longer than the table has elements.
LEMMA CountsFew ==
  ASSUME NEW t, NEW s, NEW chains, Whole(t, s, chains), NEW b \in 0 .. NumBuckets(t) - 1
  PROVE  t.buckets[b].count \in Nat /\ t.buckets[b].count <= Len(s)
<1>1. PICK c : c = chains[b]
  OBVIOUS
<1>2. c \in Seq(Range(s)) /\ IsInjective(c) /\ t.buckets[b].count = Len(c)
  BY <1>1 DEF Whole, IsChain
<1>3. IsFiniteSet(Range(s)) /\ Cardinality(Range(s)) = Len(s)
  BY RangeSize DEF Whole
<1>4. QED BY <1>2, <1>3, InjectiveLength

\* An addition taken back leaves the chains as short as it found them.
LEMMA RolledBackShort ==
  ASSUME NEW t, NEW e, IsExpanding(t, e), NEW b, b = BucketWith(t, e), NEW E, NEW n,
         n = NumBuckets(t), NEW r, NumBuckets(r) = n, NEW prev, NEW next,
         IsRolledBack(r, t, E, n, b, e, prev, next)
  PROVE  ChainsShort(r)
<1>1. r.num_items = t.num_items - 1
  BY DEF IsRolledBack
<1>2. ASSUME NEW k \in 0 .. n - 1
      PROVE  Bound(r.buckets[k].expand_mult, r.buckets[k].count, r.num_items, n)
  <2>1. Bound(t.buckets[k].expand_mult,
              IF k = b THEN t.buckets[k].count - 1 ELSE t.buckets[k].count, r.num_items, n)
    BY <1>1 DEF IsExpanding, ChainsWereShort
  <2>2. r.buckets[k].expand_mult = t.buckets[k].expand_mult
        /\ r.buckets[k].count = IF k = b THEN t.buckets[k].count - 1 ELSE t.buckets[k].count
    BY DEF IsRolledBack
  <2>3. QED BY <2>1, <2>2
<1>3. QED BY <1>2 DEF ChainsShort

\* The expansion makes them as short as the elements allow.
LEMMA ExpandedShort ==
  ASSUME NEW t, NEW n, NEW r, IsExpanded(r, t, n)
  PROVE  ChainsShort(r)
BY DEF IsExpanded, ChainsShort, Bound
===============================================================================
