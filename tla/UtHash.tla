------------------------------- MODULE UtHash -------------------------------
(***************************************************************************)
(* The hash table of src/uthash.h, as the library uses it: HASH_FIND,      *)
(* HASH_ADD_KEYPTR and HASH_CLEAR, compiled with HASH_NONFATAL_OOM.        *)
(*                                                                         *)
(* A table is a record.  `head` and `tail` are the ends of the list of all *)
(* elements in the order they were added, `buckets` is the array of        *)
(* buckets, each with a chain of its own, and `hh` holds the links of both *)
(* kinds of the elements, which in C lie inside the elements.  `mem` is    *)
(* the memory the table owes to malloc.  Everything else is a member of    *)
(* UT_hash_table; log2_num_buckets and what only one expansion reads are   *)
(* recomputed where they are used.                                         *)
(*                                                                         *)
(* An addition that needs memory may be refused it: `oom` says so.  The    *)
(* element was linked by then, and has to be taken out again.              *)
(***************************************************************************)
EXTENDS Integers, Sequences, FiniteSets

CONSTANTS
  HASH_INITIAL_NUM_BUCKETS,    \* 32 in the code
  HASH_BKT_CAPACITY_THRESH,    \* 10 in the code
  HASH_FUNCTION                \* the hash values of the keys

ASSUME BucketsAssumption == HASH_INITIAL_NUM_BUCKETS \in Nat \ {0}
\* With a threshold of 1 the only element of a table could start an expansion.
ASSUME ThresholdAssumption == HASH_BKT_CAPACITY_THRESH \in Nat \ {0, 1}
ASSUME HashAssumption == HASH_FUNCTION \in [DOMAIN HASH_FUNCTION -> Nat]

NULL == 0     \* elements are positive numbers

EmptyBucket == [hh_head |-> NULL, count |-> 0, expand_mult |-> 0]
EmptyBuckets(n) == [b \in 0 .. n - 1 |-> EmptyBucket]
NumBuckets(t) == Cardinality(DOMAIN t.buckets)

\* head is NULL and there is no UT_hash_table.
NoTable ==
  [head |-> NULL, tail |-> NULL, buckets |-> EmptyBuckets(0), num_items |-> 0,
   ineff_expands |-> 0, noexpand |-> FALSE, hh |-> << >>, mem |-> {}]

\* The blocks of a table with n buckets.
TableMemory(n) == {<<"tbl", 0>>, <<"buckets", n>>}

\* HASH_TO_BKT, the number of buckets being a power of two.
BucketOf(hashv, n) == hashv % n

\* The bucket that element e lies in.
BucketWith(t, e) == BucketOf(t.hh[e].hashv, NumBuckets(t))

\* The elements reached from e over one kind of link, and no more of them
\* than there are.
Walk(t, e, link) ==
  LET size == Cardinality(DOMAIN t.hh)
      to == [x \in DOMAIN t.hh \cup {NULL} |-> IF x = NULL THEN NULL ELSE t.hh[x][link]]
      reached[n \in 0 .. size] == IF n = 0 THEN e ELSE to[reached[n - 1]]
      length == Cardinality({n \in 1 .. size : reached[n - 1] # NULL})
  IN  [n \in 1 .. length |-> reached[n - 1]]

Chain(t, b) == Walk(t, t.buckets[b].hh_head, "hh_next")
AppOrder(t) == Walk(t, t.head, "next")

\* x->link = to, where x may be NULL and the code tests for it.
SetLink(t, x, link, to) == IF x = NULL THEN t ELSE [t EXCEPT !.hh[x][link] = to]

------------------------------------------------------------------------------
(* HASH_FIND.                                                              *)

\* The first of the given positions of a chain.
FirstAt(chain, hits) ==
  IF hits = {} THEN NULL ELSE chain[CHOOSE i \in hits : \A j \in hits : i <= j]

\* Mutant of HashFind: keys with one hash value are taken for the same.
HashFindByValue(t, key) ==
  IF t.head = NULL THEN NULL
  ELSE LET chain == Chain(t, BucketOf(HASH_FUNCTION[key], NumBuckets(t)))
       IN  FirstAt(chain, {i \in DOMAIN chain : t.hh[chain[i]].hashv = HASH_FUNCTION[key]})

\* The first element of the chain with this key (and so this hash value).
HashFind(t, key) ==
  IF t.head = NULL THEN NULL
  ELSE LET chain == Chain(t, BucketOf(HASH_FUNCTION[key], NumBuckets(t)))
       IN  FirstAt(chain, {i \in DOMAIN chain : t.hh[chain[i]].key = key})

------------------------------------------------------------------------------
(* Buckets.                                                                *)

\* e becomes the head of the chain of bucket b.
LinkedIn(t, b, e) ==
  LET first == t.buckets[b].hh_head IN
  SetLink([t EXCEPT !.buckets[b].count = @ + 1, !.buckets[b].hh_head = e,
                    !.hh[e].hh_next = first, !.hh[e].hh_prev = NULL],
          first, "hh_prev", e)

\* HASH_DEL_IN_BKT
DelInBkt(t, b, e) ==
  LET prev == t.hh[e].hh_prev
      next == t.hh[e].hh_next
      unheaded == [t EXCEPT !.buckets[b].count = @ - 1,
                            !.buckets[b].hh_head = IF @ = e THEN next ELSE @]
  IN  SetLink(SetLink(unheaded, prev, "hh_next", next), next, "hh_prev", prev)

\* ceil(items / n)
IdealLength(items, n) == items \div n + (IF items % n # 0 THEN 1 ELSE 0)

\* The expand_mult of a bucket that count elements are moved into.
ExpandMult(count, ideal) ==
  LET mult[k \in 0 .. count] ==
        IF k <= ideal THEN 0
        ELSE LET m == mult[k - 1] IN IF k > m * ideal THEN m + 1 ELSE m
  IN  mult[count]

\* The handle of e in a chain that holds it.
InChain(handle, e, chain) ==
  LET i == CHOOSE k \in DOMAIN chain : chain[k] = e IN
  [handle EXCEPT !.hh_prev = IF i = 1 THEN NULL ELSE chain[i - 1],
                 !.hh_next = IF i = Len(chain) THEN NULL ELSE chain[i + 1]]

\* The chain of bucket b of n, whose elements come from the given chain: each
\* is put before those moved earlier.
NewChain(t, n, b, chain) ==
  LET moved[i \in 0 .. Len(chain)] ==
        IF i = 0 THEN << >>
        ELSE IF BucketOf(t.hh[chain[i]].hashv, n) = b THEN <<chain[i]>> \o moved[i - 1]
        ELSE moved[i - 1]
  IN  moved[Len(chain)]

\* The chains of all n buckets that the elements are moved into.
NewChains(t, n) ==
  [b \in 0 .. n - 1 |-> NewChain(t, n, b, Chain(t, b % NumBuckets(t)))]

\* The links and buckets after HASH_EXPAND_BUCKETS, given the new chains.
MovedInto(t, chains) ==
  LET n == 2 * NumBuckets(t)
      ideal == IdealLength(t.num_items, n)
      nonideal == UNION {{b} \X (ideal + 1 .. Len(chains[b])) : b \in 0 .. n - 1}
      ineff == IF Cardinality(nonideal) > t.num_items \div 2 THEN t.ineff_expands + 1 ELSE 0
  IN  [t EXCEPT
         !.hh = [e \in DOMAIN @ |-> InChain(@[e], e, chains[BucketOf(@[e].hashv, n)])],
         !.buckets = [b \in 0 .. n - 1 |->
                        [hh_head |-> IF chains[b] = << >> THEN NULL ELSE chains[b][1],
                         count |-> Len(chains[b]),
                         expand_mult |-> ExpandMult(Len(chains[b]), ideal)]],
         !.ineff_expands = ineff,
         !.noexpand = @ \/ ineff > 1]

\* (TLC evaluates a member of a set once, a definition every time.)
Moved(t) ==
  CHOOSE r \in {MovedInto(t, chains) : chains \in {NewChains(t, 2 * NumBuckets(t))}} : TRUE

\* HASH_EXPAND_BUCKETS, when malloc gives the new buckets.
Expanded(t) ==
  [Moved(t) EXCEPT !.mem = (@ \ TableMemory(NumBuckets(t))) \cup TableMemory(2 * NumBuckets(t))]

\* Mutant of Full: a chain may be one longer before it starts an expansion.
FullPast(t, b) ==
  /\ t.buckets[b].count > (t.buckets[b].expand_mult + 1) * HASH_BKT_CAPACITY_THRESH
  /\ ~t.noexpand

\* Bucket b asks for an expansion.
Full(t, b) ==
  /\ t.buckets[b].count >= (t.buckets[b].expand_mult + 1) * HASH_BKT_CAPACITY_THRESH
  /\ ~t.noexpand

------------------------------------------------------------------------------
(* HASH_DELETE_HH, here for the rollback only.                             *)

\* The table goes with its last element.
Emptied(t) ==
  [NoTable EXCEPT !.hh = t.hh, !.mem = t.mem \ TableMemory(NumBuckets(t))]

Deleted(t, e) ==
  LET prev == t.hh[e].prev
      next == t.hh[e].next
      ends == [t EXCEPT !.tail = IF @ = e THEN prev ELSE @,
                        !.head = IF prev = NULL THEN next ELSE @,
                        !.num_items = @ - 1]
      unlinked == SetLink(SetLink(ends, prev, "next", next), next, "prev", prev)
  IN  IF prev = NULL /\ next = NULL THEN Emptied(t)
      ELSE DelInBkt(unlinked, BucketWith(t, e), e)

\* Mutant of RolledBack: HASH_ROLLBACK_BKT is left out, so that the bucket
\* forgets an element more than it lost.
RolledBackTwice(t, e) == Deleted(DelInBkt(t, BucketWith(t, e), e), e)

\* The expansion found no memory: HASH_DEL_IN_BKT, then HASH_ROLLBACK_BKT,
\* which undoes its count, then HASH_DELETE_HH.
RolledBack(t, e) ==
  LET b == BucketWith(t, e) IN
  Deleted([DelInBkt(t, b, e) EXCEPT !.buckets[b].count = @ + 1,
                                    !.hh[e].hh_next = NULL, !.hh[e].hh_prev = NULL], e)

------------------------------------------------------------------------------
(* HASH_ADD_KEYPTR.                                                        *)

\* The handle of e with its key; calloc has cleared the rest.
WithHandle(t, e, key) ==
  [t EXCEPT !.hh = [x \in DOMAIN @ \cup {e} |->
     IF x = e THEN [prev |-> NULL, next |-> NULL, hh_prev |-> NULL, hh_next |-> NULL,
                    key |-> key, hashv |-> HASH_FUNCTION[key]]
              ELSE @[x]]]

\* HASH_MAKE_TABLE, with e as its head.
MadeTable(t, e) ==
  [t EXCEPT !.head = e, !.tail = e, !.buckets = EmptyBuckets(HASH_INITIAL_NUM_BUCKETS),
            !.mem = @ \cup TableMemory(HASH_INITIAL_NUM_BUCKETS)]

\* HASH_APPEND_LIST
Appended(t, e) ==
  [t EXCEPT !.hh[e].next = NULL, !.hh[e].prev = t.tail, !.hh[t.tail].next = e, !.tail = e]

\* e is put into the list and into its bucket, which may then be Full.
HashAdd(t, e, key) ==
  LET handled == WithHandle(t, e, key)
      listed == IF t.head = NULL THEN MadeTable(handled, e) ELSE Appended(handled, e)
  IN  LinkedIn([listed EXCEPT !.num_items = @ + 1],
               BucketOf(HASH_FUNCTION[key], NumBuckets(listed)), e)

\* HASH_CLEAR
HashClear(t) == IF t.head = NULL THEN t ELSE Emptied(t)

\* free(e): its handle is gone with it.
WithoutHandle(t, e) == [t EXCEPT !.hh = [x \in DOMAIN @ \ {e} |-> @[x]]]

------------------------------------------------------------------------------
(* HASH_FSCK, compiled under HASH_DEBUG only.                              *)

\* Every chain and the list can be walked back, and the counts are right.
HashFsck(t) ==
  LET WalksBack(walk, link) ==
        \A i \in DOMAIN walk : t.hh[walk[i]][link] = (IF i = 1 THEN NULL ELSE walk[i - 1])
      chained[n \in 0 .. NumBuckets(t)] ==
        IF n = 0 THEN 0 ELSE chained[n - 1] + Len(Chain(t, n - 1))
  IN  t.head # NULL =>
        /\ \A b \in DOMAIN t.buckets :
             /\ WalksBack(Chain(t, b), "hh_prev")
             /\ t.buckets[b].count = Len(Chain(t, b))
        /\ chained[NumBuckets(t)] = t.num_items
        /\ WalksBack(AppOrder(t), "prev")
        /\ Len(AppOrder(t)) = t.num_items
=============================================================================
