--------------------------- MODULE ContextHeapProofs ---------------------------
(***************************************************************************)
(* The memory of a context, for all populations, names, hash functions,    *)
(* bucket and slot counts, and however often memory is refused.            *)
(*                                                                         *)
(* IInv is the inductive invariant: the frame of the call under way        *)
(* (FrameOK), what the arrays list (ListsOK), what the tables hold         *)
(* (TablesOK), that names are apart (NamesOK), the lengths of the chains   *)
(* (ChainsOK), and that the heap is exactly what all these own (HeapOK).   *)
(* Most of it speaks about the middle of a call: which array, table or     *)
(* block the object that is being made is in already, or still, at each    *)
(* step and at each error label.  There is one lemma for each action,      *)
(* named <Action>Keeps.                                                    *)
(***************************************************************************)
EXTENDS ContextHeap, UtHashProofs

------------------------------------------------------------------------------
(* The inductive invariant.                                                *)

PointerScope == <<"pointers", 0>>
ArrayScope == <<"arrays", 0>>
ConstructScope == <<"constructs", 0>>
VariableScope == <<"variables", 0>>
FieldsOf(c) == <<"fields", c>>
DimensionsOf(a) == <<"dimensions", a>>
ContextScopes == {PointerScope, ArrayScope, ConstructScope, VariableScope}
TabledScopes == {ConstructScope, VariableScope}

\* What a frame can be, and when.
Making == call.kind \in Kinds
Beginning == call.kind = "context"
Destroying == call.kind = "destroy"
Alive == status \in {"live", "undefined"}

Steps ==
  {"none", "new", "err_mem", "push", "hash", "buckets", "expand", "err_arr", "objects", "fields", "free"}
Frames ==
  [kind : Kinds \cup {"none", "context", "destroy"}, step : Steps, obj : Nat,
   scope : Scopes \cup {<<"none", 0>>}, name : DOMAIN HASH_FUNCTION, at : Nat]

\* A scope, of those in D, that an object of this kind is added to.
ScopeFits(kind, s, D) ==
  /\ s \in D
  /\ kind = "pointer" => s = PointerScope
  /\ kind = "array" => s = ArrayScope
  /\ kind = "construct" => s = ConstructScope
  /\ kind = "variable" => s = VariableScope
  /\ kind = "field" => s \in {"fields"} \X (Nat \ {0})
  /\ kind = "dimension" => s \in {"dimensions"} \X (Nat \ {0})

\* The steps that the calls for an object of a kind have.
StepsOf(kind) ==
  {"push", "err_mem"}
    \cup (IF kind \in {"construct", "array"} THEN {"new"} ELSE {})
    \cup (IF kind \in Named THEN {"hash", "buckets", "expand", "err_arr"} ELSE {})
    \cup (IF kind = "array" THEN {"err_arr"} ELSE {})

FrameOK ==
  /\ status \in {"none", "platform", "live", "undefined"}
  /\ err \in {"MAM_SUCCESS", "MAM_EINVAL", "MAM_ENOMEM"}
  /\ call \in Frames
  /\ \/ call = Idle
     \/ /\ Beginning /\ status = "platform" /\ call.step \in {"new", "err_mem"}
        /\ call.obj = NULL /\ call.scope = Idle.scope /\ call.at \in 1 .. 4
     \/ /\ Making /\ Alive /\ call.step \in StepsOf(call.kind)
        /\ call.obj # NULL /\ ScopeFits(call.kind, call.scope, DOMAIN lists)
     \/ /\ Destroying /\ status = "live" /\ call.step \in {"objects", "fields", "free"}
        /\ call.obj = NULL /\ call.scope = Idle.scope
  /\ call.step \in {"new", "push", "hash", "buckets", "expand"} => err = "MAM_SUCCESS"

\* The object of the call is not in an array yet, or not any longer.
Unlisted ==
  \/ call.step \in {"new", "push", "err_mem"}
  \/ call.step = "err_arr" /\ call.kind = "array"

\* The array of the object of the call.
OwnScope == IF call.kind \in {"construct", "array"} THEN {Own(call.kind, call.obj)} ELSE {}

\* The arrays of all objects that are listed.
OwnedOf(L) ==
  {FieldsOf(c) : c \in Range(L[ConstructScope].elems)}
    \cup {DimensionsOf(a) : a \in Range(L[ArrayScope].elems)}

\* Arrays hold numbers of objects, each in one array and there once.
GoodLists(L) ==
  /\ DOMAIN L \subseteq Scopes
  /\ \A s \in DOMAIN L :
       /\ L[s] \in UtArrayOf(Nat \ {0}) /\ IsInjective(L[s].elems)
       /\ L[s].room # 0 => L[s].n # 0
  /\ \A r, s \in DOMAIN L : r # s => Range(L[r].elems) \cap Range(L[s].elems) = {}

ListsOK ==
  /\ GoodLists(lists)
  /\ status = "none" \/ (status = "platform" /\ call = Idle) => lists = << >> /\ tables = << >>
  /\ Beginning =>
       /\ DOMAIN lists = {<<ContextLists[k], 0>> : k \in 1 .. call.at - 1}
       /\ \A s \in DOMAIN lists : lists[s] = EmptyArray
       /\ tables = [s \in TabledScopes |-> NoTable]
  /\ Alive =>
       /\ ContextScopes \cup OwnedOf(lists) \subseteq DOMAIN lists
       /\ DOMAIN lists \subseteq ContextScopes \cup OwnedOf(lists) \cup OwnScope
  /\ \A s \in OwnScope :
       /\ s \in DOMAIN lists => lists[s].elems = << >>
       /\ call.step = "new" \/ (call.kind = "array" /\ call.step = "err_mem") => s \notin DOMAIN lists
       /\ call.step = "push" \/ (call.kind = "array" /\ call.step = "err_arr") => s \in DOMAIN lists
  /\ Making /\ Unlisted => call.obj \notin Listed
  /\ Making /\ ~Unlisted =>
       lists[call.scope].elems # << >> /\ call.obj = LastOf(lists[call.scope].elems)

\* The elements of the table of a scope; a destruction clears it.
Held(s) ==
  IF (Destroying /\ tables[s].head = NULL) \/ s \notin DOMAIN lists THEN << >>
  ELSE IF s = call.scope /\ call.step \in {"hash", "buckets", "err_arr"} THEN Front(lists[s].elems)
  ELSE lists[s].elems

\* A handle is in the object of the call, which the table does not hold.
Orphans(s) == IF s = call.scope /\ call.step \in {"err_arr", "err_mem"} THEN {call.obj} ELSE {}

ChainsOf(t) == [b \in 0 .. NumBuckets(t) - 1 |-> Chain(t, b)]
IsTable(t, s) == Whole(t, s, ChainsOf(t))

TablesOK ==
  Alive =>
    /\ DOMAIN tables = TabledScopes \cup {FieldsOf(c) : c \in Range(lists[ConstructScope].elems)}
                         \cup (IF call.kind = "construct" THEN OwnScope ELSE {})
    /\ \A s \in DOMAIN tables :
         /\ IsTable(tables[s], Held(s))
         /\ ~Destroying => DOMAIN tables[s].hh \subseteq Range(Held(s)) \cup Orphans(s)

\* No two elements have one name, and none has the name to be given.
NamesApart(t, s) ==
  \A x, y \in Range(s) : t.hh[x].key = t.hh[y].key /\ t.hh[x].key # NoName => x = y
Unnamed(t, s, name) == name = NoName \/ \A x \in Range(s) : t.hh[x].key # name

NamesOK ==
  /\ Alive /\ ~Destroying => \A s \in DOMAIN tables : NamesApart(tables[s], Held(s))
  /\ call.kind \in Named /\ call.step \in {"new", "push", "hash", "buckets"} =>
       Unnamed(tables[call.scope], Held(call.scope), call.name)

\* Chains are short, except in the middle of an expansion.
ChainsOK ==
  Alive =>
    \A s \in DOMAIN tables :
      IF s = call.scope /\ call.step = "expand"
        THEN IsExpanding(tables[s], call.obj) ELSE ChainsShort(tables[s])

\* What the memory consists of.
HeadersOf(D) == {Header(s) : s \in D}
SlotsOf(D) == {Slots(s) : s \in D}
ObjectsOf(I) == {Object(i) : i \in I}
TablesOf(T) == UNION {TableBlocks(s, T[s]) : s \in DOMAIN T}
Roomy(L) == {s \in DOMAIN L : L[s].room # 0}
AllOf(L) == UNION {Range(L[s].elems) : s \in DOMAIN L}

\* The blocks for these arrays, tables and objects, P and C being those of the
\* platform and the context.
Owed(P, C, L, T, O) ==
  P \cup C \cup HeadersOf(DOMAIN L) \cup SlotsOf(Roomy(L)) \cup ObjectsOf(AllOf(L) \cup O) \cup TablesOf(T)

PlatformOwed == IF status = "none" THEN {} ELSE {PlatformBlock}
ContextOwed == IF status = "live" \/ Beginning THEN {ContextBlock} ELSE {}
ObjectOwed == IF Making THEN {call.obj} ELSE {}

\* Half a table, which is not in tables yet.
Spare == IF call.step = "buckets" THEN {NewTbl} ELSE {}

\* All that an object to be destroyed still has; a construct has its table.
Rest(kind, id) ==
  DestroyedBlocks(kind, id)
    \cup IF kind = "constructs" THEN TableBlocks(FieldsOf(id), tables[FieldsOf(id)]) ELSE {}

HeapOK ==
  /\ IsFiniteSet(heap)
  /\ status # "undefined" /\ ~Destroying =>
       heap = Owed(PlatformOwed, ContextOwed, lists, tables, ObjectOwed) \cup Spare
  /\ call.step = "buckets" => tables[call.scope].head = NULL
  /\ Destroying =>
       /\ call.at \in 1 .. Len(DestroyOrder) + 1
       /\ call.step = "free" => call.at = Len(DestroyOrder) + 1
       /\ call.step = "fields" =>
            call.at <= Len(DestroyOrder) /\ ThisKind = "constructs" /\ tables[FieldsOf(ThisId)].mem = {}
       /\ heap = {PlatformBlock, ContextBlock} \cup (UNION {ArrayBlocks(s) : s \in ContextScopes})
                   \cup UNION {Rest(DestroyOrder[i][1], DestroyOrder[i][2]) :
                                 i \in call.at .. Len(DestroyOrder)}

IInv ==
  /\ FrameOK
  /\ ListsOK
  /\ TablesOK
  /\ NamesOK
  /\ ChainsOK
  /\ HeapOK
  /\ ~fault

------------------------------------------------------------------------------
(* The arrays, and what a step does to them.                               *)

LEMMA GoodListsFacts ==
  ASSUME NEW L, GoodLists(L), NEW s \in DOMAIN L
  PROVE  /\ L[s] \in UtArrayOf(Nat \ {0}) /\ L[s].elems \in Seq(Nat \ {0}) /\ IsInjective(L[s].elems)
         /\ L[s].n \in Nat /\ L[s].room \in Nat /\ Len(L[s].elems) \in Nat
         /\ Range(L[s].elems) \subseteq Nat \ {0} /\ Range(L[s].elems) \subseteq AllOf(L)
         /\ s \in Scopes
<1>1. L[s] \in UtArrayOf(Nat \ {0}) /\ IsInjective(L[s].elems) /\ s \in Scopes
  BY DEF GoodLists
<1>2. L[s].elems \in Seq(Nat \ {0}) /\ L[s].n \in Nat /\ L[s].room \in Nat
  BY <1>1 DEF UtArrayOf
<1>3. Len(L[s].elems) \in Nat /\ Range(L[s].elems) \subseteq Nat \ {0}
  BY <1>2, LenProperties, RangeOfSeq
<1>4. Range(L[s].elems) \subseteq AllOf(L)
  BY DEF AllOf
<1>5. QED BY <1>1, <1>2, <1>3, <1>4

\* What can become of one array.
LEMMA PushedArray ==
  ASSUME NEW a \in UtArrayOf(Nat \ {0}), a.room # 0 => a.n # 0, ~PushOverruns(a),
         NEW x \in Nat \ {0}, NEW b, b = PushedBack(a, x)
  PROVE  b \in UtArrayOf(Nat \ {0}) /\ b.elems = Append(a.elems, x) /\ b.room # 0 /\ b.n # 0
<1>1. b \in UtArrayOf(Nat \ {0}) /\ b.elems = Append(a.elems, x)
  BY PushFacts
<1>2. PICK r : r = Reserved(a)
  OBVIOUS
<1>3. r \in UtArrayOf(Nat \ {0}) /\ r.room # 0 /\ r.n # 0
  <2>1. Doubled(a.n) \in Nat \ {0}
    BY FirstSlotsAssumption DEF Doubled, UtArrayOf
  <2>2. Len(a.elems) \in Nat /\ a.room \in Nat
    BY LenProperties DEF UtArrayOf
  <2>3. CASE MustGrow(a)
    <3>1. r = [a EXCEPT !.n = Doubled(a.n), !.room = Doubled(a.n)]
      BY <1>2, <2>3 DEF Reserved
    <3>2. QED BY <2>1, <3>1 DEF UtArrayOf
  <2>4. CASE ~MustGrow(a)
    <3>1. r = a
      BY <1>2, <2>4 DEF Reserved
    <3>2. Len(a.elems) < a.room
      BY <2>2, <2>4 DEF PushOverruns
    <3>3. QED BY <2>2, <3>1, <3>2
  <2>5. QED BY <2>3, <2>4
<1>4. b.room = r.room /\ b.n = r.n
  BY <1>2, <1>3 DEF PushedBack, UtArrayOf
<1>5. QED BY <1>1, <1>3, <1>4

LEMMA RefusedArray ==
  ASSUME NEW a \in UtArrayOf(Nat \ {0}), NEW b, b = ReserveFailed(a)
  PROVE  b \in UtArrayOf(Nat \ {0}) /\ b.elems = a.elems /\ b.room = a.room /\ b.n # 0
<1>1. Doubled(a.n) \in Nat \ {0}
  BY FirstSlotsAssumption DEF Doubled, UtArrayOf
<1>2. QED BY <1>1 DEF ReserveFailed, UtArrayOf

LEMMA PoppedArray ==
  ASSUME NEW a \in UtArrayOf(Nat \ {0}), IsInjective(a.elems), a.elems # << >>,
         NEW b, b = PoppedBack(a)
  PROVE  /\ b \in UtArrayOf(Nat \ {0}) /\ b.elems = Front(a.elems)
         /\ b.room = a.room /\ b.n = a.n
<1>1. PICK q : q = Front(a.elems)
  OBVIOUS
<1>2. q \in Seq(Nat \ {0})
  <2>1. a.elems \in Seq(Nat \ {0})
    BY DEF UtArrayOf
  <2>2. QED BY <1>1, <2>1, FrontFacts DEF IsFront
<1>3. b = [a EXCEPT !.elems = q]
  BY <1>1 DEF PoppedBack, Front, UtArrayOf
<1>4. QED BY <1>1, <1>2, <1>3 DEF UtArrayOf

\* M is L but for the array s, which has the elements of q and is still sound.
Sound(a) == a \in UtArrayOf(Nat \ {0}) /\ IsInjective(a.elems) /\ (a.room # 0 => a.n # 0)
Replaced(L, s, a) == [L EXCEPT ![s] = a]

Fits(a, L, s) ==
  Sound(a) /\ \A r \in DOMAIN L : r # s => Range(a.elems) \cap Range(L[r].elems) = {}
IsReplaced(M, L, s, a) ==
  /\ GoodLists(M) /\ DOMAIN M = DOMAIN L /\ M[s] = a
  /\ \A r \in DOMAIN L : r # s => M[r] = L[r]
  /\ Roomy(M) = {r \in DOMAIN L : (r # s /\ r \in Roomy(L)) \/ (r = s /\ a.room # 0)}
  /\ AllOf(M) = (UNION {Range(L[r].elems) : r \in DOMAIN L \ {s}}) \cup Range(a.elems)

LEMMA ReplacedFacts ==
  ASSUME NEW L, GoodLists(L), NEW s \in DOMAIN L, NEW a, Fits(a, L, s), NEW M, M = Replaced(L, s, a)
  PROVE  IsReplaced(M, L, s, a)
<1>1. DOMAIN M = DOMAIN L /\ M[s] = a /\ \A r \in DOMAIN L : r # s => M[r] = L[r]
  BY DEF Replaced
<1>2. GoodLists(M)
  <2>1. DOMAIN M \subseteq Scopes
    BY <1>1 DEF GoodLists
  <2>2. ASSUME NEW r \in DOMAIN M
        PROVE  M[r] \in UtArrayOf(Nat \ {0}) /\ IsInjective(M[r].elems) /\ (M[r].room # 0 => M[r].n # 0)
    <3>1. CASE r = s
      BY <1>1, <3>1 DEF Sound, Fits
    <3>2. CASE r # s
      BY <1>1, <3>2 DEF GoodLists
    <3>3. QED BY <3>1, <3>2
  <2>3. ASSUME NEW r \in DOMAIN M, NEW u \in DOMAIN M, r # u
        PROVE  Range(M[r].elems) \cap Range(M[u].elems) = {}
    <3>1. CASE r = s
      BY <1>1, <2>3, <3>1 DEF Fits
    <3>2. CASE u = s
      BY <1>1, <2>3, <3>2 DEF Fits
    <3>3. CASE r # s /\ u # s
      BY <1>1, <2>3, <3>3 DEF GoodLists
    <3>4. QED BY <3>1, <3>2, <3>3
  <2>4. QED BY <2>1, <2>2, <2>3 DEF GoodLists
<1>3. Roomy(M) = {r \in DOMAIN L : (r # s /\ r \in Roomy(L)) \/ (r = s /\ a.room # 0)}
  BY <1>1 DEF Roomy
<1>4. AllOf(M) = (UNION {Range(L[r].elems) : r \in DOMAIN L \ {s}}) \cup Range(a.elems)
  <2>1. ASSUME NEW x
        PROVE  x \in AllOf(M) <=> x \in Range(a.elems) \/ \E r \in DOMAIN L \ {s} : x \in Range(L[r].elems)
    <3>1. x \in AllOf(M) <=> \E r \in DOMAIN M : x \in Range(M[r].elems)
      BY DEF AllOf
    <3>2. QED BY <1>1, <3>1
  <2>2. QED BY <2>1
<1>5. QED BY <1>1, <1>2, <1>3, <1>4 DEF IsReplaced

\* M is L with x at the end of the array s.
IsPushed(M, L, s, x) ==
  /\ GoodLists(M) /\ DOMAIN M = DOMAIN L
  /\ M[s].elems = Append(L[s].elems, x) /\ M[s].elems # << >> /\ LastOf(M[s].elems) = x
  /\ Front(M[s].elems) = L[s].elems
  /\ Range(M[s].elems) = Range(L[s].elems) \cup {x}
  /\ \A r \in DOMAIN L : r # s => M[r] = L[r]
  /\ Roomy(M) = Roomy(L) \cup {s} /\ AllOf(M) = AllOf(L) \cup {x}

LEMMA PushedLists ==
  ASSUME NEW L, GoodLists(L), NEW s \in DOMAIN L, NEW x \in Nat \ {0}, x \notin AllOf(L),
         ~PushOverruns(L[s]), NEW M, M = [L EXCEPT ![s] = PushedBack(L[s], x)]
  PROVE  IsPushed(M, L, s, x)
<1>1. PICK a, e : a = PushedBack(L[s], x) /\ e = L[s].elems
  OBVIOUS
<1>2. L[s] \in UtArrayOf(Nat \ {0}) /\ e \in Seq(Nat \ {0}) /\ IsInjective(e)
      /\ Range(e) \subseteq AllOf(L) /\ (L[s].room # 0 => L[s].n # 0)
  BY <1>1, GoodListsFacts DEF GoodLists
<1>3. a \in UtArrayOf(Nat \ {0}) /\ a.elems = Append(e, x) /\ a.room # 0 /\ a.n # 0
  BY <1>1, <1>2, PushedArray
<1>4. IsAppended(a.elems, e, Nat \ {0}, x)
  BY <1>2, <1>3, AppendOne
<1>5. Sound(a) /\ Range(a.elems) = Range(e) \cup {x} /\ a.elems # << >> /\ LastOf(a.elems) = x
  BY <1>3, <1>4 DEF Sound, IsAppended
<1>6. Front(a.elems) = e
  <2>1. PICK q : q = Front(a.elems)
    OBVIOUS
  <2>2. a.elems \in Seq(Nat \ {0}) /\ IsInjective(a.elems) /\ Len(a.elems) = Len(e) + 1
        /\ \A i \in 1 .. Len(e) : a.elems[i] = e[i]
    BY <1>3, <1>4 DEF IsAppended, UtArrayOf
  <2>3. IsFront(q, a.elems, Nat \ {0})
    BY <1>5, <2>1, <2>2, FrontFacts
  <2>4. Len(e) \in Nat
    BY <1>2, LenProperties
  <2>5. q \in Seq(Nat \ {0}) /\ Len(q) = Len(e) /\ \A i \in 1 .. Len(e) : q[i] = e[i]
    BY <2>2, <2>3, <2>4 DEF IsFront
  <2>6. q = e
    BY <1>2, <2>5, SeqEqual
  <2>7. QED BY <2>1, <2>6
<1>7. \A r \in DOMAIN L : r # s => Range(a.elems) \cap Range(L[r].elems) = {}
  <2>1. ASSUME NEW r \in DOMAIN L, r # s PROVE Range(a.elems) \cap Range(L[r].elems) = {}
    <3>1. Range(e) \cap Range(L[r].elems) = {}
      BY <1>1, <2>1 DEF GoodLists
    <3>2. Range(L[r].elems) \subseteq AllOf(L)
      BY DEF AllOf
    <3>3. QED BY <1>5, <3>1, <3>2
  <2>2. QED BY <2>1
<1>8. M = Replaced(L, s, a)
  BY <1>1 DEF Replaced
<1>9. IsReplaced(M, L, s, a)
  <2>1. Fits(a, L, s)
    BY <1>5, <1>7 DEF Fits
  <2>2. QED BY <1>8, <2>1, ReplacedFacts
<1>10. Roomy(M) = Roomy(L) \cup {s}
  BY <1>3, <1>9 DEF Roomy, IsReplaced
<1>11. AllOf(M) = AllOf(L) \cup {x}
  <2>1. AllOf(L) = (UNION {Range(L[r].elems) : r \in DOMAIN L \ {s}}) \cup Range(e)
    BY <1>1 DEF AllOf
  <2>2. QED BY <1>5, <1>9, <2>1 DEF IsReplaced
<1>12. QED BY <1>1, <1>3, <1>5, <1>6, <1>9, <1>10, <1>11 DEF IsPushed, IsReplaced

\* M is L after a reservation that failed.
IsRefused(M, L) ==
  /\ GoodLists(M) /\ DOMAIN M = DOMAIN L /\ Roomy(M) = Roomy(L) /\ AllOf(M) = AllOf(L)
  /\ \A r \in DOMAIN L : M[r].elems = L[r].elems

LEMMA RefusedLists ==
  ASSUME NEW L, GoodLists(L), NEW s \in DOMAIN L, NEW M, M = [L EXCEPT ![s] = ReserveFailed(L[s])]
  PROVE  IsRefused(M, L)
<1>1. PICK a : a = ReserveFailed(L[s])
  OBVIOUS
<1>2. L[s] \in UtArrayOf(Nat \ {0}) /\ IsInjective(L[s].elems)
  BY DEF GoodLists
<1>3. a \in UtArrayOf(Nat \ {0}) /\ a.elems = L[s].elems /\ a.room = L[s].room /\ a.n # 0
  BY <1>1, <1>2, RefusedArray
<1>4. Sound(a)
  BY <1>2, <1>3 DEF Sound
<1>5. \A r \in DOMAIN L : r # s => Range(a.elems) \cap Range(L[r].elems) = {}
  BY <1>3 DEF GoodLists
<1>6. M = Replaced(L, s, a)
  BY <1>1 DEF Replaced
<1>7. IsReplaced(M, L, s, a)
  <2>1. Fits(a, L, s)
    BY <1>4, <1>5 DEF Fits
  <2>2. QED BY <1>6, <2>1, ReplacedFacts
<1>8. Roomy(M) = Roomy(L)
  BY <1>3, <1>7 DEF Roomy, IsReplaced
<1>9. AllOf(M) = AllOf(L)
  <2>1. AllOf(L) = (UNION {Range(L[r].elems) : r \in DOMAIN L \ {s}}) \cup Range(L[s].elems)
    BY DEF AllOf
  <2>2. QED BY <1>3, <1>7, <2>1 DEF IsReplaced
<1>10. QED BY <1>3, <1>7, <1>8, <1>9 DEF IsRefused, IsReplaced

\* M is L without the last element of the array s.
IsPopped(M, L, s) ==
  /\ GoodLists(M) /\ DOMAIN M = DOMAIN L /\ M[s].elems = Front(L[s].elems)
  /\ Range(M[s].elems) = Range(L[s].elems) \ {LastOf(L[s].elems)}
  /\ \A r \in DOMAIN L : r # s => M[r] = L[r]
  /\ Roomy(M) = Roomy(L) /\ AllOf(M) = AllOf(L) \ {LastOf(L[s].elems)}

LEMMA PoppedLists ==
  ASSUME NEW L, GoodLists(L), NEW s \in DOMAIN L, L[s].elems # << >>,
         NEW M, M = [L EXCEPT ![s] = PoppedBack(L[s])]
  PROVE  IsPopped(M, L, s)
<1>1. PICK a, e : a = PoppedBack(L[s]) /\ e = L[s].elems
  OBVIOUS
<1>2. L[s] \in UtArrayOf(Nat \ {0}) /\ IsInjective(e) /\ (L[s].room # 0 => L[s].n # 0)
      /\ e \in Seq(Nat \ {0})
  BY <1>1, GoodListsFacts DEF GoodLists
<1>3. a \in UtArrayOf(Nat \ {0}) /\ a.elems = Front(e) /\ a.room = L[s].room /\ a.n = L[s].n
  BY <1>1, <1>2, PoppedArray
<1>4. IsFront(a.elems, e, Nat \ {0})
  BY <1>1, <1>2, <1>3, FrontFacts
<1>5. Sound(a) /\ Range(a.elems) = Range(e) \ {LastOf(e)}
  BY <1>2, <1>3, <1>4 DEF Sound, IsFront
<1>6. \A r \in DOMAIN L : r # s => Range(a.elems) \cap Range(L[r].elems) = {}
  <2>1. \A r \in DOMAIN L : r # s => Range(e) \cap Range(L[r].elems) = {}
    BY <1>1 DEF GoodLists
  <2>2. QED BY <1>5, <2>1
<1>7. M = Replaced(L, s, a)
  BY <1>1 DEF Replaced
<1>8. IsReplaced(M, L, s, a)
  <2>1. Fits(a, L, s)
    BY <1>5, <1>6 DEF Fits
  <2>2. QED BY <1>7, <2>1, ReplacedFacts
<1>9. Roomy(M) = Roomy(L)
  BY <1>3, <1>8 DEF Roomy, IsReplaced
<1>10. LastOf(e) \in Range(e)
  <2>1. Len(e) \in Nat /\ DOMAIN e = 1 .. Len(e) /\ Len(e) # 0
    BY <1>1, <1>2, LenProperties, EmptySeq
  <2>2. QED BY <1>1, <2>1 DEF LastOf, Range
<1>11. AllOf(M) = AllOf(L) \ {LastOf(e)}
  <2>1. AllOf(L) = (UNION {Range(L[r].elems) : r \in DOMAIN L \ {s}}) \cup Range(e)
    BY <1>1 DEF AllOf
  <2>2. \A r \in DOMAIN L \ {s} : LastOf(e) \notin Range(L[r].elems)
    BY <1>1, <1>10 DEF GoodLists
  <2>3. LastOf(e) \notin UNION {Range(L[r].elems) : r \in DOMAIN L \ {s}}
    BY <2>2
  <2>4. QED BY <1>5, <1>8, <2>1, <2>3 DEF IsReplaced
<1>12. QED BY <1>1, <1>3, <1>5, <1>8, <1>9, <1>11 DEF IsPopped, IsReplaced

\* M is L with a new array s.
IsOpened(M, L, s) ==
  /\ GoodLists(M) /\ DOMAIN M = DOMAIN L \cup {s} /\ M[s] = EmptyArray
  /\ \A r \in DOMAIN L : M[r] = L[r]
  /\ Roomy(M) = Roomy(L) /\ AllOf(M) = AllOf(L)

LEMMA OpenedLists ==
  ASSUME NEW L, GoodLists(L), NEW s \in Scopes, s \notin DOMAIN L, NEW M, M = With(L, s, EmptyArray)
  PROVE  IsOpened(M, L, s)
<1>1. DOMAIN M = DOMAIN L \cup {s} /\ M[s] = EmptyArray /\ \A r \in DOMAIN L : M[r] = L[r]
  BY DEF With
<1>2. /\ EmptyArray \in UtArrayOf(Nat \ {0}) /\ IsInjective(EmptyArray.elems)
      /\ EmptyArray.room = 0 /\ Range(EmptyArray.elems) = {}
  BY EmptyArrayType DEF EmptyArray, IsInjective, Range
<1>3. GoodLists(M)
  <2>1. DOMAIN M \subseteq Scopes
    BY <1>1 DEF GoodLists
  <2>2. \A r \in DOMAIN M :
          M[r] \in UtArrayOf(Nat \ {0}) /\ IsInjective(M[r].elems) /\ (M[r].room # 0 => M[r].n # 0)
    BY <1>1, <1>2 DEF GoodLists
  <2>3. \A r, u \in DOMAIN M : r # u => Range(M[r].elems) \cap Range(M[u].elems) = {}
    BY <1>1, <1>2 DEF GoodLists
  <2>4. QED BY <2>1, <2>2, <2>3 DEF GoodLists
<1>4. Roomy(M) = Roomy(L)
  BY <1>1, <1>2 DEF Roomy
<1>5. AllOf(M) = AllOf(L)
  <2>1. ASSUME NEW x PROVE x \in AllOf(M) <=> x \in AllOf(L)
    <3>1. x \in AllOf(M) <=> \E r \in DOMAIN M : x \in Range(M[r].elems)
      BY DEF AllOf
    <3>2. x \in AllOf(L) <=> \E r \in DOMAIN L : x \in Range(L[r].elems)
      BY DEF AllOf
    <3>3. QED BY <1>1, <1>2, <3>1, <3>2
  <2>2. QED BY <2>1
<1>6. QED BY <1>1, <1>3, <1>4, <1>5 DEF IsOpened

\* M is L without the array s, which has no elements if it is there.
IsClosed(M, L, s) ==
  /\ GoodLists(M) /\ DOMAIN M = DOMAIN L \ {s}
  /\ \A r \in DOMAIN L \ {s} : M[r] = L[r]
  /\ Roomy(M) = Roomy(L) \ {s} /\ AllOf(M) = AllOf(L)

LEMMA ClosedLists ==
  ASSUME NEW L, GoodLists(L), NEW s, s \in DOMAIN L => L[s].elems = << >>,
         NEW M, M = Without(L, {s})
  PROVE  IsClosed(M, L, s)
<1>1. DOMAIN M = DOMAIN L \ {s} /\ \A r \in DOMAIN L \ {s} : M[r] = L[r]
  BY DEF Without
<1>2. GoodLists(M)
  BY <1>1 DEF GoodLists
<1>3. Roomy(M) = Roomy(L) \ {s}
  BY <1>1 DEF Roomy
<1>4. Range(<< >>) = {}
  BY DEF Range
<1>5. AllOf(M) = AllOf(L)
  <2>1. ASSUME NEW x PROVE x \in AllOf(M) <=> x \in AllOf(L)
    <3>1. x \in AllOf(M) <=> \E r \in DOMAIN M : x \in Range(M[r].elems)
      BY DEF AllOf
    <3>2. x \in AllOf(L) <=> \E r \in DOMAIN L : x \in Range(L[r].elems)
      BY DEF AllOf
    <3>3. s \in DOMAIN L => x \notin Range(L[s].elems)
      BY <1>4
    <3>4. QED BY <1>1, <3>1, <3>2, <3>3
  <2>2. QED BY <2>1
<1>6. QED BY <1>1, <1>2, <1>3, <1>5 DEF IsClosed

------------------------------------------------------------------------------
(* The tables, and what a step does to one.                                *)

LEMMA WholeIsTable ==
  ASSUME NEW t, NEW s, NEW chains, Whole(t, s, chains)
  PROVE  IsTable(t, s)
<1>1. \A b \in 0 .. NumBuckets(t) - 1 : Chain(t, b) = chains[b]
  BY WalksOfWhole
<1>2. \A b \in 0 .. NumBuckets(t) - 1 : ChainsOf(t)[b] = chains[b]
  BY <1>1 DEF ChainsOf
<1>3. \A b \in 0 .. NumBuckets(t) - 1 : IsChain(t, s, b, chains[b])
  BY DEF Whole
<1>4. \A b \in 0 .. NumBuckets(t) - 1 : IsChain(t, s, b, ChainsOf(t)[b])
  BY <1>2, <1>3
<1>5. QED BY <1>4 DEF Whole, IsTable

LEMMA TableHas ==
  ASSUME NEW t, NEW s, IsTable(t, s)
  PROVE  /\ t.head = FirstOf(s) /\ (t.head = NULL <=> s = << >>)
         /\ s # << >> => t.head \in Range(s) /\ t.tail \in Range(s)
         /\ Range(s) \subseteq DOMAIN t.hh /\ DOMAIN t.hh \subseteq Nat \ {0}
         /\ IsFiniteSet(t.mem) /\ (s = << >> => t.mem = {})
         /\ s \in Seq(DOMAIN t.hh) /\ IsInjective(s) /\ Len(s) \in Nat /\ t.num_items \in Nat
         /\ NumBuckets(t) \in Nat
<1>1. PICK E \in SUBSET (Nat \ {0}), n \in Nat, len \in Nat :
           /\ t \in TableOf(E, n) /\ E = DOMAIN t.hh /\ n = NumBuckets(t)
           /\ IsFiniteSet(E) /\ 0 \notin E /\ NULL \notin E
           /\ s \in Seq(E) /\ len = Len(s) /\ DOMAIN s = 1 .. len /\ Range(s) \subseteq E
           /\ \A i \in 1 .. len : s[i] \in E /\ s[i] \in Range(s)
           /\ len = 0 <=> s = << >>
  BY WholeFacts DEF IsTable
<1>2. t.head = FirstOf(s) /\ t.tail = LastOf(s) /\ IsInjective(s) /\ t.num_items = len
      /\ t.mem = IF s = << >> THEN {} ELSE TableMemory(n)
  BY <1>1 DEF IsTable, Whole
<1>3. s # << >> => 1 \in 1 .. len /\ len \in 1 .. len
  BY <1>1
<1>4. s # << >> => t.head \in Range(s) /\ t.tail \in Range(s)
  BY <1>1, <1>2, <1>3 DEF FirstOf, LastOf
<1>5. t.head = NULL <=> s = << >>
  BY <1>1, <1>2, <1>4 DEF FirstOf
<1>6. IsFiniteSet(t.mem)
  <2>1. IsFiniteSet({}) /\ IsFiniteSet({<<"tbl", 0>>}) /\ IsFiniteSet({<<"tbl", 0>>} \cup {<<"buckets", n>>})
    BY FS_EmptySet, FS_Singleton, FS_AddElement
  <2>2. TableMemory(n) = {<<"tbl", 0>>} \cup {<<"buckets", n>>}
    BY DEF TableMemory
  <2>3. QED BY <1>2, <2>1, <2>2
<1>7. QED BY <1>1, <1>2, <1>4, <1>5, <1>6

\* The elements in D have the same names in both.
SameNames(r, t, D) == \A x \in D : r.hh[x].key = t.hh[x].key

\* r is t with e added.
HasAdded(r, t, s, e, key) ==
  /\ IsTable(r, Append(s, e)) /\ DOMAIN r.hh = DOMAIN t.hh \cup {e} /\ r.hh[e].key = key
  /\ SameNames(r, t, DOMAIN t.hh \ {e})
  /\ Full(r, BucketWith(r, e)) => IsExpanding(r, e)
  /\ ~Full(r, BucketWith(r, e)) => ChainsShort(r)

LEMMA TableAdds ==
  ASSUME NEW t, NEW s, IsTable(t, s), ChainsShort(t), NEW e \in Nat \ {0}, e \notin Range(s),
         NEW key \in DOMAIN HASH_FUNCTION, NEW r, r = HashAdd(t, e, key)
  PROVE  HasAdded(r, t, s, e, key)
<1>1. PICK c : c = ChainsOf(t)
  OBVIOUS
<1>2. Whole(t, s, c)
  BY <1>1 DEF IsTable
<1>3. PICK n, b :
        /\ IsAdded(r, t, s, e, key, n, b)
        /\ Whole(r, Append(s, e), ChainsAdded(ChainsFound(t, s, c, n), n, b, e))
  BY <1>2, HashAddWhole
<1>4. PICK u, d : u = Append(s, e) /\ d = ChainsAdded(ChainsFound(t, s, c, n), n, b, e)
  OBVIOUS
<1>5. Whole(r, u, d) /\ IsTable(r, u)
  BY <1>3, <1>4, WholeIsTable
<1>6. Len(u) = Len(s) + 1
  BY <1>2, <1>4, AppendProperties DEF Whole
<1>7. /\ ~Full(r, BucketWith(r, e)) => ChainsShort(r)
      /\ Full(r, BucketWith(r, e)) => IsExpanding(r, e) /\ s # << >>
  BY <1>2, <1>3, <1>5, <1>6, AddedShort
<1>8. DOMAIN r.hh = DOMAIN t.hh \cup {e} /\ r.hh[e].key = key
      /\ \A x \in DOMAIN t.hh \ {e} : r.hh[x].key = t.hh[x].key
  BY <1>3 DEF IsAdded, SameKey
<1>9. QED BY <1>4, <1>5, <1>7, <1>8 DEF HasAdded, SameNames

\* r is t with other handles for what it does not hold.
HasSame(r, t, s) ==
  IsTable(r, s) /\ r.mem = t.mem /\ SameNames(r, t, Range(s)) /\ (ChainsShort(t) => ChainsShort(r))

LEMMA TableSame ==
  ASSUME NEW t, NEW s, NEW r, IsTable(t, s), IsTable(r, s), SameTable(r, t), r.buckets = t.buckets,
         \A x \in Range(s) : r.hh[x] = t.hh[x]
  PROVE  HasSame(r, t, s)
<1>1. NumBuckets(r) = NumBuckets(t)
  BY DEF NumBuckets
<1>2. r.noexpand = t.noexpand /\ r.num_items = t.num_items /\ r.mem = t.mem
  BY DEF SameTable
<1>3. ChainsShort(t) => ChainsShort(r)
  BY <1>1, <1>2 DEF ChainsShort
<1>4. QED BY <1>2, <1>3 DEF HasSame, SameNames

LEMMA TableHandles ==
  ASSUME NEW t, NEW s, IsTable(t, s), NEW e \in Nat \ {0}, e \notin Range(s),
         NEW key \in DOMAIN HASH_FUNCTION, NEW r, r = WithHandle(t, e, key)
  PROVE  HasSame(r, t, s) /\ DOMAIN r.hh = DOMAIN t.hh \cup {e}
<1>1. PICK c : c = ChainsOf(t)
  OBVIOUS
<1>2. Whole(t, s, c)
  BY <1>1 DEF IsTable
<1>3. /\ Whole(r, s, c) /\ SameTable(r, t) /\ r.buckets = t.buckets
      /\ DOMAIN r.hh = DOMAIN t.hh \cup {e} /\ \A x \in DOMAIN t.hh : x # e => r.hh[x] = t.hh[x]
  BY <1>2, WithHandleWhole
<1>4. IsTable(r, s)
  BY <1>3, WholeIsTable
<1>5. \A x \in Range(s) : r.hh[x] = t.hh[x]
  BY <1>3, TableHas
<1>6. HasSame(r, t, s)
  BY <1>3, <1>4, <1>5, TableSame
<1>7. QED BY <1>3, <1>6

LEMMA TableForgets ==
  ASSUME NEW t, NEW s, IsTable(t, s), NEW e, e \notin Range(s), NEW r, r = WithoutHandle(t, e)
  PROVE  HasSame(r, t, s) /\ DOMAIN r.hh = DOMAIN t.hh \ {e}
<1>1. PICK c : c = ChainsOf(t)
  OBVIOUS
<1>2. Whole(t, s, c)
  BY <1>1 DEF IsTable
<1>3. /\ Whole(r, s, c) /\ SameTable(r, t) /\ r.buckets = t.buckets
      /\ DOMAIN r.hh = DOMAIN t.hh \ {e} /\ \A x \in DOMAIN t.hh : x # e => r.hh[x] = t.hh[x]
  BY <1>2, WithoutHandleWhole
<1>4. IsTable(r, s)
  BY <1>3, WholeIsTable
<1>5. \A x \in Range(s) : r.hh[x] = t.hh[x]
  BY <1>3, TableHas
<1>6. HasSame(r, t, s)
  BY <1>3, <1>4, <1>5, TableSame
<1>7. QED BY <1>3, <1>6

\* r is t without its last element.
HasLost(r, t, s) ==
  /\ IsTable(r, Front(s)) /\ DOMAIN r.hh = DOMAIN t.hh /\ SameNames(r, t, DOMAIN t.hh)
  /\ ChainsShort(r)

LEMMA TableRollsBack ==
  ASSUME NEW t, NEW s, IsTable(t, s), s # << >>, NEW e, e = LastOf(s), IsExpanding(t, e),
         NEW r, r = RolledBack(t, e)
  PROVE  HasLost(r, t, s)
<1>1. PICK c : c = ChainsOf(t)
  OBVIOUS
<1>2. Whole(t, s, c)
  BY <1>1 DEF IsTable
<1>3. PICK n, b, E : n \in Nat /\ n = NumBuckets(t) /\ b = BucketWith(t, e) /\ E = DOMAIN t.hh
  BY TableHas
<1>4. e \in Range(s)
  <2>1. t.tail = e
    BY <1>2 DEF Whole
  <2>2. QED BY <2>1, TableHas
<1>5. b \in 0 .. n - 1
  <2>1. t \in TableOf(E, n) /\ e \in E /\ n # 0
    <3>1. t \in TableOf(E, n) /\ n # 0
      BY <1>2, <1>3 DEF Whole
    <3>2. QED BY <1>3, <1>4, <3>1, TableHas
  <2>2. t.hh[e] \in Handle
    BY <1>3, <2>1, TableFacts
  <2>3. t.hh[e].hashv \in Nat
    BY <2>2 DEF Handle
  <2>4. QED BY <1>3, <2>1, <2>3 DEF BucketWith, BucketOf
<1>6. t.buckets[b].hh_head = e /\ t.buckets[b].count >= 2
  BY <1>3 DEF IsExpanding
<1>7. Len(s) # 1
  <2>1. t.buckets[b].count \in Nat /\ t.buckets[b].count <= Len(s)
    BY <1>2, <1>3, <1>5, CountsFew
  <2>2. Len(s) \in Nat
    BY TableHas
  <2>3. PICK k \in Nat : k = t.buckets[b].count
    BY <2>1
  <2>4. PICK len \in Nat : len = Len(s)
    BY <2>2
  <2>5. k >= 2 /\ k <= len
    BY <1>6, <2>1, <2>3, <2>4
  <2>6. len # 1
    BY <2>5
  <2>7. QED BY <2>4, <2>6
<1>8. /\ Whole(r, Front(s), ChainsLess(c, n, b))
      /\ IsRolledBack(r, t, DOMAIN t.hh, n, b, e, t.hh[e].prev, t.hh[e].hh_next)
      /\ NumBuckets(r) = n
  <2>1. TakesBack(r, t, s, c, n, b, e)
    BY <1>2, <1>3, <1>6, <1>7, RolledBackWhole
  <2>2. QED BY <2>1 DEF TakesBack
<1>9. IsTable(r, Front(s))
  BY <1>8, WholeIsTable
<1>10. ChainsShort(r)
  BY <1>3, <1>8, RolledBackShort
<1>11. DOMAIN r.hh = DOMAIN t.hh /\ \A x \in DOMAIN t.hh : r.hh[x].key = t.hh[x].key
  <2>1. r \in TableOf(DOMAIN t.hh, n) /\ \A x \in DOMAIN t.hh : SameKey(r.hh[x], t.hh[x])
    BY <1>8 DEF IsRolledBack
  <2>2. DOMAIN r.hh = DOMAIN t.hh
    BY <1>3, <2>1, TableFacts
  <2>3. QED BY <2>1, <2>2 DEF SameKey
<1>12. QED BY <1>9, <1>10, <1>11 DEF HasLost, SameNames

\* r is t with twice the buckets.
HasExpanded(r, t, s) ==
  /\ IsTable(r, s) /\ DOMAIN r.hh = DOMAIN t.hh /\ SameNames(r, t, DOMAIN t.hh)
  /\ ChainsShort(r)

LEMMA TableExpands ==
  ASSUME NEW t, NEW s, IsTable(t, s), s # << >>, DOMAIN t.hh \subseteq Range(s),
         NEW r, r = Expanded(t)
  PROVE  HasExpanded(r, t, s)
<1>1. PICK c, n : c = ChainsOf(t) /\ n = 2 * NumBuckets(t)
  OBVIOUS
<1>2. Whole(t, s, c) /\ DOMAIN t.hh = Range(s)
  BY <1>1, TableHas DEF IsTable
<1>3. Whole(r, s, NewChains(t, n)) /\ IsExpanded(r, t, n)
  BY <1>1, <1>2, ExpandedWhole
<1>4. IsTable(r, s)
  BY <1>3, WholeIsTable
<1>5. ChainsShort(r)
  BY <1>3, ExpandedShort
<1>6. DOMAIN r.hh = DOMAIN t.hh /\ \A x \in DOMAIN t.hh : r.hh[x].key = t.hh[x].key
  BY <1>3 DEF IsExpanded, SameKey
<1>7. QED BY <1>4, <1>5, <1>6 DEF HasExpanded, SameNames

LEMMA TableClears ==
  ASSUME NEW t, NEW s, IsTable(t, s), NEW r, r = HashClear(t)
  PROVE  IsTable(r, << >>) /\ r.mem = {} /\ ChainsShort(r)
<1>1. Whole(t, s, ChainsOf(t))
  BY DEF IsTable
<1>2. Whole(r, << >>, ChainsOf(t)) /\ r.mem = {}
  BY <1>1, HashClearWhole
<1>3. IsTable(r, << >>)
  BY <1>2, WholeIsTable
<1>4. NumBuckets(r) = 0
  BY <1>2 DEF Whole
<1>5. QED BY <1>2, <1>3, <1>4 DEF ChainsShort

LEMMA NoTableIs ==
  IsTable(NoTable, << >>) /\ NoTable.mem = {} /\ ChainsShort(NoTable) /\ DOMAIN NoTable.hh = {}
<1>1. IsTable(NoTable, << >>)
  BY NoTableWhole, WholeIsTable
<1>2. NumBuckets(NoTable) = 0
  BY <1>1 DEF IsTable, Whole
<1>3. ChainsShort(NoTable)
  BY <1>2 DEF ChainsShort
<1>4. NoTable.mem = {} /\ DOMAIN NoTable.hh = {}
  BY DEF NoTable
<1>5. QED BY <1>1, <1>3, <1>4

------------------------------------------------------------------------------
(* Scopes and frames.                                                      *)

LEMMA ScopeFacts ==
  /\ ContextScopes \subseteq Scopes /\ TabledScopes \subseteq ContextScopes
  /\ \A c \in Nat \ {0} : FieldsOf(c) \in Scopes /\ DimensionsOf(c) \in Scopes
  /\ <<"none", 0>> \notin Scopes
BY DEF ContextScopes, TabledScopes, PointerScope, ArrayScope, ConstructScope, VariableScope, Scopes,
       FieldsOf, DimensionsOf

LEMMA ScopesDiffer ==
  /\ PointerScope # ArrayScope /\ PointerScope # ConstructScope /\ PointerScope # VariableScope
  /\ ArrayScope # ConstructScope /\ ArrayScope # VariableScope /\ ConstructScope # VariableScope
  /\ PointerScope \notin TabledScopes /\ ArrayScope \notin TabledScopes
  /\ \A c : FieldsOf(c) \notin ContextScopes /\ DimensionsOf(c) \notin ContextScopes
  /\ \A c, d : FieldsOf(c) # DimensionsOf(d)
  /\ \A c, d : FieldsOf(c) = FieldsOf(d) => c = d
  /\ \A c, d : DimensionsOf(c) = DimensionsOf(d) => c = d
BY DEF ContextScopes, TabledScopes, PointerScope, ArrayScope, ConstructScope, VariableScope,
       FieldsOf, DimensionsOf

LEMMA FieldScope ==
  ASSUME NEW s \in {"fields"} \X (Nat \ {0})
  PROVE  \E c \in Nat \ {0} : s = FieldsOf(c)
BY DEF FieldsOf

LEMMA DimensionScope ==
  ASSUME NEW s \in {"dimensions"} \X (Nat \ {0})
  PROVE  \E a \in Nat \ {0} : s = DimensionsOf(a)
BY DEF DimensionsOf

LEMMA KindFacts ==
  /\ Kinds = {"pointer", "array", "dimension", "construct", "field", "variable"}
  /\ Named = {"construct", "field", "variable"}
  /\ "none" \notin Kinds /\ "context" \notin Kinds /\ "destroy" \notin Kinds
BY DEF Kinds, Named

LEMMA IdleFacts ==
  /\ Idle \in Frames /\ Idle.kind = "none" /\ Idle.step = "none" /\ Idle.obj = NULL
  /\ Idle.scope = <<"none", 0>>
<1>1. NoName \in DOMAIN HASH_FUNCTION
  BY NamesOfAssumption DEF Named
<1>2. QED BY <1>1 DEF Idle, Frames, Steps, NULL

\* A frame that goes to a step.
LEMMA StepFacts ==
  ASSUME NEW c \in Frames, NEW st \in Steps, NEW d, d = [c EXCEPT !.step = st]
  PROVE  /\ d \in Frames /\ d.step = st /\ d.kind = c.kind /\ d.obj = c.obj /\ d.scope = c.scope
         /\ d.name = c.name /\ d.at = c.at
BY DEF Frames

LEMMA AtFacts ==
  ASSUME NEW c \in Frames, NEW i \in Nat, NEW d, d = [c EXCEPT !.at = i]
  PROVE  /\ d \in Frames /\ d.step = c.step /\ d.kind = c.kind /\ d.obj = c.obj /\ d.scope = c.scope
         /\ d.name = c.name /\ d.at = i
BY DEF Frames

LEMMA OwnFacts ==
  /\ \A id : Own("construct", id) = FieldsOf(id)
  /\ \A kind, id : kind # "construct" => Own(kind, id) = DimensionsOf(id)
BY DEF Own, FieldsOf, DimensionsOf

LEMMA ScopesOfFits ==
  ASSUME NEW kind \in Kinds, NEW s \in ScopesOf(kind), ContextScopes \subseteq DOMAIN lists,
         DOMAIN lists \subseteq Scopes
  PROVE  ScopeFits(kind, s, DOMAIN lists)
<1>1. /\ PointerScope \in DOMAIN lists /\ ArrayScope \in DOMAIN lists
      /\ ConstructScope \in DOMAIN lists /\ VariableScope \in DOMAIN lists
  BY DEF ContextScopes
<1>2. \A r \in Scopes : r[1] = "fields" => r \in {"fields"} \X (Nat \ {0})
  BY DEF Scopes
<1>3. \A r \in Scopes : r[1] = "dimensions" => r \in {"dimensions"} \X (Nat \ {0})
  BY DEF Scopes
<1>4. CASE kind = "pointer"
  BY <1>1, <1>4 DEF ScopesOf, ScopeFits, PointerScope
<1>5. CASE kind = "array"
  BY <1>1, <1>5 DEF ScopesOf, ScopeFits, ArrayScope
<1>6. CASE kind = "construct"
  BY <1>1, <1>6 DEF ScopesOf, ScopeFits, ConstructScope
<1>7. CASE kind = "variable"
  BY <1>1, <1>7 DEF ScopesOf, ScopeFits, VariableScope
<1>8. CASE kind = "field"
  BY <1>2, <1>8 DEF ScopesOf, ScopeFits
<1>9. CASE kind = "dimension"
  BY <1>3, <1>9 DEF ScopesOf, ScopeFits
<1>10. QED BY <1>4, <1>5, <1>6, <1>7, <1>8, <1>9 DEF Kinds

------------------------------------------------------------------------------
(* Blocks.                                                                 *)

\* The blocks of a sort are apart from those of the others ...
LEMMA BlockSorts ==
  /\ PlatformBlock[1] = "platform" /\ ContextBlock[1] = "context"
  /\ \A s : Header(s)[1] = "header" /\ Slots(s)[1] = "slots"
  /\ \A id : Object(id)[1] = "object"
BY DEF PlatformBlock, ContextBlock, Header, Slots, Object

\* ... and within a sort their names tell them apart.
LEMMA BlocksDiffer ==
  /\ \A r, s \in Scopes : Header(r) = Header(s) => r = s
  /\ \A r, s \in Scopes : Slots(r) = Slots(s) => r = s
  /\ \A i, j : Object(i) = Object(j) => i = j
<1>1. \A r, s \in Scopes : r[1] = s[1] /\ r[2] = s[2] => r = s
  BY DEF Scopes
<1>2. QED BY <1>1 DEF Header, Slots, Object

\* The memory of a table.
TableMem(t) == t.mem \subseteq {"tbl", "buckets"} \X Nat /\ IsFiniteSet(t.mem)
LEMMA IsTableMem ==
  ASSUME NEW t, NEW s, IsTable(t, s)
  PROVE  TableMem(t)
<1>1. IsFiniteSet(t.mem)
  BY TableHas
<1>2. t \in TableOf(DOMAIN t.hh, NumBuckets(t))
  BY DEF IsTable, Whole
<1>3. QED BY <1>1, <1>2 DEF TableMem, TableOf

LEMMA TableBlocksFacts ==
  ASSUME NEW s \in Scopes, NEW t, TableMem(t)
  PROVE  /\ \A b \in TableBlocks(s, t) : b[1] \in {"tbl", "buckets"} /\ b[2] = s[1] /\ b[3] = s[2]
         /\ IsFiniteSet(TableBlocks(s, t))
         /\ t.mem = {} => TableBlocks(s, t) = {}
<1>1. \A b \in TableBlocks(s, t) : b[1] \in {"tbl", "buckets"} /\ b[2] = s[1] /\ b[3] = s[2]
  BY DEF TableBlocks, TableMem
<1>2. IsFiniteSet(TableBlocks(s, t))
  <2>1. PICK f : f = [m \in t.mem |-> <<m[1], s[1], s[2], m[2]>>]
    OBVIOUS
  <2>2. f \in Surjection(t.mem, TableBlocks(s, t))
    BY <2>1 DEF Surjection, TableBlocks
  <2>3. QED BY <2>2, FS_Surjection DEF TableMem
<1>3. t.mem = {} => TableBlocks(s, t) = {}
  BY DEF TableBlocks
<1>4. QED BY <1>1, <1>2, <1>3

LEMMA TableBlocksApart ==
  ASSUME NEW r \in Scopes, NEW s \in Scopes, r # s, NEW t, NEW u, TableMem(t), TableMem(u)
  PROVE  TableBlocks(r, t) \cap TableBlocks(s, u) = {}
<1>1. r[1] # s[1] \/ r[2] # s[2]
  BY DEF Scopes
<1>2. QED BY <1>1, TableBlocksFacts

\* A set of tables, and what it owes.
Tables(T) == DOMAIN T \subseteq Scopes /\ \A s \in DOMAIN T : TableMem(T[s])

\* The sorts of blocks that are owed.
LEMMA OwedSorts ==
  ASSUME NEW L, DOMAIN L \subseteq Scopes, NEW I, NEW T, Tables(T)
  PROVE  /\ \A b \in HeadersOf(DOMAIN L) : b[1] = "header"
         /\ \A b \in SlotsOf(Roomy(L)) : b[1] = "slots"
         /\ \A b \in ObjectsOf(I) : b[1] = "object"
         /\ \A b \in TablesOf(T) : b[1] \in {"tbl", "buckets"}
<1>1. \A b \in TablesOf(T) : b[1] \in {"tbl", "buckets"}
  BY TableBlocksFacts DEF TablesOf, Tables
<1>2. QED BY <1>1, BlockSorts DEF HeadersOf, SlotsOf, ObjectsOf

------------------------------------------------------------------------------
(* What is owed, and how it changes.                                       *)

LEMMA OwedParts ==
  /\ \A D, s : HeadersOf(D \cup {s}) = HeadersOf(D) \cup {Header(s)}
  /\ \A D, s : SlotsOf(D \cup {s}) = SlotsOf(D) \cup {Slots(s)}
  /\ \A I, x : ObjectsOf(I \cup {x}) = ObjectsOf(I) \cup {Object(x)}
  /\ \A I, x : ObjectsOf(I \ {x}) = ObjectsOf(I) \ {Object(x)}
  /\ \A D \in SUBSET Scopes, s \in Scopes : HeadersOf(D \ {s}) = HeadersOf(D) \ {Header(s)}
  /\ \A D \in SUBSET Scopes, s \in Scopes : SlotsOf(D \ {s}) = SlotsOf(D) \ {Slots(s)}
<1>1. \A D, s : HeadersOf(D \cup {s}) = HeadersOf(D) \cup {Header(s)}
  BY DEF HeadersOf
<1>2. \A D, s : SlotsOf(D \cup {s}) = SlotsOf(D) \cup {Slots(s)}
  BY DEF SlotsOf
<1>3. \A I, x : ObjectsOf(I \cup {x}) = ObjectsOf(I) \cup {Object(x)}
  BY DEF ObjectsOf
<1>4. \A I, x : ObjectsOf(I \ {x}) = ObjectsOf(I) \ {Object(x)}
  BY BlocksDiffer DEF ObjectsOf
<1>5. \A D \in SUBSET Scopes, s \in Scopes : HeadersOf(D \ {s}) = HeadersOf(D) \ {Header(s)}
  <2>1. ASSUME NEW D \in SUBSET Scopes, NEW s \in Scopes
        PROVE  HeadersOf(D \ {s}) = HeadersOf(D) \ {Header(s)}
    <3>1. \A r \in D : Header(r) = Header(s) => r = s
      BY BlocksDiffer
    <3>2. QED BY <3>1 DEF HeadersOf
  <2>2. QED BY <2>1
<1>6. \A D \in SUBSET Scopes, s \in Scopes : SlotsOf(D \ {s}) = SlotsOf(D) \ {Slots(s)}
  <2>1. ASSUME NEW D \in SUBSET Scopes, NEW s \in Scopes
        PROVE  SlotsOf(D \ {s}) = SlotsOf(D) \ {Slots(s)}
    <3>1. \A r \in D : Slots(r) = Slots(s) => r = s
      BY BlocksDiffer
    <3>2. QED BY <3>1 DEF SlotsOf
  <2>2. QED BY <2>1
<1>7. QED BY <1>1, <1>2, <1>3, <1>4, <1>5, <1>6

\* The blocks of the array of scope s, in L.
BlocksIn(L, s) == {Header(s)} \cup {b \in {Slots(s)} : L[s].room # 0}

LEMMA ArrayBlocksAre ==
  ASSUME GoodLists(lists), NEW s \in DOMAIN lists
  PROVE  ArrayBlocks(s) = BlocksIn(lists, s)
BY DEF GoodLists, ArrayBlocks, BlocksIn

\* Tables that have the same memory owe the same.
LEMMA SameTablesOwe ==
  ASSUME NEW T, NEW U, DOMAIN T \subseteq DOMAIN U,
         \A s \in DOMAIN T : U[s].mem = T[s].mem,
         \A s \in DOMAIN U \ DOMAIN T : U[s].mem = {}
  PROVE  TablesOf(U) = TablesOf(T)
<1>1. \A s \in DOMAIN T : TableBlocks(s, U[s]) = TableBlocks(s, T[s])
  BY DEF TableBlocks
<1>2. \A s \in DOMAIN U \ DOMAIN T : TableBlocks(s, U[s]) = {}
  BY DEF TableBlocks
<1>3. ASSUME NEW b PROVE b \in TablesOf(U) <=> b \in TablesOf(T)
  <2>1. b \in TablesOf(U) <=> \E s \in DOMAIN U : b \in TableBlocks(s, U[s])
    BY DEF TablesOf
  <2>2. b \in TablesOf(T) <=> \E s \in DOMAIN T : b \in TableBlocks(s, T[s])
    BY DEF TablesOf
  <2>3. QED BY <1>1, <1>2, <2>1, <2>2
<1>4. QED BY <1>3

\* One table becomes another: what is given back is what the old one had
\* and the new one has not.
Trades(X, Y, old, new) == X = (Y \ (old \ new)) \cup new /\ old \subseteq Y

LEMMA TablesMove ==
  ASSUME NEW T, Tables(T), NEW s \in DOMAIN T, NEW t, TableMem(t), NEW U, U = [T EXCEPT ![s] = t],
         NEW old, old = TableBlocks(s, T[s]), NEW new, new = TableBlocks(s, t)
  PROVE  Trades(TablesOf(U), TablesOf(T), old, new) /\ Tables(U)
<1>1. DOMAIN U = DOMAIN T /\ U[s] = t /\ \A r \in DOMAIN T : r # s => U[r] = T[r]
  OBVIOUS
<1>2. \A r \in DOMAIN T : r # s => TableBlocks(r, T[r]) \cap old = {}
  BY TableBlocksApart DEF Tables
<1>3. ASSUME NEW b PROVE b \in TablesOf(U) <=> b \in (TablesOf(T) \ (old \ new)) \cup new
  <2>1. b \in TablesOf(U) <=> \E r \in DOMAIN T : b \in TableBlocks(r, U[r])
    BY <1>1 DEF TablesOf
  <2>2. b \in TablesOf(T) <=> \E r \in DOMAIN T : b \in TableBlocks(r, T[r])
    BY DEF TablesOf
  <2>3. b \in TablesOf(U) <=> b \in new \/ \E r \in DOMAIN T \ {s} : b \in TableBlocks(r, T[r])
    BY <1>1, <2>1
  <2>4. b \in TablesOf(T) <=> b \in old \/ \E r \in DOMAIN T \ {s} : b \in TableBlocks(r, T[r])
    BY <2>2
  <2>5. b \in old => ~\E r \in DOMAIN T \ {s} : b \in TableBlocks(r, T[r])
    BY <1>2
  <2>6. QED BY <2>3, <2>4, <2>5
<1>4. old \subseteq TablesOf(T)
  BY DEF TablesOf
<1>5. Tables(U)
  BY <1>1 DEF Tables
<1>6. TablesOf(U) = (TablesOf(T) \ (old \ new)) \cup new
  BY <1>3
<1>7. QED BY <1>4, <1>5, <1>6 DEF Trades

\* The platform and the context may be owed; they are blocks of their own.
Bases(P, C) == P \subseteq {PlatformBlock} /\ C \subseteq {ContextBlock}

LEMMA OwedTableMoves ==
  ASSUME NEW P, NEW C, Bases(P, C), NEW L, DOMAIN L \subseteq Scopes, NEW T, Tables(T),
         NEW s \in DOMAIN T, NEW t, TableMem(t), NEW U, U = [T EXCEPT ![s] = t], NEW O,
         NEW old, old = TableBlocks(s, T[s]), NEW new, new = TableBlocks(s, t)
  PROVE  Trades(Owed(P, C, L, U, O), Owed(P, C, L, T, O), old, new)
<1>1. Trades(TablesOf(U), TablesOf(T), old, new)
  BY TablesMove
<1>2. \A b \in P \cup C \cup HeadersOf(DOMAIN L) \cup SlotsOf(Roomy(L)) \cup ObjectsOf(AllOf(L) \cup O) :
        b[1] \notin {"tbl", "buckets"}
  BY BlockSorts DEF Bases, HeadersOf, SlotsOf, ObjectsOf
<1>3. \A b \in TablesOf(T) : b[1] \in {"tbl", "buckets"}
  BY OwedSorts
<1>4. QED BY <1>1, <1>2, <1>3 DEF Owed, Trades

\* An array without elements goes.
Drops(X, Y, gone) == X = Y \ gone /\ gone \subseteq Y

LEMMA OwedArrayGoes ==
  ASSUME NEW P, NEW C, Bases(P, C), NEW L, GoodLists(L), NEW T, Tables(T), NEW O,
         NEW s \in DOMAIN L, NEW M, IsClosed(M, L, s)
  PROVE  Drops(Owed(P, C, M, T, O), Owed(P, C, L, T, O), BlocksIn(L, s))
<1>1. s \in Scopes /\ DOMAIN L \in SUBSET Scopes /\ Roomy(L) \in SUBSET Scopes
  BY DEF GoodLists, Roomy
<1>2. HeadersOf(DOMAIN M) = HeadersOf(DOMAIN L) \ {Header(s)} /\ SlotsOf(Roomy(M)) = SlotsOf(Roomy(L)) \ {Slots(s)}
  BY <1>1, OwedParts DEF IsClosed
<1>3. Header(s) \in HeadersOf(DOMAIN L) /\ (L[s].room # 0 => Slots(s) \in SlotsOf(Roomy(L)))
  BY DEF HeadersOf, SlotsOf, Roomy
<1>4. L[s].room = 0 => Slots(s) \notin SlotsOf(Roomy(L))
  <2>1. \A r \in Roomy(L) : Slots(r) = Slots(s) => r = s
    BY <1>1, BlocksDiffer
  <2>2. QED BY <2>1 DEF SlotsOf, Roomy
<1>5. PICK H, S, R, K : /\ H = HeadersOf(DOMAIN L) /\ S = SlotsOf(Roomy(L))
                        /\ R = P \cup C \cup ObjectsOf(AllOf(L) \cup O) \cup TablesOf(T)
                        /\ K = BlocksIn(L, s)
  OBVIOUS
<1>6. \A b \in R : b[1] \notin {"header", "slots"}
  <2>1. \A b \in TablesOf(T) : b[1] \in {"tbl", "buckets"}
    BY <1>1, OwedSorts
  <2>2. QED BY <1>5, <2>1, BlockSorts DEF Bases, ObjectsOf
<1>7. (\A b \in H : b[1] = "header") /\ (\A b \in S : b[1] = "slots")
  BY <1>5, BlockSorts DEF HeadersOf, SlotsOf
<1>8. Owed(P, C, L, T, O) = R \cup H \cup S
  BY <1>5 DEF Owed
<1>9. Owed(P, C, M, T, O) = R \cup (H \ {Header(s)}) \cup (S \ {Slots(s)})
  BY <1>2, <1>5 DEF Owed, IsClosed
<1>10. K = {Header(s)} \cup {b \in {Slots(s)} : L[s].room # 0}
  BY <1>5 DEF BlocksIn
<1>11. Header(s)[1] = "header" /\ Slots(s)[1] = "slots"
  BY BlockSorts
<1>12. R \cup (H \ {Header(s)}) \cup (S \ {Slots(s)}) = (R \cup H \cup S) \ K
  BY <1>3, <1>4, <1>5, <1>6, <1>7, <1>10, <1>11
<1>13. K \subseteq R \cup H \cup S
  BY <1>3, <1>5, <1>10
<1>14. QED BY <1>5, <1>8, <1>9, <1>12, <1>13 DEF Drops

\* An object that no array lists goes.
LEMMA OwedObjectGoes ==
  ASSUME NEW P, NEW C, Bases(P, C), NEW L, GoodLists(L), NEW T, Tables(T), NEW x, x \notin AllOf(L)
  PROVE  Drops(Owed(P, C, L, T, {}), Owed(P, C, L, T, {x}), {Object(x)})
<1>1. \A b \in P \cup C \cup HeadersOf(DOMAIN L) \cup SlotsOf(Roomy(L)) \cup TablesOf(T) : b[1] # "object"
  <2>1. \A b \in TablesOf(T) : b[1] \in {"tbl", "buckets"}
    BY OwedSorts DEF GoodLists
  <2>2. QED BY <2>1, BlockSorts DEF Bases, HeadersOf, SlotsOf
<1>2. Object(x)[1] = "object"
  BY BlockSorts
<1>3. ObjectsOf(AllOf(L) \cup {x}) = ObjectsOf(AllOf(L)) \cup {Object(x)} /\ Object(x) \notin ObjectsOf(AllOf(L))
  BY OwedParts, BlocksDiffer DEF ObjectsOf
<1>4. ObjectsOf(AllOf(L) \cup {}) = ObjectsOf(AllOf(L))
  OBVIOUS
<1>5. QED BY <1>1, <1>2, <1>3, <1>4 DEF Owed, Drops

\* The number of a new object.
LEMMA FreshId ==
  ASSUME IsFiniteSet(heap)
  PROVE  NewId \in Nat \ {0} /\ Object(NewId) \notin heap
<1>1. PICK n \in Nat : n = Cardinality(heap)
  BY FS_CardinalityType
<1>2. PICK free : free = {id \in 1 .. n + 1 : Object(id) \notin heap}
  OBVIOUS
<1>3. free # {}
  <2>1. SUFFICES ASSUME free = {} PROVE FALSE
    OBVIOUS
  <2>2. PICK f : f = [id \in 1 .. n + 1 |-> Object(id)]
    OBVIOUS
  <2>3. f \in Injection(1 .. n + 1, heap)
    BY <1>2, <2>1, <2>2, BlocksDiffer DEF Injection, IsInjective
  <2>4. IsFiniteSet(1 .. n + 1) /\ Cardinality(1 .. n + 1) = n + 1
    BY FS_Interval
  <2>5. Cardinality(1 .. n + 1) <= Cardinality(heap)
    BY <2>3, FS_Injection
  <2>6. n + 1 <= n
    BY <1>1, <2>4, <2>5
  <2>7. QED BY <2>6
<1>4. \E id \in free : \A j \in free : id <= j
  <2>1. free \subseteq Nat
    BY <1>2
  <2>2. QED BY <1>3, <2>1, LeastExists
<1>5. NewId = CHOOSE id \in free : \A j \in free : id <= j
  BY <1>1, <1>2 DEF NewId
<1>6. NewId \in free
  BY <1>4, <1>5
<1>7. QED BY <1>2, <1>6

------------------------------------------------------------------------------
(* Without a context.                                                      *)

Quiet ==
  /\ status \in {"none", "platform"} /\ call = Idle /\ lists = << >> /\ tables = << >>
  /\ err \in {"MAM_SUCCESS", "MAM_EINVAL", "MAM_ENOMEM"}
  /\ heap = PlatformOwed /\ ~fault

LEMMA NoLists ==
  /\ DOMAIN << >> = {} /\ GoodLists(<< >>) /\ Roomy(<< >>) = {} /\ AllOf(<< >>) = {}
  /\ TablesOf(<< >>) = {}
<1>1. DOMAIN << >> = {}
  OBVIOUS
<1>2. QED BY <1>1 DEF GoodLists, Roomy, AllOf, TablesOf

LEMMA NothingOwed ==
  ASSUME NEW P, NEW C, NEW L, DOMAIN L = {}, NEW T, TablesOf(T) = {}
  PROVE  Owed(P, C, L, T, {}) = P \cup C
<1>1. Roomy(L) = {} /\ AllOf(L) = {}
  BY DEF Roomy, AllOf
<1>2. HeadersOf({}) = {} /\ SlotsOf({}) = {} /\ ObjectsOf({}) = {}
  BY DEF HeadersOf, SlotsOf, ObjectsOf
<1>3. QED BY <1>1, <1>2 DEF Owed

LEMMA QuietInv == Quiet => IInv
<1> SUFFICES ASSUME Quiet PROVE IInv
  OBVIOUS
<1>1. /\ call = Idle /\ call \in Frames /\ call.kind = "none" /\ call.step = "none" /\ call.obj = NULL
      /\ status \in {"none", "platform"} /\ lists = << >> /\ tables = << >>
      /\ err \in {"MAM_SUCCESS", "MAM_EINVAL", "MAM_ENOMEM"} /\ heap = PlatformOwed /\ ~fault
  BY IdleFacts DEF Quiet
<1>2. ~Alive /\ ~Making /\ ~Beginning /\ ~Destroying /\ OwnScope = {}
  BY <1>1, KindFacts DEF Alive, Making, Beginning, Destroying, OwnScope
<1>3. FrameOK
  BY <1>1 DEF FrameOK
<1>4. ListsOK
  BY <1>1, <1>2, NoLists DEF ListsOK
<1>5. TablesOK /\ ChainsOK
  BY <1>2 DEF TablesOK, ChainsOK
<1>6. NamesOK
  BY <1>1, <1>2 DEF NamesOK
<1>7. HeapOK
  <2>1. PlatformOwed \cup ContextOwed = PlatformOwed /\ ObjectOwed = {}
    BY <1>1, <1>2 DEF ContextOwed, ObjectOwed
  <2>2. Owed(PlatformOwed, ContextOwed, lists, tables, {}) = PlatformOwed \cup ContextOwed
    BY <1>1, NoLists, NothingOwed
  <2>3. IsFiniteSet(PlatformOwed)
    BY FS_EmptySet, FS_Singleton DEF PlatformOwed
  <2>4. QED BY <1>1, <1>2, <2>1, <2>2, <2>3 DEF HeapOK, Spare
<1>8. QED BY <1>1, <1>3, <1>4, <1>5, <1>6, <1>7 DEF IInv

LEMMA QuietNext == Quiet' => IInv'
BY QuietInv, PTL

LEMMA QuietIs ==
  ASSUME IInv, call = Idle, ~Alive
  PROVE  Quiet
<1>1. call.kind = "none" /\ call.step = "none"
  BY IdleFacts
<1>2. ~Making /\ ~Beginning /\ ~Destroying
  BY <1>1, KindFacts DEF Making, Beginning, Destroying
<1>3. status \in {"none", "platform"} /\ err \in {"MAM_SUCCESS", "MAM_EINVAL", "MAM_ENOMEM"}
  BY DEF IInv, FrameOK, Alive
<1>4. lists = << >> /\ tables = << >>
  BY <1>3 DEF IInv, ListsOK
<1>5. heap = PlatformOwed
  <2>1. ContextOwed = {} /\ ObjectOwed = {}
    BY <1>2, <1>3 DEF ContextOwed, ObjectOwed
  <2>2. heap = Owed(PlatformOwed, ContextOwed, lists, tables, ObjectOwed)
    BY <1>1, <1>2, <1>3 DEF IInv, HeapOK, Spare
  <2>3. Owed(PlatformOwed, ContextOwed, lists, tables, {}) = PlatformOwed \cup ContextOwed
    BY <1>4, NoLists, NothingOwed
  <2>4. QED BY <2>1, <2>2, <2>3
<1>6. QED BY <1>3, <1>4, <1>5 DEF IInv, Quiet

LEMMA InitInv == Init => IInv
<1>1. Init => Quiet
  BY DEF Init, Quiet, PlatformOwed
<1>2. QED BY <1>1, QuietInv

LEMMA CreatePlatformKeeps ==
  ASSUME IInv, CreatePlatform
  PROVE  IInv'
<1>1. call = Idle
  BY DEF IInv, FrameOK, CreatePlatform, Alive
<1>2. Quiet
  BY <1>1, QuietIs DEF CreatePlatform, Alive
<1>3. Quiet'
  <2>1. heap = {} /\ ~fault /\ lists' = << >> /\ tables' = << >> /\ call' = Idle
    BY <1>2 DEF CreatePlatform, Quiet, PlatformOwed
  <2>2. CASE status' = "platform" /\ Memory({}, {}, {PlatformBlock}) /\ err' = "MAM_SUCCESS"
    BY <2>1, <2>2 DEF Memory, Quiet, PlatformOwed
  <2>3. CASE err' \in {"MAM_EINVAL", "MAM_ENOMEM"} /\ UNCHANGED <<status, heap, fault>>
    BY <1>2, <2>1, <2>3 DEF Quiet, PlatformOwed
  <2>4. QED BY <2>2, <2>3 DEF CreatePlatform
<1>4. QED BY <1>3, QuietNext

LEMMA DestroyPlatformKeeps ==
  ASSUME IInv, DestroyPlatform
  PROVE  IInv'
<1>1. Quiet
  BY QuietIs DEF DestroyPlatform, Alive
<1>2. Quiet'
  BY <1>1 DEF DestroyPlatform, Memory, Quiet, PlatformOwed
<1>3. QED BY <1>2, QuietNext

LEMMA NoTables ==
  LET T == [s \in TabledScopes |-> NoTable] IN
  /\ DOMAIN T = TabledScopes /\ TablesOf(T) = {} /\ Tables(T) /\ \A s \in TabledScopes : T[s] = NoTable
<1>1. PICK T : T = [s \in TabledScopes |-> NoTable]
  OBVIOUS
<1>2. \A s \in TabledScopes : TableBlocks(s, NoTable) = {}
  BY NoTableIs DEF TableBlocks
<1>3. TablesOf(T) = {}
  BY <1>1, <1>2 DEF TablesOf
<1>4. Tables(T)
  <2>1. TableMem(NoTable)
    BY NoTableIs, IsTableMem
  <2>2. QED BY <1>1, <2>1, ScopeFacts DEF Tables
<1>5. QED BY <1>1, <1>3, <1>4

LEMMA CreateContextKeeps ==
  ASSUME IInv, CreateContext
  PROVE  IInv'
<1>1. Quiet
  BY QuietIs DEF CreateContext, Alive
<1>2. CASE err' \in {"MAM_EINVAL", "MAM_ENOMEM"} /\ UNCHANGED <<call, tables, heap, fault>>
  <2>1. Quiet'
    BY <1>1, <1>2 DEF CreateContext, Quiet, PlatformOwed
  <2>2. QED BY <2>1, QuietNext
<1>3. CASE /\ call' = [Idle EXCEPT !.kind = "context", !.step = "new", !.at = 1]
           /\ tables' = [scope \in {<<"constructs", 0>>, <<"variables", 0>>} |-> NoTable]
           /\ Memory({PlatformBlock}, {}, {ContextBlock})
           /\ err' = "MAM_SUCCESS"
  <2>1. /\ call' \in Frames /\ call'.kind = "context" /\ call'.step = "new" /\ call'.at = 1
        /\ call'.obj = NULL /\ call'.scope = Idle.scope
    <3>1. PICK c : c = [Idle EXCEPT !.kind = "context", !.step = "new", !.at = 1]
      OBVIOUS
    <3>2. /\ c.kind = "context" /\ c.step = "new" /\ c.at = 1 /\ c.obj = NULL /\ c.scope = Idle.scope
          /\ c \in Frames
      BY <3>1, IdleFacts DEF Frames, Steps
    <3>3. QED BY <1>3, <3>1, <3>2
  <2>2. status = "platform" /\ status' = "platform" /\ lists' = << >> /\ heap = {PlatformBlock} /\ ~fault
    BY <1>1 DEF CreateContext, Quiet, PlatformOwed
  <2>3. tables' = [s \in TabledScopes |-> NoTable] /\ err' = "MAM_SUCCESS"
    BY <1>3 DEF TabledScopes, ConstructScope, VariableScope
  <2>4. heap' = {PlatformBlock, ContextBlock} /\ ~fault'
    BY <1>3, <2>2 DEF Memory
  <2>5. ~Alive' /\ ~Making' /\ Beginning' /\ ~Destroying' /\ OwnScope' = {} /\ call' # Idle
    BY <2>1, <2>2, KindFacts, IdleFacts DEF Alive, Making, Beginning, Destroying, OwnScope
  <2>6. FrameOK'
    BY <2>1, <2>2, <2>3, <2>5 DEF FrameOK
  <2>7. ListsOK'
    BY <2>1, <2>2, <2>3, <2>5, NoLists DEF ListsOK
  <2>8. TablesOK' /\ ChainsOK'
    BY <2>5 DEF TablesOK, ChainsOK
  <2>9. NamesOK'
    BY <2>1, <2>5, KindFacts DEF NamesOK
  <2>10. HeapOK'
    <3>1. PlatformOwed' \cup ContextOwed' = {PlatformBlock, ContextBlock} /\ ObjectOwed' = {}
      BY <2>2, <2>5 DEF PlatformOwed, ContextOwed, ObjectOwed
    <3>2. Owed(PlatformOwed', ContextOwed', lists', tables', {}) = PlatformOwed' \cup ContextOwed'
      <4>1. TablesOf(tables') = {} /\ DOMAIN lists' = {}
        BY <2>2, <2>3, NoLists, NoTables
      <4>2. QED BY <4>1, NothingOwed
    <3>3. IsFiniteSet({PlatformBlock, ContextBlock})
      <4>1. IsFiniteSet({PlatformBlock} \cup {ContextBlock})
        BY FS_Singleton, FS_AddElement
      <4>2. {PlatformBlock} \cup {ContextBlock} = {PlatformBlock, ContextBlock}
        OBVIOUS
      <4>3. QED BY <4>1, <4>2
    <3>4. QED BY <2>1, <2>2, <2>4, <2>5, <3>1, <3>2, <3>3 DEF HeapOK, Spare
  <2>11. QED BY <2>4, <2>6, <2>7, <2>8, <2>9, <2>10 DEF IInv
<1>4. QED BY <1>2, <1>3 DEF CreateContext

\* The array that mam_context_create makes next.
LEMMA ContextListsFacts ==
  /\ Len(ContextLists) = 4
  /\ <<ContextLists[1], 0>> = PointerScope /\ <<ContextLists[2], 0>> = ArrayScope
  /\ <<ContextLists[3], 0>> = ConstructScope /\ <<ContextLists[4], 0>> = VariableScope
  /\ \A k \in 1 .. 4 : <<ContextLists[k], 0>> \in ContextScopes
  /\ \A j, k \in 1 .. 4 : <<ContextLists[j], 0>> = <<ContextLists[k], 0>> => j = k
  /\ ContextScopes = {<<ContextLists[k], 0>> : k \in 1 .. 4}
<1>1. /\ Len(ContextLists) = 4
      /\ ContextLists[1] = "pointers" /\ ContextLists[2] = "arrays"
      /\ ContextLists[3] = "constructs" /\ ContextLists[4] = "variables"
  BY DEF ContextLists
<1>2. \A k \in 1 .. 4 : k = 1 \/ k = 2 \/ k = 3 \/ k = 4
  OBVIOUS
<1>3. /\ <<ContextLists[1], 0>> = PointerScope /\ <<ContextLists[2], 0>> = ArrayScope
      /\ <<ContextLists[3], 0>> = ConstructScope /\ <<ContextLists[4], 0>> = VariableScope
  BY <1>1 DEF PointerScope, ArrayScope, ConstructScope, VariableScope
<1>4. \A k \in 1 .. 4 : <<ContextLists[k], 0>> \in ContextScopes
  BY <1>2, <1>3 DEF ContextScopes
<1>5. \A j, k \in 1 .. 4 : ContextLists[j] = ContextLists[k] => j = k
  BY <1>1, <1>2
<1>6. \A s \in ContextScopes : \E k \in 1 .. 4 : s = <<ContextLists[k], 0>>
  <2>1. 1 \in 1 .. 4 /\ 2 \in 1 .. 4 /\ 3 \in 1 .. 4 /\ 4 \in 1 .. 4
    OBVIOUS
  <2>2. QED BY <1>3, <2>1 DEF ContextScopes
<1>7. ContextScopes = {<<ContextLists[k], 0>> : k \in 1 .. 4}
  BY <1>4, <1>6
<1>8. QED BY <1>1, <1>3, <1>4, <1>5, <1>7

LEMMA NewContextArrayKeeps ==
  ASSUME IInv, NewContextArray
  PROVE  IInv'
<1>1. /\ call.kind = "context" /\ call.step = "new" /\ call \in Frames /\ status = "platform" /\ Beginning
      /\ call.obj = NULL /\ call.scope = Idle.scope /\ err = "MAM_SUCCESS"
  BY IdleFacts, KindFacts DEF IInv, FrameOK, NewContextArray, Making, Beginning, Destroying
<1>2. PICK k \in 1 .. 4 : k = call.at
  BY <1>1, IdleFacts, KindFacts DEF IInv, FrameOK, Making, Destroying
<1>3. ~Making /\ ~Destroying /\ OwnScope = {} /\ ~Alive
  BY <1>1, KindFacts DEF Making, Destroying, OwnScope, Alive
<1>4. /\ GoodLists(lists) /\ DOMAIN lists = {<<ContextLists[j], 0>> : j \in 1 .. k - 1}
      /\ \A s \in DOMAIN lists : lists[s] = EmptyArray
      /\ tables = [s \in TabledScopes |-> NoTable]
  BY <1>1, <1>2 DEF IInv, ListsOK
<1>5. /\ IsFiniteSet(heap) /\ heap = Owed({PlatformBlock}, {ContextBlock}, lists, tables, {}) /\ ~fault
  <2>1. PlatformOwed = {PlatformBlock} /\ ContextOwed = {ContextBlock} /\ ObjectOwed = {}
    BY <1>1, <1>3 DEF PlatformOwed, ContextOwed, ObjectOwed
  <2>2. QED BY <1>1, <1>3, <2>1 DEF IInv, HeapOK, Spare
<1>6. PICK scope \in ContextScopes : scope = <<ContextLists[k], 0>>
  BY ContextListsFacts
<1>7. scope \notin DOMAIN lists
  <2>1. \A j \in 1 .. k - 1 : j \in 1 .. 4 /\ j # k
    OBVIOUS
  <2>2. \A j \in 1 .. k - 1 : <<ContextLists[j], 0>> # scope
    BY <1>6, <2>1, ContextListsFacts
  <2>3. QED BY <1>4, <2>2
<1>8. CASE /\ lists' = With(lists, scope, EmptyArray)
           /\ Memory({}, {}, {Header(scope)})
           /\ Given
           /\ IF call.at < Len(ContextLists)
                THEN call' = [call EXCEPT !.at = @ + 1] /\ UNCHANGED <<status, err>>
                ELSE status' = "live" /\ Return
  <2>1. IsOpened(lists', lists, scope)
    BY <1>4, <1>6, <1>7, <1>8, OpenedLists, ScopeFacts
  <2>2. /\ GoodLists(lists') /\ DOMAIN lists' = {<<ContextLists[j], 0>> : j \in 1 .. k}
        /\ \A s \in DOMAIN lists' : lists'[s] = EmptyArray
    <3>1. 1 .. k = (1 .. k - 1) \cup {k}
      OBVIOUS
    <3>2. DOMAIN lists' = {<<ContextLists[j], 0>> : j \in 1 .. k}
      BY <1>4, <1>6, <2>1, <3>1 DEF IsOpened
    <3>3. QED BY <1>4, <2>1, <3>2 DEF IsOpened
  <2>3. /\ heap' = Owed({PlatformBlock}, {ContextBlock}, lists', tables', {}) /\ IsFiniteSet(heap')
        /\ ~fault' /\ tables' = tables
    <3>1. heap' = heap \cup {Header(scope)} /\ ~fault' /\ tables' = tables
      BY <1>5, <1>8 DEF Memory, NewContextArray
    <3>2. IsFiniteSet(heap')
      BY <1>5, <3>1, FS_AddElement
    <3>3. HeadersOf(DOMAIN lists') = HeadersOf(DOMAIN lists) \cup {Header(scope)}
      BY <2>1, OwedParts DEF IsOpened
    <3>4. QED BY <1>5, <2>1, <3>1, <3>2, <3>3 DEF Owed, IsOpened
  <2>4. CASE k < 4
    <3>1. /\ call' \in Frames /\ call'.step = "new" /\ call'.kind = "context" /\ call'.obj = NULL
          /\ call'.scope = Idle.scope /\ call'.at = k + 1 /\ status' = "platform" /\ err' = "MAM_SUCCESS"
      <4>1. call' = [call EXCEPT !.at = k + 1] /\ UNCHANGED <<status, err>>
        BY <1>2, <1>8, <2>4, ContextListsFacts
      <4>2. k + 1 \in Nat
        OBVIOUS
      <4>3. QED BY <1>1, <4>1, <4>2, AtFacts
    <3>2. ~Alive' /\ ~Making' /\ Beginning' /\ ~Destroying' /\ OwnScope' = {}
      BY <3>1, KindFacts DEF Alive, Making, Beginning, Destroying, OwnScope
    <3>3. FrameOK'
      <4>1. k + 1 \in 1 .. 4
        BY <2>4
      <4>2. QED BY <3>1, <3>2, <4>1 DEF FrameOK
    <3>4. ListsOK'
      <4>1. k + 1 - 1 = k
        OBVIOUS
      <4>2. call' # Idle
        BY <3>1, IdleFacts
      <4>3. QED BY <1>4, <2>2, <2>3, <3>1, <3>2, <4>1, <4>2 DEF ListsOK
    <3>5. TablesOK' /\ ChainsOK'
      BY <3>2 DEF TablesOK, ChainsOK
    <3>6. NamesOK'
      BY <3>1, <3>2, KindFacts DEF NamesOK
    <3>7. HeapOK'
      <4>1. PlatformOwed' = {PlatformBlock} /\ ContextOwed' = {ContextBlock} /\ ObjectOwed' = {}
        BY <3>1, <3>2 DEF PlatformOwed, ContextOwed, ObjectOwed
      <4>2. QED BY <2>3, <3>1, <3>2, <4>1 DEF HeapOK, Spare
    <3>8. QED BY <2>3, <3>3, <3>4, <3>5, <3>6, <3>7 DEF IInv
  <2>5. CASE k = 4
    <3>1. call' = Idle /\ status' = "live" /\ err' = "MAM_SUCCESS"
      BY <1>1, <1>2, <1>8, <2>5, ContextListsFacts DEF Return
    <3>2. /\ call' \in Frames /\ call'.kind = "none" /\ call'.step = "none" /\ call'.obj = NULL
          /\ call'.scope = <<"none", 0>>
      BY <3>1, IdleFacts
    <3>3. Alive' /\ ~Making' /\ ~Beginning' /\ ~Destroying' /\ OwnScope' = {}
      BY <3>1, <3>2, KindFacts DEF Alive, Making, Beginning, Destroying, OwnScope
    <3>4. DOMAIN lists' = ContextScopes
      BY <2>2, <2>5, ContextListsFacts
    <3>5. \A s \in ContextScopes : lists'[s].elems = << >> /\ Range(lists'[s].elems) = {}
      <4>1. EmptyArray.elems = << >> /\ Range(<< >>) = {}
        BY DEF EmptyArray, Range
      <4>2. QED BY <2>2, <3>4, <4>1
    <3>6. /\ ConstructScope \in ContextScopes /\ ArrayScope \in ContextScopes
          /\ \A s \in TabledScopes : s \in ContextScopes
      BY DEF ContextScopes, TabledScopes
    <3>7. FrameOK'
      BY <3>1, <3>2 DEF FrameOK
    <3>8. ListsOK'
      <4>1. OwnedOf(lists') = {}
        BY <3>5, <3>6 DEF OwnedOf
      <4>2. QED BY <2>2, <3>1, <3>3, <3>4, <4>1 DEF ListsOK
    <3>9. \A s \in TabledScopes : Held(s)' = << >> /\ tables'[s] = NoTable
      <4>1. \A s \in TabledScopes : tables'[s] = NoTable
        BY <1>4, <2>3
      <4>2. ASSUME NEW s \in TabledScopes PROVE Held(s)' = << >>
        BY <3>2, <3>3, <3>4, <3>5, <3>6 DEF Held
      <4>3. QED BY <4>1, <4>2
    <3>10. DOMAIN tables' = TabledScopes
      BY <1>4, <2>3
    <3>11. TablesOK'
      <4>1. DOMAIN tables' = TabledScopes \cup {FieldsOf(c) : c \in Range(lists'[ConstructScope].elems)}
        BY <3>5, <3>6, <3>10
      <4>2. \A s \in TabledScopes : IsTable(tables'[s], Held(s)') /\ DOMAIN tables'[s].hh = {}
        BY <3>9, NoTableIs
      <4>3. QED BY <3>2, <3>10, <4>1, <4>2 DEF TablesOK
    <3>12. NamesOK'
      <4>1. \A s \in TabledScopes : NamesApart(tables'[s], Held(s)')
        <5>1. Range(<< >>) = {}
          BY DEF Range
        <5>2. QED BY <3>9, <5>1 DEF NamesApart
      <4>2. QED BY <3>2, <3>10, <4>1 DEF NamesOK, Named
    <3>13. ChainsOK'
      <4>1. \A s \in TabledScopes : ChainsShort(tables'[s])
        BY <3>9, NoTableIs
      <4>2. QED BY <3>2, <3>10, <4>1 DEF ChainsOK
    <3>14. HeapOK'
      <4>1. PlatformOwed' = {PlatformBlock} /\ ContextOwed' = {ContextBlock} /\ ObjectOwed' = {}
        BY <3>1, <3>3 DEF PlatformOwed, ContextOwed, ObjectOwed
      <4>2. QED BY <2>3, <3>1, <3>2, <3>3, <4>1 DEF HeapOK, Spare
    <3>15. QED BY <2>3, <3>7, <3>8, <3>11, <3>12, <3>13, <3>14 DEF IInv
  <2>6. QED BY <2>4, <2>5
<1>9. CASE Fail("err_mem") /\ UNCHANGED <<status, lists, heap, fault>>
  <2>1. /\ call' \in Frames /\ call'.step = "err_mem" /\ call'.kind = "context" /\ call'.obj = NULL
        /\ call'.scope = Idle.scope /\ call'.at = k /\ err' = "MAM_ENOMEM"
    <3>1. call' = [call EXCEPT !.step = "err_mem"] /\ err' = "MAM_ENOMEM"
      BY <1>9 DEF Fail, NotGiven
    <3>2. QED BY <1>1, <1>2, <3>1, StepFacts DEF Steps
  <2>2. status' = "platform" /\ lists' = lists /\ heap' = heap /\ ~fault' /\ tables' = tables
    BY <1>1, <1>5, <1>9 DEF NewContextArray
  <2>3. ~Alive' /\ ~Making' /\ Beginning' /\ ~Destroying' /\ OwnScope' = {}
    BY <2>1, <2>2, KindFacts DEF Alive, Making, Beginning, Destroying, OwnScope
  <2>4. FrameOK'
    BY <2>1, <2>2, <2>3 DEF FrameOK
  <2>5. ListsOK'
    <3>1. call' # Idle
      BY <2>1, IdleFacts
    <3>2. QED BY <1>4, <2>1, <2>2, <2>3, <3>1 DEF ListsOK
  <2>6. TablesOK' /\ ChainsOK'
    BY <2>3 DEF TablesOK, ChainsOK
  <2>7. NamesOK'
    BY <2>1, <2>3, KindFacts DEF NamesOK
  <2>8. HeapOK'
    <3>1. PlatformOwed' = {PlatformBlock} /\ ContextOwed' = {ContextBlock} /\ ObjectOwed' = {}
      BY <2>2, <2>3 DEF PlatformOwed, ContextOwed, ObjectOwed
    <3>2. QED BY <1>5, <2>2, <2>1, <2>3, <3>1 DEF HeapOK, Spare
  <2>9. QED BY <2>2, <2>4, <2>5, <2>6, <2>7, <2>8 DEF IInv
<1>10. scope = <<ContextLists[call.at], 0>>
  BY <1>2, <1>6
<1>11. QED BY <1>8, <1>9, <1>10 DEF NewContextArray

LEMMA ContextFailsKeeps ==
  ASSUME IInv, ContextFails
  PROVE  IInv'
<1>1. /\ call.kind = "context" /\ call.step = "err_mem" /\ status = "platform" /\ Beginning
      /\ err \in {"MAM_SUCCESS", "MAM_EINVAL", "MAM_ENOMEM"}
  BY IdleFacts, KindFacts DEF IInv, FrameOK, ContextFails, Making, Beginning, Destroying
<1>2. PICK k \in 1 .. 4 : k = call.at
  BY <1>1, IdleFacts, KindFacts DEF IInv, FrameOK, Making, Beginning, Destroying
<1>3. ~Making /\ ~Destroying
  BY <1>1, KindFacts DEF Making, Destroying
<1>4. /\ DOMAIN lists = {<<ContextLists[j], 0>> : j \in 1 .. k - 1}
      /\ \A s \in DOMAIN lists : lists[s] = EmptyArray
      /\ tables = [s \in TabledScopes |-> NoTable]
  BY <1>1, <1>2 DEF IInv, ListsOK
<1>5. heap = Owed({PlatformBlock}, {ContextBlock}, lists, tables, {}) /\ ~fault
  <2>1. PlatformOwed = {PlatformBlock} /\ ContextOwed = {ContextBlock} /\ ObjectOwed = {}
    BY <1>1, <1>3 DEF PlatformOwed, ContextOwed, ObjectOwed
  <2>2. QED BY <1>1, <1>3, <2>1 DEF IInv, HeapOK, Spare
<1>6. heap = {PlatformBlock, ContextBlock} \cup HeadersOf(DOMAIN lists)
  <2>1. TablesOf(tables) = {}
    BY <1>4, NoTables
  <2>2. EmptyArray.room = 0 /\ EmptyArray.elems = << >> /\ Range(<< >>) = {}
    BY DEF EmptyArray, Range
  <2>3. Roomy(lists) = {} /\ AllOf(lists) = {}
    BY <1>4, <2>2 DEF Roomy, AllOf
  <2>4. SlotsOf({}) = {} /\ ObjectsOf({}) = {}
    BY DEF SlotsOf, ObjectsOf
  <2>5. QED BY <1>5, <2>1, <2>3, <2>4 DEF Owed
<1>7. VariableScope \notin DOMAIN lists
  <2>1. \A j \in 1 .. k - 1 : j \in 1 .. 4 /\ j # 4
    OBVIOUS
  <2>2. \A j \in 1 .. k - 1 : <<ContextLists[j], 0>> # <<ContextLists[4], 0>>
    BY <2>1, ContextListsFacts
  <2>3. QED BY <1>4, <2>2, ContextListsFacts
<1>8. Quiet'
  <2>1. {Header(s) : s \in DOMAIN lists \ {<<"variables", 0>>}} = HeadersOf(DOMAIN lists)
    BY <1>7 DEF HeadersOf, VariableScope
  <2>2. PICK freed : freed = {ContextBlock} \cup HeadersOf(DOMAIN lists)
    OBVIOUS
  <2>3. Memory({}, freed, {})
    BY <2>1, <2>2 DEF ContextFails
  <2>4. freed \subseteq heap
    BY <1>6, <2>2
  <2>5. PlatformBlock \notin freed
    BY <2>2, BlockSorts DEF HeadersOf
  <2>6. heap' = {PlatformBlock} /\ ~fault'
    BY <1>5, <1>6, <2>2, <2>3, <2>4, <2>5 DEF Memory
  <2>7. QED BY <1>1, <2>6 DEF ContextFails, Return, Quiet, PlatformOwed
<1>9. QED BY <1>8, QuietNext

------------------------------------------------------------------------------
(* While there is a context.                                               *)

LEMMA ListedIs == Listed = AllOf(lists) /\ \A s : ListedIn(s) = Range(lists[s].elems)
<1>1. \A s : ListedIn(s) = Range(lists[s].elems)
  BY DEF ListedIn, Range
<1>2. QED BY <1>1 DEF Listed, AllOf

LEMMA LiveFacts ==
  ASSUME IInv, status = "live", ~Destroying
  PROVE  /\ Alive /\ ~Beginning /\ call \in Frames
         /\ GoodLists(lists) /\ DOMAIN lists \subseteq Scopes /\ ContextScopes \subseteq DOMAIN lists
         /\ ConstructScope \in DOMAIN lists /\ ArrayScope \in DOMAIN lists
         /\ DOMAIN tables \subseteq Scopes /\ Tables(tables) /\ Bases({PlatformBlock}, {ContextBlock})
         /\ IsFiniteSet(heap) /\ ~fault
         /\ heap = Owed({PlatformBlock}, {ContextBlock}, lists, tables, ObjectOwed) \cup Spare
         /\ call.step # "buckets" =>
              heap = Owed({PlatformBlock}, {ContextBlock}, lists, tables, ObjectOwed)
         /\ \A s \in DOMAIN tables :
              /\ IsTable(tables[s], Held(s)) /\ DOMAIN tables[s].hh \subseteq Range(Held(s)) \cup Orphans(s)
              /\ NamesApart(tables[s], Held(s))
<1>1. call \in Frames /\ Alive /\ ~Beginning
  BY IdleFacts, KindFacts DEF IInv, FrameOK, Alive, Beginning, Making
<1>2. GoodLists(lists) /\ ContextScopes \subseteq DOMAIN lists
  BY <1>1 DEF IInv, ListsOK
<1>3. DOMAIN lists \subseteq Scopes
  BY <1>2 DEF GoodLists
<1>4. ConstructScope \in DOMAIN lists /\ ArrayScope \in DOMAIN lists
  BY <1>2 DEF ContextScopes
<1>5. /\ DOMAIN tables = TabledScopes \cup {FieldsOf(c) : c \in Range(lists[ConstructScope].elems)}
                           \cup (IF call.kind = "construct" THEN OwnScope ELSE {})
      /\ \A s \in DOMAIN tables :
           /\ IsTable(tables[s], Held(s))
           /\ ~Destroying => DOMAIN tables[s].hh \subseteq Range(Held(s)) \cup Orphans(s)
  BY <1>1 DEF IInv, TablesOK
<1>6. \A c \in Range(lists[ConstructScope].elems) : FieldsOf(c) \in Scopes
  BY <1>2, <1>4, GoodListsFacts, ScopeFacts
<1>7. call.kind = "construct" => OwnScope \subseteq Scopes
  <2>1. SUFFICES ASSUME call.kind = "construct" PROVE OwnScope \subseteq Scopes
    OBVIOUS
  <2>2. call.obj \in Nat \ {0}
    <3>1. call.obj # NULL
      BY <2>1, IdleFacts DEF IInv, FrameOK, Beginning, Destroying
    <3>2. QED BY <1>1, <3>1 DEF Frames, NULL
  <2>3. QED BY <2>1, <2>2, OwnFacts, ScopeFacts DEF OwnScope
<1>8. DOMAIN tables \subseteq Scopes
  BY <1>5, <1>6, <1>7, ScopeFacts
<1>9. Tables(tables)
  BY <1>5, <1>8, IsTableMem DEF Tables
<1>10. /\ IsFiniteSet(heap) /\ ~fault
       /\ heap = Owed({PlatformBlock}, {ContextBlock}, lists, tables, ObjectOwed) \cup Spare
       /\ call.step # "buckets" => Spare = {}
  <2>1. PlatformOwed = {PlatformBlock} /\ ContextOwed = {ContextBlock}
    BY DEF PlatformOwed, ContextOwed
  <2>2. QED BY <2>1 DEF IInv, HeapOK, Spare
<1>11. \A s \in DOMAIN tables : NamesApart(tables[s], Held(s))
  BY <1>1 DEF IInv, NamesOK
<1>12. QED BY <1>1, <1>2, <1>3, <1>4, <1>5, <1>8, <1>9, <1>10, <1>11 DEF Bases

\* An object that has a name goes into a scope that has a table.
LEMMA TabledFits ==
  ASSUME IInv, status = "live", ~Destroying, NEW kind \in Named, NEW s, ScopeFits(kind, s, DOMAIN lists)
  PROVE  s \in DOMAIN tables /\ s \in DOMAIN lists /\ s \in Scopes
<1>1. Alive /\ DOMAIN lists \subseteq Scopes
  BY LiveFacts
<1>2. s \in DOMAIN lists
  BY DEF ScopeFits
<1>3. DOMAIN tables = TabledScopes \cup {FieldsOf(c) : c \in Range(lists[ConstructScope].elems)}
                           \cup (IF call.kind = "construct" THEN OwnScope ELSE {})
  BY <1>1 DEF IInv, TablesOK
<1>4. s \in DOMAIN tables
  <2>1. CASE kind = "construct"
    BY <1>3, <2>1 DEF ScopeFits, TabledScopes
  <2>2. CASE kind = "variable"
    BY <1>3, <2>2 DEF ScopeFits, TabledScopes
  <2>3. CASE kind = "field"
    <3>1. PICK c \in Nat \ {0} : s = FieldsOf(c)
      BY <2>3, FieldScope DEF ScopeFits
    <3>2. FieldsOf(c) \in ContextScopes \cup OwnedOf(lists) \cup OwnScope
      BY <1>1, <1>2, <3>1 DEF IInv, ListsOK
    <3>3. CASE FieldsOf(c) \in OwnedOf(lists)
      <4>1. \E d \in Range(lists[ConstructScope].elems) : FieldsOf(c) = FieldsOf(d)
        BY <3>3, ScopesDiffer DEF OwnedOf
      <4>2. QED BY <1>3, <3>1, <4>1
    <3>4. CASE FieldsOf(c) \in OwnScope
      <4>1. call.kind = "construct"
        BY <3>4, OwnFacts, ScopesDiffer DEF OwnScope
      <4>2. QED BY <1>3, <3>1, <3>4, <4>1
    <3>5. QED BY <3>2, <3>3, <3>4, ScopesDiffer
  <2>4. QED BY <2>1, <2>2, <2>3 DEF Named
<1>5. QED BY <1>1, <1>2, <1>4

\* A step that changes none of the data, and may run into undefined behaviour.
LEMMA SameInv ==
  ASSUME IInv, UNCHANGED <<call, heap, lists, tables, fault>>, FrameOK',
         status' = status \/ (Alive /\ ~Destroying /\ status' = "undefined")
  PROVE  IInv'
<1>1. /\ call' = call /\ heap' = heap /\ lists' = lists /\ tables' = tables /\ fault' = fault
  OBVIOUS
<1>2. /\ Making' = Making /\ Beginning' = Beginning /\ Destroying' = Destroying /\ OwnScope' = OwnScope
      /\ Unlisted' = Unlisted /\ Listed' = Listed
  BY <1>1 DEF Making, Beginning, Destroying, OwnScope, Unlisted, Listed, ListedIn
<1>3. Alive' = Alive
  BY DEF Alive
<1>4. \A s : Held(s)' = Held(s) /\ Orphans(s)' = Orphans(s)
  BY <1>1, <1>2 DEF Held, Orphans
<1>5. ListsOK'
  <2>1. status' = "none" => status = "none"
    OBVIOUS
  <2>2. status' = "platform" => status = "platform"
    OBVIOUS
  <2>3. ListsOK
    BY DEF IInv
  <2>4. status' = "none" \/ (status' = "platform" /\ call' = Idle) => lists' = << >> /\ tables' = << >>
    BY <1>1, <2>1, <2>2, <2>3 DEF ListsOK
  <2>5. QED BY <1>1, <1>2, <1>3, <2>3, <2>4 DEF ListsOK
<1>6. TablesOK'
  BY <1>1, <1>2, <1>3, <1>4 DEF IInv, TablesOK
<1>7. NamesOK'
  BY <1>1, <1>2, <1>3, <1>4 DEF IInv, NamesOK
<1>8. ChainsOK'
  BY <1>1, <1>3 DEF IInv, ChainsOK
<1>9. HeapOK'
  <2>1. CASE status' = status
    <3>1. PlatformOwed' = PlatformOwed /\ ContextOwed' = ContextOwed /\ ObjectOwed' = ObjectOwed
      BY <1>1, <1>2, <2>1 DEF PlatformOwed, ContextOwed, ObjectOwed
    <3>2. /\ DestroyOrder' = DestroyOrder /\ \A s : ArrayBlocks(s)' = ArrayBlocks(s)
      BY <1>1 DEF DestroyOrder, ArrayBlocks
    <3>3. \A kind, id : DestroyedBlocks(kind, id)' = DestroyedBlocks(kind, id)
      BY <1>1 DEF DestroyedBlocks, ArrayBlocks, ListedIn
    <3>4. /\ Spare' = Spare /\ ThisKind' = ThisKind /\ ThisId' = ThisId
          /\ \A kind, id : Rest(kind, id)' = Rest(kind, id)
      BY <1>1, <3>2, <3>3 DEF Spare, NewTbl, ThisKind, ThisId, Rest, TableBlocks
    <3>5. QED BY <1>1, <1>2, <2>1, <3>1, <3>2, <3>4 DEF IInv, HeapOK
  <2>2. CASE Alive /\ ~Destroying /\ status' = "undefined"
    BY <1>1, <1>2, <2>2 DEF IInv, HeapOK, Spare
  <2>3. QED BY <2>1, <2>2
<1>10. QED BY <1>1, <1>5, <1>6, <1>7, <1>8, <1>9 DEF IInv

LEMMA RefuseKeeps ==
  ASSUME IInv, Refuse
  PROVE  IInv'
<1>1. /\ UNCHANGED <<status, call, heap, lists, tables, fault>> /\ err' = "MAM_EINVAL" /\ call = Idle
  BY DEF Refuse
<1>2. FrameOK'
  BY <1>1, IdleFacts DEF IInv, FrameOK
<1>3. QED BY <1>1, <1>2, SameInv

LEMMA StutterKeeps ==
  ASSUME IInv, UNCHANGED vars
  PROVE  IInv'
<1>1. UNCHANGED <<status, call, heap, lists, tables, fault, err>>
  BY DEF vars
<1>2. FrameOK'
  BY <1>1 DEF IInv, FrameOK, Making, Beginning, Destroying, Alive
<1>3. QED BY <1>1, <1>2, SameInv

------------------------------------------------------------------------------
(* The calls that make an object.                                          *)

\* Nothing is under way for an object.
LEMMA IdleIs ==
  ASSUME call = Idle
  PROVE  /\ ~Making /\ ~Beginning /\ ~Destroying /\ OwnScope = {} /\ ObjectOwed = {}
         /\ call.kind = "none" /\ call.step = "none"
         /\ \A s : Orphans(s) = {}
         /\ \A s : Held(s) = IF s \in DOMAIN lists THEN lists[s].elems ELSE << >>
BY IdleFacts, KindFacts DEF Making, Beginning, Destroying, OwnScope, ObjectOwed, Orphans, Held

\* The array and the table of a new object are new.
LEMMA FreshOwn ==
  ASSUME IInv, status = "live", call = Idle, NEW id \in Nat \ {0}, Object(id) \notin heap
  PROVE  /\ id \notin AllOf(lists)
         /\ FieldsOf(id) \notin DOMAIN lists /\ DimensionsOf(id) \notin DOMAIN lists
         /\ FieldsOf(id) \notin DOMAIN tables
<1>1. ~Destroying /\ OwnScope = {} /\ ObjectOwed = {} /\ call.kind = "none" /\ call.step = "none"
  BY IdleIs
<1>2. id \notin AllOf(lists)
  <2>1. heap = Owed({PlatformBlock}, {ContextBlock}, lists, tables, ObjectOwed)
    BY <1>1, LiveFacts
  <2>2. Object(id) \notin ObjectsOf(AllOf(lists))
    BY <1>1, <2>1 DEF Owed
  <2>3. QED BY <2>2 DEF ObjectsOf
<1>3. /\ Alive /\ ConstructScope \in DOMAIN lists /\ ArrayScope \in DOMAIN lists /\ GoodLists(lists)
  BY <1>1, LiveFacts
<1>4. id \notin Range(lists[ConstructScope].elems) /\ id \notin Range(lists[ArrayScope].elems)
  BY <1>2, <1>3, GoodListsFacts
<1>5. FieldsOf(id) \notin ContextScopes \cup OwnedOf(lists) /\ DimensionsOf(id) \notin ContextScopes \cup OwnedOf(lists)
  <2>1. \A c \in Range(lists[ConstructScope].elems) : FieldsOf(c) # FieldsOf(id) /\ FieldsOf(c) # DimensionsOf(id)
    BY <1>4, ScopesDiffer
  <2>2. \A a \in Range(lists[ArrayScope].elems) : DimensionsOf(a) # DimensionsOf(id) /\ DimensionsOf(a) # FieldsOf(id)
    BY <1>4, ScopesDiffer
  <2>3. QED BY <2>1, <2>2, ScopesDiffer DEF OwnedOf
<1>6. DOMAIN lists \subseteq ContextScopes \cup OwnedOf(lists)
  BY <1>1, <1>3 DEF IInv, ListsOK
<1>7. FieldsOf(id) \notin DOMAIN tables
  <2>1. DOMAIN tables = TabledScopes \cup {FieldsOf(c) : c \in Range(lists[ConstructScope].elems)}
                          \cup (IF call.kind = "construct" THEN OwnScope ELSE {})
    BY <1>3 DEF IInv, TablesOK
  <2>2. \A c \in Range(lists[ConstructScope].elems) : FieldsOf(c) # FieldsOf(id)
    BY <1>4, ScopesDiffer
  <2>3. FieldsOf(id) \notin TabledScopes
    BY ScopeFacts, ScopesDiffer
  <2>4. QED BY <1>1, <2>1, <2>2, <2>3
<1>8. QED BY <1>2, <1>5, <1>6, <1>7

\* The name was looked up.
LEMMA AcceptedName ==
  ASSUME IInv, status = "live", call = Idle, NEW kind \in Named, NEW s, ScopeFits(kind, s, DOMAIN lists),
         NEW name \in DOMAIN HASH_FUNCTION, NameAccepted(kind, s, name)
  PROVE  Unnamed(tables[s], Held(s), name)
<1>1. CASE name = NoName
  BY <1>1 DEF Unnamed
<1>2. CASE name # NoName
  <2>1. PICK x : x = HashFind(tables[s], name)
    OBVIOUS
  <2>2. x = NULL
    BY <1>2, <2>1 DEF NameAccepted
  <2>3. s \in DOMAIN tables /\ IsTable(tables[s], Held(s))
    BY TabledFits, IdleIs, LiveFacts
  <2>4. IsFound(x, tables[s], Held(s), name)
    BY <2>1, <2>3, HashFindOfWhole DEF IsTable
  <2>5. NULL \notin Range(Held(s))
    BY <2>3, TableHas DEF NULL
  <2>6. QED BY <2>2, <2>4, <2>5 DEF IsFound, Unnamed
<1>3. QED BY <1>1, <1>2

LEMMA MakeKeeps ==
  ASSUME IInv, NEW kind \in Kinds, NEW scope \in ScopesOf(kind),
         NEW name \in IF kind \in Named THEN NamesOf[kind] ELSE {NoName}, Make(kind, scope, name)
  PROVE  IInv'
<1>1. status = "live" /\ call = Idle /\ NameAccepted(kind, scope, name) /\ lists' = lists
  BY DEF Make
<1>2. /\ ~Making /\ ~Beginning /\ ~Destroying /\ OwnScope = {} /\ ObjectOwed = {}
      /\ call.kind = "none" /\ call.step = "none"
      /\ \A s : Orphans(s) = {}
      /\ \A s : Held(s) = IF s \in DOMAIN lists THEN lists[s].elems ELSE << >>
  BY <1>1, IdleIs
<1>3. /\ Alive /\ call \in Frames
      /\ GoodLists(lists) /\ DOMAIN lists \subseteq Scopes /\ ContextScopes \subseteq DOMAIN lists
      /\ DOMAIN tables \subseteq Scopes /\ Tables(tables)
      /\ IsFiniteSet(heap) /\ ~fault
      /\ heap = Owed({PlatformBlock}, {ContextBlock}, lists, tables, {})
      /\ \A s \in DOMAIN tables :
           /\ IsTable(tables[s], Held(s)) /\ DOMAIN tables[s].hh \subseteq Range(Held(s))
           /\ NamesApart(tables[s], Held(s))
  <2>1. \A s : Range(Held(s)) \cup Orphans(s) = Range(Held(s))
    BY <1>2
  <2>2. QED BY <1>1, <1>2, <2>1, LiveFacts
<1>4. ScopeFits(kind, scope, DOMAIN lists)
  BY <1>3, ScopesOfFits
<1>5. name \in DOMAIN HASH_FUNCTION
  <2>1. NoName \in DOMAIN HASH_FUNCTION /\ \A k \in Named : NamesOf[k] \subseteq DOMAIN HASH_FUNCTION
    BY NamesOfAssumption DEF Named
  <2>2. QED BY <2>1
<1>6. CASE /\ NotGiven
           /\ status' = IF kind \in {"pointer", "array"} THEN "undefined" ELSE status
           /\ UNCHANGED <<call, tables, heap, fault>>
  <2>1. call' = Idle /\ err' = "MAM_ENOMEM" /\ status' \in {"live", "undefined"}
    BY <1>1, <1>6 DEF NotGiven
  <2>2. FrameOK'
    BY <2>1, IdleFacts DEF FrameOK
  <2>3. QED BY <1>1, <1>2, <1>3, <1>6, <2>2, SameInv
<1>7. ASSUME NEW id, id = NewId,
             call' = [kind |-> kind, step |-> IF kind \in {"construct", "array"} THEN "new" ELSE "push",
                      obj |-> id, scope |-> scope, name |-> name, at |-> 0],
             tables' = IF kind = "construct" THEN With(tables, Own(kind, id), NoTable) ELSE tables,
             Memory({Header(scope)}, {}, {Object(id)}), err' = "MAM_SUCCESS", status' = "live"
      PROVE  IInv'
  <2>1. id \in Nat \ {0} /\ Object(id) \notin heap
    BY <1>3, <1>7, FreshId
  <2>2. /\ id \notin AllOf(lists)
        /\ FieldsOf(id) \notin DOMAIN lists /\ DimensionsOf(id) \notin DOMAIN lists
        /\ FieldsOf(id) \notin DOMAIN tables
    BY <1>1, <2>1, FreshOwn
  <2>3. scope \in DOMAIN lists /\ scope \in Scopes
    BY <1>3, <1>4 DEF ScopeFits
  <2>4. PICK own : own = Own(kind, id)
    OBVIOUS
  <2>5. own \notin DOMAIN lists /\ (kind = "construct" => own = FieldsOf(id)) /\ own \in Scopes
        /\ (kind = "construct" => own \notin DOMAIN tables)
    BY <2>1, <2>2, <2>4, OwnFacts, ScopeFacts
  <2>6. PICK st : st = IF kind \in {"construct", "array"} THEN "new" ELSE "push"
    OBVIOUS
  <2>7. /\ call'.kind = kind /\ call'.step = st /\ call'.obj = id /\ call'.scope = scope
        /\ call'.name = name /\ call' \in Frames
    BY <1>5, <1>7, <2>1, <2>3, <2>6 DEF Frames, Steps
  <2>8. st \in {"new", "push"} /\ (kind \in {"construct", "array"} <=> st = "new")
    BY <2>6
  <2>9. /\ Alive' /\ Making' /\ ~Beginning' /\ ~Destroying' /\ Unlisted'
        /\ OwnScope' = IF kind \in {"construct", "array"} THEN {own} ELSE {}
    BY <1>7, <2>4, <2>7, <2>8, KindFacts DEF Alive, Making, Beginning, Destroying, Unlisted, OwnScope
  <2>10. FrameOK'
    <3>1. st \in StepsOf(kind) /\ id # NULL
      BY <2>1, <2>8 DEF StepsOf, NULL
    <3>2. QED BY <1>1, <1>4, <1>7, <2>7, <2>9, <3>1 DEF FrameOK
  <2>11. ListsOK'
    <3>1. Listed' = AllOf(lists)
      BY <1>1, ListedIs DEF Listed, ListedIn
    <3>2. /\ ContextScopes \cup OwnedOf(lists) \subseteq DOMAIN lists
          /\ DOMAIN lists \subseteq ContextScopes \cup OwnedOf(lists)
      BY <1>2, <1>3 DEF IInv, ListsOK
    <3>3. own \notin DOMAIN lists'
      BY <1>1, <2>5
    <3>4. kind \in {"construct", "array"} => call'.step = "new"
      BY <2>7, <2>8
    <3>5. call'.step # "err_mem" /\ call'.step # "err_arr"
      BY <2>7, <2>8
    <3>6. \A s \in OwnScope' : s = own /\ kind \in {"construct", "array"}
      BY <2>9
    <3>7. \A s \in OwnScope' : s \notin DOMAIN lists' /\ call'.step = "new"
      BY <3>3, <3>4, <3>6
    <3>8. GoodLists(lists') /\ call'.obj \notin Listed' /\ status' = "live"
      BY <1>1, <1>3, <1>7, <2>2, <2>7, <3>1
    <3>9. /\ ContextScopes \cup OwnedOf(lists') \subseteq DOMAIN lists'
          /\ DOMAIN lists' \subseteq ContextScopes \cup OwnedOf(lists') \cup OwnScope'
      BY <1>1, <3>2
    <3>10. QED BY <2>9, <3>5, <3>7, <3>8, <3>9 DEF ListsOK
  <2>12. \A s : Held(s)' = Held(s) /\ Orphans(s)' = {}
    <3>1. call'.step \notin {"hash", "buckets", "err_arr", "err_mem"}
      BY <2>7, <2>8
    <3>2. \A s : Held(s)' = IF s \in DOMAIN lists THEN lists[s].elems ELSE << >>
      BY <1>1, <2>9, <3>1 DEF Held
    <3>3. \A s : Orphans(s)' = {}
      BY <3>1 DEF Orphans
    <3>4. QED BY <1>2, <3>2, <3>3
  <2>13. /\ DOMAIN tables' = DOMAIN tables \cup (IF kind = "construct" THEN {own} ELSE {})
         /\ \A s \in DOMAIN tables : tables'[s] = tables[s]
         /\ \A s \in DOMAIN tables' \ DOMAIN tables : tables'[s] = NoTable /\ s = own
    <3>1. CASE kind = "construct"
      <4>1. tables' = With(tables, own, NoTable)
        BY <1>7, <2>4, <3>1
      <4>2. own \notin DOMAIN tables
        BY <2>5, <3>1
      <4>3. QED BY <3>1, <4>1, <4>2 DEF With
    <3>2. CASE kind # "construct"
      BY <1>7, <3>2
    <3>3. QED BY <3>1, <3>2
  <2>14. Held(own)' = << >>
    BY <1>2, <2>5, <2>12
  <2>15. TablesOK'
    <3>1. DOMAIN tables = TabledScopes \cup {FieldsOf(c) : c \in Range(lists[ConstructScope].elems)}
      BY <1>2, <1>3 DEF IInv, TablesOK
    <3>2. DOMAIN tables' = TabledScopes \cup {FieldsOf(c) : c \in Range(lists'[ConstructScope].elems)}
                             \cup (IF call'.kind = "construct" THEN OwnScope' ELSE {})
      BY <1>1, <2>7, <2>9, <2>13, <3>1
    <3>3. ASSUME NEW s \in DOMAIN tables'
          PROVE  IsTable(tables'[s], Held(s)') /\ DOMAIN tables'[s].hh \subseteq Range(Held(s)') \cup Orphans(s)'
      <4>1. CASE s \in DOMAIN tables
        BY <1>3, <2>12, <2>13, <4>1
      <4>2. CASE s \notin DOMAIN tables
        BY <2>13, <2>14, <4>2, NoTableIs
      <4>3. QED BY <4>1, <4>2
    <3>4. QED BY <3>2, <3>3 DEF TablesOK
  <2>16. NamesOK'
    <3>1. \A s \in DOMAIN tables' : NamesApart(tables'[s], Held(s)')
      <4>1. NamesApart(NoTable, << >>)
        BY DEF NamesApart, Range
      <4>2. QED BY <1>3, <2>12, <2>13, <2>14, <4>1
    <3>2. ASSUME kind \in Named
          PROVE  Unnamed(tables'[scope], Held(scope)', name)
      <4>1. Unnamed(tables[scope], Held(scope), name)
        BY <1>1, <1>4, <1>5, <3>2, AcceptedName
      <4>2. scope \in DOMAIN tables
        BY <1>1, <1>2, <1>4, <3>2, TabledFits
      <4>3. QED BY <2>12, <2>13, <4>1, <4>2
    <3>3. QED BY <2>7, <3>1, <3>2 DEF NamesOK
  <2>17. ChainsOK'
    <3>1. \A s \in DOMAIN tables : ChainsShort(tables[s])
      BY <1>2, <1>3 DEF IInv, ChainsOK
    <3>2. \A s \in DOMAIN tables' : ChainsShort(tables'[s])
      BY <2>13, <3>1, NoTableIs
    <3>3. call'.step # "expand"
      BY <2>7, <2>8
    <3>4. QED BY <3>2, <3>3 DEF ChainsOK
  <2>18. heap' = heap \cup {Object(id)} /\ ~fault'
    <3>1. Header(scope) \in heap
      BY <1>3, <2>3 DEF Owed, HeadersOf
    <3>2. QED BY <1>3, <1>7, <3>1 DEF Memory
  <2>19. HeapOK'
    <3>1. PlatformOwed' = {PlatformBlock} /\ ContextOwed' = {ContextBlock} /\ ObjectOwed' = {id}
      BY <1>7, <2>7, <2>9 DEF PlatformOwed, ContextOwed, ObjectOwed
    <3>2. TablesOf(tables') = TablesOf(tables)
      <4>1. \A s \in DOMAIN tables : tables'[s].mem = tables[s].mem
        BY <2>13
      <4>2. \A s \in DOMAIN tables' \ DOMAIN tables : tables'[s].mem = {}
        BY <2>13, NoTableIs
      <4>3. DOMAIN tables \subseteq DOMAIN tables'
        BY <2>13
      <4>4. QED BY <4>1, <4>2, <4>3, SameTablesOwe
    <3>3. ObjectsOf(AllOf(lists) \cup {id}) = ObjectsOf(AllOf(lists) \cup {}) \cup {Object(id)}
      BY OwedParts
    <3>4. heap' = Owed({PlatformBlock}, {ContextBlock}, lists', tables', {id})
      BY <1>1, <1>3, <2>18, <3>2, <3>3 DEF Owed
    <3>5. IsFiniteSet(heap')
      BY <1>3, <2>18, FS_AddElement
    <3>6. call'.step # "buckets"
      BY <2>7, <2>8
    <3>7. QED BY <2>9, <3>1, <3>4, <3>5, <3>6 DEF HeapOK, Spare
  <2>20. QED BY <2>10, <2>11, <2>15, <2>16, <2>17, <2>18, <2>19 DEF IInv
<1>8. QED BY <1>1, <1>6, <1>7 DEF Make

\* An object is being made.
LEMMA MakingFacts ==
  ASSUME IInv, Making, status # "undefined"
  PROVE  /\ status = "live" /\ ~Beginning /\ ~Destroying /\ call # Idle /\ call.step \in StepsOf(call.kind)
         /\ call.obj \in Nat \ {0} /\ ScopeFits(call.kind, call.scope, DOMAIN lists)
         /\ call.scope \in DOMAIN lists /\ ObjectOwed = {call.obj}
<1>1. call # Idle /\ ~Beginning /\ ~Destroying
  BY IdleFacts, KindFacts DEF Making, Beginning, Destroying
<1>2. /\ call \in Frames /\ Alive /\ call.step \in StepsOf(call.kind)
      /\ call.obj # NULL /\ ScopeFits(call.kind, call.scope, DOMAIN lists)
  BY <1>1 DEF IInv, FrameOK
<1>3. call.obj \in Nat \ {0}
  BY <1>2 DEF Frames, NULL
<1>4. QED BY <1>1, <1>2, <1>3 DEF Alive, ScopeFits, ObjectOwed

\* The array of the object is not the one that the object goes into, nor
\* one of the context.
LEMMA OwnApart ==
  ASSUME IInv, Making, status # "undefined", NEW own, own = Own(call.kind, call.obj)
  PROVE  /\ own \in Scopes /\ own \notin ContextScopes
         /\ call.kind \in {"construct", "array"} => OwnScope = {own} /\ call.scope # own
         /\ call.kind \notin {"construct", "array"} => OwnScope = {}
         /\ call.kind = "construct" => own = FieldsOf(call.obj) /\ call.scope = ConstructScope
         /\ call.kind # "construct" => own = DimensionsOf(call.obj)
         /\ call.kind = "array" => call.scope = ArrayScope
<1>1. call.obj \in Nat \ {0} /\ ScopeFits(call.kind, call.scope, DOMAIN lists)
  BY MakingFacts
<1>2. own \in Scopes /\ own \notin ContextScopes
  BY <1>1, OwnFacts, ScopeFacts, ScopesDiffer
<1>3. (call.kind = "construct" => call.scope = ConstructScope) /\ (call.kind = "array" => call.scope = ArrayScope)
  BY <1>1 DEF ScopeFits
<1>4. ConstructScope \in ContextScopes /\ ArrayScope \in ContextScopes
  BY DEF ContextScopes
<1>5. QED BY <1>2, <1>3, <1>4, OwnFacts DEF OwnScope

\* A step that leaves the tables and their elements alone.
LEMMA TablesStay ==
  ASSUME IInv, status = "live", ~Destroying, status' = "live", ~Destroying', tables' = tables,
         \A s \in DOMAIN tables : Held(s)' = Held(s),
         \A s \in DOMAIN tables : Orphans(s) \subseteq Orphans(s)',
         {FieldsOf(c) : c \in Range(lists'[ConstructScope].elems)}
             \cup (IF call'.kind = "construct" THEN OwnScope' ELSE {})
           = {FieldsOf(c) : c \in Range(lists[ConstructScope].elems)}
               \cup (IF call.kind = "construct" THEN OwnScope ELSE {}),
         call.step # "expand", call'.step # "expand"
  PROVE  TablesOK' /\ ChainsOK' /\ \A s \in DOMAIN tables' : NamesApart(tables'[s], Held(s)')
<1>1. Alive /\ \A s \in DOMAIN tables :
        /\ IsTable(tables[s], Held(s)) /\ DOMAIN tables[s].hh \subseteq Range(Held(s)) \cup Orphans(s)
        /\ NamesApart(tables[s], Held(s))
  BY LiveFacts
<1>2. DOMAIN tables = TabledScopes \cup {FieldsOf(c) : c \in Range(lists[ConstructScope].elems)}
                        \cup (IF call.kind = "construct" THEN OwnScope ELSE {})
  BY <1>1 DEF IInv, TablesOK
<1>3. DOMAIN tables' = TabledScopes \cup {FieldsOf(c) : c \in Range(lists'[ConstructScope].elems)}
                        \cup (IF call'.kind = "construct" THEN OwnScope' ELSE {})
  BY <1>2
<1>4. \A s \in DOMAIN tables' :
        /\ IsTable(tables'[s], Held(s)') /\ DOMAIN tables'[s].hh \subseteq Range(Held(s)') \cup Orphans(s)'
        /\ NamesApart(tables'[s], Held(s)')
  BY <1>1
<1>5. TablesOK'
  BY <1>3, <1>4 DEF TablesOK
<1>6. ChainsOK'
  BY <1>1 DEF IInv, ChainsOK
<1>7. QED BY <1>4, <1>5, <1>6

\* A step that goes on with the call, to another step of it.
GoesOn(st) ==
  /\ call' \in Frames /\ call'.step = st /\ call'.kind = call.kind /\ call'.obj = call.obj
  /\ call'.scope = call.scope /\ call'.name = call.name
  /\ Making' /\ ~Beginning' /\ ~Destroying' /\ OwnScope' = OwnScope /\ ObjectOwed' = {call.obj}
  /\ call' # Idle

LEMMA GoesOnFacts ==
  ASSUME IInv, Making, NEW st \in Steps, call' = [call EXCEPT !.step = st]
  PROVE  GoesOn(st)
<1>1. call \in Frames
  BY DEF IInv, FrameOK
<1>2. /\ call' \in Frames /\ call'.step = st /\ call'.kind = call.kind /\ call'.obj = call.obj
      /\ call'.scope = call.scope /\ call'.name = call.name
  BY <1>1, StepFacts
<1>3. Making' /\ ~Beginning' /\ ~Destroying' /\ OwnScope' = OwnScope /\ ObjectOwed' = {call.obj}
  BY <1>2, KindFacts DEF Making, Beginning, Destroying, OwnScope, ObjectOwed
<1>4. call' # Idle
  BY <1>2, IdleFacts, KindFacts DEF Making
<1>5. QED BY <1>2, <1>3, <1>4 DEF GoesOn

\* The frame is right after such a step.
LEMMA FrameGoesOn ==
  ASSUME IInv, Making, status # "undefined", NEW st \in StepsOf(call.kind), GoesOn(st), status' = status,
         call.scope \in DOMAIN lists',
         (err' = err /\ err = "MAM_SUCCESS")
           \/ (err' \in {"MAM_SUCCESS", "MAM_EINVAL", "MAM_ENOMEM"} /\ st \in {"err_mem", "err_arr"})
  PROVE  FrameOK'
<1>1. /\ status' = "live" /\ call.obj # NULL /\ ScopeFits(call.kind, call.scope, DOMAIN lists)
  BY MakingFacts DEF NULL
<1>2. ScopeFits(call.kind, call.scope, DOMAIN lists')
  BY <1>1 DEF ScopeFits
<1>3. Alive'
  BY <1>1 DEF Alive
<1>4. /\ call' \in Frames /\ call'.step = st /\ call'.kind = call.kind /\ call'.obj = call.obj
      /\ call'.scope = call.scope /\ Making'
  BY DEF GoesOn
<1>5. err' \in {"MAM_SUCCESS", "MAM_EINVAL", "MAM_ENOMEM"}
  OBVIOUS
<1>6. call'.step \in {"new", "push", "hash", "buckets", "expand"} => err' = "MAM_SUCCESS"
  BY <1>4
<1>7. QED BY <1>1, <1>2, <1>3, <1>4, <1>5, <1>6 DEF FrameOK

LEMMA NewOwnArrayKeeps ==
  ASSUME IInv, NewOwnArray, status # "undefined"
  PROVE  IInv'
<1>1. Making /\ call.step = "new" /\ call.kind \in {"construct", "array"} /\ status' = status /\ tables' = tables
  BY KindFacts DEF NewOwnArray, Making
<1>2. /\ status = "live" /\ ~Beginning /\ ~Destroying /\ call.obj \in Nat \ {0}
      /\ ScopeFits(call.kind, call.scope, DOMAIN lists) /\ call.scope \in DOMAIN lists /\ ObjectOwed = {call.obj}
  BY <1>1, MakingFacts
<1>3. /\ Alive /\ GoodLists(lists) /\ DOMAIN lists \subseteq Scopes /\ ContextScopes \subseteq DOMAIN lists
      /\ ConstructScope \in DOMAIN lists /\ ArrayScope \in DOMAIN lists
      /\ IsFiniteSet(heap) /\ ~fault
      /\ heap = Owed({PlatformBlock}, {ContextBlock}, lists, tables, {call.obj})
  BY <1>1, <1>2, LiveFacts
<1>4. PICK own : own = Own(call.kind, call.obj)
  OBVIOUS
<1>5. own \in Scopes /\ OwnScope = {own} /\ own \notin ContextScopes
  BY <1>1, <1>4, OwnApart
<1>6. own \notin DOMAIN lists /\ call.obj \notin Listed
  BY <1>1, <1>5 DEF IInv, ListsOK, Unlisted
<1>7. /\ ContextScopes \cup OwnedOf(lists) \subseteq DOMAIN lists
      /\ DOMAIN lists \subseteq ContextScopes \cup OwnedOf(lists) \cup OwnScope
  BY <1>3 DEF IInv, ListsOK
<1>8. err = "MAM_SUCCESS"
  BY <1>1 DEF IInv, FrameOK
<1>9. \A s \in DOMAIN tables : Orphans(s) = {}
  BY <1>1 DEF Orphans
<1>10. \A s : Held(s) = IF s \in DOMAIN lists THEN lists[s].elems ELSE << >>
  BY <1>1, <1>2 DEF Held
<1>11. Unnamed(tables[call.scope], Held(call.scope), call.name) \/ call.kind \notin Named
  BY <1>1 DEF IInv, NamesOK
<1>12. CASE lists' = With(lists, own, EmptyArray) /\ Memory({}, {}, {Header(own)}) /\ Given /\ GoTo("push")
  <2>1. GoesOn("push") /\ err' = err
    BY <1>1, <1>12, GoesOnFacts DEF GoTo, Steps
  <2>2. /\ call' \in Frames /\ call'.step = "push" /\ call'.kind = call.kind /\ call'.obj = call.obj
        /\ call'.scope = call.scope /\ call'.name = call.name
        /\ Making' /\ ~Beginning' /\ ~Destroying' /\ OwnScope' = OwnScope /\ ObjectOwed' = {call.obj}
    BY <2>1 DEF GoesOn
  <2>3. IsOpened(lists', lists, own)
    BY <1>3, <1>5, <1>6, <1>12, OpenedLists
  <2>4. /\ GoodLists(lists') /\ DOMAIN lists' = DOMAIN lists \cup {own} /\ lists'[own] = EmptyArray
        /\ \A r \in DOMAIN lists : lists'[r] = lists[r]
        /\ Roomy(lists') = Roomy(lists) /\ AllOf(lists') = AllOf(lists)
    BY <2>3 DEF IsOpened
  <2>5. FrameOK'
    <3>1. "push" \in StepsOf(call.kind)
      BY DEF StepsOf
    <3>2. call.scope \in DOMAIN lists'
      BY <1>2, <2>4
    <3>3. QED BY <1>1, <1>2, <1>8, <2>1, <3>1, <3>2, FrameGoesOn
  <2>6. \A s : Held(s)' = Held(s)
    <3>1. EmptyArray.elems = << >>
      BY DEF EmptyArray
    <3>2. \A s : Held(s)' = IF s \in DOMAIN lists' THEN lists'[s].elems ELSE << >>
      BY <2>2 DEF Held
    <3>3. QED BY <1>10, <2>4, <3>1, <3>2
  <2>7. OwnedOf(lists') = OwnedOf(lists)
    BY <1>3, <2>4 DEF OwnedOf
  <2>8. ListsOK'
    <3>1. Listed' = AllOf(lists') /\ Listed = AllOf(lists)
      BY ListedIs DEF Listed, ListedIn, AllOf, Range
    <3>2. Unlisted'
      BY <2>2 DEF Unlisted
    <3>3. lists'[own].elems = << >> /\ own \in DOMAIN lists'
      BY <2>4 DEF EmptyArray
    <3>4. call'.obj \notin Listed'
      BY <1>6, <2>2, <2>4, <3>1
    <3>5. /\ ContextScopes \cup OwnedOf(lists') \subseteq DOMAIN lists'
          /\ DOMAIN lists' \subseteq ContextScopes \cup OwnedOf(lists') \cup OwnScope'
      BY <1>5, <1>7, <2>2, <2>4, <2>7
    <3>6. \A s \in OwnScope' : s \in DOMAIN lists' /\ lists'[s].elems = << >>
      BY <1>5, <2>2, <3>3
    <3>7. QED BY <1>1, <1>2, <2>2, <2>4, <3>2, <3>4, <3>5, <3>6 DEF ListsOK
  <2>9. TablesOK' /\ ChainsOK' /\ \A s \in DOMAIN tables' : NamesApart(tables'[s], Held(s)')
    <3>1. lists'[ConstructScope] = lists[ConstructScope]
      BY <1>3, <2>4
    <3>2. call.step # "expand" /\ call'.step # "expand"
      BY <1>1, <2>2
    <3>3. \A s \in DOMAIN tables : Orphans(s) \subseteq Orphans(s)'
      BY <1>9
    <3>4. QED BY <1>1, <1>2, <2>2, <2>6, <3>1, <3>2, <3>3, TablesStay
  <2>10. NamesOK'
    BY <1>1, <1>11, <2>2, <2>6, <2>9 DEF NamesOK
  <2>11. heap' = heap \cup {Header(own)} /\ ~fault'
    BY <1>3, <1>12 DEF Memory
  <2>12. HeapOK'
    <3>1. PlatformOwed' = {PlatformBlock} /\ ContextOwed' = {ContextBlock}
      BY <1>1, <1>2 DEF PlatformOwed, ContextOwed
    <3>2. HeadersOf(DOMAIN lists') = HeadersOf(DOMAIN lists) \cup {Header(own)}
      BY <2>4, OwedParts
    <3>3. heap' = Owed({PlatformBlock}, {ContextBlock}, lists', tables', {call.obj})
      BY <1>1, <1>3, <2>4, <2>11, <3>2 DEF Owed
    <3>4. IsFiniteSet(heap')
      BY <1>3, <2>11, FS_AddElement
    <3>5. QED BY <2>2, <3>1, <3>3, <3>4 DEF HeapOK, Spare
  <2>13. QED BY <2>5, <2>8, <2>9, <2>10, <2>11, <2>12 DEF IInv
<1>13. CASE Fail("err_mem") /\ UNCHANGED <<lists, heap, fault>>
  <2>1. GoesOn("err_mem") /\ err' = "MAM_ENOMEM" /\ lists' = lists /\ heap' = heap /\ fault' = fault
    BY <1>1, <1>13, GoesOnFacts DEF Fail, NotGiven, Steps
  <2>2. /\ call' \in Frames /\ call'.step = "err_mem" /\ call'.kind = call.kind /\ call'.obj = call.obj
        /\ call'.scope = call.scope /\ call'.name = call.name
        /\ Making' /\ ~Beginning' /\ ~Destroying' /\ OwnScope' = OwnScope /\ ObjectOwed' = {call.obj}
    BY <2>1 DEF GoesOn
  <2>3. FrameOK'
    <3>1. "err_mem" \in StepsOf(call.kind)
      BY DEF StepsOf
    <3>2. QED BY <1>1, <1>2, <2>1, <3>1, FrameGoesOn
  <2>4. \A s : Held(s)' = Held(s)
    <3>1. \A s : Held(s)' = IF s \in DOMAIN lists' THEN lists'[s].elems ELSE << >>
      BY <2>2 DEF Held
    <3>2. QED BY <1>10, <2>1, <3>1
  <2>5. ListsOK'
    <3>1. Listed' = Listed
      BY <2>1 DEF Listed, ListedIn
    <3>2. Unlisted'
      BY <2>2 DEF Unlisted
    <3>3. QED BY <1>1, <1>2, <1>3, <1>5, <1>6, <1>7, <2>1, <2>2, <3>1, <3>2 DEF ListsOK
  <2>6. TablesOK' /\ ChainsOK' /\ \A s \in DOMAIN tables' : NamesApart(tables'[s], Held(s)')
    <3>1. call.step # "expand" /\ call'.step # "expand"
      BY <1>1, <2>2
    <3>2. \A s \in DOMAIN tables : Orphans(s) \subseteq Orphans(s)'
      BY <1>9
    <3>3. QED BY <1>1, <1>2, <2>1, <2>2, <2>4, <3>1, <3>2, TablesStay
  <2>7. NamesOK'
    BY <2>2, <2>6 DEF NamesOK
  <2>8. HeapOK'
    <3>1. PlatformOwed' = {PlatformBlock} /\ ContextOwed' = {ContextBlock}
      BY <1>1, <1>2 DEF PlatformOwed, ContextOwed
    <3>2. QED BY <1>1, <1>3, <2>1, <2>2, <3>1 DEF HeapOK, Spare
  <2>9. QED BY <1>3, <2>1, <2>3, <2>5, <2>6, <2>7, <2>8 DEF IInv
<1>14. QED BY <1>4, <1>12, <1>13 DEF NewOwnArray

\* What is known when utarray_push_back begins.
LEMMA PushBegins ==
  ASSUME IInv, call.step = "push", status # "undefined"
  PROVE  /\ Making /\ status = "live" /\ Alive /\ ~Destroying /\ call.obj \notin AllOf(lists)
         /\ \A s : Held(s) = IF s \in DOMAIN lists THEN lists[s].elems ELSE << >>
         /\ \A s : Orphans(s) = {}
         /\ err = "MAM_SUCCESS"
         /\ ContextScopes \cup OwnedOf(lists) \subseteq DOMAIN lists
         /\ DOMAIN lists \subseteq ContextScopes \cup OwnedOf(lists) \cup OwnScope
         /\ \A s \in OwnScope : s \in DOMAIN lists /\ lists[s].elems = << >>
<1>1. Making
  BY IdleFacts DEF IInv, FrameOK
<1>2. status = "live" /\ ~Destroying
  BY <1>1, MakingFacts
<1>3. Alive
  BY <1>2, LiveFacts
<1>4. call.obj \notin AllOf(lists)
  BY <1>1, ListedIs DEF IInv, ListsOK, Unlisted
<1>5. \A s : Held(s) = IF s \in DOMAIN lists THEN lists[s].elems ELSE << >>
  BY <1>2 DEF Held
<1>6. \A s : Orphans(s) = {}
  BY DEF Orphans
<1>7. err = "MAM_SUCCESS"
  BY DEF IInv, FrameOK
<1>8. /\ ContextScopes \cup OwnedOf(lists) \subseteq DOMAIN lists
      /\ DOMAIN lists \subseteq ContextScopes \cup OwnedOf(lists) \cup OwnScope
      /\ \A s \in OwnScope : s \in DOMAIN lists /\ lists[s].elems = << >>
  BY <1>3 DEF IInv, ListsOK
<1>9. QED BY <1>1, <1>2, <1>3, <1>4, <1>5, <1>6, <1>7, <1>8

LEMMA PushOverrunsKeeps ==
  ASSUME IInv, call.step = "push", status = "live", status' = "undefined",
         UNCHANGED <<call, heap, lists, tables, fault, err>>
  PROVE  IInv'
<1>1. Making /\ Alive /\ ~Destroying /\ err = "MAM_SUCCESS"
  BY PushBegins
<1>2. FrameOK'
  <2>1. /\ call \in Frames /\ call.step \in StepsOf(call.kind) /\ call.obj # NULL
        /\ ScopeFits(call.kind, call.scope, DOMAIN lists)
    BY <1>1, MakingFacts, LiveFacts DEF NULL
  <2>2. Alive' /\ Making'
    BY <1>1 DEF Alive, Making
  <2>3. QED BY <1>1, <2>1, <2>2 DEF FrameOK
<1>3. QED BY <1>1, <1>2, SameInv

LEMMA PushRefusedKeeps ==
  ASSUME IInv, call.step = "push", status = "live",
         lists' = [lists EXCEPT ![call.scope] = ReserveFailed(lists[call.scope])],
         Fail(IF call.kind = "array" THEN "err_arr" ELSE "err_mem"),
         UNCHANGED <<status, heap, fault, tables>>
  PROVE  IInv'
<1>1. /\ Making /\ Alive /\ ~Destroying /\ call.obj \notin AllOf(lists)
      /\ \A s : Held(s) = IF s \in DOMAIN lists THEN lists[s].elems ELSE << >>
      /\ \A s : Orphans(s) = {}
      /\ ContextScopes \cup OwnedOf(lists) \subseteq DOMAIN lists
      /\ DOMAIN lists \subseteq ContextScopes \cup OwnedOf(lists) \cup OwnScope
      /\ \A s \in OwnScope : s \in DOMAIN lists /\ lists[s].elems = << >>
  BY PushBegins
<1>2. /\ ~Beginning /\ call.obj \in Nat \ {0} /\ call.scope \in DOMAIN lists /\ ObjectOwed = {call.obj}
  BY <1>1, MakingFacts
<1>3. /\ GoodLists(lists) /\ ConstructScope \in DOMAIN lists /\ ArrayScope \in DOMAIN lists
      /\ IsFiniteSet(heap) /\ ~fault
      /\ heap = Owed({PlatformBlock}, {ContextBlock}, lists, tables, {call.obj})
  BY <1>1, <1>2, LiveFacts
<1>4. PICK st : st = IF call.kind = "array" THEN "err_arr" ELSE "err_mem"
  OBVIOUS
<1>5. st \in {"err_arr", "err_mem"} /\ (st = "err_arr" <=> call.kind = "array") /\ st \in StepsOf(call.kind)
      /\ st \in Steps
  BY <1>4 DEF StepsOf, Steps
<1>6. call' = [call EXCEPT !.step = st] /\ err' = "MAM_ENOMEM" /\ UNCHANGED <<status, heap, fault, tables>>
  BY <1>4 DEF Fail, NotGiven
<1>7. GoesOn(st)
  BY <1>1, <1>5, <1>6, GoesOnFacts
<1>8. /\ call' \in Frames /\ call'.step = st /\ call'.kind = call.kind /\ call'.obj = call.obj
      /\ call'.scope = call.scope /\ call'.name = call.name
      /\ Making' /\ ~Beginning' /\ ~Destroying' /\ OwnScope' = OwnScope /\ ObjectOwed' = {call.obj}
  BY <1>7 DEF GoesOn
<1>9. IsRefused(lists', lists)
  BY <1>2, <1>3, RefusedLists
<1>10. /\ GoodLists(lists') /\ DOMAIN lists' = DOMAIN lists /\ Roomy(lists') = Roomy(lists)
       /\ AllOf(lists') = AllOf(lists) /\ \A r \in DOMAIN lists : lists'[r].elems = lists[r].elems
  BY <1>9 DEF IsRefused
<1>11. FrameOK'
  BY <1>1, <1>2, <1>5, <1>6, <1>7, <1>10, FrameGoesOn
<1>12. ListsOK'
  <2>1. Listed' = AllOf(lists')
    BY DEF Listed, ListedIn, AllOf, Range
  <2>2. Unlisted' /\ call'.obj \notin Listed'
    BY <1>1, <1>5, <1>8, <1>10, <2>1 DEF Unlisted
  <2>3. OwnedOf(lists') = OwnedOf(lists)
    BY <1>3, <1>10 DEF OwnedOf
  <2>4. \A s \in OwnScope' : s \in DOMAIN lists' /\ lists'[s].elems = << >>
    BY <1>1, <1>8, <1>10
  <2>5. /\ ContextScopes \cup OwnedOf(lists') \subseteq DOMAIN lists'
        /\ DOMAIN lists' \subseteq ContextScopes \cup OwnedOf(lists') \cup OwnScope'
    BY <1>1, <1>8, <1>10, <2>3
  <2>6. ~(call'.step = "new" \/ (call'.kind = "array" /\ call'.step = "err_mem"))
    BY <1>5, <1>8
  <2>7. status' = "live"
    BY <1>6
  <2>8. QED BY <1>8, <1>10, <2>2, <2>4, <2>5, <2>6, <2>7 DEF ListsOK
<1>13. \A s \in DOMAIN tables : Held(s)' = Held(s)
  <2>1. call.kind = "array" => call.scope \notin DOMAIN tables
    <3>1. SUFFICES ASSUME call.kind = "array" PROVE call.scope \notin DOMAIN tables
      OBVIOUS
    <3>2. call.scope = ArrayScope
      BY <1>1, <3>1, OwnApart
    <3>3. DOMAIN tables = TabledScopes \cup {FieldsOf(c) : c \in Range(lists[ConstructScope].elems)}
      BY <1>1, <3>1 DEF IInv, TablesOK
    <3>4. ArrayScope \in ContextScopes
      BY DEF ContextScopes
    <3>5. QED BY <3>2, <3>3, <3>4, ScopesDiffer
  <2>2. \A s \in DOMAIN tables : ~(s = call'.scope /\ call'.step \in {"hash", "buckets", "err_arr"})
    BY <1>5, <1>8, <2>1
  <2>3. \A s \in DOMAIN tables : Held(s)' = IF s \in DOMAIN lists' THEN lists'[s].elems ELSE << >>
    BY <1>8, <2>2 DEF Held
  <2>4. QED BY <1>1, <1>10, <2>3
<1>14. TablesOK' /\ ChainsOK' /\ \A s \in DOMAIN tables' : NamesApart(tables'[s], Held(s)')
  <2>1. call.step # "expand" /\ call'.step # "expand"
    BY <1>5, <1>8
  <2>2. \A s \in DOMAIN tables : Orphans(s) \subseteq Orphans(s)'
    BY <1>1
  <2>3. lists'[ConstructScope].elems = lists[ConstructScope].elems
    BY <1>3, <1>10
  <2>4. QED BY <1>1, <1>6, <1>8, <1>13, <2>1, <2>2, <2>3, TablesStay
<1>15. NamesOK'
  BY <1>5, <1>8, <1>14 DEF NamesOK
<1>16. HeapOK'
  <2>1. PlatformOwed' = {PlatformBlock} /\ ContextOwed' = {ContextBlock}
    BY <1>6 DEF PlatformOwed, ContextOwed
  <2>2. heap' = Owed({PlatformBlock}, {ContextBlock}, lists', tables', {call.obj})
    BY <1>3, <1>6, <1>10 DEF Owed
  <2>3. call'.step # "buckets"
    BY <1>5, <1>8
  <2>4. QED BY <1>3, <1>6, <1>8, <2>1, <2>2, <2>3 DEF HeapOK, Spare
<1>17. QED BY <1>3, <1>6, <1>11, <1>12, <1>14, <1>15, <1>16 DEF IInv

\* The arrays of the objects that are listed, after one more object is.
LEMMA PushedOwned ==
  ASSUME NEW L, NEW M, NEW s, NEW x, IsPushed(M, L, s, x), ConstructScope \in DOMAIN L, ArrayScope \in DOMAIN L
  PROVE  /\ s = ConstructScope => OwnedOf(M) = OwnedOf(L) \cup {FieldsOf(x)}
         /\ s = ArrayScope => OwnedOf(M) = OwnedOf(L) \cup {DimensionsOf(x)}
         /\ s # ConstructScope /\ s # ArrayScope => OwnedOf(M) = OwnedOf(L)
<1>1. /\ Range(M[s].elems) = Range(L[s].elems) \cup {x}
      /\ \A r \in DOMAIN L : r # s => M[r] = L[r]
  BY DEF IsPushed
<1>2. CASE s = ConstructScope
  <2>1. M[ArrayScope] = L[ArrayScope] /\ s # ArrayScope
    BY <1>1, <1>2, ScopesDiffer
  <2>2. QED BY <1>1, <1>2, <2>1 DEF OwnedOf
<1>3. CASE s = ArrayScope
  <2>1. M[ConstructScope] = L[ConstructScope] /\ s # ConstructScope
    BY <1>1, <1>3, ScopesDiffer
  <2>2. QED BY <1>1, <1>3, <2>1 DEF OwnedOf
<1>4. CASE s # ConstructScope /\ s # ArrayScope
  BY <1>1, <1>4 DEF OwnedOf
<1>5. QED BY <1>2, <1>3, <1>4

\* Whatever becomes of the call, the lists are right after a push, if the
\* frame says so.
LEMMA PushedListsOK ==
  ASSUME IInv, call.step = "push", status = "live", status' = "live",
         IsPushed(lists', lists, call.scope, call.obj),
         \/ GoesOn("hash") /\ call.kind \in Named
         \/ call' = Idle /\ call.kind \notin Named
  PROVE  ListsOK'
<1>1. /\ Making /\ Alive /\ ~Destroying /\ call.obj \notin AllOf(lists)
      /\ ContextScopes \cup OwnedOf(lists) \subseteq DOMAIN lists
      /\ DOMAIN lists \subseteq ContextScopes \cup OwnedOf(lists) \cup OwnScope
      /\ \A s \in OwnScope : s \in DOMAIN lists /\ lists[s].elems = << >>
  BY PushBegins
<1>2. PICK own : own = Own(call.kind, call.obj)
  OBVIOUS
<1>3. /\ call.kind \in {"construct", "array"} => OwnScope = {own} /\ call.scope # own
      /\ call.kind \notin {"construct", "array"} => OwnScope = {}
      /\ call.kind = "construct" => own = FieldsOf(call.obj) /\ call.scope = ConstructScope
      /\ call.kind # "construct" => own = DimensionsOf(call.obj)
      /\ call.kind = "array" => call.scope = ArrayScope
  BY <1>1, <1>2, OwnApart
<1>4. ConstructScope \in DOMAIN lists /\ ArrayScope \in DOMAIN lists /\ call.scope \in DOMAIN lists
      /\ ScopeFits(call.kind, call.scope, DOMAIN lists)
  BY <1>1, LiveFacts, MakingFacts
<1>5. /\ GoodLists(lists') /\ DOMAIN lists' = DOMAIN lists
      /\ lists'[call.scope].elems # << >> /\ LastOf(lists'[call.scope].elems) = call.obj
      /\ \A r \in DOMAIN lists : r # call.scope => lists'[r] = lists[r]
  BY DEF IsPushed
<1>6. call.kind \notin {"construct", "array"} => call.scope # ConstructScope /\ call.scope # ArrayScope
  <2>1. ConstructScope \notin {"fields"} \X (Nat \ {0}) /\ ArrayScope \notin {"fields"} \X (Nat \ {0})
    BY DEF ConstructScope, ArrayScope
  <2>2. ConstructScope \notin {"dimensions"} \X (Nat \ {0}) /\ ArrayScope \notin {"dimensions"} \X (Nat \ {0})
    BY DEF ConstructScope, ArrayScope
  <2>3. call.kind \in {"pointer", "array", "dimension", "construct", "field", "variable"}
    BY <1>1 DEF Making, Kinds
  <2>4. QED BY <1>4, <2>1, <2>2, <2>3, ScopesDiffer DEF ScopeFits
<1>7. OwnedOf(lists') = OwnedOf(lists) \cup OwnScope
  <2>1. CASE call.kind = "construct"
    BY <1>3, <1>4, <2>1, PushedOwned
  <2>2. CASE call.kind = "array"
    BY <1>3, <1>4, <2>2, PushedOwned
  <2>3. CASE call.kind \notin {"construct", "array"}
    BY <1>3, <1>4, <1>6, <2>3, PushedOwned
  <2>4. QED BY <2>1, <2>2, <2>3
<1>8. /\ ContextScopes \cup OwnedOf(lists') \subseteq DOMAIN lists'
      /\ DOMAIN lists' \subseteq ContextScopes \cup OwnedOf(lists')
  BY <1>1, <1>5, <1>7
<1>9. CASE GoesOn("hash") /\ call.kind \in Named
  <2>1. /\ call'.step = "hash" /\ call'.kind = call.kind /\ call'.obj = call.obj
        /\ call'.scope = call.scope /\ Making' /\ ~Beginning' /\ OwnScope' = OwnScope
    BY <1>9 DEF GoesOn
  <2>2. \A s \in OwnScope' : s \in DOMAIN lists' /\ lists'[s].elems = << >>
    BY <1>1, <1>3, <1>5, <2>1
  <2>3. ~Unlisted'
    BY <2>1 DEF Unlisted
  <2>4. QED BY <1>5, <1>8, <2>1, <2>2, <2>3 DEF ListsOK
<1>10. CASE call' = Idle /\ call.kind \notin Named
  <2>1. ~Making' /\ ~Beginning' /\ OwnScope' = {}
    BY <1>10, IdleFacts, KindFacts DEF Making, Beginning, OwnScope
  <2>2. QED BY <1>5, <1>8, <2>1 DEF ListsOK
<1>11. QED BY <1>9, <1>10

LEMMA PushedKeeps ==
  ASSUME IInv, call.step = "push", status = "live", ~PushOverruns(lists[call.scope]),
         lists' = [lists EXCEPT ![call.scope] = PushedBack(lists[call.scope], call.obj)],
         Memory({Header(call.scope)}, {}, {Slots(call.scope)}),
         IF call.kind \in Named THEN GoTo("hash") ELSE Return,
         UNCHANGED <<status, tables>>
  PROVE  IInv'
<1>1. /\ Making /\ Alive /\ ~Destroying /\ call.obj \notin AllOf(lists)
      /\ \A s : Held(s) = IF s \in DOMAIN lists THEN lists[s].elems ELSE << >>
      /\ \A s : Orphans(s) = {} /\ err = "MAM_SUCCESS"
  BY PushBegins
<1>2. /\ ~Beginning /\ call.obj \in Nat \ {0} /\ call.scope \in DOMAIN lists /\ ObjectOwed = {call.obj}
      /\ ScopeFits(call.kind, call.scope, DOMAIN lists) /\ call.kind \in Kinds
  BY <1>1, MakingFacts DEF Making
<1>3. /\ GoodLists(lists) /\ ConstructScope \in DOMAIN lists /\ ArrayScope \in DOMAIN lists
      /\ IsFiniteSet(heap) /\ ~fault
      /\ heap = Owed({PlatformBlock}, {ContextBlock}, lists, tables, {call.obj})
  BY <1>1, <1>2, LiveFacts
<1>4. IsPushed(lists', lists, call.scope, call.obj)
  BY <1>1, <1>2, <1>3, PushedLists
<1>5. /\ GoodLists(lists') /\ DOMAIN lists' = DOMAIN lists
      /\ Front(lists'[call.scope].elems) = lists[call.scope].elems
      /\ Range(lists'[call.scope].elems) = Range(lists[call.scope].elems) \cup {call.obj}
      /\ \A r \in DOMAIN lists : r # call.scope => lists'[r] = lists[r]
      /\ Roomy(lists') = Roomy(lists) \cup {call.scope} /\ AllOf(lists') = AllOf(lists) \cup {call.obj}
  BY <1>4 DEF IsPushed
<1>6. heap' = heap \cup {Slots(call.scope)} /\ ~fault'
  <2>1. Header(call.scope) \in heap
    BY <1>2, <1>3 DEF Owed, HeadersOf
  <2>2. QED BY <1>3, <2>1 DEF Memory
<1>7. \A O \in SUBSET {call.obj} : heap' = Owed({PlatformBlock}, {ContextBlock}, lists', tables', O)
  <2>1. SlotsOf(Roomy(lists')) = SlotsOf(Roomy(lists)) \cup {Slots(call.scope)}
    <3>1. PICK D, s : D = Roomy(lists) /\ s = call.scope
      OBVIOUS
    <3>2. SlotsOf(D \cup {s}) = SlotsOf(D) \cup {Slots(s)}
      BY OwedParts
    <3>3. Roomy(lists') = D \cup {s}
      BY <1>5, <3>1
    <3>4. QED BY <3>1, <3>2, <3>3
  <2>2. ASSUME NEW O \in SUBSET {call.obj}
        PROVE  heap' = Owed({PlatformBlock}, {ContextBlock}, lists', tables', O)
    <3>1. AllOf(lists') \cup O = AllOf(lists) \cup {call.obj}
      BY <1>5
    <3>2. QED BY <1>3, <1>5, <1>6, <2>1, <3>1 DEF Owed
  <2>3. QED BY <2>2
<1>8. IsFiniteSet(heap')
  BY <1>3, <1>6, FS_AddElement
<1>9. PlatformOwed' = {PlatformBlock} /\ ContextOwed' = {ContextBlock}
  BY DEF PlatformOwed, ContextOwed
<1>10. DOMAIN tables = TabledScopes \cup {FieldsOf(c) : c \in Range(lists[ConstructScope].elems)}
                         \cup (IF call.kind = "construct" THEN OwnScope ELSE {})
  BY <1>1 DEF IInv, TablesOK
<1>11. CASE call.kind \in Named
  <2>1. GoesOn("hash") /\ err' = err
    BY <1>1, <1>11, GoesOnFacts DEF GoTo, Steps
  <2>2. /\ call' \in Frames /\ call'.step = "hash" /\ call'.kind = call.kind /\ call'.obj = call.obj
        /\ call'.scope = call.scope /\ call'.name = call.name
        /\ Making' /\ ~Beginning' /\ ~Destroying' /\ OwnScope' = OwnScope /\ ObjectOwed' = {call.obj}
    BY <2>1 DEF GoesOn
  <2>3. FrameOK'
    <3>1. "hash" \in StepsOf(call.kind)
      BY <1>11 DEF StepsOf
    <3>2. QED BY <1>1, <1>2, <1>5, <2>1, <3>1, FrameGoesOn
  <2>4. ListsOK'
    BY <1>4, <1>11, <2>1, PushedListsOK
  <2>5. \A s : Held(s)' = Held(s)
    <3>1. ASSUME NEW s, s = call.scope PROVE Held(s)' = Held(s)
      <4>1. Held(s) = lists[s].elems
        BY <1>1, <1>2, <3>1
      <4>2. Held(s)' = Front(lists'[s].elems)
        BY <1>2, <1>5, <2>2, <3>1 DEF Held
      <4>3. QED BY <1>5, <3>1, <4>1, <4>2
    <3>2. ASSUME NEW s, s # call.scope PROVE Held(s)' = Held(s)
      <4>1. Held(s)' = IF s \in DOMAIN lists' THEN lists'[s].elems ELSE << >>
        BY <2>2, <3>2 DEF Held
      <4>2. s \in DOMAIN lists => lists'[s] = lists[s]
        BY <1>5, <3>2
      <4>3. QED BY <1>1, <1>5, <4>1, <4>2
    <3>3. QED BY <3>1, <3>2
  <2>6. TablesOK' /\ ChainsOK' /\ \A s \in DOMAIN tables' : NamesApart(tables'[s], Held(s)')
    <3>1. call.step # "expand" /\ call'.step # "expand"
      BY <2>2
    <3>2. \A s \in DOMAIN tables : Orphans(s) \subseteq Orphans(s)'
      BY <1>1
    <3>3. {FieldsOf(c) : c \in Range(lists'[ConstructScope].elems)}
             \cup (IF call'.kind = "construct" THEN OwnScope' ELSE {})
           = {FieldsOf(c) : c \in Range(lists[ConstructScope].elems)}
               \cup (IF call.kind = "construct" THEN OwnScope ELSE {})
      <4>1. CASE call.kind = "construct"
        <5>1. PICK own : own = Own(call.kind, call.obj)
          OBVIOUS
        <5>2. OwnScope = {FieldsOf(call.obj)} /\ call.scope = ConstructScope
          BY <1>1, <4>1, <5>1, OwnApart
        <5>3. Range(lists'[ConstructScope].elems) = Range(lists[ConstructScope].elems) \cup {call.obj}
          BY <1>5, <5>2
        <5>4. QED BY <2>2, <4>1, <5>2, <5>3
      <4>2. CASE call.kind # "construct"
        <5>1. call.scope # ConstructScope
          <6>1. ConstructScope \notin {"fields"} \X (Nat \ {0})
            BY DEF ConstructScope
          <6>2. QED BY <1>2, <1>11, <4>2, <6>1, ScopesDiffer DEF ScopeFits, Named
        <5>2. QED BY <1>3, <1>5, <2>2, <4>2, <5>1
      <4>3. QED BY <4>1, <4>2
    <3>4. QED BY <1>1, <2>2, <2>5, <3>1, <3>2, <3>3, TablesStay
  <2>7. NamesOK'
    <3>1. PICK s : s = call.scope
      OBVIOUS
    <3>2. Unnamed(tables[s], Held(s), call.name)
      BY <1>11, <3>1 DEF IInv, NamesOK
    <3>3. Unnamed(tables'[s], Held(s)', call.name)
      BY <2>5, <3>2
    <3>4. call'.scope = s /\ call'.name = call.name
      BY <2>2, <3>1
    <3>5. QED BY <2>6, <3>3, <3>4 DEF NamesOK
  <2>8. HeapOK'
    <3>1. heap' = Owed({PlatformBlock}, {ContextBlock}, lists', tables', {call.obj})
      BY <1>7
    <3>2. QED BY <1>8, <1>9, <2>2, <3>1 DEF HeapOK, Spare
  <2>9. QED BY <1>6, <2>3, <2>4, <2>6, <2>7, <2>8 DEF IInv
<1>12. CASE call.kind \notin Named
  <2>1. call' = Idle /\ err' = err
    BY <1>12 DEF Return
  <2>2. /\ ~Making' /\ ~Beginning' /\ ~Destroying' /\ OwnScope' = {} /\ ObjectOwed' = {}
        /\ call'.kind = "none" /\ call'.step = "none"
    BY <2>1, IdleFacts, KindFacts DEF Making, Beginning, Destroying, OwnScope, ObjectOwed
  <2>3. FrameOK'
    BY <1>1, <2>1, IdleFacts DEF FrameOK
  <2>4. ListsOK'
    BY <1>4, <1>12, <2>1, PushedListsOK
  <2>5. call.scope \notin DOMAIN tables
    <3>1. DOMAIN tables = TabledScopes \cup {FieldsOf(c) : c \in Range(lists[ConstructScope].elems)}
      BY <1>10, <1>12 DEF Named
    <3>2. call.kind \in {"pointer", "array", "dimension"}
      BY <1>2, <1>12 DEF Kinds, Named
    <3>3. call.scope \in {PointerScope, ArrayScope} \/ call.scope \in {"dimensions"} \X (Nat \ {0})
      BY <1>2, <3>2 DEF ScopeFits
    <3>4. CASE call.scope \in {PointerScope, ArrayScope}
      <4>1. PointerScope \in ContextScopes /\ ArrayScope \in ContextScopes
        BY DEF ContextScopes
      <4>2. QED BY <3>1, <3>4, <4>1, ScopesDiffer
    <3>5. CASE call.scope \in {"dimensions"} \X (Nat \ {0})
      <4>1. PICK a \in Nat \ {0} : call.scope = DimensionsOf(a)
        BY <3>5, DimensionScope
      <4>2. DimensionsOf(a) \notin TabledScopes
        BY ScopeFacts, ScopesDiffer
      <4>3. QED BY <3>1, <4>1, <4>2, ScopesDiffer
    <3>6. QED BY <3>3, <3>4, <3>5
  <2>6. \A s \in DOMAIN tables : Held(s)' = Held(s)
    <3>1. \A s : Held(s)' = IF s \in DOMAIN lists' THEN lists'[s].elems ELSE << >>
      BY <2>2 DEF Held
    <3>2. QED BY <1>1, <1>5, <2>5, <3>1
  <2>7. TablesOK' /\ ChainsOK' /\ \A s \in DOMAIN tables' : NamesApart(tables'[s], Held(s)')
    <3>1. call.step # "expand" /\ call'.step # "expand"
      BY <2>2
    <3>2. \A s \in DOMAIN tables : Orphans(s) \subseteq Orphans(s)'
      BY <1>1
    <3>3. ConstructScope # call.scope
      BY <1>10, <2>5 DEF TabledScopes
    <3>4. lists'[ConstructScope] = lists[ConstructScope]
      BY <1>3, <1>5, <3>3
    <3>5. call.kind # "construct" /\ call'.kind # "construct"
      BY <1>12, <2>2 DEF Named
    <3>6. QED BY <1>1, <2>2, <2>6, <3>1, <3>2, <3>4, <3>5, TablesStay
  <2>8. NamesOK'
    BY <2>2, <2>7 DEF NamesOK, Named
  <2>9. HeapOK'
    <3>1. heap' = Owed({PlatformBlock}, {ContextBlock}, lists', tables', {})
      BY <1>7
    <3>2. QED BY <1>8, <1>9, <2>2, <3>1 DEF HeapOK, Spare
  <2>10. QED BY <1>6, <2>3, <2>4, <2>7, <2>8, <2>9 DEF IInv
<1>13. QED BY <1>11, <1>12

LEMMA PushKeeps ==
  ASSUME IInv, Push, status # "undefined"
  PROVE  IInv'
<1>1. PICK list : list = lists[call.scope]
  OBVIOUS
<1>2. call.step = "push" /\ status = "live"
  BY PushBegins DEF Push
<1>3. CASE PushOverruns(list) /\ status' = "undefined" /\ UNCHANGED <<call, heap, lists, fault, err, refusals>>
  BY <1>2, <1>3, PushOverrunsKeeps DEF Push
<1>4. CASE /\ lists' = [lists EXCEPT ![call.scope] = ReserveFailed(list)]
           /\ Fail(IF call.kind = "array" THEN "err_arr" ELSE "err_mem")
           /\ UNCHANGED <<status, heap, fault>>
  BY <1>1, <1>2, <1>4, PushRefusedKeeps DEF Push
<1>5. CASE /\ ~PushOverruns(list)
           /\ lists' = [lists EXCEPT ![call.scope] = PushedBack(list, call.obj)]
           /\ Memory({Header(call.scope)}, {}, {Slots(call.scope)})
           /\ IF call.kind \in Named THEN GoTo("hash") ELSE Return
           /\ Given /\ UNCHANGED status
  BY <1>1, <1>2, <1>5, PushedKeeps DEF Push
<1>6. QED BY <1>1, <1>3, <1>4, <1>5 DEF Push

------------------------------------------------------------------------------
(* The calls that give the object a name.                                  *)

\* A list is its front and its last element.
LEMMA FrontAndLast ==
  ASSUME NEW S, NEW s \in Seq(S), IsInjective(s), s # << >>, NEW q, q = Front(s), NEW e, e = LastOf(s)
  PROVE  /\ s = Append(q, e) /\ e \notin Range(q) /\ e \in Range(s) /\ Range(q) \cup {e} = Range(s)
         /\ Range(q) = Range(s) \ {e}
<1>1. IsFront(q, s, S)
  BY FrontFacts
<1>2. PICK n \in Nat : n = Len(s) /\ DOMAIN s = 1 .. n /\ n > 0
  <2>1. Len(s) # 0
    BY EmptySeq
  <2>2. QED BY <2>1, LenProperties
<1>3. e = s[n] /\ e \in S /\ e \in Range(s)
  <2>1. e = s[n] /\ n \in 1 .. n
    BY <1>2 DEF LastOf
  <2>2. QED BY <1>2, <2>1, ElementOfSeq DEF Range
<1>4. q \in Seq(S) /\ Len(q) = n - 1 /\ Range(q) = Range(s) \ {e} /\ \A i \in 1 .. n - 1 : q[i] = s[i]
  BY <1>1, <1>2 DEF IsFront
<1>5. PICK r : r = Append(q, e)
  OBVIOUS
<1>6. r \in Seq(S) /\ Len(r) = n /\ r[n] = e /\ \A i \in 1 .. n - 1 : r[i] = q[i]
  <2>1. r \in Seq(S) /\ Len(r) = (n - 1) + 1 /\ r[(n - 1) + 1] = e /\ \A i \in 1 .. n - 1 : r[i] = q[i]
    BY <1>3, <1>4, <1>5, AppendProperties
  <2>2. (n - 1) + 1 = n
    OBVIOUS
  <2>3. QED BY <2>1, <2>2
<1>7. r = s
  <2>1. \A i \in 1 .. n : r[i] = s[i]
    BY <1>2, <1>3, <1>4, <1>6
  <2>2. QED BY <1>2, <1>6, <2>1, SeqEqual
<1>8. QED BY <1>3, <1>4, <1>5, <1>7

\* What is known of a call that has put its object into the array.
LEMMA NamingFacts ==
  ASSUME IInv, status # "undefined", Making, call.kind \in Named, call.step \in {"hash", "buckets", "expand", "err_arr"},
         NEW scope, scope = call.scope, NEW elems, elems = lists[scope].elems
  PROVE  /\ status = "live" /\ Alive /\ ~Destroying /\ scope \in DOMAIN tables /\ scope \in DOMAIN lists
         /\ scope \in Scopes
         /\ elems \in Seq(Nat \ {0}) /\ IsInjective(elems) /\ elems # << >> /\ call.obj = LastOf(elems)
         /\ Held(scope) = (IF call.step = "expand" THEN elems ELSE Front(elems))
         /\ \A s : s # scope => Held(s) = (IF s \in DOMAIN lists THEN lists[s].elems ELSE << >>)
         /\ elems = Append(Front(elems), call.obj) /\ call.obj \notin Range(Front(elems))
         /\ Range(Front(elems)) \cup {call.obj} = Range(elems) /\ Range(Front(elems)) = Range(elems) \ {call.obj}
         /\ call.obj \in AllOf(lists)
         /\ call.kind = "construct" => OwnScope = {FieldsOf(call.obj)} /\ scope = ConstructScope
         /\ call.kind # "construct" => OwnScope = {} /\ scope # ConstructScope
         /\ \A s : s # scope => Orphans(s) = {}
<1>1. status = "live" /\ ~Destroying /\ ScopeFits(call.kind, scope, DOMAIN lists)
  BY MakingFacts
<1>2. Alive /\ GoodLists(lists)
  BY <1>1, LiveFacts
<1>3. scope \in DOMAIN tables /\ scope \in DOMAIN lists /\ scope \in Scopes
  BY <1>1, TabledFits
<1>4. elems \in Seq(Nat \ {0}) /\ IsInjective(elems)
  BY <1>2, <1>3, GoodListsFacts
<1>5. elems # << >> /\ call.obj = LastOf(elems)
  <2>1. ~Unlisted
    BY DEF Unlisted, Named
  <2>2. QED BY <2>1 DEF IInv, ListsOK
<1>6. /\ elems = Append(Front(elems), call.obj) /\ call.obj \notin Range(Front(elems))
      /\ Range(Front(elems)) \cup {call.obj} = Range(elems) /\ Range(Front(elems)) = Range(elems) \ {call.obj}
      /\ call.obj \in Range(elems)
  BY <1>4, <1>5, FrontAndLast
<1>7. call.obj \in AllOf(lists)
  BY <1>2, <1>3, <1>6, GoodListsFacts
<1>8. /\ call.kind = "construct" => OwnScope = {FieldsOf(call.obj)} /\ scope = ConstructScope
      /\ call.kind # "construct" => OwnScope = {}
  <2>1. PICK own : own = Own(call.kind, call.obj)
    OBVIOUS
  <2>2. call.kind # "array"
    BY DEF Named
  <2>3. QED BY <2>1, <2>2, OwnApart
<1>9. call.kind # "construct" => scope # ConstructScope
  <2>1. ConstructScope \notin {"fields"} \X (Nat \ {0})
    BY DEF ConstructScope
  <2>2. QED BY <1>1, <2>1, ScopesDiffer DEF ScopeFits, Named
<1>10. Held(scope) = (IF call.step = "expand" THEN elems ELSE Front(elems))
  BY <1>1, <1>3 DEF Held
<1>11. \A s : s # scope => Held(s) = (IF s \in DOMAIN lists THEN lists[s].elems ELSE << >>)
  BY <1>1 DEF Held
<1>12. \A s : s # scope => Orphans(s) = {}
  BY DEF Orphans
<1>13. QED BY <1>1, <1>2, <1>3, <1>4, <1>5, <1>6, <1>7, <1>8, <1>9, <1>10, <1>11, <1>12

\* The memory, after a step that changes one table.
LEMMA TableTurns ==
  ASSUME IInv, status = "live", ~Destroying, NEW scope \in DOMAIN tables, NEW t, TableMem(t),
         tables' = [tables EXCEPT ![scope] = t], TableMemoryMoves(scope, t),
         UNCHANGED <<status, lists>>, ~Destroying', call'.step # "buckets", Spare \subseteq TableBlocks(scope, t),
         AllOf(lists) \cup ObjectOwed' = AllOf(lists) \cup ObjectOwed
  PROVE  HeapOK' /\ ~fault'
<1>1. /\ GoodLists(lists) /\ DOMAIN lists \subseteq Scopes /\ DOMAIN tables \subseteq Scopes
      /\ Tables(tables) /\ Bases({PlatformBlock}, {ContextBlock})
      /\ IsFiniteSet(heap) /\ ~fault
      /\ heap = Owed({PlatformBlock}, {ContextBlock}, lists, tables, ObjectOwed) \cup Spare
  BY LiveFacts
<1>2. PICK old, new : old = TableBlocks(scope, tables[scope]) /\ new = TableBlocks(scope, t)
  OBVIOUS
<1>3. Trades(Owed({PlatformBlock}, {ContextBlock}, lists, tables', ObjectOwed),
             Owed({PlatformBlock}, {ContextBlock}, lists, tables, ObjectOwed), old, new)
  BY <1>1, <1>2, OwedTableMoves
<1>4. heap' = (heap \ (old \ new)) \cup new /\ fault' = (fault \/ ~({} \cup (old \ new) \subseteq heap))
  BY <1>2 DEF TableMemoryMoves, Memory
<1>5. heap' = Owed({PlatformBlock}, {ContextBlock}, lists, tables', ObjectOwed) /\ ~fault'
  <2>1. Spare \subseteq new
    BY <1>2
  <2>2. QED BY <1>1, <1>3, <1>4, <2>1 DEF Trades
<1>6. Owed({PlatformBlock}, {ContextBlock}, lists, tables', ObjectOwed')
        = Owed({PlatformBlock}, {ContextBlock}, lists, tables', ObjectOwed)
  BY DEF Owed
<1>7. IsFiniteSet(heap')
  <2>1. IsFiniteSet(new)
    BY <1>1, <1>2, TableBlocksFacts
  <2>2. IsFiniteSet(heap \ (old \ new))
    <3>1. heap \ (old \ new) \in SUBSET heap
      OBVIOUS
    <3>2. IsFiniteSet(heap)
      BY DEF IInv, HeapOK
    <3>3. QED BY <3>1, <3>2, FS_Subset
  <2>3. QED BY <1>4, <2>1, <2>2, FS_Union
<1>8. PlatformOwed' = {PlatformBlock} /\ ContextOwed' = {ContextBlock}
  BY DEF PlatformOwed, ContextOwed
<1>9. HeapOK'
  BY <1>5, <1>6, <1>7, <1>8 DEF HeapOK, Spare
<1>10. QED BY <1>5, <1>9

\* The tables, after such a step.
LEMMA OneTableTurns ==
  ASSUME IInv, status = "live", ~Destroying, status' = "live", ~Destroying',
         NEW scope \in DOMAIN tables, scope = call.scope, NEW t, tables' = [tables EXCEPT ![scope] = t],
         \A s \in DOMAIN tables : s # scope => Held(s)' = Held(s) /\ Orphans(s) \subseteq Orphans(s)',
         NEW held, Held(scope)' = held, IsTable(t, held), DOMAIN t.hh \subseteq Range(held) \cup Orphans(scope)',
         NamesApart(t, held),
         IF call'.step = "expand" THEN call'.scope = scope /\ IsExpanding(t, call'.obj) ELSE ChainsShort(t),
         {FieldsOf(c) : c \in Range(lists'[ConstructScope].elems)}
             \cup (IF call'.kind = "construct" THEN OwnScope' ELSE {})
           = {FieldsOf(c) : c \in Range(lists[ConstructScope].elems)}
               \cup (IF call.kind = "construct" THEN OwnScope ELSE {})
  PROVE  TablesOK' /\ ChainsOK' /\ \A s \in DOMAIN tables' : NamesApart(tables'[s], Held(s)')
<1>1. Alive /\ \A s \in DOMAIN tables :
        /\ IsTable(tables[s], Held(s)) /\ DOMAIN tables[s].hh \subseteq Range(Held(s)) \cup Orphans(s)
        /\ NamesApart(tables[s], Held(s))
  BY LiveFacts
<1>2. DOMAIN tables' = DOMAIN tables /\ tables'[scope] = t
      /\ \A s \in DOMAIN tables : s # scope => tables'[s] = tables[s]
  OBVIOUS
<1>3. DOMAIN tables = TabledScopes \cup {FieldsOf(c) : c \in Range(lists[ConstructScope].elems)}
                        \cup (IF call.kind = "construct" THEN OwnScope ELSE {})
  BY <1>1 DEF IInv, TablesOK
<1>4. DOMAIN tables' = TabledScopes \cup {FieldsOf(c) : c \in Range(lists'[ConstructScope].elems)}
                        \cup (IF call'.kind = "construct" THEN OwnScope' ELSE {})
  BY <1>2, <1>3
<1>5. \A s \in DOMAIN tables' :
        /\ IsTable(tables'[s], Held(s)') /\ DOMAIN tables'[s].hh \subseteq Range(Held(s)') \cup Orphans(s)'
        /\ NamesApart(tables'[s], Held(s)')
  <2>1. ASSUME NEW s \in DOMAIN tables, s # scope
        PROVE  /\ IsTable(tables'[s], Held(s)') /\ DOMAIN tables'[s].hh \subseteq Range(Held(s)') \cup Orphans(s)'
               /\ NamesApart(tables'[s], Held(s)')
    <3>1. tables'[s] = tables[s] /\ Held(s)' = Held(s) /\ Orphans(s) \subseteq Orphans(s)'
      BY <1>2, <2>1
    <3>2. QED BY <1>1, <3>1
  <2>2. QED BY <1>2, <2>1
<1>6. TablesOK'
  BY <1>4, <1>5 DEF TablesOK
<1>7. \A s \in DOMAIN tables : s # scope => ChainsShort(tables[s])
  BY <1>1 DEF IInv, ChainsOK
<1>8. ChainsOK'
  <2>1. CASE call'.step = "expand"
    BY <1>2, <1>7, <2>1 DEF ChainsOK
  <2>2. CASE call'.step # "expand"
    BY <1>2, <1>7, <2>2 DEF ChainsOK
  <2>3. QED BY <2>1, <2>2
<1>9. QED BY <1>5, <1>6, <1>8

\* Elements with other names are added, or elements are taken away.
LEMMA StillApart ==
  ASSUME NEW t, NEW r, NEW s, NEW D, SameNames(r, t, D), Range(s) \subseteq D, NamesApart(t, s)
  PROVE  NamesApart(r, s)
BY DEF SameNames, NamesApart

LEMMA OneMoreApart ==
  ASSUME NEW t, NEW r, NEW q, NEW s, NEW e, e \notin Range(q), Range(s) = Range(q) \cup {e},
         SameNames(r, t, Range(q)), NamesApart(t, q), NEW name, r.hh[e].key = name, Unnamed(t, q, name)
  PROVE  NamesApart(r, s)
<1>1. \A x \in Range(q) : r.hh[x].key = t.hh[x].key
  BY DEF SameNames
<1>2. \A x \in Range(q) : name = NoName \/ r.hh[x].key # name
  BY <1>1 DEF Unnamed
<1>3. \A x, y \in Range(q) : r.hh[x].key = r.hh[y].key /\ r.hh[x].key # NoName => x = y
  BY <1>1 DEF NamesApart
<1>4. QED BY <1>2, <1>3 DEF NamesApart

LEMMA SubApart ==
  ASSUME NEW t, NEW q, NEW s, NamesApart(t, s), Range(q) \subseteq Range(s)
  PROVE  NamesApart(t, q)
BY DEF NamesApart

\* The arrays, when the call goes on without a change to them.
LEMMA NamingListsOK ==
  ASSUME IInv, status = "live", Making, call.kind \in Named, call.step \in {"hash", "buckets", "expand"},
         UNCHANGED <<lists, status>>,
         call' = Idle \/ \E st \in {"hash", "buckets", "expand", "err_arr"} : GoesOn(st)
  PROVE  ListsOK'
<1>1. PICK scope, elems : scope = call.scope /\ elems = lists[scope].elems
  OBVIOUS
<1>2. /\ Alive /\ elems # << >> /\ call.obj = LastOf(elems) /\ call.obj \in AllOf(lists)
      /\ scope \in DOMAIN lists
      /\ call.kind = "construct" => OwnScope = {FieldsOf(call.obj)} /\ scope = ConstructScope
      /\ call.kind # "construct" => OwnScope = {}
      /\ Range(Front(elems)) \cup {call.obj} = Range(elems)
  BY <1>1, NamingFacts
<1>3. GoodLists(lists) /\ ~Destroying
  BY <1>1, NamingFacts, LiveFacts
<1>4. /\ ContextScopes \cup OwnedOf(lists) \subseteq DOMAIN lists
      /\ DOMAIN lists \subseteq ContextScopes \cup OwnedOf(lists) \cup OwnScope
      /\ \A s \in OwnScope : s \in DOMAIN lists => lists[s].elems = << >>
  BY <1>2 DEF IInv, ListsOK
<1>5. CASE call' = Idle
  <2>1. ~Making' /\ ~Beginning' /\ OwnScope' = {}
    BY <1>5, IdleFacts, KindFacts DEF Making, Beginning, OwnScope
  <2>2. OwnScope \subseteq OwnedOf(lists)
    BY <1>1, <1>2 DEF OwnedOf
  <2>3. DOMAIN lists' \subseteq ContextScopes \cup OwnedOf(lists')
    BY <1>4, <2>2
  <2>4. QED BY <1>3, <1>4, <2>1, <2>3 DEF ListsOK
<1>6. ASSUME NEW st \in {"hash", "buckets", "expand", "err_arr"}, GoesOn(st) PROVE ListsOK'
  <2>1. /\ call'.step = st /\ call'.kind = call.kind /\ call'.obj = call.obj
        /\ call'.scope = call.scope /\ Making' /\ ~Beginning' /\ OwnScope' = OwnScope
    BY <1>6 DEF GoesOn
  <2>2. ~Unlisted'
    BY <2>1 DEF Unlisted, Named
  <2>3. call.kind # "array"
    BY DEF Named
  <2>4. QED BY <1>1, <1>2, <1>3, <1>4, <2>1, <2>2, <2>3 DEF ListsOK
<1>7. QED BY <1>5, <1>6

\* What the tables' scopes come from, in these steps.
LEMMA NamingOwners ==
  ASSUME IInv, status = "live", Making, call.kind \in Named, call.step \in {"hash", "buckets", "expand"},
         UNCHANGED <<lists, status>>,
         call' = Idle \/ \E st \in {"hash", "buckets", "expand", "err_arr"} : GoesOn(st)
  PROVE  {FieldsOf(c) : c \in Range(lists'[ConstructScope].elems)}
             \cup (IF call'.kind = "construct" THEN OwnScope' ELSE {})
           = {FieldsOf(c) : c \in Range(lists[ConstructScope].elems)}
               \cup (IF call.kind = "construct" THEN OwnScope ELSE {})
<1>1. PICK scope, elems : scope = call.scope /\ elems = lists[scope].elems
  OBVIOUS
<1>2. /\ call.kind = "construct" => OwnScope = {FieldsOf(call.obj)} /\ scope = ConstructScope
      /\ call.obj \in Range(elems)
  BY <1>1, NamingFacts
<1>3. CASE call' = Idle
  <2>1. call'.kind # "construct"
    BY <1>3, IdleFacts
  <2>2. call.kind = "construct" => OwnScope \subseteq {FieldsOf(c) : c \in Range(lists[ConstructScope].elems)}
    BY <1>1, <1>2
  <2>3. QED BY <2>1, <2>2
<1>4. CASE \E st \in {"hash", "buckets", "expand", "err_arr"} : GoesOn(st)
  BY <1>4 DEF GoesOn
<1>5. QED BY <1>3, <1>4

\* Other tables keep their elements, and have no handle to spare.
LEMMA NamingOthers ==
  ASSUME IInv, status = "live", Making, call.kind \in Named, call.step \in {"hash", "buckets", "expand"},
         UNCHANGED <<lists, status>>, NEW scope, scope = call.scope,
         call' = Idle \/ \E st \in {"hash", "buckets", "expand", "err_arr"} : GoesOn(st)
  PROVE  \A s : s # scope => Held(s)' = Held(s) /\ Orphans(s) \subseteq Orphans(s)'
<1>1. PICK elems : elems = lists[scope].elems
  OBVIOUS
<1>2. /\ \A s : s # scope => Held(s) = (IF s \in DOMAIN lists THEN lists[s].elems ELSE << >>)
      /\ \A s : s # scope => Orphans(s) = {}
  BY <1>1, NamingFacts
<1>3. call'.scope = scope \/ call' = Idle
  BY DEF GoesOn
<1>4. ~Destroying'
  BY IdleFacts DEF GoesOn, Destroying
<1>5. ASSUME NEW s, s # scope
      PROVE  Held(s)' = (IF s \in DOMAIN lists THEN lists[s].elems ELSE << >>)
  <2>1. ~(s = call'.scope /\ call'.step \in {"hash", "buckets", "err_arr"})
    BY <1>3, <1>5, IdleFacts
  <2>2. QED BY <1>4, <2>1 DEF Held
<1>6. QED BY <1>2, <1>5

\* The half of a table becomes part of the table that is made ...
LEMMA SpareIsHeld ==
  ASSUME NEW t, NEW s, IsTable(t, s), s # << >>
  PROVE  Spare \subseteq TableBlocks(call.scope, t)
<1>1. <<"tbl", 0>> \in t.mem
  BY DEF IsTable, Whole, TableMemory
<1>2. NewTbl \in TableBlocks(call.scope, t)
  BY <1>1 DEF NewTbl, TableBlocks
<1>3. QED BY <1>2 DEF Spare

\* ... and until then it is a block of its own.
LEMMA SpareApart ==
  ASSUME IInv, status = "live", ~Destroying, call.scope \in DOMAIN tables, NEW O, tables[call.scope].head = NULL
  PROVE  {NewTbl} \cap Owed({PlatformBlock}, {ContextBlock}, lists, tables, O) = {}
<1>1. /\ DOMAIN tables \subseteq Scopes /\ Tables(tables)
      /\ \A s \in DOMAIN tables : IsTable(tables[s], Held(s))
  BY LiveFacts
<1>2. NewTbl[1] = "tbl" /\ NewTbl[2] = call.scope[1] /\ NewTbl[3] = call.scope[2]
  BY DEF NewTbl
<1>3. ASSUME NEW s \in DOMAIN tables PROVE NewTbl \notin TableBlocks(s, tables[s])
  <2>1. CASE s = call.scope
    <3>1. tables[s].mem = {}
      BY <1>1, <2>1, TableHas
    <3>2. QED BY <3>1 DEF TableBlocks
  <2>2. CASE s # call.scope
    <3>1. s[1] # call.scope[1] \/ s[2] # call.scope[2]
      BY <1>1, <2>2 DEF Scopes
    <3>2. s \in Scopes /\ TableMem(tables[s])
      BY <1>1 DEF Tables
    <3>3. QED BY <1>2, <3>1, <3>2, TableBlocksFacts
  <2>3. QED BY <2>1, <2>2
<1>4. NewTbl \notin TablesOf(tables)
  BY <1>3 DEF TablesOf
<1>5. QED BY <1>2, <1>4, BlockSorts DEF Owed, HeadersOf, SlotsOf, ObjectsOf

\* The element was added to the table ...
LEMMA NameAddedKeeps ==
  ASSUME IInv, status = "live", Making, call.step \in {"hash", "buckets"}, NEW scope, scope = call.scope,
         NEW t, t = HashAdd(tables[scope], call.obj, call.name),
         tables' = [tables EXCEPT ![scope] = t], TableMemoryMoves(scope, t),
         IF Full(t, BucketWith(t, call.obj)) THEN GoTo("expand") ELSE Return,
         UNCHANGED <<status, lists>>
  PROVE  IInv'
<1>1. PICK elems : elems = lists[scope].elems
  OBVIOUS
<1>2. call.kind \in Named /\ call.obj \in Nat \ {0} /\ ObjectOwed = {call.obj}
  BY MakingFacts DEF StepsOf
<1>3. /\ Alive /\ ~Destroying /\ scope \in DOMAIN tables /\ scope \in DOMAIN lists
      /\ elems \in Seq(Nat \ {0}) /\ IsInjective(elems) /\ elems # << >> /\ call.obj = LastOf(elems)
      /\ Held(scope) = Front(elems)
      /\ elems = Append(Front(elems), call.obj) /\ call.obj \notin Range(Front(elems))
      /\ Range(Front(elems)) \cup {call.obj} = Range(elems) /\ call.obj \in AllOf(lists)
  BY <1>1, <1>2, NamingFacts
<1>4. PICK q, name : q = Front(elems) /\ name = call.name
  OBVIOUS
<1>5. /\ IsTable(tables[scope], q) /\ DOMAIN tables[scope].hh \subseteq Range(q)
      /\ NamesApart(tables[scope], q) /\ name \in DOMAIN HASH_FUNCTION
  <2>1. Orphans(scope) = {}
    BY DEF Orphans
  <2>2. name \in DOMAIN HASH_FUNCTION
    BY <1>4 DEF IInv, FrameOK, Frames
  <2>3. QED BY <1>3, <1>4, <2>1, <2>2, LiveFacts
<1>6. ChainsShort(tables[scope]) /\ Unnamed(tables[scope], q, name) /\ err = "MAM_SUCCESS"
  BY <1>2, <1>3, <1>4 DEF IInv, ChainsOK, NamesOK, FrameOK
<1>7. HasAdded(t, tables[scope], q, call.obj, name)
  BY <1>2, <1>3, <1>4, <1>5, <1>6, TableAdds
<1>8. /\ IsTable(t, elems) /\ DOMAIN t.hh \subseteq Range(elems) /\ t.hh[call.obj].key = name
      /\ SameNames(t, tables[scope], Range(q))
      /\ Full(t, BucketWith(t, call.obj)) => IsExpanding(t, call.obj)
      /\ ~Full(t, BucketWith(t, call.obj)) => ChainsShort(t)
  <2>1. Range(q) \subseteq DOMAIN tables[scope].hh \ {call.obj}
    BY <1>3, <1>4, <1>5, TableHas
  <2>2. QED BY <1>3, <1>4, <1>5, <1>7, <2>1 DEF HasAdded, SameNames
<1>9. NamesApart(t, elems)
  BY <1>3, <1>4, <1>5, <1>6, <1>8, OneMoreApart
<1>10. call' = Idle \/ GoesOn("expand")
  BY GoesOnFacts DEF GoTo, Return, Steps
<1>11. call' = Idle \/ \E st \in {"hash", "buckets", "expand", "err_arr"} : GoesOn(st)
  BY <1>10
<1>12. err' = err
  BY DEF GoTo, Return
<1>13. ~Destroying' /\ status' = "live"
  BY <1>10, IdleFacts DEF GoesOn, Destroying
<1>14. FrameOK'
  <2>1. CASE call' = Idle
    BY <1>6, <1>12, <1>13, <2>1, IdleFacts DEF FrameOK
  <2>2. CASE GoesOn("expand")
    <3>1. "expand" \in StepsOf(call.kind)
      BY <1>2 DEF StepsOf
    <3>2. call.scope \in DOMAIN lists'
      BY <1>3
    <3>3. QED BY <1>6, <1>12, <2>2, <3>1, <3>2, FrameGoesOn
  <2>3. QED BY <1>10, <2>1, <2>2
<1>15. ListsOK'
  BY <1>2, <1>11, NamingListsOK
<1>16. Held(scope)' = elems
  <2>1. call'.step \notin {"hash", "buckets", "err_arr"}
    BY <1>10, IdleFacts DEF GoesOn
  <2>2. QED BY <1>1, <1>3, <1>13, <2>1 DEF Held
<1>17. TablesOK' /\ ChainsOK' /\ \A s \in DOMAIN tables' : NamesApart(tables'[s], Held(s)')
  <2>1. IF call'.step = "expand" THEN call'.scope = scope /\ IsExpanding(t, call'.obj) ELSE ChainsShort(t)
    <3>1. CASE Full(t, BucketWith(t, call.obj))
      <4>1. GoesOn("expand")
        BY <3>1, GoesOnFacts DEF GoTo, Steps
      <4>2. QED BY <1>8, <3>1, <4>1 DEF GoesOn
    <3>2. CASE ~Full(t, BucketWith(t, call.obj))
      <4>1. call'.step # "expand"
        BY <3>2, IdleFacts DEF Return
      <4>2. QED BY <1>8, <3>2, <4>1
    <3>3. QED BY <3>1, <3>2
  <2>2. \A s \in DOMAIN tables : s # scope => Held(s)' = Held(s) /\ Orphans(s) \subseteq Orphans(s)'
    BY <1>2, <1>11, NamingOthers
  <2>3. {FieldsOf(c) : c \in Range(lists'[ConstructScope].elems)}
             \cup (IF call'.kind = "construct" THEN OwnScope' ELSE {})
           = {FieldsOf(c) : c \in Range(lists[ConstructScope].elems)}
               \cup (IF call.kind = "construct" THEN OwnScope ELSE {})
    BY <1>2, <1>11, NamingOwners
  <2>4. DOMAIN t.hh \subseteq Range(elems) \cup Orphans(scope)'
    BY <1>8
  <2>5. QED BY <1>3, <1>8, <1>9, <1>13, <1>16, <2>1, <2>2, <2>3, <2>4, OneTableTurns
<1>18. NamesOK'
  <2>1. call'.step \notin {"new", "push", "hash", "buckets"}
    BY <1>10, IdleFacts DEF GoesOn
  <2>2. QED BY <1>17, <2>1 DEF NamesOK
<1>19. HeapOK' /\ ~fault'
  <2>1. AllOf(lists) \cup ObjectOwed' = AllOf(lists) \cup ObjectOwed
    <3>1. ObjectOwed' \subseteq {call.obj}
      BY <1>10, IdleFacts, KindFacts DEF GoesOn, ObjectOwed, Making
    <3>2. QED BY <1>2, <1>3, <3>1
  <2>2. TableMem(t)
    BY <1>8, IsTableMem
  <2>3. Spare \subseteq TableBlocks(scope, t)
    BY <1>3, <1>8, SpareIsHeld
  <2>4. call'.step # "buckets"
    BY <1>10, IdleFacts DEF GoesOn
  <2>5. QED BY <1>3, <1>13, <2>1, <2>2, <2>3, <2>4, TableTurns
<1>20. QED BY <1>14, <1>15, <1>17, <1>18, <1>19 DEF IInv

\* ... or there was no memory for the table, and it has a handle to spare.
LEMMA NameRefusedKeeps ==
  ASSUME IInv, status = "live", Making, call.step \in {"hash", "buckets"}, NEW scope, scope = call.scope,
         tables[scope].head = NULL, NEW t, t = WithHandle(tables[scope], call.obj, call.name),
         tables' = [tables EXCEPT ![scope] = t], Fail("err_arr"),
         heap' = heap \ Spare, ~fault', UNCHANGED <<status, lists>>
  PROVE  IInv'
<1>1. PICK elems : elems = lists[scope].elems
  OBVIOUS
<1>2. call.kind \in Named /\ call.obj \in Nat \ {0} /\ ObjectOwed = {call.obj}
  BY MakingFacts DEF StepsOf
<1>3. /\ Alive /\ ~Destroying /\ scope \in DOMAIN tables /\ scope \in DOMAIN lists
      /\ Held(scope) = Front(elems) /\ call.obj \notin Range(Front(elems))
  BY <1>1, <1>2, NamingFacts
<1>4. PICK q, name : q = Front(elems) /\ name = call.name
  OBVIOUS
<1>5. /\ IsTable(tables[scope], q) /\ DOMAIN tables[scope].hh \subseteq Range(q)
      /\ NamesApart(tables[scope], q) /\ name \in DOMAIN HASH_FUNCTION
  <2>1. Orphans(scope) = {}
    BY DEF Orphans
  <2>2. name \in DOMAIN HASH_FUNCTION
    BY <1>4 DEF IInv, FrameOK, Frames
  <2>3. QED BY <1>3, <1>4, <2>1, <2>2, LiveFacts
<1>6. ChainsShort(tables[scope])
  BY <1>3 DEF IInv, ChainsOK
<1>7. HasSame(t, tables[scope], q) /\ DOMAIN t.hh = DOMAIN tables[scope].hh \cup {call.obj}
  BY <1>2, <1>3, <1>4, <1>5, TableHandles
<1>8. /\ IsTable(t, q) /\ t.mem = tables[scope].mem /\ NamesApart(t, q) /\ ChainsShort(t)
      /\ DOMAIN t.hh \subseteq Range(q) \cup {call.obj}
  BY <1>5, <1>6, <1>7, StillApart DEF HasSame
<1>9. GoesOn("err_arr") /\ err' = "MAM_ENOMEM"
  BY GoesOnFacts DEF Fail, NotGiven, Steps
<1>10. /\ call'.step = "err_arr" /\ call'.kind = call.kind /\ call'.obj = call.obj /\ call'.scope = scope
       /\ Making' /\ ~Beginning' /\ ~Destroying' /\ ObjectOwed' = {call.obj}
  BY <1>9 DEF GoesOn
<1>11. call' = Idle \/ \E st \in {"hash", "buckets", "expand", "err_arr"} : GoesOn(st)
  BY <1>9
<1>12. FrameOK'
  <2>1. "err_arr" \in StepsOf(call.kind)
    BY <1>2 DEF StepsOf
  <2>2. call.scope \in DOMAIN lists'
    BY <1>3
  <2>3. QED BY <1>9, <2>1, <2>2, FrameGoesOn
<1>13. ListsOK'
  BY <1>2, <1>11, NamingListsOK
<1>14. Held(scope)' = q /\ Orphans(scope)' = {call.obj}
  BY <1>1, <1>3, <1>4, <1>10 DEF Held, Orphans
<1>15. TablesOK' /\ ChainsOK' /\ \A s \in DOMAIN tables' : NamesApart(tables'[s], Held(s)')
  <2>1. IF call'.step = "expand" THEN call'.scope = scope /\ IsExpanding(t, call'.obj) ELSE ChainsShort(t)
    BY <1>8, <1>10
  <2>2. \A s \in DOMAIN tables : s # scope => Held(s)' = Held(s) /\ Orphans(s) \subseteq Orphans(s)'
    BY <1>2, <1>11, NamingOthers
  <2>3. {FieldsOf(c) : c \in Range(lists'[ConstructScope].elems)}
             \cup (IF call'.kind = "construct" THEN OwnScope' ELSE {})
           = {FieldsOf(c) : c \in Range(lists[ConstructScope].elems)}
               \cup (IF call.kind = "construct" THEN OwnScope ELSE {})
    BY <1>2, <1>11, NamingOwners
  <2>4. DOMAIN t.hh \subseteq Range(q) \cup Orphans(scope)'
    BY <1>8, <1>14
  <2>5. QED BY <1>3, <1>8, <1>10, <1>14, <2>1, <2>2, <2>3, <2>4, OneTableTurns
<1>16. NamesOK'
  BY <1>10, <1>15 DEF NamesOK
<1>17. HeapOK' /\ ~fault'
  <2>1. TablesOf(tables') = TablesOf(tables)
    BY <1>8, SameTablesOwe
  <2>2. PICK owed : owed = Owed({PlatformBlock}, {ContextBlock}, lists, tables, {call.obj})
    OBVIOUS
  <2>3. IsFiniteSet(heap) /\ ~fault /\ heap = owed \cup Spare
    BY <1>2, <1>3, <2>2, LiveFacts
  <2>4. Spare \cap owed = {}
    <3>1. {NewTbl} \cap owed = {}
      BY <1>3, <2>2, SpareApart
    <3>2. QED BY <3>1 DEF Spare
  <2>5. heap' = owed /\ ~fault'
    BY <2>3, <2>4
  <2>6. IsFiniteSet(heap')
    <3>1. heap' \in SUBSET heap
      BY <2>3, <2>5
    <3>2. QED BY <2>3, <3>1, FS_Subset
  <2>7. Owed({PlatformBlock}, {ContextBlock}, lists, tables', {call.obj}) = owed
    BY <2>1, <2>2 DEF Owed
  <2>8. PlatformOwed' = {PlatformBlock} /\ ContextOwed' = {ContextBlock} /\ Spare' = {}
    BY <1>10 DEF PlatformOwed, ContextOwed, Spare
  <2>9. QED BY <1>10, <2>5, <2>6, <2>7, <2>8 DEF HeapOK
<1>18. QED BY <1>12, <1>13, <1>15, <1>16, <1>17 DEF IInv

\* ... or half of the table was made.
LEMMA TableBegunKeeps ==
  ASSUME IInv, status = "live", Making, call.step = "hash", NEW scope, scope = call.scope,
         tables[scope].head = NULL, Memory({}, {}, {NewTbl}), GoTo("buckets"),
         UNCHANGED <<status, lists, tables>>
  PROVE  IInv'
<1>1. PICK elems : elems = lists[scope].elems
  OBVIOUS
<1>2. call.kind \in Named /\ call.obj \in Nat \ {0} /\ ObjectOwed = {call.obj}
  BY MakingFacts DEF StepsOf
<1>3. /\ Alive /\ ~Destroying /\ scope \in DOMAIN tables /\ scope \in DOMAIN lists
      /\ Held(scope) = Front(elems)
  BY <1>1, <1>2, NamingFacts
<1>4. GoesOn("buckets") /\ err' = err
  BY GoesOnFacts DEF GoTo, Steps
<1>5. /\ call'.step = "buckets" /\ call'.kind = call.kind /\ call'.obj = call.obj /\ call'.scope = scope
      /\ call'.name = call.name /\ Making' /\ ~Beginning' /\ ~Destroying' /\ ObjectOwed' = {call.obj}
  BY <1>4 DEF GoesOn
<1>6. call' = Idle \/ \E st \in {"hash", "buckets", "expand", "err_arr"} : GoesOn(st)
  BY <1>4
<1>7. FrameOK'
  <2>1. "buckets" \in StepsOf(call.kind)
    BY <1>2 DEF StepsOf
  <2>2. call.scope \in DOMAIN lists' /\ err = "MAM_SUCCESS"
    BY <1>3 DEF IInv, FrameOK
  <2>3. QED BY <1>4, <2>1, <2>2, FrameGoesOn
<1>8. ListsOK'
  BY <1>2, <1>6, NamingListsOK
<1>9. \A s \in DOMAIN tables : Held(s)' = Held(s) /\ Orphans(s) \subseteq Orphans(s)'
  <2>1. \A s : s # scope => Held(s)' = Held(s) /\ Orphans(s) \subseteq Orphans(s)'
    BY <1>2, <1>6, NamingOthers
  <2>2. Held(scope)' = Front(elems) /\ Orphans(scope) = {}
    BY <1>1, <1>3, <1>5 DEF Held, Orphans
  <2>3. QED BY <1>3, <2>1, <2>2
<1>10. TablesOK' /\ ChainsOK' /\ \A s \in DOMAIN tables' : NamesApart(tables'[s], Held(s)')
  <2>1. {FieldsOf(c) : c \in Range(lists'[ConstructScope].elems)}
             \cup (IF call'.kind = "construct" THEN OwnScope' ELSE {})
           = {FieldsOf(c) : c \in Range(lists[ConstructScope].elems)}
               \cup (IF call.kind = "construct" THEN OwnScope ELSE {})
    BY <1>2, <1>6, NamingOwners
  <2>2. status' = "live" /\ call'.step # "expand" /\ call.step # "expand"
    BY <1>5
  <2>3. QED BY <1>3, <1>5, <1>9, <2>1, <2>2, TablesStay
<1>11. NamesOK'
  <2>1. Unnamed(tables[scope], Held(scope), call.name)
    BY <1>2 DEF IInv, NamesOK
  <2>2. Held(scope)' = Held(scope)
    BY <1>3, <1>9
  <2>3. QED BY <1>5, <1>10, <2>1, <2>2 DEF NamesOK
<1>12. HeapOK' /\ ~fault'
  <2>1. PICK owed : owed = Owed({PlatformBlock}, {ContextBlock}, lists, tables, {call.obj})
    OBVIOUS
  <2>2. IsFiniteSet(heap) /\ ~fault /\ heap = owed
    BY <1>2, <1>3, <2>1, LiveFacts
  <2>3. heap' = owed \cup {NewTbl} /\ ~fault'
    BY <2>2 DEF Memory
  <2>4. IsFiniteSet(heap')
    BY <2>2, <2>3, FS_AddElement
  <2>5. Spare' = {NewTbl}
    BY <1>5 DEF Spare, NewTbl
  <2>6. PlatformOwed' = {PlatformBlock} /\ ContextOwed' = {ContextBlock}
    BY DEF PlatformOwed, ContextOwed
  <2>7. heap' = Owed(PlatformOwed', ContextOwed', lists', tables', ObjectOwed') \cup Spare'
    BY <1>5, <2>1, <2>3, <2>5, <2>6
  <2>8. QED BY <1>5, <2>3, <2>4, <2>7 DEF HeapOK
<1>13. QED BY <1>7, <1>8, <1>10, <1>11, <1>12 DEF IInv

\* What both steps of HASH_ADD_KEYPTR can do.
LEMMA NameTurnsKeeps ==
  ASSUME IInv, status # "undefined", call.step \in {"hash", "buckets"}, UNCHANGED <<status, lists>>,
         NameAdded \/ (NameRefused /\ heap' = heap \ Spare /\ ~fault' /\ tables[call.scope].head = NULL)
  PROVE  IInv'
<1>1. PICK scope, table : scope = call.scope /\ table = tables[scope]
  OBVIOUS
<1>2. Making
  BY IdleFacts DEF IInv, FrameOK
<1>3. status = "live" /\ scope \in DOMAIN tables
  <2>1. call.kind \in Named
    BY <1>2, MakingFacts DEF StepsOf
  <2>2. QED BY <1>1, <1>2, <2>1, NamingFacts
<1>4. CASE NameAdded
  <2>1. PICK t : t = HashAdd(table, call.obj, call.name)
    OBVIOUS
  <2>2. tables' = [tables EXCEPT ![scope] = t] /\ tables'[scope] = t
    BY <1>1, <1>3, <1>4, <2>1 DEF NameAdded
  <2>3. TableMemoryMoves(scope, t) /\ IF Full(t, BucketWith(t, call.obj)) THEN GoTo("expand") ELSE Return
    BY <1>1, <1>4, <2>2 DEF NameAdded
  <2>4. QED BY <1>1, <1>2, <1>3, <2>1, <2>2, <2>3, NameAddedKeeps
<1>5. CASE NameRefused /\ heap' = heap \ Spare /\ ~fault' /\ tables[call.scope].head = NULL
  <2>1. PICK t : t = WithHandle(table, call.obj, call.name)
    OBVIOUS
  <2>2. tables' = [tables EXCEPT ![scope] = t] /\ Fail("err_arr")
    BY <1>1, <1>5, <2>1 DEF NameRefused
  <2>3. QED BY <1>1, <1>2, <1>3, <1>5, <2>1, <2>2, NameRefusedKeeps
<1>6. QED BY <1>4, <1>5

LEMMA AddNameKeeps ==
  ASSUME IInv, AddName, status # "undefined"
  PROVE  IInv'
<1>1. call.step = "hash" /\ UNCHANGED <<status, lists>>
  BY DEF AddName
<1>2. CASE NameAdded
  BY <1>1, <1>2, NameTurnsKeeps
<1>3. CASE NameRefused /\ UNCHANGED <<heap, fault>> /\ tables[call.scope].head = NULL
  <2>1. ~fault /\ Spare = {}
    BY <1>1 DEF Spare, IInv
  <2>2. heap' = heap \ Spare /\ ~fault'
    BY <1>3, <2>1
  <2>3. QED BY <1>1, <1>3, <2>2, NameTurnsKeeps
<1>4. CASE /\ Memory({}, {}, {NewTbl}) /\ GoTo("buckets") /\ UNCHANGED tables
           /\ tables[call.scope].head = NULL
  <2>1. Making
    BY <1>1, IdleFacts DEF IInv, FrameOK
  <2>2. status = "live"
    BY <2>1, MakingFacts
  <2>3. PICK scope : scope = call.scope
    OBVIOUS
  <2>4. QED BY <1>1, <1>4, <2>1, <2>2, <2>3, TableBegunKeeps
<1>5. QED BY <1>2, <1>3, <1>4 DEF AddName

LEMMA MakeBucketsKeeps ==
  ASSUME IInv, MakeBuckets, status # "undefined"
  PROVE  IInv'
<1>1. call.step = "buckets" /\ UNCHANGED <<status, lists>>
  BY DEF MakeBuckets
<1>2. Spare = {NewTbl} /\ tables[call.scope].head = NULL /\ ~fault
  BY <1>1 DEF Spare, IInv, HeapOK
<1>3. Spare \subseteq heap
  <2>1. Making
    BY <1>1, IdleFacts DEF IInv, FrameOK
  <2>2. status = "live" /\ ~Destroying
    BY <2>1, MakingFacts
  <2>3. QED BY <2>2, LiveFacts
<1>4. CASE NameRefused /\ Memory({}, {NewTbl}, {})
  <2>1. heap' = heap \ Spare /\ ~fault'
    BY <1>2, <1>3, <1>4 DEF Memory
  <2>2. QED BY <1>1, <1>2, <1>4, <2>1, NameTurnsKeeps
<1>5. QED BY <1>1, <1>4, NameTurnsKeeps DEF MakeBuckets

------------------------------------------------------------------------------
(* The table expands.                                                      *)

\* There was no memory for the buckets: the last element is taken out ...
LEMMA RolledBackKeeps ==
  ASSUME IInv, status = "live", Making, call.step = "expand", NEW scope, scope = call.scope,
         NEW t, t = RolledBack(tables[scope], call.obj),
         tables' = [tables EXCEPT ![scope] = t], TableMemoryMoves(scope, t), Fail("err_arr"),
         UNCHANGED <<status, lists>>
  PROVE  IInv'
<1>1. PICK elems : elems = lists[scope].elems
  OBVIOUS
<1>2. call.kind \in Named /\ call.obj \in Nat \ {0} /\ ObjectOwed = {call.obj}
  BY MakingFacts DEF StepsOf
<1>3. /\ Alive /\ ~Destroying /\ scope \in DOMAIN tables /\ scope \in DOMAIN lists
      /\ elems # << >> /\ call.obj = LastOf(elems) /\ Held(scope) = elems
      /\ Range(Front(elems)) \cup {call.obj} = Range(elems)
  BY <1>1, <1>2, NamingFacts
<1>4. PICK q : q = Front(elems)
  OBVIOUS
<1>5. /\ IsTable(tables[scope], elems) /\ DOMAIN tables[scope].hh \subseteq Range(elems)
      /\ NamesApart(tables[scope], elems)
  <2>1. Orphans(scope) = {}
    BY DEF Orphans
  <2>2. QED BY <1>3, <2>1, LiveFacts
<1>6. IsExpanding(tables[scope], call.obj)
  BY <1>3 DEF IInv, ChainsOK
<1>7. HasLost(t, tables[scope], elems)
  BY <1>3, <1>5, <1>6, TableRollsBack
<1>8. /\ IsTable(t, q) /\ ChainsShort(t) /\ DOMAIN t.hh \subseteq Range(q) \cup {call.obj}
      /\ SameNames(t, tables[scope], DOMAIN tables[scope].hh)
  BY <1>3, <1>4, <1>5, <1>7 DEF HasLost
<1>9. NamesApart(t, q)
  <2>1. NamesApart(tables[scope], q)
    BY <1>3, <1>4, <1>5, SubApart
  <2>2. Range(q) \subseteq DOMAIN tables[scope].hh
    BY <1>3, <1>4, <1>5, TableHas
  <2>3. QED BY <1>8, <2>1, <2>2, StillApart
<1>10. GoesOn("err_arr") /\ err' = "MAM_ENOMEM"
  BY GoesOnFacts DEF Fail, NotGiven, Steps
<1>11. /\ call'.step = "err_arr" /\ call'.kind = call.kind /\ call'.obj = call.obj /\ call'.scope = scope
       /\ Making' /\ ~Beginning' /\ ~Destroying' /\ ObjectOwed' = {call.obj}
  BY <1>10 DEF GoesOn
<1>12. call' = Idle \/ \E st \in {"hash", "buckets", "expand", "err_arr"} : GoesOn(st)
  BY <1>10
<1>13. FrameOK'
  <2>1. "err_arr" \in StepsOf(call.kind)
    BY <1>2 DEF StepsOf
  <2>2. call.scope \in DOMAIN lists'
    BY <1>3
  <2>3. QED BY <1>10, <2>1, <2>2, FrameGoesOn
<1>14. ListsOK'
  BY <1>2, <1>12, NamingListsOK
<1>15. Held(scope)' = q /\ Orphans(scope)' = {call.obj}
  BY <1>1, <1>3, <1>4, <1>11 DEF Held, Orphans
<1>16. TablesOK' /\ ChainsOK' /\ \A s \in DOMAIN tables' : NamesApart(tables'[s], Held(s)')
  <2>1. IF call'.step = "expand" THEN call'.scope = scope /\ IsExpanding(t, call'.obj) ELSE ChainsShort(t)
    BY <1>8, <1>11
  <2>2. \A s \in DOMAIN tables : s # scope => Held(s)' = Held(s) /\ Orphans(s) \subseteq Orphans(s)'
    BY <1>2, <1>12, NamingOthers
  <2>3. {FieldsOf(c) : c \in Range(lists'[ConstructScope].elems)}
             \cup (IF call'.kind = "construct" THEN OwnScope' ELSE {})
           = {FieldsOf(c) : c \in Range(lists[ConstructScope].elems)}
               \cup (IF call.kind = "construct" THEN OwnScope ELSE {})
    BY <1>2, <1>12, NamingOwners
  <2>4. DOMAIN t.hh \subseteq Range(q) \cup Orphans(scope)'
    BY <1>8, <1>15
  <2>5. QED BY <1>3, <1>8, <1>9, <1>11, <1>15, <2>1, <2>2, <2>3, <2>4, OneTableTurns
<1>17. NamesOK'
  BY <1>11, <1>16 DEF NamesOK
<1>18. HeapOK' /\ ~fault'
  <2>1. TableMem(t)
    BY <1>8, IsTableMem
  <2>2. AllOf(lists) \cup ObjectOwed' = AllOf(lists) \cup ObjectOwed
    BY <1>2, <1>11
  <2>3. Spare = {} /\ call'.step # "buckets"
    BY <1>11 DEF Spare
  <2>4. QED BY <1>3, <1>11, <2>1, <2>2, <2>3, TableTurns
<1>19. QED BY <1>13, <1>14, <1>16, <1>17, <1>18 DEF IInv

\* ... or there was, and the call returns.
LEMMA ExpandedKeeps ==
  ASSUME IInv, status = "live", Making, call.step = "expand", NEW scope, scope = call.scope,
         NEW t, t = Expanded(tables[scope]),
         tables' = [tables EXCEPT ![scope] = t], TableMemoryMoves(scope, t), Return,
         UNCHANGED <<status, lists>>
  PROVE  IInv'
<1>1. PICK elems : elems = lists[scope].elems
  OBVIOUS
<1>2. call.kind \in Named /\ ObjectOwed = {call.obj}
  BY MakingFacts DEF StepsOf
<1>3. /\ Alive /\ ~Destroying /\ scope \in DOMAIN tables /\ scope \in DOMAIN lists
      /\ elems # << >> /\ Held(scope) = elems /\ call.obj \in AllOf(lists)
  BY <1>1, <1>2, NamingFacts
<1>4. /\ IsTable(tables[scope], elems) /\ DOMAIN tables[scope].hh \subseteq Range(elems)
      /\ NamesApart(tables[scope], elems)
  <2>1. Orphans(scope) = {}
    BY DEF Orphans
  <2>2. QED BY <1>3, <2>1, LiveFacts
<1>5. HasExpanded(t, tables[scope], elems)
  BY <1>3, <1>4, TableExpands
<1>6. /\ IsTable(t, elems) /\ ChainsShort(t) /\ DOMAIN t.hh \subseteq Range(elems)
      /\ SameNames(t, tables[scope], DOMAIN tables[scope].hh)
  BY <1>4, <1>5 DEF HasExpanded
<1>7. NamesApart(t, elems)
  <2>1. Range(elems) \subseteq DOMAIN tables[scope].hh
    BY <1>4, TableHas
  <2>2. QED BY <1>4, <1>6, <2>1, StillApart
<1>8. call' = Idle /\ err' = err /\ err = "MAM_SUCCESS"
  BY DEF Return, IInv, FrameOK
<1>9. /\ ~Making' /\ ~Beginning' /\ ~Destroying' /\ OwnScope' = {} /\ ObjectOwed' = {}
      /\ call'.kind = "none" /\ call'.step = "none"
  BY <1>8, IdleFacts, KindFacts DEF Making, Beginning, Destroying, OwnScope, ObjectOwed
<1>10. FrameOK'
  BY <1>8, IdleFacts DEF FrameOK
<1>11. ListsOK'
  BY <1>2, <1>8, NamingListsOK
<1>12. Held(scope)' = elems
  BY <1>1, <1>3, <1>9 DEF Held
<1>13. TablesOK' /\ ChainsOK' /\ \A s \in DOMAIN tables' : NamesApart(tables'[s], Held(s)')
  <2>1. IF call'.step = "expand" THEN call'.scope = scope /\ IsExpanding(t, call'.obj) ELSE ChainsShort(t)
    BY <1>6, <1>9
  <2>2. \A s \in DOMAIN tables : s # scope => Held(s)' = Held(s) /\ Orphans(s) \subseteq Orphans(s)'
    BY <1>2, <1>8, NamingOthers
  <2>3. {FieldsOf(c) : c \in Range(lists'[ConstructScope].elems)}
             \cup (IF call'.kind = "construct" THEN OwnScope' ELSE {})
           = {FieldsOf(c) : c \in Range(lists[ConstructScope].elems)}
               \cup (IF call.kind = "construct" THEN OwnScope ELSE {})
    BY <1>2, <1>8, NamingOwners
  <2>4. DOMAIN t.hh \subseteq Range(elems) \cup Orphans(scope)'
    BY <1>6
  <2>5. QED BY <1>3, <1>6, <1>7, <1>9, <1>12, <2>1, <2>2, <2>3, <2>4, OneTableTurns
<1>14. NamesOK'
  BY <1>9, <1>13 DEF NamesOK
<1>15. HeapOK' /\ ~fault'
  <2>1. TableMem(t)
    BY <1>6, IsTableMem
  <2>2. AllOf(lists) \cup ObjectOwed' = AllOf(lists) \cup ObjectOwed
    BY <1>2, <1>3, <1>9
  <2>3. Spare = {} /\ call'.step # "buckets"
    BY <1>9 DEF Spare
  <2>4. QED BY <1>3, <1>9, <2>1, <2>2, <2>3, TableTurns
<1>16. QED BY <1>10, <1>11, <1>13, <1>14, <1>15 DEF IInv

LEMMA ExpandKeeps ==
  ASSUME IInv, Expand, status # "undefined"
  PROVE  IInv'
<1>1. PICK scope, table : scope = call.scope /\ table = tables[scope]
  OBVIOUS
<1>2. Making
  BY IdleFacts DEF IInv, FrameOK, Expand
<1>3. status = "live" /\ scope \in DOMAIN tables
  <2>1. call.kind \in Named
    BY <1>2, MakingFacts DEF StepsOf, Expand
  <2>2. QED BY <1>1, <1>2, <2>1, NamingFacts DEF Expand
<1>4. CASE tables' = [tables EXCEPT ![call.scope] = RolledBack(table, call.obj)] /\ Fail("err_arr")
  <2>1. PICK t : t = RolledBack(table, call.obj)
    OBVIOUS
  <2>2. tables' = [tables EXCEPT ![scope] = t] /\ tables'[scope] = t
    BY <1>1, <1>3, <1>4, <2>1
  <2>3. TableMemoryMoves(scope, t)
    BY <1>1, <2>2 DEF Expand
  <2>4. QED BY <1>1, <1>2, <1>3, <1>4, <2>1, <2>2, <2>3, RolledBackKeeps DEF Expand
<1>5. CASE tables' = [tables EXCEPT ![call.scope] = Expanded(table)] /\ Given /\ Return
  <2>1. PICK t : t = Expanded(table)
    OBVIOUS
  <2>2. tables' = [tables EXCEPT ![scope] = t] /\ tables'[scope] = t
    BY <1>1, <1>3, <1>5, <2>1
  <2>3. TableMemoryMoves(scope, t)
    BY <1>1, <2>2 DEF Expand
  <2>4. QED BY <1>1, <1>2, <1>3, <1>5, <2>1, <2>2, <2>3, ExpandedKeeps DEF Expand
<1>6. QED BY <1>1, <1>4, <1>5 DEF Expand

------------------------------------------------------------------------------
(* The error labels.                                                       *)

\* The array of the object is given back ...
LEMMA ArrayTakenBack ==
  ASSUME IInv, status = "live", Making, call.step = "err_arr", call.kind = "array",
         NEW own, own = Own(call.kind, call.obj), Memory({}, ArrayBlocks(own), {}),
         lists' = Without(lists, {own}), GoTo("err_mem"), UNCHANGED <<status, tables>>
  PROVE  IInv'
<1>1. /\ ~Beginning /\ ~Destroying /\ call.obj \in Nat \ {0} /\ call.scope \in DOMAIN lists
      /\ ObjectOwed = {call.obj}
  BY MakingFacts
<1>2. /\ Alive /\ GoodLists(lists) /\ ConstructScope \in DOMAIN lists /\ ArrayScope \in DOMAIN lists
      /\ Tables(tables) /\ Bases({PlatformBlock}, {ContextBlock}) /\ IsFiniteSet(heap) /\ ~fault
      /\ heap = Owed({PlatformBlock}, {ContextBlock}, lists, tables, {call.obj})
  BY <1>1, LiveFacts
<1>3. /\ OwnScope = {own} /\ own \notin ContextScopes /\ call.scope # own /\ own = DimensionsOf(call.obj)
      /\ call.scope = ArrayScope
  BY OwnApart
<1>4. own \in DOMAIN lists /\ lists[own].elems = << >> /\ call.obj \notin AllOf(lists)
      /\ ContextScopes \cup OwnedOf(lists) \subseteq DOMAIN lists
      /\ DOMAIN lists \subseteq ContextScopes \cup OwnedOf(lists) \cup OwnScope
  BY <1>2, <1>3, ListedIs DEF IInv, ListsOK, Unlisted
<1>5. IsClosed(lists', lists, own)
  BY <1>2, <1>4, ClosedLists
<1>6. /\ GoodLists(lists') /\ DOMAIN lists' = DOMAIN lists \ {own}
      /\ \A r \in DOMAIN lists \ {own} : lists'[r] = lists[r]
      /\ AllOf(lists') = AllOf(lists)
  BY <1>5 DEF IsClosed
<1>7. GoesOn("err_mem") /\ err' = err /\ err \in {"MAM_SUCCESS", "MAM_EINVAL", "MAM_ENOMEM"}
  BY GoesOnFacts DEF GoTo, Steps, IInv, FrameOK
<1>8. /\ call'.step = "err_mem" /\ call'.kind = call.kind /\ call'.obj = call.obj /\ call'.scope = call.scope
      /\ Making' /\ ~Beginning' /\ ~Destroying' /\ OwnScope' = OwnScope /\ ObjectOwed' = {call.obj}
  BY <1>7 DEF GoesOn
<1>9. FrameOK'
  <2>1. "err_mem" \in StepsOf(call.kind) /\ call.scope \in DOMAIN lists'
    BY <1>1, <1>3, <1>6 DEF StepsOf
  <2>2. QED BY <1>7, <2>1, FrameGoesOn
<1>10. lists'[ConstructScope] = lists[ConstructScope] /\ lists'[ArrayScope] = lists[ArrayScope]
  BY <1>2, <1>3, <1>6 DEF ContextScopes
<1>11. call.obj \notin Range(lists[ArrayScope].elems)
  BY <1>2, <1>4, GoodListsFacts
<1>12. ListsOK'
  <2>1. Listed' = AllOf(lists')
    BY DEF Listed, ListedIn, AllOf, Range
  <2>2. Unlisted' /\ call'.obj \notin Listed'
    BY <1>4, <1>6, <1>8, <2>1 DEF Unlisted
  <2>3. OwnedOf(lists') = OwnedOf(lists) /\ own \notin OwnedOf(lists)
    <3>1. OwnedOf(lists') = OwnedOf(lists)
      BY <1>10 DEF OwnedOf
    <3>2. \A a \in Range(lists[ArrayScope].elems) : DimensionsOf(a) # own
      BY <1>3, <1>11, ScopesDiffer
    <3>3. \A c \in Range(lists[ConstructScope].elems) : FieldsOf(c) # own
      BY <1>3, ScopesDiffer
    <3>4. QED BY <3>1, <3>2, <3>3 DEF OwnedOf
  <2>4. \A s \in OwnScope' : s \notin DOMAIN lists'
    BY <1>3, <1>6, <1>8
  <2>5. /\ ContextScopes \cup OwnedOf(lists') \subseteq DOMAIN lists'
        /\ DOMAIN lists' \subseteq ContextScopes \cup OwnedOf(lists') \cup OwnScope'
    BY <1>3, <1>4, <1>6, <1>8, <2>3
  <2>6. call'.step # "push" /\ call'.step # "err_arr"
    BY <1>8
  <2>7. QED BY <1>6, <1>8, <2>2, <2>4, <2>5, <2>6 DEF ListsOK
<1>13. DOMAIN tables = TabledScopes \cup {FieldsOf(c) : c \in Range(lists[ConstructScope].elems)}
  BY <1>2 DEF IInv, TablesOK
<1>14. call.scope \notin DOMAIN tables /\ own \notin DOMAIN tables
  <2>1. ArrayScope \in ContextScopes /\ own \notin TabledScopes
    BY <1>3, ScopeFacts DEF ContextScopes
  <2>2. QED BY <1>3, <1>13, <2>1, ScopesDiffer
<1>15. \A s \in DOMAIN tables : Held(s)' = Held(s)
  <2>1. \A s \in DOMAIN tables : Held(s) = IF s \in DOMAIN lists THEN lists[s].elems ELSE << >>
    BY <1>1, <1>14 DEF Held
  <2>2. \A s \in DOMAIN tables : Held(s)' = IF s \in DOMAIN lists' THEN lists'[s].elems ELSE << >>
    BY <1>8, <1>14 DEF Held
  <2>3. QED BY <1>6, <1>14, <2>1, <2>2
<1>16. TablesOK' /\ ChainsOK' /\ \A s \in DOMAIN tables' : NamesApart(tables'[s], Held(s)')
  <2>1. call.step # "expand" /\ call'.step # "expand"
    BY <1>8
  <2>2. \A s \in DOMAIN tables : Orphans(s) \subseteq Orphans(s)'
    BY <1>14 DEF Orphans
  <2>3. QED BY <1>1, <1>8, <1>10, <1>15, <2>1, <2>2, TablesStay
<1>17. NamesOK'
  BY <1>8, <1>16 DEF NamesOK
<1>18. HeapOK' /\ ~fault'
  <2>1. ArrayBlocks(own) = BlocksIn(lists, own)
    BY <1>2, <1>4, ArrayBlocksAre
  <2>2. /\ Owed({PlatformBlock}, {ContextBlock}, lists', tables, {call.obj}) = heap \ ArrayBlocks(own)
        /\ ArrayBlocks(own) \subseteq heap
    <3>1. PICK P, C, O, M :
            /\ P = {PlatformBlock} /\ C = {ContextBlock} /\ O = {call.obj} /\ M = lists'
      OBVIOUS
    <3>2. Bases(P, C) /\ IsClosed(M, lists, own) /\ heap = Owed(P, C, lists, tables, O)
      BY <1>2, <1>5, <3>1
    <3>3. Drops(Owed(P, C, M, tables, O), Owed(P, C, lists, tables, O), BlocksIn(lists, own))
      BY <1>2, <1>4, <3>2, OwedArrayGoes
    <3>4. QED BY <2>1, <3>1, <3>2, <3>3 DEF Drops
  <2>3. heap' = heap \ ArrayBlocks(own) /\ ~fault'
    BY <1>2, <2>2 DEF Memory
  <2>4. IsFiniteSet(heap')
    <3>1. heap' \in SUBSET heap
      BY <2>3
    <3>2. QED BY <1>2, <3>1, FS_Subset
  <2>5. PlatformOwed' = {PlatformBlock} /\ ContextOwed' = {ContextBlock}
    BY DEF PlatformOwed, ContextOwed
  <2>6. QED BY <1>8, <2>2, <2>3, <2>4, <2>5 DEF HeapOK, Spare
<1>19. QED BY <1>9, <1>12, <1>16, <1>17, <1>18 DEF IInv

\* ... or the object is taken from the array that has it.
LEMMA NameTakenBack ==
  ASSUME IInv, status = "live", Making, call.step = "err_arr", call.kind \in Named,
         NEW scope, scope = call.scope,
         lists' = [lists EXCEPT ![scope] = PoppedBack(lists[scope])], GoTo("err_mem"),
         UNCHANGED <<status, heap, tables, fault>>
  PROVE  IInv'
<1>1. PICK elems : elems = lists[scope].elems
  OBVIOUS
<1>2. /\ ~Beginning /\ ~Destroying /\ call.obj \in Nat \ {0} /\ ScopeFits(call.kind, scope, DOMAIN lists)
      /\ ObjectOwed = {call.obj}
  BY MakingFacts
<1>3. /\ Alive /\ GoodLists(lists) /\ ConstructScope \in DOMAIN lists /\ ArrayScope \in DOMAIN lists
      /\ IsFiniteSet(heap) /\ ~fault
      /\ heap = Owed({PlatformBlock}, {ContextBlock}, lists, tables, {call.obj})
  BY <1>2, LiveFacts
<1>4. /\ scope \in DOMAIN tables /\ scope \in DOMAIN lists /\ elems # << >> /\ call.obj = LastOf(elems)
      /\ Held(scope) = Front(elems) /\ call.obj \in AllOf(lists)
      /\ \A s : s # scope => Held(s) = (IF s \in DOMAIN lists THEN lists[s].elems ELSE << >>)
      /\ call.kind = "construct" => OwnScope = {FieldsOf(call.obj)} /\ scope = ConstructScope
      /\ call.kind # "construct" => OwnScope = {} /\ scope # ConstructScope
      /\ \A s : s # scope => Orphans(s) = {}
  BY <1>1, NamingFacts
<1>5. IsPopped(lists', lists, scope)
  BY <1>1, <1>3, <1>4, PoppedLists
<1>6. /\ GoodLists(lists') /\ DOMAIN lists' = DOMAIN lists /\ lists'[scope].elems = Front(elems)
      /\ Range(lists'[scope].elems) = Range(elems) \ {call.obj}
      /\ \A r \in DOMAIN lists : r # scope => lists'[r] = lists[r]
      /\ Roomy(lists') = Roomy(lists) /\ AllOf(lists') = AllOf(lists) \ {call.obj}
  BY <1>1, <1>4, <1>5 DEF IsPopped
<1>7. GoesOn("err_mem") /\ err' = err /\ err \in {"MAM_SUCCESS", "MAM_EINVAL", "MAM_ENOMEM"}
  BY GoesOnFacts DEF GoTo, Steps, IInv, FrameOK
<1>8. /\ call'.step = "err_mem" /\ call'.kind = call.kind /\ call'.obj = call.obj /\ call'.scope = scope
      /\ Making' /\ ~Beginning' /\ ~Destroying' /\ OwnScope' = OwnScope /\ ObjectOwed' = {call.obj}
  BY <1>7 DEF GoesOn
<1>9. FrameOK'
  <2>1. "err_mem" \in StepsOf(call.kind) /\ call.scope \in DOMAIN lists'
    BY <1>4, <1>6 DEF StepsOf
  <2>2. QED BY <1>7, <2>1, FrameGoesOn
<1>10. scope # ArrayScope /\ lists'[ArrayScope] = lists[ArrayScope]
  <2>1. ArrayScope \notin {"fields"} \X (Nat \ {0})
    BY DEF ArrayScope
  <2>2. scope # ArrayScope
    BY <1>2, <2>1, ScopesDiffer DEF ScopeFits, Named
  <2>3. QED BY <1>3, <1>6, <2>2
\* A construct's fields are those of the object of the call, no longer of one
\* that is listed.
<1>11. /\ {FieldsOf(c) : c \in Range(lists'[ConstructScope].elems)}
            \cup (IF call.kind = "construct" THEN OwnScope ELSE {})
            = {FieldsOf(c) : c \in Range(lists[ConstructScope].elems)}
                \cup (IF call.kind = "construct" THEN OwnScope ELSE {})
       /\ OwnedOf(lists') \cup OwnScope = OwnedOf(lists) \cup OwnScope
       /\ OwnedOf(lists') \subseteq OwnedOf(lists)
  <2>1. CASE call.kind = "construct"
    <3>1. Range(lists'[ConstructScope].elems) = Range(lists[ConstructScope].elems) \ {call.obj}
      BY <1>1, <1>4, <1>6, <2>1
    <3>2. OwnScope = {FieldsOf(call.obj)}
      BY <1>4, <2>1
    <3>3. {FieldsOf(c) : c \in Range(lists'[ConstructScope].elems)} \cup OwnScope
            = {FieldsOf(c) : c \in Range(lists[ConstructScope].elems)} \cup OwnScope
      <4>1. call.obj \in Range(lists[ConstructScope].elems)
        BY <1>1, <1>4, <2>1, NamingFacts
      <4>2. QED BY <3>1, <3>2, <4>1
    <3>4. {FieldsOf(c) : c \in Range(lists'[ConstructScope].elems)}
            \subseteq {FieldsOf(c) : c \in Range(lists[ConstructScope].elems)}
      BY <3>1
    <3>5. QED BY <1>10, <2>1, <3>3, <3>4 DEF OwnedOf
  <2>2. CASE call.kind # "construct"
    <3>1. lists'[ConstructScope] = lists[ConstructScope]
      BY <1>3, <1>4, <1>6, <2>2
    <3>2. QED BY <1>10, <2>2, <3>1 DEF OwnedOf
  <2>3. QED BY <2>1, <2>2
<1>12. ListsOK'
  <2>1. Listed' = AllOf(lists')
    BY DEF Listed, ListedIn, AllOf, Range
  <2>2. Unlisted' /\ call'.obj \notin Listed'
    BY <1>6, <1>8, <2>1 DEF Unlisted
  <2>3. /\ ContextScopes \cup OwnedOf(lists) \subseteq DOMAIN lists
        /\ DOMAIN lists \subseteq ContextScopes \cup OwnedOf(lists) \cup OwnScope
        /\ \A s \in OwnScope : s \in DOMAIN lists => lists[s].elems = << >>
    BY <1>3 DEF IInv, ListsOK
  <2>4. /\ ContextScopes \cup OwnedOf(lists') \subseteq DOMAIN lists'
        /\ DOMAIN lists' \subseteq ContextScopes \cup OwnedOf(lists') \cup OwnScope'
    BY <1>6, <1>8, <1>11, <2>3
  <2>5. \A s \in OwnScope' : s \in DOMAIN lists' => lists'[s].elems = << >>
    <3>1. scope \notin OwnScope
      <4>1. PICK own : own = Own(call.kind, call.obj)
        OBVIOUS
      <4>2. QED BY <1>4, <4>1, OwnApart
    <3>2. QED BY <1>6, <1>8, <2>3, <3>1
  <2>6. call'.kind # "array" /\ call'.step \notin {"new", "push", "err_arr"}
    BY <1>8 DEF Named
  <2>7. QED BY <1>6, <1>8, <2>2, <2>4, <2>5, <2>6 DEF ListsOK
<1>13. \A s \in DOMAIN tables : Held(s)' = Held(s)
  <2>1. \A s : Held(s)' = IF s \in DOMAIN lists' THEN lists'[s].elems ELSE << >>
    BY <1>8 DEF Held
  <2>2. Held(scope)' = Held(scope)
    BY <1>4, <1>6, <2>1
  <2>3. \A s : s # scope => Held(s)' = Held(s)
    BY <1>4, <1>6, <2>1
  <2>4. QED BY <2>2, <2>3
<1>14. TablesOK' /\ ChainsOK' /\ \A s \in DOMAIN tables' : NamesApart(tables'[s], Held(s)')
  <2>1. call.step # "expand" /\ call'.step # "expand"
    BY <1>8
  <2>2. \A s \in DOMAIN tables : Orphans(s) \subseteq Orphans(s)'
    BY <1>4, <1>8 DEF Orphans
  <2>3. QED BY <1>2, <1>8, <1>11, <1>13, <2>1, <2>2, TablesStay
<1>15. NamesOK'
  BY <1>8, <1>14 DEF NamesOK
<1>16. HeapOK' /\ ~fault'
  <2>1. AllOf(lists') \cup {call.obj} = AllOf(lists) \cup {call.obj}
    BY <1>6
  <2>2. PlatformOwed' = {PlatformBlock} /\ ContextOwed' = {ContextBlock}
    BY DEF PlatformOwed, ContextOwed
  <2>3. heap = Owed({PlatformBlock}, {ContextBlock}, lists', tables, {call.obj})
    BY <1>3, <1>6, <2>1 DEF Owed
  <2>4. QED BY <1>3, <1>8, <2>2, <2>3 DEF HeapOK, Spare
<1>17. QED BY <1>9, <1>12, <1>14, <1>15, <1>16 DEF IInv

LEMMA TakeBackKeeps ==
  ASSUME IInv, TakeBack, status # "undefined"
  PROVE  IInv'
<1>1. Making
  BY IdleFacts DEF IInv, FrameOK, TakeBack
<1>2. status = "live" /\ call.step \in StepsOf(call.kind)
  BY <1>1, MakingFacts
<1>3. CASE call.kind = "array"
  <2>1. PICK own : own = Own(call.kind, call.obj)
    OBVIOUS
  <2>2. Memory({}, ArrayBlocks(own), {}) /\ lists' = Without(lists, {own})
    BY <1>3, <2>1 DEF TakeBack
  <2>3. QED BY <1>1, <1>2, <1>3, <2>1, <2>2, ArrayTakenBack DEF TakeBack
<1>4. CASE call.kind # "array"
  <2>1. PICK scope : scope = call.scope
    OBVIOUS
  <2>2. lists' = [lists EXCEPT ![scope] = PoppedBack(lists[scope])]
    BY <1>4, <2>1 DEF TakeBack, Popped
  <2>3. call.kind \in Named
    BY <1>2, <1>4 DEF StepsOf, TakeBack
  <2>4. UNCHANGED <<status, heap, tables, fault>> /\ GoTo("err_mem") /\ call.step = "err_arr"
    BY <1>4 DEF TakeBack
  <2>5. QED BY <1>1, <1>2, <2>1, <2>2, <2>3, <2>4, NameTakenBack
<1>5. QED BY <1>3, <1>4

\* What is known at label err_mem.
LEMMA GivingUp ==
  ASSUME IInv, status # "undefined", Making, call.step = "err_mem", NEW own, own = Own(call.kind, call.obj)
  PROVE  /\ status = "live" /\ Alive /\ ~Destroying
         /\ \A s : Held(s) = IF s \in DOMAIN lists THEN lists[s].elems ELSE << >>
         /\ call.obj \notin AllOf(lists) /\ own \notin OwnedOf(lists)
         /\ own \notin ContextScopes /\ own \in Scopes
         /\ own \in DOMAIN lists => call.kind = "construct" /\ lists[own].elems = << >>
         /\ OwnScope \subseteq {own}
         /\ call.kind = "construct" => own = FieldsOf(call.obj) /\ OwnScope = {own}
         /\ call.kind # "construct" => own \notin DOMAIN tables
         /\ own \notin TabledScopes \cup {FieldsOf(c) : c \in Range(lists[ConstructScope].elems)}
<1>1. status = "live" /\ ~Beginning /\ ~Destroying /\ call.obj \in Nat \ {0}
  BY MakingFacts
<1>2. /\ Alive /\ GoodLists(lists) /\ ConstructScope \in DOMAIN lists /\ ArrayScope \in DOMAIN lists
  BY <1>1, LiveFacts
<1>3. \A s : Held(s) = IF s \in DOMAIN lists THEN lists[s].elems ELSE << >>
  BY <1>1 DEF Held
<1>4. /\ call.obj \notin AllOf(lists)
      /\ DOMAIN lists \subseteq ContextScopes \cup OwnedOf(lists) \cup OwnScope
      /\ \A s \in OwnScope :
           /\ s \in DOMAIN lists => lists[s].elems = << >>
           /\ call.kind = "array" => s \notin DOMAIN lists
  BY <1>2, ListedIs DEF IInv, ListsOK, Unlisted
<1>5. /\ own \in Scopes /\ own \notin ContextScopes
      /\ call.kind \in {"construct", "array"} => OwnScope = {own}
      /\ call.kind \notin {"construct", "array"} => OwnScope = {}
      /\ call.kind = "construct" => own = FieldsOf(call.obj)
      /\ call.kind # "construct" => own = DimensionsOf(call.obj)
  BY OwnApart
<1>6. /\ \A c \in Range(lists[ConstructScope].elems) : c # call.obj
      /\ \A a \in Range(lists[ArrayScope].elems) : a # call.obj
  BY <1>2, <1>4, GoodListsFacts
<1>7. own \notin OwnedOf(lists)
  BY <1>5, <1>6, ScopesDiffer DEF OwnedOf
<1>8. own \notin TabledScopes \cup {FieldsOf(c) : c \in Range(lists[ConstructScope].elems)}
  BY <1>5, <1>6, ScopeFacts, ScopesDiffer
<1>9. own \in DOMAIN lists => call.kind = "construct" /\ lists[own].elems = << >>
  BY <1>4, <1>5, <1>7
<1>10. call.kind # "construct" => own \notin DOMAIN tables
  BY <1>2, <1>8 DEF IInv, TablesOK
<1>11. QED BY <1>1, <1>2, <1>3, <1>4, <1>5, <1>7, <1>8, <1>9, <1>10

LEMMA GiveUpKeeps ==
  ASSUME IInv, GiveUp, status # "undefined"
  PROVE  IInv'
<1>1. PICK own : own = Own(call.kind, call.obj)
  OBVIOUS
<1>2. Making /\ call.step = "err_mem"
  BY DEF GiveUp, Making
<1>3. /\ status = "live" /\ Alive /\ ~Destroying
      /\ \A s : Held(s) = IF s \in DOMAIN lists THEN lists[s].elems ELSE << >>
      /\ call.obj \notin AllOf(lists) /\ own \notin OwnedOf(lists)
      /\ own \notin ContextScopes /\ own \in Scopes
      /\ own \in DOMAIN lists => call.kind = "construct" /\ lists[own].elems = << >>
      /\ OwnScope \subseteq {own}
      /\ call.kind = "construct" => own = FieldsOf(call.obj) /\ OwnScope = {own}
      /\ call.kind # "construct" => own \notin DOMAIN tables
      /\ own \notin TabledScopes \cup {FieldsOf(c) : c \in Range(lists[ConstructScope].elems)}
  BY <1>1, <1>2, GivingUp
<1>4. /\ ObjectOwed = {call.obj} /\ call.obj \in Nat \ {0}
  BY <1>2, <1>3, MakingFacts
<1>5. /\ GoodLists(lists) /\ ConstructScope \in DOMAIN lists /\ ArrayScope \in DOMAIN lists
      /\ Tables(tables) /\ Bases({PlatformBlock}, {ContextBlock}) /\ IsFiniteSet(heap) /\ ~fault
      /\ heap = Owed({PlatformBlock}, {ContextBlock}, lists, tables, {call.obj})
      /\ \A s \in DOMAIN tables :
           /\ IsTable(tables[s], Held(s)) /\ DOMAIN tables[s].hh \subseteq Range(Held(s)) \cup Orphans(s)
           /\ NamesApart(tables[s], Held(s))
  BY <1>2, <1>3, <1>4, LiveFacts
<1>6. /\ Memory({}, Abandoned, {}) /\ lists' = Without(lists, {own}) /\ call' = Idle /\ err' = err
      /\ tables' = [s \in DOMAIN tables \ {own} |-> WithoutHandle(tables[s], call.obj)]
      /\ status' = status
  BY <1>1 DEF GiveUp, Return
<1>7. IsClosed(lists', lists, own)
  BY <1>3, <1>5, <1>6, ClosedLists
<1>8. /\ GoodLists(lists') /\ DOMAIN lists' = DOMAIN lists \ {own}
      /\ \A r \in DOMAIN lists \ {own} : lists'[r] = lists[r]
      /\ Roomy(lists') = Roomy(lists) \ {own} /\ AllOf(lists') = AllOf(lists)
  BY <1>7 DEF IsClosed
<1>9. lists'[ConstructScope] = lists[ConstructScope] /\ lists'[ArrayScope] = lists[ArrayScope]
  BY <1>3, <1>5, <1>8 DEF ContextScopes
<1>10. /\ ~Making' /\ ~Beginning' /\ ~Destroying' /\ OwnScope' = {} /\ ObjectOwed' = {}
       /\ call'.kind = "none" /\ call'.step = "none" /\ Alive'
  BY <1>3, <1>6, IdleFacts, KindFacts DEF Making, Beginning, Destroying, OwnScope, ObjectOwed, Alive
<1>11. FrameOK'
  <2>1. err \in {"MAM_SUCCESS", "MAM_EINVAL", "MAM_ENOMEM"}
    BY DEF IInv, FrameOK
  <2>2. QED BY <1>3, <1>6, <1>10, <2>1, IdleFacts DEF FrameOK
<1>12. ListsOK'
  <2>1. OwnedOf(lists') = OwnedOf(lists)
    BY <1>9 DEF OwnedOf
  <2>2. /\ ContextScopes \cup OwnedOf(lists) \subseteq DOMAIN lists
        /\ DOMAIN lists \subseteq ContextScopes \cup OwnedOf(lists) \cup OwnScope
    BY <1>3 DEF IInv, ListsOK
  <2>3. DOMAIN lists' = ContextScopes \cup OwnedOf(lists')
    BY <1>3, <1>8, <2>1, <2>2
  <2>4. QED BY <1>3, <1>6, <1>8, <1>10, <2>3 DEF ListsOK
\* The tables that are left forget the object.
<1>13. ASSUME NEW s \in DOMAIN tables'
       PROVE  /\ s \in DOMAIN tables /\ Held(s)' = Held(s) /\ HasSame(tables'[s], tables[s], Held(s))
              /\ DOMAIN tables'[s].hh \subseteq Range(Held(s))
  <2>1. s \in DOMAIN tables /\ s # own /\ tables'[s] = WithoutHandle(tables[s], call.obj)
    BY <1>6, <1>13
  <2>2. Held(s)' = IF s \in DOMAIN lists' THEN lists'[s].elems ELSE << >>
    BY <1>10 DEF Held
  <2>3. Held(s)' = Held(s)
    BY <1>3, <1>8, <2>1, <2>2
  <2>4. PICK held : held = Held(s)
    OBVIOUS
  <2>5. call.obj \notin Range(held)
    <3>1. CASE s \in DOMAIN lists
      BY <1>3, <1>5, <2>4, <3>1, GoodListsFacts
    <3>2. CASE s \notin DOMAIN lists
      <4>1. Range(<< >>) = {}
        BY DEF Range
      <4>2. QED BY <1>3, <2>4, <3>2, <4>1
    <3>3. QED BY <3>1, <3>2
  <2>6. HasSame(tables'[s], tables[s], held) /\ DOMAIN tables'[s].hh = DOMAIN tables[s].hh \ {call.obj}
    BY <1>5, <2>1, <2>4, <2>5, TableForgets
  <2>7. Orphans(s) \subseteq {call.obj}
    BY DEF Orphans
  <2>8. DOMAIN tables'[s].hh \subseteq Range(held)
    BY <1>5, <2>1, <2>4, <2>6, <2>7
  <2>9. QED BY <2>1, <2>3, <2>4, <2>6, <2>8
<1>14. TablesOK'
  <2>1. DOMAIN tables = TabledScopes \cup {FieldsOf(c) : c \in Range(lists[ConstructScope].elems)}
                          \cup (IF call.kind = "construct" THEN OwnScope ELSE {})
    BY <1>3 DEF IInv, TablesOK
  <2>2. DOMAIN tables' = TabledScopes \cup {FieldsOf(c) : c \in Range(lists'[ConstructScope].elems)}
    <3>1. DOMAIN tables' = DOMAIN tables \ {own}
      BY <1>6
    <3>2. DOMAIN tables' = TabledScopes \cup {FieldsOf(c) : c \in Range(lists[ConstructScope].elems)}
      <4>1. PICK X : X = TabledScopes \cup {FieldsOf(c) : c \in Range(lists[ConstructScope].elems)}
        OBVIOUS
      <4>2. own \notin X /\ (DOMAIN tables = X \/ DOMAIN tables = X \cup {own})
        BY <1>3, <2>1, <4>1
      <4>3. QED BY <3>1, <4>1, <4>2
    <3>3. QED BY <1>9, <3>2
  <2>3. \A s \in DOMAIN tables' : IsTable(tables'[s], Held(s)') /\ DOMAIN tables'[s].hh \subseteq Range(Held(s)')
    <3>1. ASSUME NEW s \in DOMAIN tables'
          PROVE  IsTable(tables'[s], Held(s)') /\ DOMAIN tables'[s].hh \subseteq Range(Held(s)')
      <4>1. PICK held : held = Held(s)
        OBVIOUS
      <4>2. Held(s)' = held /\ HasSame(tables'[s], tables[s], held) /\ DOMAIN tables'[s].hh \subseteq Range(held)
        BY <1>13, <3>1, <4>1
      <4>3. QED BY <4>2 DEF HasSame
    <3>2. QED BY <3>1
  <2>4. QED BY <1>10, <2>2, <2>3 DEF TablesOK
<1>15. NamesOK'
  <2>1. \A s \in DOMAIN tables' : NamesApart(tables'[s], Held(s)')
    <3>1. ASSUME NEW s \in DOMAIN tables' PROVE NamesApart(tables'[s], Held(s)')
      <4>1. PICK held : held = Held(s)
        OBVIOUS
      <4>2. s \in DOMAIN tables /\ Held(s)' = held /\ HasSame(tables'[s], tables[s], held)
        BY <1>13, <3>1, <4>1
      <4>3. SameNames(tables'[s], tables[s], Range(held)) /\ NamesApart(tables[s], held)
        BY <1>5, <4>1, <4>2 DEF HasSame
      <4>4. QED BY <4>2, <4>3, StillApart
    <3>2. QED BY <3>1
  <2>2. call'.kind \notin Named
    BY <1>10 DEF Named
  <2>3. QED BY <2>1, <2>2 DEF NamesOK
<1>16. ChainsOK'
  <2>1. \A s \in DOMAIN tables : ChainsShort(tables[s])
    BY <1>2, <1>3 DEF IInv, ChainsOK
  <2>2. \A s \in DOMAIN tables' : ChainsShort(tables'[s])
    BY <1>13, <2>1 DEF HasSame
  <2>3. QED BY <1>10, <2>2 DEF ChainsOK
<1>17. HeapOK' /\ ~fault'
  <2>1. PICK P, C, L, M, T, U, x :
          /\ P = {PlatformBlock} /\ C = {ContextBlock} /\ L = lists /\ M = lists' /\ T = tables /\ U = tables'
          /\ x = call.obj
    OBVIOUS
  <2>2. Bases(P, C) /\ GoodLists(L) /\ GoodLists(M) /\ Tables(T) /\ x \notin AllOf(L) /\ x \notin AllOf(M)
    BY <1>3, <1>5, <1>8, <2>1
  <2>3. /\ DOMAIN U \subseteq DOMAIN T /\ \A s \in DOMAIN U : T[s].mem = U[s].mem
        /\ DOMAIN U = DOMAIN T \ {own}
    BY <1>6, <1>13, <2>1 DEF HasSame
  <2>4. \A s \in DOMAIN T \ DOMAIN U : T[s].mem = {}
    <3>1. SUFFICES ASSUME own \in DOMAIN tables PROVE tables[own].mem = {}
      BY <2>1, <2>3
    <3>2. Held(own) = << >>
      BY <1>3
    <3>3. IsTable(tables[own], << >>)
      BY <1>5, <3>1, <3>2
    <3>4. QED BY <3>3, TableHas
  <2>5. TablesOf(T) = TablesOf(U)
    BY <2>3, <2>4, SameTablesOwe
  <2>6. Tables(U)
    BY <2>2, <2>3 DEF Tables, TableMem
  <2>7. heap = Owed(P, C, L, U, {x})
    BY <1>5, <2>1, <2>5 DEF Owed
  <2>8. Drops(Owed(P, C, M, U, {}), Owed(P, C, M, U, {x}), {Object(x)})
    BY <2>2, <2>6, OwedObjectGoes
  <2>9. PICK gone : gone = IF own \in DOMAIN lists THEN ArrayBlocks(own) ELSE {}
    OBVIOUS
  <2>10. Drops(Owed(P, C, M, U, {x}), Owed(P, C, L, U, {x}), gone)
    <3>1. IsClosed(M, L, own)
      BY <1>7, <2>1
    <3>2. CASE own \in DOMAIN lists
      <4>1. ArrayBlocks(own) = BlocksIn(lists, own)
        BY <1>5, <3>2, ArrayBlocksAre
      <4>2. gone = BlocksIn(L, own) /\ own \in DOMAIN L
        BY <2>1, <2>9, <3>2, <4>1
      <4>3. QED BY <2>2, <2>6, <3>1, <4>2, OwedArrayGoes
    <3>3. CASE own \notin DOMAIN lists
      <4>1. DOMAIN M = DOMAIN L /\ Roomy(M) = Roomy(L) /\ AllOf(M) = AllOf(L)
        BY <1>8, <2>1, <3>3 DEF Roomy
      <4>2. Owed(P, C, M, U, {x}) = Owed(P, C, L, U, {x}) /\ gone = {}
        BY <2>9, <3>3, <4>1 DEF Owed
      <4>3. QED BY <4>2 DEF Drops
    <3>4. QED BY <3>2, <3>3
  <2>11. Abandoned = gone \cup {Object(x)}
    BY <1>1, <1>3, <2>1, <2>9 DEF Abandoned
  <2>12. heap' = Owed(P, C, M, U, {}) /\ ~fault'
    <3>1. heap' = (heap \ Abandoned) \cup {} /\ fault' = (fault \/ ~({} \cup Abandoned \subseteq heap))
      BY <1>6 DEF Memory
    <3>2. Abandoned \subseteq heap /\ heap \ Abandoned = Owed(P, C, M, U, {})
      BY <2>7, <2>8, <2>10, <2>11 DEF Drops
    <3>3. QED BY <1>5, <3>1, <3>2
  <2>13. IsFiniteSet(heap')
    <3>1. heap' \in SUBSET heap
      BY <2>7, <2>8, <2>10, <2>12 DEF Drops
    <3>2. QED BY <1>5, <3>1, FS_Subset
  <2>14. PlatformOwed' = {PlatformBlock} /\ ContextOwed' = {ContextBlock}
    BY <1>3, <1>6 DEF PlatformOwed, ContextOwed
  <2>15. QED BY <1>10, <2>1, <2>12, <2>13, <2>14 DEF HeapOK, Spare
<1>18. QED BY <1>11, <1>12, <1>14, <1>15, <1>16, <1>17 DEF IInv

------------------------------------------------------------------------------
(* What mam_context_destroy goes through.                                  *)

\* A concatenation of lists without repetitions that have nothing in common.
Lists(s, S, X) == s \in Seq(S) /\ IsInjective(s) /\ Range(s) = X

LEMMA ConcatApart ==
  ASSUME NEW S, NEW s, NEW t, NEW X, NEW Y, Lists(s, S, X), Lists(t, S, Y), X \cap Y = {},
         NEW r, r = s \o t
  PROVE  Lists(r, S, X \cup Y)
<1>1. /\ s \in Seq(S) /\ IsInjective(s) /\ Range(s) = X
      /\ t \in Seq(S) /\ IsInjective(t) /\ Range(t) = Y
  BY DEF Lists
<1>2. PICK m \in Nat, n \in Nat : m = Len(s) /\ n = Len(t) /\ DOMAIN s = 1 .. m /\ DOMAIN t = 1 .. n
  BY <1>1, LenProperties
<1>3. /\ r \in Seq(S) /\ Len(r) = m + n
      /\ \A i \in 1 .. m + n : r[i] = IF i <= m THEN s[i] ELSE t[i - m]
  BY <1>1, <1>2, ConcatProperties
<1>4. DOMAIN r = 1 .. m + n
  BY <1>3, LenProperties
<1>5. \A i \in 1 .. m : s[i] \in Range(s)
  BY <1>2 DEF Range
<1>6. \A i \in 1 .. n : t[i] \in Range(t)
  BY <1>2 DEF Range
<1>7. \A i \in 1 .. m, j \in 1 .. n : s[i] # t[j]
  BY <1>1, <1>5, <1>6
<1>8. ASSUME NEW i \in 1 .. m + n, NEW j \in 1 .. m + n, r[i] = r[j]
      PROVE  i = j
  <2>1. CASE i <= m /\ j <= m
    <3>1. i \in 1 .. m /\ j \in 1 .. m /\ s[i] = s[j]
      BY <1>3, <1>8, <2>1
    <3>2. QED BY <1>1, <1>2, <3>1 DEF IsInjective
  <2>2. CASE i > m /\ j > m
    <3>1. i - m \in 1 .. n /\ j - m \in 1 .. n /\ r[i] = t[i - m] /\ r[j] = t[j - m]
      BY <1>3, <2>2
    <3>2. i - m = j - m
      BY <1>1, <1>2, <1>8, <3>1 DEF IsInjective
    <3>3. QED BY <3>2
  <2>3. CASE i <= m /\ j > m
    BY <1>3, <1>7, <1>8, <2>3
  <2>4. CASE i > m /\ j <= m
    BY <1>3, <1>7, <1>8, <2>4
  <2>5. QED BY <2>1, <2>2, <2>3, <2>4
<1>9. IsInjective(r)
  BY <1>4, <1>8 DEF IsInjective
<1>10. ASSUME NEW x PROVE x \in Range(r) <=> x \in Range(s) \cup Range(t)
  <2>1. x \in Range(r) <=> \E i \in 1 .. m + n : x = r[i]
    BY <1>4 DEF Range
  <2>2. x \in Range(s) <=> \E i \in 1 .. m : x = s[i]
    BY <1>2 DEF Range
  <2>3. x \in Range(t) <=> \E i \in 1 .. n : x = t[i]
    BY <1>2 DEF Range
  <2>4. ASSUME NEW i \in 1 .. m PROVE r[i] = s[i] /\ i \in 1 .. m + n
    BY <1>3
  <2>5. ASSUME NEW i \in 1 .. n PROVE r[i + m] = t[i] /\ i + m \in 1 .. m + n
    BY <1>3
  <2>6. ASSUME NEW i \in 1 .. m + n PROVE (i \in 1 .. m /\ r[i] = s[i]) \/ (i - m \in 1 .. n /\ r[i] = t[i - m])
    BY <1>3
  <2>7. QED BY <2>1, <2>2, <2>3, <2>4, <2>5, <2>6
<1>11. QED BY <1>1, <1>3, <1>9, <1>10 DEF Lists

\* The objects of an array of the context, with the sort of the array.
Listing(L, s) == [i \in DOMAIN L[s].elems |-> <<s[1], L[s].elems[i]>>]
EntriesIn(L, s) == {<<s[1], x>> : x \in Range(L[s].elems)}
Entries(L) == UNION {EntriesIn(L, s) : s \in ContextScopes}

LEMMA ListingFacts ==
  ASSUME NEW L, GoodLists(L), NEW s \in DOMAIN L, s \in ContextScopes, NEW q, q = Listing(L, s)
  PROVE  Lists(q, Entries(L), EntriesIn(L, s))
<1>1. PICK e : e = L[s].elems
  OBVIOUS
<1>2. /\ e = L[s].elems /\ e \in Seq(Nat \ {0}) /\ IsInjective(e)
      /\ \E n \in Nat : n = Len(e) /\ DOMAIN e = 1 .. n
  <2>1. e \in Seq(Nat \ {0}) /\ IsInjective(e)
    BY <1>1, GoodListsFacts
  <2>2. QED BY <1>1, <2>1, LenProperties
<1>3. PICK n \in Nat : n = Len(e) /\ DOMAIN e = 1 .. n
  BY <1>2
<1>4. DOMAIN q = 1 .. n /\ \A i \in 1 .. n : q[i] = <<s[1], e[i]>>
  BY <1>2, <1>3 DEF Listing
<1>5. Range(q) = EntriesIn(L, s)
  BY <1>2, <1>3, <1>4 DEF Range, EntriesIn
<1>6. EntriesIn(L, s) \subseteq Entries(L)
  BY DEF Entries
<1>7. q \in Seq(Entries(L))
  <2>1. \A i \in 1 .. n : q[i] \in Entries(L)
    BY <1>4, <1>5, <1>6 DEF Range
  <2>2. q = [i \in 1 .. n |-> q[i]]
    BY <1>4 DEF Listing
  <2>3. QED BY <2>1, <2>2, IsASeq
<1>8. IsInjective(q)
  BY <1>2, <1>4, <1>3 DEF IsInjective
<1>9. QED BY <1>5, <1>7, <1>8 DEF Lists

\* The objects of the context are gone through, and each once.
LEMMA OrderFacts ==
  ASSUME GoodLists(lists), ContextScopes \subseteq DOMAIN lists
  PROVE  Lists(DestroyOrder, Entries(lists), Entries(lists))
<1>1. /\ PointerScope \in ContextScopes /\ ArrayScope \in ContextScopes
      /\ ConstructScope \in ContextScopes /\ VariableScope \in ContextScopes
  BY DEF ContextScopes
<1>2. PICK p, a, c, v :
        /\ p = Listing(lists, PointerScope) /\ a = Listing(lists, ArrayScope)
        /\ c = Listing(lists, ConstructScope) /\ v = Listing(lists, VariableScope)
  OBVIOUS
<1>3. DestroyOrder = p \o a \o c \o v
  <2>1. /\ ContextLists[1] = "pointers" /\ ContextLists[2] = "arrays"
        /\ ContextLists[3] = "constructs" /\ ContextLists[4] = "variables"
    BY DEF ContextLists
  <2>2. /\ PointerScope[1] = "pointers" /\ ArrayScope[1] = "arrays"
        /\ ConstructScope[1] = "constructs" /\ VariableScope[1] = "variables"
    BY DEF PointerScope, ArrayScope, ConstructScope, VariableScope
  <2>3. QED BY <1>2, <2>1, <2>2, ContextListsFacts DEF DestroyOrder, Listing
<1>4. PICK E, P, A, C, V :
        /\ E = Entries(lists)
        /\ P = EntriesIn(lists, PointerScope) /\ A = EntriesIn(lists, ArrayScope)
        /\ C = EntriesIn(lists, ConstructScope) /\ V = EntriesIn(lists, VariableScope)
  OBVIOUS
<1>5. Lists(p, E, P) /\ Lists(a, E, A) /\ Lists(c, E, C) /\ Lists(v, E, V)
  BY <1>1, <1>2, <1>4, ListingFacts
<1>6. /\ \A e \in P : e[1] = "pointers"
      /\ \A e \in A : e[1] = "arrays"
      /\ \A e \in C : e[1] = "constructs"
      /\ \A e \in V : e[1] = "variables"
  BY <1>4 DEF EntriesIn, PointerScope, ArrayScope, ConstructScope, VariableScope
<1>7. P \cap A = {} /\ (P \cup A) \cap C = {} /\ (P \cup A \cup C) \cap V = {}
  BY <1>6
<1>8. PICK pa : pa = p \o a
  OBVIOUS
<1>9. Lists(pa, E, P \cup A)
  BY <1>5, <1>7, <1>8, ConcatApart
<1>10. PICK pac : pac = pa \o c
  OBVIOUS
<1>11. Lists(pac, E, P \cup A \cup C)
  BY <1>5, <1>7, <1>9, <1>10, ConcatApart
<1>12. PICK pacv : pacv = pac \o v
  OBVIOUS
<1>13. Lists(pacv, E, P \cup A \cup C \cup V)
  BY <1>5, <1>7, <1>11, <1>12, ConcatApart
<1>14. pacv = DestroyOrder
  BY <1>3, <1>8, <1>10, <1>12
<1>15. E = P \cup A \cup C \cup V
  BY <1>4 DEF Entries, ContextScopes
<1>16. QED BY <1>4, <1>13, <1>14, <1>15

\* The blocks of these objects, and of the arrays and tables of these scopes.
TablesIn(T, D) == UNION {TableBlocks(s, T[s]) : s \in D \cap DOMAIN T}
Parts(L, T, I, D) == ObjectsOf(I) \cup HeadersOf(D) \cup SlotsOf(D \cap Roomy(L)) \cup TablesIn(T, D)

\* What goes with an object of the context: the array of its own, and what
\* that lists.
OwnedBy(e) ==
  {DimensionsOf(i) : i \in {j \in {e[2]} : e[1] = "arrays"}}
    \cup {FieldsOf(i) : i \in {j \in {e[2]} : e[1] = "constructs"}}
Ids(L, e) == {e[2]} \cup UNION {Range(L[s].elems) : s \in OwnedBy(e)}

LEMMA PartsApart ==
  ASSUME NEW L, NEW T, Tables(T), NEW I, NEW J, I \cap J = {},
         NEW D \in SUBSET Scopes, NEW E \in SUBSET Scopes, D \cap E = {}
  PROVE  Parts(L, T, I, D) \cap Parts(L, T, J, E) = {}
<1>1. /\ \A b \in ObjectsOf(I) \cup ObjectsOf(J) : b[1] = "object"
      /\ \A b \in HeadersOf(D) \cup HeadersOf(E) : b[1] = "header"
      /\ \A b \in SlotsOf(D \cap Roomy(L)) \cup SlotsOf(E \cap Roomy(L)) : b[1] = "slots"
  BY BlockSorts DEF ObjectsOf, HeadersOf, SlotsOf
<1>2. \A b \in TablesIn(T, D) \cup TablesIn(T, E) : b[1] \in {"tbl", "buckets"}
  BY TableBlocksFacts DEF TablesIn, Tables
<1>3. ObjectsOf(I) \cap ObjectsOf(J) = {}
  BY BlocksDiffer DEF ObjectsOf
<1>4. HeadersOf(D) \cap HeadersOf(E) = {}
  BY BlocksDiffer DEF HeadersOf
<1>5. SlotsOf(D \cap Roomy(L)) \cap SlotsOf(E \cap Roomy(L)) = {}
  BY BlocksDiffer DEF SlotsOf
<1>6. TablesIn(T, D) \cap TablesIn(T, E) = {}
  <2>1. \A r \in D \cap DOMAIN T, s \in E \cap DOMAIN T : TableBlocks(r, T[r]) \cap TableBlocks(s, T[s]) = {}
    BY TableBlocksApart DEF Tables
  <2>2. QED BY <2>1 DEF TablesIn
<1>7. QED BY <1>1, <1>2, <1>3, <1>4, <1>5, <1>6 DEF Parts

\* The blocks of the platform and the context are not among these.
LEMMA PartsNoBase ==
  ASSUME NEW L, NEW T, Tables(T), NEW I, NEW D
  PROVE  PlatformBlock \notin Parts(L, T, I, D) /\ ContextBlock \notin Parts(L, T, I, D)
<1>1. /\ \A b \in ObjectsOf(I) : b[1] = "object"
      /\ \A b \in HeadersOf(D) : b[1] = "header"
      /\ \A b \in SlotsOf(D \cap Roomy(L)) : b[1] = "slots"
  BY BlockSorts DEF ObjectsOf, HeadersOf, SlotsOf
<1>2. \A b \in TablesIn(T, D) : b[1] \in {"tbl", "buckets"}
  BY TableBlocksFacts DEF TablesIn, Tables
<1>3. QED BY <1>1, <1>2, BlockSorts DEF Parts

\* The blocks of all are those of each.
LEMMA PartsTogether ==
  ASSUME NEW L, NEW T, NEW X, NEW I, NEW D, I = UNION {Ids(L, e) : e \in X}, D = UNION {OwnedBy(e) : e \in X}
  PROVE  Parts(L, T, I, D) = UNION {Parts(L, T, Ids(L, e), OwnedBy(e)) : e \in X}
<1>1. ASSUME NEW b
      PROVE  /\ b \in ObjectsOf(I) <=> \E e \in X : b \in ObjectsOf(Ids(L, e))
             /\ b \in HeadersOf(D) <=> \E e \in X : b \in HeadersOf(OwnedBy(e))
             /\ b \in SlotsOf(D \cap Roomy(L)) <=> \E e \in X : b \in SlotsOf(OwnedBy(e) \cap Roomy(L))
             /\ b \in TablesIn(T, D) <=> \E e \in X : b \in TablesIn(T, OwnedBy(e))
  <2>1. b \in ObjectsOf(I) <=> \E e \in X : b \in ObjectsOf(Ids(L, e))
    BY DEF ObjectsOf
  <2>2. b \in HeadersOf(D) <=> \E e \in X : b \in HeadersOf(OwnedBy(e))
    BY DEF HeadersOf
  <2>3. b \in SlotsOf(D \cap Roomy(L)) <=> \E e \in X : b \in SlotsOf(OwnedBy(e) \cap Roomy(L))
    BY DEF SlotsOf
  <2>4. b \in TablesIn(T, D) <=> \E e \in X : b \in TablesIn(T, OwnedBy(e))
    BY DEF TablesIn
  <2>5. QED BY <2>1, <2>2, <2>3, <2>4
<1>2. ASSUME NEW b
      PROVE  b \in Parts(L, T, I, D) <=> \E e \in X : b \in Parts(L, T, Ids(L, e), OwnedBy(e))
  <2>1. b \in Parts(L, T, I, D)
          <=> \/ b \in ObjectsOf(I) \/ b \in HeadersOf(D)
              \/ b \in SlotsOf(D \cap Roomy(L)) \/ b \in TablesIn(T, D)
    BY DEF Parts
  <2>2. ASSUME NEW e \in X
        PROVE  b \in Parts(L, T, Ids(L, e), OwnedBy(e))
                 <=> \/ b \in ObjectsOf(Ids(L, e)) \/ b \in HeadersOf(OwnedBy(e))
                     \/ b \in SlotsOf(OwnedBy(e) \cap Roomy(L)) \/ b \in TablesIn(T, OwnedBy(e))
    BY DEF Parts
  <2>3. QED BY <1>1, <2>1, <2>2
<1>3. QED BY <1>2

\* An entry is an object in one of the four arrays of the context.
LEMMA EntryIs ==
  ASSUME NEW L, NEW e \in Entries(L)
  PROVE  \/ e[1] = "pointers" /\ e[2] \in Range(L[PointerScope].elems) /\ OwnedBy(e) = {} /\ e = <<"pointers", e[2]>>
         \/ e[1] = "arrays" /\ e[2] \in Range(L[ArrayScope].elems) /\ OwnedBy(e) = {DimensionsOf(e[2])}
              /\ e = <<"arrays", e[2]>>
         \/ e[1] = "constructs" /\ e[2] \in Range(L[ConstructScope].elems) /\ OwnedBy(e) = {FieldsOf(e[2])}
              /\ e = <<"constructs", e[2]>>
         \/ e[1] = "variables" /\ e[2] \in Range(L[VariableScope].elems) /\ OwnedBy(e) = {} /\ e = <<"variables", e[2]>>
<1>1. PICK s \in ContextScopes : e \in EntriesIn(L, s)
  BY DEF Entries
<1>2. PICK x \in Range(L[s].elems) : e = <<s[1], x>>
  BY <1>1 DEF EntriesIn
<1>3. e[1] = s[1] /\ e[2] = x
  BY <1>2
<1>4. CASE s = PointerScope
  <2>1. e[1] = "pointers"
    BY <1>3, <1>4 DEF PointerScope
  <2>2. OwnedBy(e) = {}
    BY <2>1 DEF OwnedBy
  <2>3. QED BY <1>2, <1>3, <1>4, <2>1, <2>2
<1>5. CASE s = ArrayScope
  <2>1. e[1] = "arrays"
    BY <1>3, <1>5 DEF ArrayScope
  <2>2. OwnedBy(e) = {DimensionsOf(e[2])}
    BY <2>1 DEF OwnedBy
  <2>3. QED BY <1>2, <1>3, <1>5, <2>1, <2>2
<1>6. CASE s = ConstructScope
  <2>1. e[1] = "constructs"
    BY <1>3, <1>6 DEF ConstructScope
  <2>2. OwnedBy(e) = {FieldsOf(e[2])}
    BY <2>1 DEF OwnedBy
  <2>3. QED BY <1>2, <1>3, <1>6, <2>1, <2>2
<1>7. CASE s = VariableScope
  <2>1. e[1] = "variables"
    BY <1>3, <1>7 DEF VariableScope
  <2>2. OwnedBy(e) = {}
    BY <2>1 DEF OwnedBy
  <2>3. QED BY <1>2, <1>3, <1>7, <2>1, <2>2
<1>8. QED BY <1>4, <1>5, <1>6, <1>7 DEF ContextScopes

\* There are the arrays of the context and those of the objects listed.
FullLists(L) == GoodLists(L) /\ DOMAIN L = ContextScopes \cup OwnedOf(L)

LEMMA FullFacts ==
  ASSUME NEW L, FullLists(L)
  PROVE  /\ GoodLists(L) /\ ContextScopes \subseteq DOMAIN L /\ OwnedOf(L) \subseteq DOMAIN L
         /\ PointerScope \in DOMAIN L /\ ArrayScope \in DOMAIN L
         /\ ConstructScope \in DOMAIN L /\ VariableScope \in DOMAIN L
         /\ DOMAIN L \subseteq Scopes
BY DEF FullLists, ContextScopes, GoodLists

LEMMA EntryOwns ==
  ASSUME NEW L, FullLists(L), NEW e \in Entries(L)
  PROVE  /\ OwnedBy(e) \subseteq OwnedOf(L) /\ OwnedBy(e) \subseteq DOMAIN L /\ OwnedBy(e) \cap ContextScopes = {}
         /\ OwnedBy(e) \in SUBSET Scopes
         /\ \E s \in ContextScopes : e = <<s[1], e[2]>> /\ e[2] \in Range(L[s].elems)
<1>1. OwnedBy(e) \subseteq OwnedOf(L)
  BY EntryIs DEF OwnedOf
<1>2. OwnedBy(e) \cap ContextScopes = {}
  BY EntryIs, ScopesDiffer
<1>3. PICK s \in ContextScopes : e \in EntriesIn(L, s)
  BY DEF Entries
<1>4. PICK x \in Range(L[s].elems) : e = <<s[1], x>>
  BY <1>3 DEF EntriesIn
<1>5. e[2] = x /\ e = <<s[1], e[2]>>
  BY <1>4
<1>6. QED BY <1>1, <1>2, <1>4, <1>5, FullFacts

LEMMA EntriesApart ==
  ASSUME NEW L, FullLists(L), NEW e \in Entries(L), NEW f \in Entries(L), e # f
  PROVE  Ids(L, e) \cap Ids(L, f) = {} /\ OwnedBy(e) \cap OwnedBy(f) = {}
<1>1. OwnedBy(e) \cap OwnedBy(f) = {}
  <2>1. CASE e[1] = "arrays" /\ f[1] = "arrays"
    <3>1. e[2] # f[2] /\ OwnedBy(e) = {DimensionsOf(e[2])} /\ OwnedBy(f) = {DimensionsOf(f[2])}
      BY <2>1, EntryIs
    <3>2. QED BY <3>1, ScopesDiffer
  <2>2. CASE e[1] = "constructs" /\ f[1] = "constructs"
    <3>1. e[2] # f[2] /\ OwnedBy(e) = {FieldsOf(e[2])} /\ OwnedBy(f) = {FieldsOf(f[2])}
      BY <2>2, EntryIs
    <3>2. QED BY <3>1, ScopesDiffer
  <2>3. CASE e[1] = "arrays" /\ f[1] = "constructs"
    <3>1. OwnedBy(e) = {DimensionsOf(e[2])} /\ OwnedBy(f) = {FieldsOf(f[2])}
      BY <2>3, EntryIs
    <3>2. QED BY <3>1, ScopesDiffer
  <2>4. CASE e[1] = "constructs" /\ f[1] = "arrays"
    <3>1. OwnedBy(e) = {FieldsOf(e[2])} /\ OwnedBy(f) = {DimensionsOf(f[2])}
      BY <2>4, EntryIs
    <3>2. QED BY <3>1, ScopesDiffer
  <2>5. CASE e[1] \notin {"arrays", "constructs"} \/ f[1] \notin {"arrays", "constructs"}
    BY <2>5, EntryIs
  <2>6. QED BY <2>1, <2>2, <2>3, <2>4, <2>5
<1>2. PICK r \in ContextScopes : e = <<r[1], e[2]>> /\ e[2] \in Range(L[r].elems)
  BY EntryOwns
<1>3. PICK s \in ContextScopes : f = <<s[1], f[2]>> /\ f[2] \in Range(L[s].elems)
  BY EntryOwns
<1>4. ASSUME NEW x, x \in Ids(L, e), x \in Ids(L, f)
      PROVE  FALSE
  <2>1. \A p, q \in DOMAIN L : p # q => Range(L[p].elems) \cap Range(L[q].elems) = {}
    BY FullFacts DEF GoodLists
  <2>2. r \in DOMAIN L /\ s \in DOMAIN L
    BY FullFacts
  <2>3. /\ OwnedBy(e) \subseteq DOMAIN L /\ OwnedBy(e) \cap ContextScopes = {}
        /\ OwnedBy(f) \subseteq DOMAIN L /\ OwnedBy(f) \cap ContextScopes = {}
    BY EntryOwns
  <2>4. PICK p \in OwnedBy(e) \cup {r} : x \in Range(L[p].elems) /\ (p = r => x = e[2] \/ r \in OwnedBy(e))
    BY <1>2, <1>4 DEF Ids
  <2>5. PICK q \in OwnedBy(f) \cup {s} : x \in Range(L[q].elems) /\ (q = s => x = f[2] \/ s \in OwnedBy(f))
    BY <1>3, <1>4 DEF Ids
  <2>6. p \in DOMAIN L /\ q \in DOMAIN L
    BY <2>2, <2>3
  <2>7. p = q
    BY <2>1, <2>4, <2>5, <2>6
  <2>8. CASE p = r /\ q = s
    <3>1. x = e[2] /\ x = f[2] /\ r = s
      BY <2>3, <2>4, <2>5, <2>7, <2>8
    <3>2. e = f
      BY <1>2, <1>3, <3>1
    <3>3. QED BY <3>2
  <2>9. CASE p # r /\ q # s
    BY <1>1, <2>7, <2>9
  <2>10. CASE p = r /\ q # s
    BY <2>3, <2>7, <2>10
  <2>11. CASE p # r /\ q = s
    BY <2>3, <2>7, <2>11
  <2>12. QED BY <2>8, <2>9, <2>10, <2>11
<1>5. QED BY <1>1, <1>4

\* All objects and all arrays are those of the entries.
LEMMA AllEntries ==
  ASSUME NEW L, FullLists(L)
  PROVE  /\ AllOf(L) = UNION {Ids(L, e) : e \in Entries(L)}
         /\ OwnedOf(L) = UNION {OwnedBy(e) : e \in Entries(L)}
<1>1. ASSUME NEW s \in ContextScopes, NEW x \in Range(L[s].elems)
      PROVE  <<s[1], x>> \in Entries(L)
  <2>1. <<s[1], x>> \in EntriesIn(L, s)
    BY DEF EntriesIn
  <2>2. QED BY <2>1 DEF Entries
<1>2. /\ ArrayScope \in ContextScopes /\ ConstructScope \in ContextScopes
      /\ ArrayScope[1] = "arrays" /\ ConstructScope[1] = "constructs"
  BY DEF ContextScopes, ArrayScope, ConstructScope
<1>3. ASSUME NEW a \in Range(L[ArrayScope].elems)
      PROVE  \E e \in Entries(L) : DimensionsOf(a) \in OwnedBy(e)
  <2>1. PICK e : e = <<"arrays", a>>
    OBVIOUS
  <2>2. e \in Entries(L)
    BY <1>1, <1>2, <2>1
  <2>3. DimensionsOf(a) \in OwnedBy(e)
    BY <2>1 DEF OwnedBy
  <2>4. QED BY <2>2, <2>3
<1>4. ASSUME NEW c \in Range(L[ConstructScope].elems)
      PROVE  \E e \in Entries(L) : FieldsOf(c) \in OwnedBy(e)
  <2>1. PICK e : e = <<"constructs", c>>
    OBVIOUS
  <2>2. e \in Entries(L)
    BY <1>1, <1>2, <2>1
  <2>3. FieldsOf(c) \in OwnedBy(e)
    BY <2>1 DEF OwnedBy
  <2>4. QED BY <2>2, <2>3
<1>5. OwnedOf(L) = UNION {OwnedBy(e) : e \in Entries(L)}
  <2>1. \A e \in Entries(L) : OwnedBy(e) \subseteq OwnedOf(L)
    BY EntryOwns
  <2>2. \A s \in OwnedOf(L) : \E e \in Entries(L) : s \in OwnedBy(e)
    BY <1>3, <1>4 DEF OwnedOf
  <2>3. QED BY <2>1, <2>2
<1>6. ASSUME NEW e \in Entries(L)
      PROVE  Ids(L, e) \subseteq AllOf(L)
  <2>1. \E s \in ContextScopes : e[2] \in Range(L[s].elems)
    BY EntryOwns
  <2>2. \E s \in DOMAIN L : e[2] \in Range(L[s].elems)
    BY <2>1, FullFacts
  <2>3. OwnedBy(e) \subseteq DOMAIN L
    BY EntryOwns
  <2>4. QED BY <2>2, <2>3 DEF Ids, AllOf
<1>7. ASSUME NEW x \in AllOf(L)
      PROVE  \E e \in Entries(L) : x \in Ids(L, e)
  <2>1. PICK s \in DOMAIN L : x \in Range(L[s].elems)
    BY DEF AllOf
  <2>2. CASE s \in ContextScopes
    <3>1. PICK e : e = <<s[1], x>>
      OBVIOUS
    <3>2. e \in Entries(L)
      BY <1>1, <2>1, <2>2, <3>1
    <3>3. x \in Ids(L, e)
      BY <3>1 DEF Ids
    <3>4. QED BY <3>2, <3>3
  <2>3. CASE s \in OwnedOf(L)
    <3>1. PICK e \in Entries(L) : s \in OwnedBy(e)
      BY <1>5, <2>3
    <3>2. x \in Ids(L, e)
      BY <2>1, <3>1 DEF Ids
    <3>3. QED BY <3>2
  <2>4. QED BY <2>1, <2>2, <2>3 DEF FullLists
<1>8. QED BY <1>5, <1>6, <1>7

\* What is owed, in parts.
LEMMA OwedInParts ==
  ASSUME NEW P, NEW C, NEW L, FullLists(L), NEW T, Tables(T), DOMAIN T \subseteq DOMAIN L
  PROVE  Owed(P, C, L, T, {})
           = P \cup C \cup Parts(L, T, {}, ContextScopes)
               \cup UNION {Parts(L, T, Ids(L, e), OwnedBy(e)) : e \in Entries(L)}
<1>1. PICK I, D : I = AllOf(L) /\ D = OwnedOf(L)
  OBVIOUS
<1>2. Parts(L, T, I, D) = UNION {Parts(L, T, Ids(L, e), OwnedBy(e)) : e \in Entries(L)}
  <2>1. I = UNION {Ids(L, e) : e \in Entries(L)} /\ D = UNION {OwnedBy(e) : e \in Entries(L)}
    BY <1>1, AllEntries
  <2>2. QED BY <2>1, PartsTogether
<1>3. DOMAIN L = ContextScopes \cup D
  BY <1>1 DEF FullLists
<1>4. HeadersOf(DOMAIN L) = HeadersOf(ContextScopes) \cup HeadersOf(D)
  BY <1>3 DEF HeadersOf
<1>5. SlotsOf(Roomy(L)) = SlotsOf(ContextScopes \cap Roomy(L)) \cup SlotsOf(D \cap Roomy(L))
  BY <1>3 DEF SlotsOf, Roomy
<1>6. TablesOf(T) = TablesIn(T, ContextScopes) \cup TablesIn(T, D)
  <2>1. DOMAIN T = (ContextScopes \cap DOMAIN T) \cup (D \cap DOMAIN T)
    BY <1>3
  <2>2. QED BY <2>1 DEF TablesOf, TablesIn
<1>7. ObjectsOf(AllOf(L) \cup {}) = ObjectsOf(I) /\ ObjectsOf({}) = {}
  BY <1>1 DEF ObjectsOf
<1>8. Owed(P, C, L, T, {}) = P \cup C \cup Parts(L, T, {}, ContextScopes) \cup Parts(L, T, I, D)
  BY <1>4, <1>5, <1>6, <1>7 DEF Owed, Parts
<1>9. QED BY <1>2, <1>8

\* There are the tables of the context and those of the constructs listed.
FullTables(L, T) == DOMAIN T = TabledScopes \cup {FieldsOf(c) : c \in Range(L[ConstructScope].elems)}

LEMMA FullTablesFacts ==
  ASSUME NEW L, FullLists(L), NEW T, FullTables(L, T)
  PROVE  /\ DOMAIN T \subseteq DOMAIN L /\ DOMAIN T \subseteq Scopes
         /\ \A a : DimensionsOf(a) \notin DOMAIN T
         /\ ContextScopes \cap DOMAIN T = TabledScopes
<1>1. {FieldsOf(c) : c \in Range(L[ConstructScope].elems)} \subseteq OwnedOf(L)
  BY DEF OwnedOf
<1>2. DOMAIN T \subseteq DOMAIN L /\ DOMAIN T \subseteq Scopes
  BY <1>1, FullFacts, ScopeFacts DEF FullTables
<1>3. \A a : DimensionsOf(a) \notin DOMAIN T
  BY ScopeFacts, ScopesDiffer DEF FullTables
<1>4. ContextScopes \cap DOMAIN T = TabledScopes
  BY ScopeFacts, ScopesDiffer DEF FullTables
<1>5. QED BY <1>2, <1>3, <1>4

\* What an entry still has is what goes with it.
LEMMA RestIs ==
  ASSUME FullLists(lists), FullTables(lists, tables),
         \A s \in DOMAIN tables : \E held : IsTable(tables[s], held),
         NEW e \in Entries(lists)
  PROVE  Rest(e[1], e[2]) = Parts(lists, tables, Ids(lists, e), OwnedBy(e))
<1>1. PICK id : id = e[2]
  OBVIOUS
<1>2. GoodLists(lists) /\ OwnedBy(e) \subseteq DOMAIN lists
  BY FullFacts, EntryOwns
<1>3. CASE e[1] \in {"pointers", "variables"}
  <2>1. OwnedBy(e) = {}
    BY <1>3, EntryIs
  <2>2. Ids(lists, e) = {id}
    BY <1>1, <2>1 DEF Ids
  <2>3. Rest(e[1], e[2]) = {Object(id)}
    BY <1>1, <1>3 DEF Rest, DestroyedBlocks
  <2>4. Parts(lists, tables, {id}, {}) = {Object(id)}
    BY DEF Parts, ObjectsOf, HeadersOf, SlotsOf, TablesIn
  <2>5. QED BY <2>1, <2>2, <2>3, <2>4
<1>4. CASE e[1] = "arrays"
  <2>1. PICK own, in : own = DimensionsOf(id) /\ in = Range(lists[own].elems)
    OBVIOUS
  <2>2. OwnedBy(e) = {own} /\ own \in DOMAIN lists /\ own \notin DOMAIN tables
    BY <1>1, <1>2, <1>4, <2>1, EntryIs, FullTablesFacts
  <2>3. Ids(lists, e) = {id} \cup in
    BY <1>1, <2>1, <2>2 DEF Ids
  <2>4. Rest(e[1], e[2]) = {Object(id)} \cup (BlocksIn(lists, own) \cup ObjectsOf(in))
    <3>1. DestroyedBlocks("arrays", id) = {Object(id)} \cup (ArrayBlocks(own) \cup {Object(d) : d \in ListedIn(own)})
      BY <2>1 DEF DestroyedBlocks, DimensionsOf
    <3>2. ArrayBlocks(own) = BlocksIn(lists, own)
      BY <1>2, <2>2, ArrayBlocksAre
    <3>3. ListedIn(own) = in
      BY <2>1, ListedIs
    <3>4. QED BY <1>1, <1>4, <3>1, <3>2, <3>3 DEF ObjectsOf, Rest
  <2>5. Parts(lists, tables, {id} \cup in, {own}) = {Object(id)} \cup (BlocksIn(lists, own) \cup ObjectsOf(in))
    <3>1. ObjectsOf({id} \cup in) = {Object(id)} \cup ObjectsOf(in)
      BY DEF ObjectsOf
    <3>2. HeadersOf({own}) \cup SlotsOf({own} \cap Roomy(lists)) = BlocksIn(lists, own)
      BY <2>2 DEF HeadersOf, SlotsOf, Roomy, BlocksIn
    <3>3. TablesIn(tables, {own}) = {}
      BY <2>2 DEF TablesIn
    <3>4. QED BY <3>1, <3>2, <3>3 DEF Parts
  <2>6. QED BY <2>2, <2>3, <2>4, <2>5
<1>5. CASE e[1] = "constructs"
  <2>1. PICK own, in : own = FieldsOf(id) /\ in = Range(lists[own].elems)
    OBVIOUS
  <2>2. OwnedBy(e) = {own} /\ own \in DOMAIN lists /\ own \in DOMAIN tables
    <3>1. id \in Range(lists[ConstructScope].elems) /\ OwnedBy(e) = {own}
      BY <1>1, <1>5, <2>1, EntryIs
    <3>2. QED BY <1>2, <2>1, <3>1 DEF FullTables
  <2>3. Ids(lists, e) = {id} \cup in
    BY <1>1, <2>1, <2>2 DEF Ids
  <2>4. Rest(e[1], e[2]) = {Object(id)} \cup (BlocksIn(lists, own) \cup ObjectsOf(in) \cup TableBlocks(own, tables[own]))
    <3>1. DestroyedBlocks("constructs", id)
            = {Object(id)} \cup (ArrayBlocks(own) \cup {Object(f) : f \in ListedIn(own)})
      BY <2>1 DEF DestroyedBlocks, FieldsOf
    <3>2. ArrayBlocks(own) = BlocksIn(lists, own)
      BY <1>2, <2>2, ArrayBlocksAre
    <3>3. ListedIn(own) = in
      BY <2>1, ListedIs
    <3>4. Rest("constructs", id) = DestroyedBlocks("constructs", id) \cup TableBlocks(own, tables[own])
      BY <2>1 DEF Rest
    <3>5. QED BY <1>1, <1>5, <3>1, <3>2, <3>3, <3>4 DEF ObjectsOf
  <2>5. Parts(lists, tables, {id} \cup in, {own})
          = {Object(id)} \cup (BlocksIn(lists, own) \cup ObjectsOf(in) \cup TableBlocks(own, tables[own]))
    <3>1. ObjectsOf({id} \cup in) = {Object(id)} \cup ObjectsOf(in)
      BY DEF ObjectsOf
    <3>2. HeadersOf({own}) \cup SlotsOf({own} \cap Roomy(lists)) = BlocksIn(lists, own)
      BY <2>2 DEF HeadersOf, SlotsOf, Roomy, BlocksIn
    <3>3. TablesIn(tables, {own}) = TableBlocks(own, tables[own])
      BY <2>2 DEF TablesIn
    <3>4. QED BY <3>1, <3>2, <3>3 DEF Parts
  <2>6. QED BY <2>2, <2>3, <2>4, <2>5
<1>6. QED BY <1>3, <1>4, <1>5, EntryIs

\* The entries are what DestroyOrder goes through.
LEMMA OrderIs ==
  ASSUME FullLists(lists), NEW n, n = Len(DestroyOrder)
  PROVE  /\ n \in Nat /\ \A i \in 1 .. n : DestroyOrder[i] \in Entries(lists)
         /\ \A i, j \in 1 .. n : DestroyOrder[i] = DestroyOrder[j] => i = j
         /\ \A e \in Entries(lists) : \E i \in 1 .. n : e = DestroyOrder[i]
<1>1. PICK s, E : s = DestroyOrder /\ E = Entries(lists)
  OBVIOUS
<1>2. s \in Seq(E) /\ IsInjective(s) /\ Range(s) = E
  BY <1>1, FullFacts, OrderFacts DEF Lists
<1>3. n \in Nat /\ DOMAIN s = 1 .. n
  BY <1>1, <1>2, LenProperties
<1>4. QED BY <1>1, <1>2, <1>3 DEF IsInjective, Range

\* The blocks of the arrays of the context.
BaseArrays(L) == HeadersOf(ContextScopes) \cup SlotsOf(ContextScopes \cap Roomy(L))

LEMMA BaseArraysAre ==
  ASSUME FullLists(lists)
  PROVE  UNION {ArrayBlocks(s) : s \in ContextScopes} = BaseArrays(lists)
<1>1. \A s \in ContextScopes : s \in DOMAIN lists /\ ArrayBlocks(s) = BlocksIn(lists, s)
  BY FullFacts, ArrayBlocksAre
<1>2. UNION {ArrayBlocks(s) : s \in ContextScopes} = UNION {BlocksIn(lists, s) : s \in ContextScopes}
  BY <1>1
<1>3. UNION {BlocksIn(lists, s) : s \in ContextScopes} = BaseArrays(lists)
  BY <1>1 DEF BlocksIn, BaseArrays, HeadersOf, SlotsOf, Roomy
<1>4. QED BY <1>2, <1>3

\* What there is while no object is being made: all arrays and tables.
LEMMA SettledFacts ==
  ASSUME IInv, status = "live", call = Idle \/ Destroying
  PROVE  /\ FullLists(lists) /\ FullTables(lists, tables) /\ Tables(tables)
         /\ \A s \in DOMAIN tables : IsTable(tables[s], Held(s))
         /\ \A s \in DOMAIN tables : \E held : IsTable(tables[s], held)
         /\ \A s \in DOMAIN tables : ChainsShort(tables[s])
         /\ ~Making /\ ~Beginning /\ OwnScope = {} /\ Alive /\ IsFiniteSet(heap) /\ ~fault
<1>1. ~Making /\ ~Beginning /\ OwnScope = {} /\ call.kind # "construct" /\ call.step # "expand" /\ Alive
  <2>1. CASE call = Idle
    BY <2>1, IdleIs DEF Alive
  <2>2. CASE Destroying
    <3>1. call.step \in {"objects", "fields", "free"}
      BY <2>2, IdleFacts, KindFacts DEF IInv, FrameOK, Destroying, Beginning, Making
    <3>2. QED BY <2>2, <3>1, KindFacts DEF Destroying, Making, Beginning, OwnScope, Alive
  <2>3. QED BY <2>1, <2>2
<1>2. FullLists(lists)
  BY <1>1 DEF IInv, ListsOK, FullLists
<1>3. FullTables(lists, tables)
  BY <1>1 DEF IInv, TablesOK, FullTables
<1>4. \A s \in DOMAIN tables : IsTable(tables[s], Held(s))
  BY <1>1 DEF IInv, TablesOK
<1>5. \A s \in DOMAIN tables : ChainsShort(tables[s])
  BY <1>1 DEF IInv, ChainsOK
<1>6. Tables(tables)
  BY <1>2, <1>3, <1>4, FullTablesFacts, IsTableMem DEF Tables
<1>7. \A s \in DOMAIN tables : \E held : IsTable(tables[s], held)
  BY <1>4
<1>8. IsFiniteSet(heap) /\ ~fault
  BY DEF IInv, HeapOK
<1>9. QED BY <1>1, <1>2, <1>3, <1>4, <1>5, <1>6, <1>7, <1>8

\* The blocks that the entries from the i-th on still have.
Left(i) == UNION {Rest(DestroyOrder[j][1], DestroyOrder[j][2]) : j \in i .. Len(DestroyOrder)}

\* What the i-th entry has is left until then, and is no more after.
Leaves(i, gone) ==
  /\ Left(i) = gone \cup Left(i + 1) /\ gone \cap Left(i + 1) = {}
  /\ gone \cap ({PlatformBlock, ContextBlock} \cup BaseArrays(lists)) = {}

\* What is left, with what belongs to the next.
LEMMA LeftFacts ==
  ASSUME FullLists(lists), FullTables(lists, tables), Tables(tables),
         \A s \in DOMAIN tables : \E held : IsTable(tables[s], held),
         NEW n, n = Len(DestroyOrder)
  PROVE  /\ n \in Nat /\ Left(n + 1) = {}
         /\ Left(1) = UNION {Parts(lists, tables, Ids(lists, e), OwnedBy(e)) : e \in Entries(lists)}
         /\ \A i \in 1 .. n : Leaves(i, Rest(DestroyOrder[i][1], DestroyOrder[i][2]))
<1>1. PICK s, E : s = DestroyOrder /\ E = Entries(lists)
  OBVIOUS
<1>2. /\ n \in Nat /\ \A i \in 1 .. n : s[i] \in E
      /\ \A i, j \in 1 .. n : s[i] = s[j] => i = j
      /\ \A e \in E : \E i \in 1 .. n : e = s[i]
  BY <1>1, OrderIs
<1>3. \A e \in E : Rest(e[1], e[2]) = Parts(lists, tables, Ids(lists, e), OwnedBy(e))
  BY <1>1, RestIs
<1>4. \A i \in 1 .. n : Rest(s[i][1], s[i][2]) = Parts(lists, tables, Ids(lists, s[i]), OwnedBy(s[i]))
  BY <1>2, <1>3
<1>5. Left(n + 1) = {}
  <2>1. n + 1 .. n = {}
    BY <1>2
  <2>2. QED BY <2>1 DEF Left
<1>6. Left(1) = UNION {Parts(lists, tables, Ids(lists, e), OwnedBy(e)) : e \in E}
  <2>1. Left(1) = UNION {Parts(lists, tables, Ids(lists, s[i]), OwnedBy(s[i])) : i \in 1 .. n}
    BY <1>1, <1>4 DEF Left
  <2>2. QED BY <1>2, <2>1
<1>7. ASSUME NEW i \in 1 .. n, NEW gone, gone = Rest(s[i][1], s[i][2])
      PROVE  Leaves(i, gone)
  <2>1. Left(i) = gone \cup Left(i + 1)
    <3>1. i .. n = {i} \cup (i + 1 .. n)
      BY <1>2
    <3>2. QED BY <1>1, <1>7, <3>1 DEF Left
  <2>2. gone = Parts(lists, tables, Ids(lists, s[i]), OwnedBy(s[i])) /\ s[i] \in E
    BY <1>2, <1>4, <1>7
  <2>3. ASSUME NEW j \in i + 1 .. n
        PROVE  gone \cap Rest(s[j][1], s[j][2]) = {}
    <3>1. j \in 1 .. n /\ i # j
      BY <1>2
    <3>2. s[j] \in E /\ s[i] # s[j]
      BY <1>2, <3>1
    <3>3. Ids(lists, s[i]) \cap Ids(lists, s[j]) = {} /\ OwnedBy(s[i]) \cap OwnedBy(s[j]) = {}
      BY <1>1, <2>2, <3>2, EntriesApart
    <3>4. OwnedBy(s[i]) \in SUBSET Scopes /\ OwnedBy(s[j]) \in SUBSET Scopes
      BY <1>1, <2>2, <3>2, EntryOwns
    <3>5. Parts(lists, tables, Ids(lists, s[i]), OwnedBy(s[i]))
            \cap Parts(lists, tables, Ids(lists, s[j]), OwnedBy(s[j])) = {}
      BY <3>3, <3>4, PartsApart
    <3>6. QED BY <1>4, <2>2, <3>1, <3>5
  <2>4. gone \cap Left(i + 1) = {}
    BY <1>1, <2>3 DEF Left
  <2>5. gone \cap BaseArrays(lists) = {}
    <3>1. OwnedBy(s[i]) \in SUBSET Scopes /\ OwnedBy(s[i]) \cap ContextScopes = {}
      BY <1>1, <2>2, EntryOwns
    <3>2. ContextScopes \in SUBSET Scopes
      BY ScopeFacts
    <3>3. Parts(lists, tables, Ids(lists, s[i]), OwnedBy(s[i])) \cap Parts(lists, tables, {}, ContextScopes) = {}
      BY <3>1, <3>2, PartsApart
    <3>4. BaseArrays(lists) \subseteq Parts(lists, tables, {}, ContextScopes)
      BY DEF BaseArrays, Parts
    <3>5. QED BY <2>2, <3>3, <3>4
  <2>6. PlatformBlock \notin gone /\ ContextBlock \notin gone
    BY <2>2, PartsNoBase
  <2>7. QED BY <2>1, <2>4, <2>5, <2>6 DEF Leaves
<1>8. QED BY <1>1, <1>2, <1>5, <1>6, <1>7

\* A step of the destruction leaves the arrays, and at most clears tables.
LEMMA DestructionGoesOn ==
  ASSUME IInv, Destroying, UNCHANGED <<status, lists, err>>, DOMAIN tables' = DOMAIN tables,
         \A s \in DOMAIN tables : tables'[s] = tables[s] \/ tables'[s] = HashClear(tables[s]),
         call' \in Frames, call'.kind = "destroy", call'.step \in {"objects", "fields", "free"},
         call'.obj = call.obj, call'.scope = call.scope
  PROVE  /\ FrameOK' /\ ListsOK' /\ TablesOK' /\ NamesOK' /\ ChainsOK' /\ Destroying'
         /\ DestroyOrder' = DestroyOrder /\ \A s : ArrayBlocks(s)' = ArrayBlocks(s)
         /\ \A kind, id : DestroyedBlocks(kind, id)' = DestroyedBlocks(kind, id)
         /\ \A kind, id : tables'[FieldsOf(id)] = tables[FieldsOf(id)] => Rest(kind, id)' = Rest(kind, id)
<1>1. /\ status = "live" /\ call.obj = NULL /\ call.scope = Idle.scope /\ call.step \in {"objects", "fields", "free"}
      /\ err \in {"MAM_SUCCESS", "MAM_EINVAL", "MAM_ENOMEM"}
  BY IdleFacts, KindFacts DEF IInv, FrameOK, Destroying, Beginning, Making
<1>2. Destroying' /\ ~Making' /\ ~Beginning' /\ Alive' /\ OwnScope' = {}
  BY <1>1, KindFacts DEF Destroying, Making, Beginning, Alive, OwnScope
<1>3. FullLists(lists) /\ FullTables(lists, tables) /\ ~Making /\ ~Beginning /\ Alive
  BY <1>1, SettledFacts
<1>4. FrameOK'
  BY <1>1, <1>2 DEF FrameOK
<1>5. ListsOK'
  BY <1>1, <1>2, <1>3 DEF ListsOK, FullLists
<1>6. ASSUME NEW s \in DOMAIN tables
      PROVE  IsTable(tables'[s], Held(s)') /\ ChainsShort(tables'[s])
  <2>1. PICK held : held = Held(s)
    OBVIOUS
  <2>2. IsTable(tables[s], held) /\ ChainsShort(tables[s])
    BY <1>1, <2>1, SettledFacts
  <2>3. CASE tables'[s] = tables[s]
    <3>1. Held(s)' = held
      BY <1>1, <1>2, <2>1, <2>3 DEF Held
    <3>2. QED BY <2>2, <2>3, <3>1
  <2>4. CASE tables'[s] = HashClear(tables[s])
    <3>1. PICK r : r = HashClear(tables[s])
      OBVIOUS
    <3>2. IsTable(r, << >>) /\ ChainsShort(r)
      BY <2>2, <3>1, TableClears
    <3>3. r.head = NULL
      BY <3>2, TableHas
    <3>4. Held(s)' = << >>
      BY <1>2, <2>4, <3>1, <3>3 DEF Held
    <3>5. QED BY <2>4, <3>1, <3>2, <3>4
  <2>5. QED BY <2>3, <2>4
<1>7. TablesOK'
  BY <1>2, <1>3, <1>6 DEF TablesOK, FullTables
<1>8. NamesOK'
  BY <1>2, KindFacts DEF NamesOK, Destroying, Named
<1>9. ChainsOK'
  BY <1>1, <1>6 DEF ChainsOK
<1>10. DestroyOrder' = DestroyOrder /\ \A s : ArrayBlocks(s)' = ArrayBlocks(s)
  BY DEF DestroyOrder, ArrayBlocks
<1>11. \A kind, id : DestroyedBlocks(kind, id)' = DestroyedBlocks(kind, id)
  BY DEF DestroyedBlocks, ArrayBlocks, ListedIn
<1>12. \A kind, id : tables'[FieldsOf(id)] = tables[FieldsOf(id)] => Rest(kind, id)' = Rest(kind, id)
  BY <1>11 DEF Rest
<1>13. QED BY <1>2, <1>4, <1>5, <1>7, <1>8, <1>9, <1>10, <1>11, <1>12

\* The memory while a context is being destroyed.
LEMMA DestroyingHeap ==
  ASSUME IInv, Destroying, NEW n, n = Len(DestroyOrder)
  PROVE  /\ status = "live" /\ call \in Frames /\ call.obj = NULL /\ call.scope = Idle.scope
         /\ FullLists(lists) /\ FullTables(lists, tables) /\ Tables(tables)
         /\ \A s \in DOMAIN tables : \E held : IsTable(tables[s], held)
         /\ n \in Nat /\ call.at \in 1 .. n + 1 /\ (call.step = "free" => call.at = n + 1)
         /\ call.step = "fields" =>
              call.at <= n /\ ThisKind = "constructs" /\ tables[FieldsOf(ThisId)].mem = {}
         /\ heap = {PlatformBlock, ContextBlock} \cup BaseArrays(lists) \cup Left(call.at)
         /\ IsFiniteSet(heap) /\ ~fault
<1>1. status = "live" /\ call \in Frames /\ call.obj = NULL /\ call.scope = Idle.scope
  BY IdleFacts, KindFacts DEF IInv, FrameOK, Destroying, Beginning, Making
<1>2. /\ FullLists(lists) /\ FullTables(lists, tables) /\ Tables(tables) /\ IsFiniteSet(heap) /\ ~fault
      /\ \A s \in DOMAIN tables : \E held : IsTable(tables[s], held)
  BY <1>1, SettledFacts
<1>3. n \in Nat
  BY <1>2, OrderIs
<1>4. /\ call.at \in 1 .. n + 1 /\ (call.step = "free" => call.at = n + 1)
      /\ call.step = "fields" =>
           call.at <= n /\ ThisKind = "constructs" /\ tables[FieldsOf(ThisId)].mem = {}
  BY DEF IInv, HeapOK
<1>5. heap = {PlatformBlock, ContextBlock} \cup (UNION {ArrayBlocks(s) : s \in ContextScopes}) \cup Left(call.at)
  BY DEF IInv, HeapOK, Left
<1>6. UNION {ArrayBlocks(s) : s \in ContextScopes} = BaseArrays(lists)
  BY <1>2, BaseArraysAre
<1>7. QED BY <1>1, <1>2, <1>3, <1>4, <1>5, <1>6

\* The entry that is destroyed next.
LEMMA ThisEntry ==
  ASSUME IInv, Destroying, NEW n, n = Len(DestroyOrder), call.at <= n
  PROVE  /\ call.at \in 1 .. n /\ call.at + 1 \in Nat /\ call.at + 1 \in 1 .. n + 1
         /\ DestroyOrder[call.at] \in Entries(lists)
         /\ Leaves(call.at, Rest(ThisKind, ThisId))
         /\ Header(<<ThisKind, 0>>) \in BaseArrays(lists)
         /\ UNION {ArrayBlocks(s) : s \in ContextScopes} = BaseArrays(lists)
<1>1. /\ FullLists(lists) /\ FullTables(lists, tables) /\ Tables(tables)
      /\ \A s \in DOMAIN tables : \E held : IsTable(tables[s], held)
      /\ n \in Nat /\ call.at \in 1 .. n + 1
  BY DestroyingHeap
<1>2. call.at \in 1 .. n /\ call.at + 1 \in Nat /\ call.at + 1 \in 1 .. n + 1
  BY <1>1
<1>3. DestroyOrder[call.at] \in Entries(lists)
  BY <1>1, <1>2, OrderIs
<1>4. Leaves(call.at, Rest(ThisKind, ThisId))
  BY <1>1, <1>2, LeftFacts DEF ThisKind, ThisId
<1>5. Header(<<ThisKind, 0>>) \in BaseArrays(lists)
  <2>1. ThisKind \in {"pointers", "arrays", "constructs", "variables"}
    BY <1>3, EntryIs DEF ThisKind
  <2>2. <<ThisKind, 0>> \in ContextScopes
    BY <2>1 DEF ContextScopes, PointerScope, ArrayScope, ConstructScope, VariableScope
  <2>3. QED BY <2>2 DEF BaseArrays, HeadersOf
<1>6. UNION {ArrayBlocks(s) : s \in ContextScopes} = BaseArrays(lists)
  BY <1>1, BaseArraysAre
<1>7. QED BY <1>2, <1>3, <1>4, <1>5, <1>6

\* When the table of a construct is cleared, all that it still has is given
\* back with it.
LEMMA DestroyObjectKeeps ==
  ASSUME IInv, DestroyObject
  PROVE  IInv'
<1>1. Destroying /\ UNCHANGED <<status, lists, tables, err>>
  BY DEF DestroyObject, Destroying
<1>2. PICK n, at, gone : n = Len(DestroyOrder) /\ at = call.at /\ gone = DestroyedBlocks(ThisKind, ThisId)
  OBVIOUS
<1>3. /\ call \in Frames /\ at <= n
      /\ ThisKind = "constructs" => tables[FieldsOf(ThisId)].mem = {}
      /\ heap = {PlatformBlock, ContextBlock} \cup BaseArrays(lists) \cup Left(at)
      /\ IsFiniteSet(heap) /\ ~fault
  BY <1>1, <1>2, DestroyingHeap DEF DestroyObject
<1>4. /\ at \in 1 .. n /\ at + 1 \in Nat /\ at + 1 \in 1 .. n + 1
      /\ Leaves(at, Rest(ThisKind, ThisId)) /\ Header(<<ThisKind, 0>>) \in BaseArrays(lists)
      /\ UNION {ArrayBlocks(s) : s \in ContextScopes} = BaseArrays(lists)
  BY <1>1, <1>2, <1>3, ThisEntry
<1>5. Rest(ThisKind, ThisId) = gone
  BY <1>2, <1>3 DEF Rest, TableBlocks
<1>6. /\ call' \in Frames /\ call'.step = "objects" /\ call'.kind = "destroy" /\ call'.obj = call.obj
      /\ call'.scope = call.scope /\ call'.at = at + 1
  <2>1. call' = [call EXCEPT !.step = "objects", !.at = at + 1] /\ call.kind = "destroy"
    BY <1>2 DEF DestroyObject, NextObject
  <2>2. "objects" \in Steps
    BY DEF Steps
  <2>3. QED BY <1>3, <1>4, <2>1, <2>2 DEF Frames
<1>7. /\ FrameOK' /\ ListsOK' /\ TablesOK' /\ NamesOK' /\ ChainsOK' /\ Destroying'
      /\ DestroyOrder' = DestroyOrder /\ \A s : ArrayBlocks(s)' = ArrayBlocks(s)
      /\ \A kind, id : Rest(kind, id)' = Rest(kind, id)
  BY <1>1, <1>6, DestructionGoesOn
<1>8. heap' = {PlatformBlock, ContextBlock} \cup BaseArrays(lists) \cup Left(at + 1) /\ ~fault'
  <2>1. Memory({Header(<<ThisKind, 0>>)}, gone, {})
    BY <1>2 DEF DestroyObject
  <2>2. QED BY <1>3, <1>4, <1>5, <2>1 DEF Memory, Leaves
<1>9. IsFiniteSet(heap')
  <2>1. heap' \in SUBSET heap
    BY <1>3, <1>4, <1>5, <1>8 DEF Leaves
  <2>2. QED BY <1>3, <2>1, FS_Subset
<1>10. HeapOK'
  <2>1. heap' = {PlatformBlock, ContextBlock} \cup (UNION {ArrayBlocks(s)' : s \in ContextScopes})
                  \cup UNION {Rest(DestroyOrder[j][1], DestroyOrder[j][2]) : j \in at + 1 .. Len(DestroyOrder)}
    BY <1>4, <1>7, <1>8 DEF Left
  <2>2. call'.at \in 1 .. Len(DestroyOrder') + 1 /\ call'.step \notin {"free", "fields", "buckets"}
    BY <1>2, <1>4, <1>6, <1>7
  <2>3. QED BY <1>6, <1>7, <1>9, <2>1, <2>2 DEF HeapOK
<1>11. QED BY <1>7, <1>8, <1>10 DEF IInv

\* Nothing is left to destroy.
LEMMA ObjectsDestroyedKeeps ==
  ASSUME IInv, ObjectsDestroyed
  PROVE  IInv'
<1>1. Destroying /\ UNCHANGED <<status, heap, lists, tables, fault, err>>
  BY DEF ObjectsDestroyed, Destroying, GoTo
<1>2. PICK n, at : n = Len(DestroyOrder) /\ at = call.at
  OBVIOUS
<1>3. /\ call \in Frames /\ FullLists(lists) /\ n \in Nat /\ at \in 1 .. n + 1 /\ at > n
      /\ heap = {PlatformBlock, ContextBlock} \cup BaseArrays(lists) \cup Left(at)
      /\ IsFiniteSet(heap) /\ ~fault
  BY <1>1, <1>2, DestroyingHeap DEF ObjectsDestroyed
<1>4. UNION {ArrayBlocks(s) : s \in ContextScopes} = BaseArrays(lists)
  BY <1>3, BaseArraysAre
<1>5. /\ call' \in Frames /\ call'.step = "free" /\ call'.kind = "destroy" /\ call'.obj = call.obj
      /\ call'.scope = call.scope /\ call'.at = at
  <2>1. call' = [call EXCEPT !.step = "free"] /\ call.kind = "destroy"
    BY DEF ObjectsDestroyed, GoTo
  <2>2. "free" \in Steps
    BY DEF Steps
  <2>3. QED BY <1>2, <1>3, <2>1, <2>2, StepFacts
<1>6. /\ FrameOK' /\ ListsOK' /\ TablesOK' /\ NamesOK' /\ ChainsOK' /\ Destroying'
      /\ DestroyOrder' = DestroyOrder /\ \A s : ArrayBlocks(s)' = ArrayBlocks(s)
      /\ \A kind, id : Rest(kind, id)' = Rest(kind, id)
  BY <1>1, <1>5, DestructionGoesOn
<1>7. HeapOK'
  <2>1. heap' = {PlatformBlock, ContextBlock} \cup (UNION {ArrayBlocks(s)' : s \in ContextScopes})
                  \cup UNION {Rest(DestroyOrder[j][1], DestroyOrder[j][2]) : j \in at .. Len(DestroyOrder)}
    BY <1>1, <1>3, <1>4, <1>6 DEF Left
  <2>2. call'.at \in 1 .. Len(DestroyOrder') + 1 /\ call'.at = Len(DestroyOrder') + 1
    BY <1>2, <1>3, <1>5, <1>6
  <2>3. QED BY <1>1, <1>3, <1>5, <1>6, <2>1, <2>2 DEF HeapOK
<1>8. QED BY <1>1, <1>3, <1>6, <1>7 DEF IInv

\* The table is read through the first field, which is there until then.
LEMMA ClearFieldsKeeps ==
  ASSUME IInv, ClearFields
  PROVE  IInv'
<1>1. Destroying /\ UNCHANGED <<status, lists, err>> /\ ThisKind = "constructs" /\ call.step = "objects"
  BY DEF ClearFields, Destroying, GoTo
<1>2. PICK n, at, id, e : n = Len(DestroyOrder) /\ at = call.at /\ id = ThisId /\ e = DestroyOrder[at]
  OBVIOUS
<1>3. PICK own, t, r, gone, alone :
        /\ own = FieldsOf(id) /\ t = tables[own] /\ r = HashClear(t) /\ gone = TableBlocks(own, t)
        /\ alone = DestroyedBlocks("constructs", id)
  OBVIOUS
<1>4. /\ status = "live" /\ call \in Frames /\ call.scope = Idle.scope /\ at <= n
      /\ FullLists(lists) /\ FullTables(lists, tables) /\ Tables(tables) /\ n \in Nat
      /\ heap = {PlatformBlock, ContextBlock} \cup BaseArrays(lists) \cup Left(at)
      /\ IsFiniteSet(heap) /\ ~fault
  BY <1>1, <1>2, DestroyingHeap DEF ClearFields
<1>5. /\ at \in 1 .. n /\ at \in 1 .. n + 1 /\ e \in Entries(lists)
      /\ Leaves(at, Rest("constructs", id)) /\ Header(<<"constructs", 0>>) \in BaseArrays(lists)
      /\ UNION {ArrayBlocks(s) : s \in ContextScopes} = BaseArrays(lists)
  BY <1>1, <1>2, <1>4, ThisEntry
<1>6. e = <<"constructs", id>> /\ id \in Range(lists[ConstructScope].elems)
  <2>1. e[1] = "constructs" /\ e[2] = id
    BY <1>1, <1>2 DEF ThisKind, ThisId
  <2>2. QED BY <1>5, <2>1, EntryIs
<1>7. own \in DOMAIN tables /\ own \in DOMAIN lists /\ own \in Scopes
  BY <1>3, <1>4, <1>6, FullTablesFacts DEF FullTables
<1>8. tables' = [tables EXCEPT ![own] = r]
  BY <1>2, <1>3 DEF ClearFields, FieldsOf
<1>9. PICK held : held = Held(own)
  OBVIOUS
<1>10. IsTable(t, held) /\ TableMem(t) /\ r.mem = {}
  <2>1. IsTable(t, held)
    BY <1>1, <1>3, <1>4, <1>7, <1>9, SettledFacts
  <2>2. QED BY <1>3, <2>1, IsTableMem, TableClears
<1>11. TableBlocks(own, r) = {} /\ tables'[own] = r
  BY <1>7, <1>8, <1>10 DEF TableBlocks
<1>12. Rest("constructs", id) = alone \cup gone
  BY <1>3 DEF Rest
<1>13. /\ call' \in Frames /\ call'.step = "fields" /\ call'.kind = "destroy" /\ call'.obj = call.obj
       /\ call'.scope = call.scope /\ call'.at = at
  <2>1. call' = [call EXCEPT !.step = "fields"] /\ call.kind = "destroy"
    BY DEF ClearFields, GoTo
  <2>2. "fields" \in Steps
    BY DEF Steps
  <2>3. QED BY <1>2, <1>4, <2>1, <2>2, StepFacts
<1>14. /\ FrameOK' /\ ListsOK' /\ TablesOK' /\ NamesOK' /\ ChainsOK' /\ Destroying'
       /\ DestroyOrder' = DestroyOrder /\ \A s : ArrayBlocks(s)' = ArrayBlocks(s)
       /\ \A kind, d : DestroyedBlocks(kind, d)' = DestroyedBlocks(kind, d)
       /\ \A kind, d : tables'[FieldsOf(d)] = tables[FieldsOf(d)] => Rest(kind, d)' = Rest(kind, d)
  <2>1. DOMAIN tables' = DOMAIN tables
    BY <1>8
  <2>2. \A s \in DOMAIN tables : tables'[s] = tables[s] \/ tables'[s] = HashClear(tables[s])
    BY <1>3, <1>8
  <2>3. QED BY <1>1, <1>13, <2>1, <2>2, DestructionGoesOn
<1>15. ReadBy(t) \subseteq alone
  <2>1. CASE t.head = NULL
    BY <2>1 DEF ReadBy
  <2>2. CASE t.head # NULL
    <3>1. held # << >> /\ t.head \in Range(held)
      BY <1>10, <2>2, TableHas
    <3>2. own # call.scope
      BY <1>4, <1>7, ScopeFacts, IdleFacts
    <3>3. held = lists[own].elems
      BY <1>9, <3>1, <3>2 DEF Held
    <3>4. t.head \in ListedIn(own)
      BY <3>1, <3>3, ListedIs
    <3>5. Object(t.head) \in alone
      BY <1>3, <3>4 DEF DestroyedBlocks, FieldsOf
    <3>6. QED BY <3>5 DEF ReadBy
  <2>3. QED BY <2>1, <2>2
<1>16. alone \cap gone = {}
  <2>1. \A b \in gone : b[1] \in {"tbl", "buckets"}
    BY <1>3, <1>7, <1>10, TableBlocksFacts
  <2>2. alone = {Object(id)} \cup (ArrayBlocks(own) \cup {Object(f) : f \in ListedIn(own)})
    BY <1>3 DEF DestroyedBlocks, FieldsOf
  <2>3. \A b \in alone : b[1] \in {"object", "header", "slots"}
    BY <2>2, BlockSorts DEF ArrayBlocks
  <2>4. QED BY <2>1, <2>3
<1>17. heap' = {PlatformBlock, ContextBlock} \cup BaseArrays(lists) \cup alone \cup Left(at + 1) /\ ~fault'
  <2>1. Memory({Header(<<"constructs", 0>>)} \cup ReadBy(t), gone, {})
    <3>1. Memory({Header(<<ThisKind, 0>>)} \cup ReadBy(tables[own]),
                 TableBlocks(own, tables[own]) \ TableBlocks(own, tables'[own]), {})
      BY <1>2, <1>3 DEF ClearFields, FieldsOf
    <3>2. QED BY <1>1, <1>3, <1>11, <3>1
  <2>2. /\ Left(at) = alone \cup gone \cup Left(at + 1)
        /\ gone \cap Left(at + 1) = {} /\ gone \cap ({PlatformBlock, ContextBlock} \cup BaseArrays(lists)) = {}
    BY <1>5, <1>12 DEF Leaves
  <2>3. {Header(<<"constructs", 0>>)} \cup ReadBy(t) \cup gone \subseteq heap
    BY <1>4, <1>5, <1>15, <2>2
  <2>4. heap' = (heap \ gone) \cup {} /\ fault' = (fault \/ ~({Header(<<"constructs", 0>>)} \cup ReadBy(t) \cup gone \subseteq heap))
    BY <2>1 DEF Memory
  <2>5. ~fault'
    BY <1>4, <2>3, <2>4
  <2>6. QED BY <1>4, <1>16, <2>2, <2>4, <2>5
<1>18. IsFiniteSet(heap')
  <2>1. Left(at) = alone \cup gone \cup Left(at + 1)
    BY <1>5, <1>12 DEF Leaves
  <2>2. heap' \in SUBSET heap
    BY <1>4, <1>17, <2>1
  <2>3. QED BY <1>4, <2>2, FS_Subset
<1>19. UNION {Rest(DestroyOrder[j][1], DestroyOrder[j][2])' : j \in at .. n} = alone \cup Left(at + 1)
  <2>1. Rest(e[1], e[2])' = alone
    <3>1. Rest("constructs", id)' = alone \cup TableBlocks(own, r)
      BY <1>3, <1>11, <1>14 DEF Rest
    <3>2. QED BY <1>6, <1>11, <3>1
  <2>2. ASSUME NEW j \in at + 1 .. n
        PROVE  Rest(DestroyOrder[j][1], DestroyOrder[j][2])' = Rest(DestroyOrder[j][1], DestroyOrder[j][2])
    <3>1. j \in 1 .. n /\ j # at
      BY <1>5
    <3>2. PICK f : f = DestroyOrder[j]
      OBVIOUS
    <3>3. f \in Entries(lists) /\ f # e
      BY <1>2, <1>4, <1>5, <3>1, <3>2, OrderIs
    <3>4. CASE f[1] = "constructs"
      <4>1. f[2] # id
        BY <1>6, <3>3, <3>4, EntryIs
      <4>2. tables'[FieldsOf(f[2])] = tables[FieldsOf(f[2])]
        <5>1. FieldsOf(f[2]) # own
          BY <1>3, <4>1, ScopesDiffer
        <5>2. FieldsOf(f[2]) \in DOMAIN tables
          BY <1>4, <3>3, <3>4, EntryIs DEF FullTables
        <5>3. QED BY <1>8, <5>1, <5>2
      <4>3. QED BY <1>14, <3>2, <4>2
    <3>5. CASE f[1] # "constructs"
      BY <1>14, <3>2, <3>5 DEF Rest
    <3>6. QED BY <3>4, <3>5
  <2>3. at .. n = {at} \cup (at + 1 .. n)
    BY <1>5
  <2>4. Left(at + 1) = UNION {Rest(DestroyOrder[j][1], DestroyOrder[j][2])' : j \in at + 1 .. n}
    BY <1>2, <2>2 DEF Left
  <2>5. QED BY <1>2, <1>14, <2>1, <2>3, <2>4
<1>20. HeapOK'
  <2>1. heap' = {PlatformBlock, ContextBlock} \cup (UNION {ArrayBlocks(s)' : s \in ContextScopes})
                  \cup UNION {Rest(DestroyOrder[j][1], DestroyOrder[j][2])' : j \in at .. n}
    BY <1>5, <1>14, <1>17, <1>19
  <2>2. Len(DestroyOrder') = n /\ call'.at \in 1 .. Len(DestroyOrder') + 1 /\ call'.at <= Len(DestroyOrder')
    BY <1>2, <1>4, <1>5, <1>13, <1>14
  <2>3. ThisKind' = "constructs" /\ tables'[FieldsOf(ThisId')].mem = {}
    <3>1. ThisKind' = ThisKind /\ ThisId' = id
      BY <1>2, <1>13, <1>14 DEF ThisKind, ThisId
    <3>2. QED BY <1>1, <1>3, <1>10, <1>11, <3>1
  <2>4. HeapOK'
    BY <1>13, <1>14, <1>18, <2>1, <2>2, <2>3 DEF HeapOK
  <2>5. QED BY <2>4
<1>21. QED BY <1>14, <1>17, <1>20 DEF IInv

LEMMA FreeContextKeeps ==
  ASSUME IInv, FreeContext
  PROVE  IInv'
<1>1. Destroying /\ call.step = "free"
  BY DEF FreeContext, Destroying
<1>2. PICK n : n = Len(DestroyOrder)
  OBVIOUS
<1>3. /\ FullLists(lists) /\ FullTables(lists, tables) /\ Tables(tables)
      /\ \A s \in DOMAIN tables : \E held : IsTable(tables[s], held)
      /\ call.at = n + 1
      /\ heap = {PlatformBlock, ContextBlock} \cup BaseArrays(lists) \cup Left(call.at) /\ ~fault
  BY <1>1, <1>2, DestroyingHeap
<1>4. Left(n + 1) = {}
  BY <1>2, <1>3, LeftFacts
<1>5. UNION {ArrayBlocks(<<ContextLists[k], 0>>) : k \in 1 .. 4} = BaseArrays(lists)
  <2>1. UNION {ArrayBlocks(<<ContextLists[k], 0>>) : k \in 1 .. 4} = UNION {ArrayBlocks(s) : s \in ContextScopes}
    BY ContextListsFacts
  <2>2. QED BY <1>3, <2>1, BaseArraysAre
<1>6. PlatformBlock \notin BaseArrays(lists) /\ PlatformBlock # ContextBlock
  BY BlockSorts DEF BaseArrays, HeadersOf, SlotsOf
<1>7. heap' = {PlatformBlock} /\ ~fault'
  <2>1. Memory({}, {ContextBlock} \cup BaseArrays(lists), {})
    BY <1>5 DEF FreeContext
  <2>2. QED BY <1>3, <1>4, <1>6, <2>1 DEF Memory
<1>8. err \in {"MAM_SUCCESS", "MAM_EINVAL", "MAM_ENOMEM"}
  BY DEF IInv, FrameOK
<1>9. Quiet'
  BY <1>7, <1>8 DEF FreeContext, Return, Quiet, PlatformOwed
<1>10. QED BY <1>9, QuietNext

\* The tables of the context are cleared.
LEMMA TablesClear ==
  ASSUME FullLists(lists), FullTables(lists, tables), Tables(tables),
         \A s \in DOMAIN tables : \E held : IsTable(tables[s], held),
         NEW gone, gone = UNION {TableBlocks(s, tables[s]) \ TableBlocks(s, HashClear(tables[s])) : s \in TabledScopes}
  PROVE  Drops({PlatformBlock, ContextBlock} \cup BaseArrays(lists) \cup Left(1),
               Owed({PlatformBlock}, {ContextBlock}, lists, tables, {}), gone)
<1>1. TabledScopes = ContextScopes \cap DOMAIN tables
  BY FullTablesFacts
<1>2. \A s \in TabledScopes : TableBlocks(s, HashClear(tables[s])) = {}
  <2>1. ASSUME NEW s \in TabledScopes PROVE TableBlocks(s, HashClear(tables[s])) = {}
    <3>1. PICK held : IsTable(tables[s], held)
      BY <1>1
    <3>2. HashClear(tables[s]).mem = {}
      BY <3>1, TableClears
    <3>3. QED BY <3>2 DEF TableBlocks
  <2>2. QED BY <2>1
<1>3. gone = TablesIn(tables, ContextScopes)
  BY <1>1, <1>2 DEF TablesIn
<1>4. PICK base : base = Parts(lists, tables, {}, ContextScopes)
  OBVIOUS
<1>5. base = BaseArrays(lists) \cup gone
  <2>1. ObjectsOf({}) = {}
    BY DEF ObjectsOf
  <2>2. QED BY <1>3, <1>4, <2>1 DEF BaseArrays, Parts
<1>6. gone \cap BaseArrays(lists) = {}
  <2>1. \A b \in gone : b[1] \in {"tbl", "buckets"}
    BY <1>3, TableBlocksFacts DEF TablesIn, Tables
  <2>2. \A b \in BaseArrays(lists) : b[1] \in {"header", "slots"}
    BY BlockSorts DEF BaseArrays, HeadersOf, SlotsOf
  <2>3. QED BY <2>1, <2>2
<1>7. PlatformBlock \notin gone /\ ContextBlock \notin gone
  BY <1>4, <1>5, PartsNoBase
<1>8. Left(1) = UNION {Parts(lists, tables, Ids(lists, e), OwnedBy(e)) : e \in Entries(lists)}
  <2>1. PICK n : n = Len(DestroyOrder)
    OBVIOUS
  <2>2. QED BY <2>1, LeftFacts
<1>9. gone \cap Left(1) = {}
  <2>1. ASSUME NEW e \in Entries(lists)
        PROVE  base \cap Parts(lists, tables, Ids(lists, e), OwnedBy(e)) = {}
    <3>1. OwnedBy(e) \in SUBSET Scopes /\ OwnedBy(e) \cap ContextScopes = {}
      BY EntryOwns
    <3>2. ContextScopes \in SUBSET Scopes /\ ContextScopes \cap OwnedBy(e) = {} /\ {} \cap Ids(lists, e) = {}
      BY <3>1, ScopeFacts
    <3>3. QED BY <1>4, <3>1, <3>2, PartsApart
  <2>2. base \cap Left(1) = {}
    BY <1>8, <2>1
  <2>3. QED BY <1>5, <2>2
<1>10. Owed({PlatformBlock}, {ContextBlock}, lists, tables, {})
         = {PlatformBlock} \cup {ContextBlock} \cup base \cup Left(1)
  <2>1. DOMAIN tables \subseteq DOMAIN lists
    BY FullTablesFacts
  <2>2. QED BY <1>4, <1>8, <2>1, OwedInParts
<1>11. QED BY <1>5, <1>6, <1>7, <1>9, <1>10 DEF Drops

LEMMA DestroyContextKeeps ==
  ASSUME IInv, DestroyContext
  PROVE  IInv'
<1>1. status = "live" /\ call = Idle /\ status' = status /\ lists' = lists /\ err' = "MAM_SUCCESS"
  BY DEF DestroyContext
<1>2. ~Destroying /\ ObjectOwed = {} /\ call.step # "buckets" /\ \A s : Held(s) = IF s \in DOMAIN lists THEN lists[s].elems ELSE << >>
  BY <1>1, IdleIs
<1>3. /\ FullLists(lists) /\ FullTables(lists, tables) /\ Tables(tables)
      /\ \A s \in DOMAIN tables : IsTable(tables[s], Held(s))
      /\ \A s \in DOMAIN tables : \E held : IsTable(tables[s], held)
      /\ \A s \in DOMAIN tables : ChainsShort(tables[s])
      /\ IsFiniteSet(heap) /\ ~fault
  BY <1>1, SettledFacts
<1>4. heap = Owed({PlatformBlock}, {ContextBlock}, lists, tables, {})
  BY <1>1, <1>2, LiveFacts
<1>5. TabledScopes = {<<"variables", 0>>, <<"constructs", 0>>}
  BY DEF TabledScopes, ConstructScope, VariableScope
<1>6. tables' = [s \in DOMAIN tables |-> IF s \in TabledScopes THEN HashClear(tables[s]) ELSE tables[s]]
  BY <1>5 DEF DestroyContext
<1>7. /\ call' \in Frames /\ call'.kind = "destroy" /\ call'.step = "objects" /\ call'.at = 1
      /\ call'.obj = NULL /\ call'.scope = Idle.scope
  <2>1. PICK c : c = [Idle EXCEPT !.kind = "destroy", !.step = "objects", !.at = 1]
    OBVIOUS
  <2>2. /\ c.kind = "destroy" /\ c.step = "objects" /\ c.at = 1 /\ c.obj = NULL /\ c.scope = Idle.scope
        /\ c \in Frames
    BY <2>1, IdleFacts DEF Frames, Steps
  <2>3. QED BY <2>1, <2>2 DEF DestroyContext
<1>8. /\ Destroying' /\ ~Making' /\ ~Beginning' /\ Alive' /\ OwnScope' = {}
  BY <1>1, <1>7, KindFacts DEF Destroying, Making, Beginning, Alive, OwnScope
<1>9. FrameOK'
  BY <1>1, <1>7, <1>8 DEF FrameOK
<1>10. ListsOK'
  BY <1>1, <1>3, <1>7, <1>8 DEF ListsOK, FullLists
<1>11. ASSUME NEW s \in DOMAIN tables'
       PROVE  s \in DOMAIN tables /\ IsTable(tables'[s], Held(s)') /\ ChainsShort(tables'[s])
  <2>1. s \in DOMAIN tables
    BY <1>6
  <2>2. PICK held : held = Held(s)
    OBVIOUS
  <2>3. IsTable(tables[s], held) /\ ChainsShort(tables[s])
    BY <1>3, <2>1, <2>2
  <2>4. CASE s \in TabledScopes
    <3>1. PICK r : r = HashClear(tables[s])
      OBVIOUS
    <3>2. tables'[s] = r
      BY <1>6, <2>1, <2>4, <3>1
    <3>3. IsTable(r, << >>) /\ ChainsShort(r)
      BY <2>3, <3>1, TableClears
    <3>4. r.head = NULL
      BY <3>3, TableHas
    <3>5. Held(s)' = << >>
      BY <1>8, <3>2, <3>4 DEF Held
    <3>6. QED BY <2>1, <3>2, <3>3, <3>5
  <2>5. CASE s \notin TabledScopes
    <3>1. tables'[s] = tables[s]
      BY <1>6, <2>1, <2>5
    <3>2. s # call'.scope
      BY <1>3, <1>7, <2>1, FullTablesFacts, ScopeFacts, IdleFacts
    <3>3. tables[s].head = NULL <=> held = << >>
      BY <2>3, TableHas
    <3>4. Held(s)' = held
      BY <1>1, <1>2, <1>8, <2>2, <3>1, <3>2, <3>3 DEF Held
    <3>5. QED BY <2>1, <2>3, <3>1, <3>4
  <2>6. QED BY <2>4, <2>5
<1>12. TablesOK'
  BY <1>1, <1>3, <1>6, <1>8, <1>11 DEF TablesOK, FullTables
<1>13. NamesOK'
  BY <1>7, <1>8, KindFacts DEF NamesOK
<1>14. ChainsOK'
  BY <1>7, <1>11 DEF ChainsOK
<1>15. PICK gone : gone = UNION {TableBlocks(s, tables[s]) \ TableBlocks(s, HashClear(tables[s])) : s \in TabledScopes}
  OBVIOUS
<1>16. PICK read : read = UNION {ReadBy(tables[s]) : s \in TabledScopes}
  OBVIOUS
<1>17. Drops({PlatformBlock, ContextBlock} \cup BaseArrays(lists) \cup Left(1), heap, gone)
  BY <1>3, <1>4, <1>15, TablesClear
\* The first element of a table is an object that is listed.
<1>18. read \subseteq heap
  <2>1. ASSUME NEW s \in TabledScopes PROVE ReadBy(tables[s]) \subseteq heap
    <3>1. s \in DOMAIN tables /\ s \in DOMAIN lists
      BY <1>3, FullFacts, ScopeFacts DEF FullTables
    <3>2. PICK held, t : held = lists[s].elems /\ t = tables[s]
      OBVIOUS
    <3>3. IsTable(t, held)
      BY <1>2, <1>3, <3>1, <3>2
    <3>4. t.head # NULL => t.head \in Range(held)
      BY <3>3, TableHas
    <3>5. Range(held) \subseteq AllOf(lists)
      BY <1>3, <3>1, <3>2, FullFacts, GoodListsFacts
    <3>6. t.head # NULL => Object(t.head) \in ObjectsOf(AllOf(lists) \cup {})
      BY <3>4, <3>5 DEF ObjectsOf
    <3>7. t.head # NULL => Object(t.head) \in heap
      BY <1>4, <3>6 DEF Owed
    <3>8. QED BY <3>2, <3>7 DEF ReadBy
  <2>2. QED BY <1>16, <2>1
<1>19. heap' = {PlatformBlock, ContextBlock} \cup BaseArrays(lists) \cup Left(1) /\ ~fault'
  <2>1. Memory(read, gone, {})
    BY <1>5, <1>15, <1>16 DEF DestroyContext
  <2>2. QED BY <1>3, <1>17, <1>18, <2>1 DEF Memory, Drops
<1>20. HeapOK'
  <2>1. DestroyOrder' = DestroyOrder /\ \A s : ArrayBlocks(s)' = ArrayBlocks(s)
    BY <1>1 DEF DestroyOrder, ArrayBlocks
  <2>2. PICK n : n = Len(DestroyOrder)
    OBVIOUS
  <2>3. n \in Nat /\ \A i \in 1 .. n : DestroyOrder[i] \in Entries(lists)
    BY <1>3, <2>2, OrderIs
  <2>4. ASSUME NEW e \in Entries(lists)
        PROVE  Rest(e[1], e[2])' = Rest(e[1], e[2])
    <3>1. PICK id : id = e[2]
      OBVIOUS
    <3>2. CASE e[1] # "constructs"
      BY <1>1, <3>2 DEF Rest, DestroyedBlocks, ArrayBlocks, ListedIn
    <3>3. CASE e[1] = "constructs"
      <4>1. FieldsOf(id) \in DOMAIN tables
        BY <1>3, <3>1, <3>3, EntryIs DEF FullTables
      <4>2. FieldsOf(id) \notin TabledScopes
        BY ScopeFacts, ScopesDiffer
      <4>3. tables'[FieldsOf(id)] = tables[FieldsOf(id)]
        BY <1>6, <4>1, <4>2
      <4>4. Rest("constructs", id)' = Rest("constructs", id)
        BY <1>1, <4>3 DEF Rest, DestroyedBlocks, ArrayBlocks, ListedIn
      <4>5. QED BY <3>1, <3>3, <4>4
    <3>4. QED BY <3>2, <3>3
  <2>5. \A j \in 1 .. n : Rest(DestroyOrder[j][1], DestroyOrder[j][2])'
                            = Rest(DestroyOrder[j][1], DestroyOrder[j][2])
    BY <2>1, <2>3, <2>4
  <2>6. UNION {ArrayBlocks(s)' : s \in ContextScopes} = BaseArrays(lists)
    BY <1>3, <2>1, BaseArraysAre
  <2>7. UNION {Rest(DestroyOrder[j][1], DestroyOrder[j][2])' : j \in 1 .. n} = Left(1)
    BY <2>2, <2>5 DEF Left
  <2>8. IsFiniteSet(heap')
    <3>1. heap' \in SUBSET heap
      BY <1>17, <1>19 DEF Drops
    <3>2. QED BY <1>3, <3>1, FS_Subset
  <2>9. Len(DestroyOrder') = n
    BY <2>1, <2>2
  <2>10. heap' = {PlatformBlock, ContextBlock} \cup (UNION {ArrayBlocks(s)' : s \in ContextScopes})
                   \cup UNION {Rest(DestroyOrder[j][1], DestroyOrder[j][2])' : j \in call'.at .. Len(DestroyOrder')}
    BY <1>7, <1>19, <2>6, <2>7, <2>9
  <2>11. call'.at \in 1 .. Len(DestroyOrder') + 1 /\ call'.step \notin {"free", "fields", "buckets"}
    BY <1>7, <2>3, <2>9
  <2>12. QED BY <1>8, <2>8, <2>10, <2>11 DEF HeapOK
<1>21. QED BY <1>9, <1>10, <1>12, <1>13, <1>14, <1>19, <1>20 DEF IInv

------------------------------------------------------------------------------
(* The invariant is inductive, and always true.                            *)

LEMMA NextKeeps == IInv /\ [Next]_vars => IInv'
<1> SUFFICES ASSUME IInv, [Next]_vars PROVE IInv'
  OBVIOUS
<1>1. CASE CreatePlatform
  BY <1>1, CreatePlatformKeeps
<1>2. CASE DestroyPlatform
  BY <1>2, DestroyPlatformKeeps
<1>3. CASE CreateContext
  BY <1>3, CreateContextKeeps
<1>4. CASE Refuse
  BY <1>4, RefuseKeeps
<1>5. CASE DestroyContext
  BY <1>5, DestroyContextKeeps
<1>6. CASE \E kind \in Kinds : \E scope \in ScopesOf(kind) :
             \E name \in IF kind \in Named THEN NamesOf[kind] ELSE {NoName} : Make(kind, scope, name)
  <2>1. PICK kind \in Kinds : \E scope \in ScopesOf(kind) :
          \E name \in IF kind \in Named THEN NamesOf[kind] ELSE {NoName} : Make(kind, scope, name)
    BY <1>6
  <2>2. PICK scope \in ScopesOf(kind) :
          \E name \in IF kind \in Named THEN NamesOf[kind] ELSE {NoName} : Make(kind, scope, name)
    BY <2>1
  <2>3. PICK name \in IF kind \in Named THEN NamesOf[kind] ELSE {NoName} : Make(kind, scope, name)
    BY <2>2
  <2>4. QED BY <2>3, MakeKeeps
<1>7. CASE Step
  <2>1. status # "undefined"
    BY <1>7 DEF Step
  <2>2. CASE NewContextArray
    BY <2>2, NewContextArrayKeeps
  <2>3. CASE ContextFails
    BY <2>3, ContextFailsKeeps
  <2>4. CASE NewOwnArray
    BY <2>1, <2>4, NewOwnArrayKeeps
  <2>5. CASE Push
    BY <2>1, <2>5, PushKeeps
  <2>6. CASE AddName
    BY <2>1, <2>6, AddNameKeeps
  <2>7. CASE Expand
    BY <2>1, <2>7, ExpandKeeps
  <2>8. CASE TakeBack
    BY <2>1, <2>8, TakeBackKeeps
  <2>9. CASE GiveUp
    BY <2>1, <2>9, GiveUpKeeps
  <2>10. CASE DestroyObject
    BY <2>10, DestroyObjectKeeps
  <2>11. CASE FreeContext
    BY <2>11, FreeContextKeeps
  <2>12. CASE MakeBuckets
    BY <2>1, <2>12, MakeBucketsKeeps
  <2>13. CASE ClearFields
    BY <2>13, ClearFieldsKeeps
  <2>14. CASE ObjectsDestroyed
    BY <2>14, ObjectsDestroyedKeeps
  <2>15. QED BY <1>7, <2>2, <2>3, <2>4, <2>5, <2>6, <2>7, <2>8, <2>9, <2>10, <2>11, <2>12, <2>13, <2>14
            DEF Step
<1>8. CASE Lost \/ UNCHANGED vars
  BY <1>8, StutterKeeps DEF Lost
<1>9. QED BY <1>1, <1>2, <1>3, <1>4, <1>5, <1>6, <1>7, <1>8 DEF Next, Request

\* In every state the frame, the arrays, the tables, the names and the memory
\* fit together as IInv says.
THEOREM InvariantHolds == Spec => []IInv
<1>1. Init => IInv
  BY InitInv
<1>2. IInv /\ [Next]_vars => IInv'
  BY NextKeeps
<1>3. QED BY <1>1, <1>2, PTL DEF Spec

\* No block is given back twice, or read after it was given back.
THEOREM NeverFaults == Spec => []NoFault
<1>1. IInv => NoFault
  BY DEF IInv, NoFault
<1>2. QED BY <1>1, InvariantHolds, PTL

------------------------------------------------------------------------------
(* What the invariant says of every table.                                 *)

\* What HashConsistent says of one table.
Consistent(t) ==
  LET order == AppOrder(t)
      In(walk) == {walk[i] : i \in DOMAIN walk}
  IN  /\ HashFsck(t)
      /\ t.head # NULL =>
           /\ t.tail = order[Len(order)]
           /\ \A e \in In(order) :
                e \in In(Chain(t, BucketWith(t, e)))

LEMMA ConsistentTable ==
  ASSUME NEW t, NEW s, IsTable(t, s)
  PROVE  Consistent(t)
<1>1. Whole(t, s, ChainsOf(t))
  BY DEF IsTable
<1>2. AppOrder(t) = s /\ HashFsck(t)
  BY <1>1, WalksOfWhole, FsckOfWhole
<1>3. PICK E \in SUBSET (Nat \ {0}), n \in Nat, len \in Nat :
           /\ t \in TableOf(E, n) /\ E = DOMAIN t.hh /\ n = NumBuckets(t)
           /\ IsFiniteSet(E) /\ 0 \notin E /\ NULL \notin E
           /\ s \in Seq(E) /\ len = Len(s) /\ DOMAIN s = 1 .. len /\ Range(s) \subseteq E
           /\ \A i \in 1 .. len : s[i] \in E /\ s[i] \in Range(s)
           /\ len = 0 <=> s = << >>
  BY <1>1, WholeFacts
<1>4. t.head # NULL => s # << >> /\ t.tail = s[Len(s)]
  BY <1>1 DEF Whole, FirstOf, LastOf
<1>5. ASSUME NEW e \in Range(s)
      PROVE  e \in Range(Chain(t, BucketWith(t, e)))
  <2>1. e \in E /\ t.hh[e] \in Handle
    BY <1>3, TableFacts
  <2>2. n \in Nat \ {0}
    <3>1. s # << >>
      BY <1>3 DEF Range
    <3>2. QED BY <1>1, <1>3, <3>1 DEF Whole
  <2>3. PICK b \in 0 .. n - 1 : b = BucketWith(t, e)
    BY <1>3, <2>1, <2>2 DEF BucketWith, BucketOf, Handle
  <2>4. IsChain(t, s, b, Chain(t, b))
    BY <1>1, <1>3, <2>3 DEF Whole, ChainsOf
  <2>5. QED BY <2>3, <2>4 DEF IsChain
<1>6. QED BY <1>2, <1>4, <1>5 DEF Consistent, Range

\* The elements that a handle points to are elements of the table.
LEMMA LinksOfTable ==
  ASSUME NEW t, NEW s, IsTable(t, s), NEW e \in Range(s), NEW link \in Links
  PROVE  t.hh[e][link] \in Range(s) \cup {NULL}
<1>1. Whole(t, s, ChainsOf(t))
  BY DEF IsTable
<1>2. PICK E \in SUBSET (Nat \ {0}), n \in Nat, len \in Nat :
           /\ t \in TableOf(E, n) /\ E = DOMAIN t.hh /\ n = NumBuckets(t)
           /\ IsFiniteSet(E) /\ 0 \notin E /\ NULL \notin E
           /\ s \in Seq(E) /\ len = Len(s) /\ DOMAIN s = 1 .. len /\ Range(s) \subseteq E
           /\ \A i \in 1 .. len : s[i] \in E /\ s[i] \in Range(s)
           /\ len = 0 <=> s = << >>
  BY <1>1, WholeFacts
<1>3. e \in E /\ t.hh[e] \in Handle
  BY <1>2, TableFacts
<1>4. CASE link \in {"prev", "next"}
  <2>1. PICK i \in 1 .. len : s[i] = e
    BY <1>2 DEF Range
  <2>2. t.hh[e].prev = Before(s, i) /\ t.hh[e].next = After(s, i)
    BY <1>1, <1>2, <2>1 DEF Whole, Doubly
  <2>3. Before(s, i) \in Range(s) \cup {NULL}
    <3>1. i # 1 => i - 1 \in 1 .. len
      OBVIOUS
    <3>2. QED BY <1>2, <3>1 DEF Before
  <2>4. After(s, i) \in Range(s) \cup {NULL}
    <3>1. i # len => i + 1 \in 1 .. len
      OBVIOUS
    <3>2. QED BY <1>2, <3>1 DEF After
  <2>5. QED BY <1>4, <2>2, <2>3, <2>4
<1>5. CASE link \in {"hh_prev", "hh_next"}
  <2>1. n \in Nat \ {0}
    <3>1. s # << >>
      BY <1>2 DEF Range
    <3>2. QED BY <1>1, <1>2, <3>1 DEF Whole
  <2>2. PICK b \in 0 .. n - 1 : b = BucketWith(t, e)
    <3>1. PICK h \in Nat : h = t.hh[e].hashv
      BY <1>3 DEF Handle
    <3>2. BucketWith(t, e) = h % n
      BY <1>2, <3>1 DEF BucketWith, BucketOf
    <3>3. h % n \in 0 .. n - 1
      BY <2>1
    <3>4. QED BY <3>2, <3>3
  <2>3. PICK c : c = Chain(t, b)
    OBVIOUS
  <2>4. IsChain(t, s, b, c)
    BY <1>1, <1>2, <2>2, <2>3 DEF Whole, ChainsOf
  <2>5. DOMAIN c = 1 .. Len(c) /\ Len(c) \in Nat /\ \A i \in 1 .. Len(c) : c[i] \in Range(s)
    BY <2>4, ChainFacts
  <2>6. e \in Range(c)
    BY <2>2, <2>4 DEF IsChain
  <2>7. PICK i \in 1 .. Len(c) : c[i] = e
    BY <2>5, <2>6 DEF Range
  <2>8. t.hh[e].hh_prev = Before(c, i) /\ t.hh[e].hh_next = After(c, i)
    BY <2>4, <2>5, <2>7 DEF IsChain, Doubly
  <2>9. Before(c, i) \in Range(s) \cup {NULL}
    <3>1. i # 1 => i - 1 \in 1 .. Len(c)
      BY <2>5
    <3>2. QED BY <2>5, <3>1 DEF Before
  <2>10. After(c, i) \in Range(s) \cup {NULL}
    <3>1. PICK m \in Nat : m = Len(c)
      BY <2>5
    <3>2. i # m => i + 1 \in 1 .. m
      BY <3>1
    <3>3. QED BY <2>5, <3>1, <3>2 DEF After
  <2>11. QED BY <1>5, <2>8, <2>9, <2>10
<1>6. QED BY <1>4, <1>5 DEF Links

\* Whatever is going on, a table is whole.
LEMMA EveryTable ==
  ASSUME IInv, NEW s \in DOMAIN tables
  PROVE  /\ s \in TableScopes /\ IsTable(tables[s], Held(s))
         /\ ChainsShort(tables[s]) \/ (s = call.scope /\ call.step = "expand")
<1>1. CASE Alive
  <2>1. DOMAIN tables = TabledScopes \cup {FieldsOf(c) : c \in Range(lists[ConstructScope].elems)}
                          \cup (IF call.kind = "construct" THEN OwnScope ELSE {})
    BY <1>1 DEF IInv, TablesOK
  <2>2. TabledScopes \subseteq TableScopes /\ \A c \in Nat \ {0} : FieldsOf(c) \in TableScopes
    BY DEF TabledScopes, ConstructScope, VariableScope, TableScopes, FieldsOf
  <2>3. \A c \in Range(lists[ConstructScope].elems) : c \in Nat \ {0}
    <3>1. GoodLists(lists) /\ ConstructScope \in DOMAIN lists
      BY <1>1 DEF IInv, ListsOK, ContextScopes
    <3>2. QED BY <3>1, GoodListsFacts
  <2>4. call.kind = "construct" => OwnScope \subseteq TableScopes
    <3>1. SUFFICES ASSUME call.kind = "construct" PROVE OwnScope \subseteq TableScopes
      OBVIOUS
    <3>2. call \in Frames /\ call.obj # NULL
      BY <3>1, IdleFacts DEF IInv, FrameOK, Beginning, Destroying
    <3>3. call.obj \in Nat \ {0}
      BY <3>2 DEF Frames, NULL
    <3>4. QED BY <2>2, <3>1, <3>3, OwnFacts DEF OwnScope
  <2>5. s \in TableScopes
    BY <2>1, <2>2, <2>3, <2>4
  <2>6. IsTable(tables[s], Held(s))
    BY <1>1 DEF IInv, TablesOK
  <2>7. ChainsShort(tables[s]) \/ (s = call.scope /\ call.step = "expand")
    BY <1>1 DEF IInv, ChainsOK
  <2>8. QED BY <2>5, <2>6, <2>7
<1>2. CASE Beginning
  <2>1. /\ \A r \in DOMAIN lists : lists[r] = EmptyArray
        /\ tables = [r \in TabledScopes |-> NoTable]
        /\ s \in TabledScopes
    BY <1>2 DEF IInv, ListsOK
  <2>2. call.step \in {"new", "err_mem"} /\ ~Destroying
    BY <1>2, KindFacts, IdleFacts DEF IInv, FrameOK, Beginning, Making, Destroying
  <2>3. Held(s) = << >>
    BY <2>1, <2>2 DEF Held, EmptyArray
  <2>4. s \in TableScopes
    BY <2>1 DEF TabledScopes, ConstructScope, VariableScope, TableScopes
  <2>5. tables[s] = NoTable
    BY <2>1
  <2>6. QED BY <2>3, <2>4, <2>5, NoTableIs
<1>3. CASE ~Alive /\ ~Beginning
  <2>1. call = Idle
    BY <1>3 DEF IInv, FrameOK, Alive, Destroying
  <2>2. tables = << >>
    BY <1>3, <2>1, QuietIs DEF Quiet
  <2>3. s \in DOMAIN << >>
    BY ONLY <2>2, s \in DOMAIN tables
  <2>4. QED BY <2>3, NoLists
<1>4. QED BY <1>1, <1>2, <1>3

\* What a table holds, an array lists.
LEMMA HeldListed ==
  ASSUME IInv, NEW s \in DOMAIN tables
  PROVE  Range(Held(s)) \subseteq AllOf(lists)
<1>1. GoodLists(lists)
  BY DEF IInv, ListsOK
<1>2. CASE s \notin DOMAIN lists \/ Held(s) = << >>
  BY <1>2 DEF Held, Range
<1>3. CASE s \in DOMAIN lists /\ Held(s) # << >>
  <2>1. PICK q : q = lists[s].elems
    OBVIOUS
  <2>2. q \in Seq(Nat \ {0}) /\ Range(q) \subseteq AllOf(lists) /\ IsInjective(q)
    BY <1>1, <1>3, <2>1, GoodListsFacts
  <2>3. Held(s) = q \/ (Held(s) = Front(q) /\ s = call.scope /\ call.step \in {"hash", "buckets", "err_arr"})
    BY <1>3, <2>1 DEF Held
  <2>4. Range(Front(q)) \subseteq Range(q)
    <3>1. CASE q = << >>
      BY <3>1, EmptySeq DEF Front, Range
    <3>2. CASE q # << >>
      BY <2>2, <3>2, FrontFacts DEF IsFront
    <3>3. QED BY <3>1, <3>2
  <2>5. QED BY <2>2, <2>3, <2>4
<1>4. QED BY <1>2, <1>3

------------------------------------------------------------------------------
(* The properties.                                                         *)

Decided == fault \in BOOLEAN

LEMMA FaultType == Spec => []Decided
<1>1. Init => Decided
  BY DEF Init, Decided
<1>2. Decided /\ [Next]_vars => Decided'
  <2> SUFFICES ASSUME fault \in BOOLEAN, [Next]_vars PROVE fault' \in BOOLEAN
    BY DEF Decided
  <2>1. \A read, freed, obtained : Memory(read, freed, obtained) => fault' \in BOOLEAN
    BY DEF Memory
  <2>2. UNCHANGED fault => fault' \in BOOLEAN
    OBVIOUS
  <2>3. ASSUME Request PROVE fault' \in BOOLEAN
    BY <2>1, <2>2, <2>3
    DEF Request, CreatePlatform, DestroyPlatform, CreateContext, Refuse, DestroyContext, Make
  <2>4. ASSUME NewContextArray \/ ContextFails \/ NewOwnArray \/ Push PROVE fault' \in BOOLEAN
    BY <2>1, <2>2, <2>4 DEF NewContextArray, ContextFails, NewOwnArray, Push
  <2>5. ASSUME AddName \/ MakeBuckets \/ Expand \/ TakeBack \/ GiveUp PROVE fault' \in BOOLEAN
    BY <2>1, <2>2, <2>5
    DEF AddName, MakeBuckets, NameAdded, NameRefused, Expand, TakeBack, GiveUp, TableMemoryMoves
  <2>6. ASSUME ClearFields \/ DestroyObject \/ ObjectsDestroyed \/ FreeContext PROVE fault' \in BOOLEAN
    BY <2>1, <2>2, <2>6 DEF ClearFields, DestroyObject, ObjectsDestroyed, FreeContext
  <2>7. ASSUME Lost \/ UNCHANGED vars PROVE fault' \in BOOLEAN
    BY <2>7 DEF Lost, vars
  <2>8. QED BY <2>3, <2>4, <2>5, <2>6, <2>7 DEF Next, Step
<1>3. QED BY <1>1, <1>2, PTL DEF Spec

\* The variables have the values that the other properties expect of them.
THEOREM HeapTypes == Spec => []TypeOK
<1>1. ASSUME IInv, Decided PROVE TypeOK
  <2>1. status \in {"none", "platform", "live", "undefined"} /\ call \in Frames
        /\ err \in {"MAM_SUCCESS", "MAM_EINVAL", "MAM_ENOMEM"}
    BY <1>1 DEF IInv, FrameOK
  <2>2. DOMAIN lists \subseteq Scopes /\ \A s \in DOMAIN lists : lists[s] \in UtArrayOf(Nat \ {0})
    BY <1>1 DEF IInv, ListsOK, GoodLists
  <2>3. \A s \in DOMAIN tables : s \in TableScopes /\ tables[s].num_items \in Nat
    BY <1>1, EveryTable, TableHas
  <2>4. call.obj \in Nat
    BY <2>1 DEF Frames
  <2>5. call.kind = "destroy" => call.at \in 1 .. Len(DestroyOrder) + 1
    BY <1>1 DEF IInv, HeapOK, Destroying
  <2>6. QED BY <2>1, <1>1, <2>2, <2>3, <2>4, <2>5 DEF TypeOK, Decided
<1>2. QED BY <1>1, FaultType, InvariantHolds, PTL

\* Between two steps every hash table is whole, whichever additions failed.
THEOREM TablesConsistent == Spec => []HashConsistent
<1>1. ASSUME IInv PROVE HashConsistent
  <2>1. \A s \in DOMAIN tables : Consistent(tables[s])
    BY <1>1, EveryTable, ConsistentTable
  <2>2. QED BY <2>1 DEF HashConsistent, Consistent
<1>2. QED BY <1>1, InvariantHolds, PTL

\* No chain is longer than the threshold of uthash.h lets it become.
THEOREM ChainsStayShort == Spec => []ChainsBounded
<1>1. ASSUME IInv PROVE ChainsBounded
  <2>1. SUFFICES ASSUME NEW s \in DOMAIN tables, NEW b \in DOMAIN tables[s].buckets
                 PROVE  \/ tables[s].noexpand
                        \/ call.step = "expand" /\ call.scope = s
                        \/ Bound(tables[s].buckets[b].expand_mult, tables[s].buckets[b].count,
                                 tables[s].num_items, NumBuckets(tables[s]))
    BY DEF ChainsBounded, Bound
  <2>2. PICK t : t = tables[s]
    OBVIOUS
  <2>3. IsTable(t, Held(s)) /\ (ChainsShort(t) \/ (s = call.scope /\ call.step = "expand"))
    BY <1>1, <2>2, EveryTable
  <2>4. b \in 0 .. NumBuckets(t) - 1
    <3>1. t \in TableOf(DOMAIN t.hh, NumBuckets(t)) /\ NumBuckets(t) \in Nat
      BY <2>3 DEF IsTable, Whole
    <3>2. DOMAIN t.buckets = 0 .. NumBuckets(t) - 1
      BY <3>1, TableFacts
    <3>3. QED BY <2>2, <3>2
  <2>5. QED BY <2>2, <2>3, <2>4 DEF ChainsShort
<1>2. QED BY <1>1, InvariantHolds, PTL

\* Between two calls exactly the blocks that can be reached are allocated.
THEOREM NoLeaks == Spec => []NothingLeaks
<1>1. ASSUME IInv PROVE NothingLeaks
  <2>1. SUFFICES ASSUME call = Idle, status # "undefined" PROVE heap = Reachable
    BY DEF NothingLeaks
  <2>2. Listed = AllOf(lists)
    BY ListedIs
  <2>3. Reachable = ({b \in {PlatformBlock} : status # "none"} \cup {b \in {ContextBlock} : status = "live"})
          \cup HeadersOf(DOMAIN lists) \cup SlotsOf(Roomy(lists)) \cup ObjectsOf(AllOf(lists)) \cup TablesOf(tables)
    BY <2>2 DEF Reachable, HeadersOf, SlotsOf, Roomy, ObjectsOf, TablesOf
  <2>4. CASE status = "live"
    <3>1. ~Destroying /\ ObjectOwed = {} /\ call.step # "buckets"
      BY <2>1, IdleIs
    <3>2. heap = Owed({PlatformBlock}, {ContextBlock}, lists, tables, {})
      BY <1>1, <2>4, <3>1, LiveFacts
    <3>3. QED BY <2>3, <2>4, <3>2 DEF Owed
  <2>5. CASE status # "live"
    <3>1. ~Alive
      BY <2>1, <2>5 DEF Alive
    <3>2. Quiet
      BY <1>1, <2>1, <3>1, QuietIs
    <3>3. heap = PlatformOwed /\ DOMAIN lists = {} /\ Roomy(lists) = {} /\ AllOf(lists) = {} /\ TablesOf(tables) = {}
      BY <3>2, NoLists DEF Quiet
    <3>4. HeadersOf({}) = {} /\ SlotsOf({}) = {} /\ ObjectsOf({}) = {}
      BY DEF HeadersOf, SlotsOf, ObjectsOf
    <3>5. QED BY <2>3, <2>5, <3>3, <3>4 DEF PlatformOwed
  <2>6. QED BY <2>4, <2>5
<1>2. QED BY <1>1, InvariantHolds, PTL

\* No array and no table points to a block that is not allocated.
THEOREM NoDangling == Spec => []NothingDangles
<1>1. ASSUME IInv PROVE NothingDangles
  <2>1. SUFFICES ASSUME status = "live", call.kind # "destroy" PROVE
          /\ \A scope \in DOMAIN lists : Header(scope) \in heap
          /\ \A id \in Listed : Object(id) \in heap
          /\ \A scope \in DOMAIN tables :
               LET t == tables[scope]
                   order == AppOrder(t)
                   pointers == {t.head, t.tail} \cup
                     UNION {{t.hh[order[i]][link] : link \in {"prev", "next", "hh_prev", "hh_next"}} :
                              i \in DOMAIN order}
               IN  \A id \in pointers \ {NULL} : Object(id) \in heap
    BY DEF NothingDangles
  <2>2. heap = Owed({PlatformBlock}, {ContextBlock}, lists, tables, ObjectOwed) \cup Spare
    BY <1>1, <2>1, LiveFacts DEF Destroying
  <2>3. \A scope \in DOMAIN lists : Header(scope) \in heap
    BY <2>2 DEF Owed, HeadersOf
  <2>4. \A id \in AllOf(lists) : Object(id) \in heap
    BY <2>2 DEF Owed, ObjectsOf
  <2>5. ASSUME NEW s \in DOMAIN tables, NEW t, t = tables[s], NEW order, order = AppOrder(t)
        PROVE  /\ {t.head, t.tail} \subseteq AllOf(lists) \cup {NULL}
               /\ \A i \in DOMAIN order : \A link \in Links : t.hh[order[i]][link] \in AllOf(lists) \cup {NULL}
    <3>1. IsTable(t, Held(s)) /\ Range(Held(s)) \subseteq AllOf(lists)
      BY <1>1, <2>5, EveryTable, HeldListed
    <3>2. order = Held(s)
      BY <2>5, <3>1, WalksOfWhole DEF IsTable
    <3>3. {t.head, t.tail} \subseteq Range(Held(s)) \cup {NULL}
      <4>1. CASE Held(s) = << >>
        BY <3>1, <4>1 DEF IsTable, Whole, FirstOf, LastOf
      <4>2. CASE Held(s) # << >>
        BY <3>1, <4>2, TableHas
      <4>3. QED BY <4>1, <4>2
    <3>4. \A i \in DOMAIN order : order[i] \in Range(Held(s))
      BY <3>2 DEF Range
    <3>5. QED BY <3>1, <3>3, <3>4, LinksOfTable
  <2>6. QED BY <2>3, <2>4, <2>5, ListedIs DEF Links
<1>2. QED BY <1>1, InvariantHolds, PTL

\* A look-up by name finds the object of that name that is listed, and nothing
\* if there is none.
THEOREM NamesFound == Spec => []FoundByName
<1>1. ASSUME IInv PROVE FoundByName
  <2>1. SUFFICES ASSUME status = "live", call = Idle,
                        NEW s \in DOMAIN tables, NEW name \in NamesOf[KindOf(s)] \ {NoName}
                 PROVE  {id \in ListedIn(s) : tables[s].hh[id].key = name}
                          = {HashFind(tables[s], name)} \ {NULL}
    BY DEF FoundByName
  <2>2. PICK t : t = tables[s]
    OBVIOUS
  <2>3. PICK q : q = Held(s)
    OBVIOUS
  <2>4. Alive /\ ~Destroying
    BY <1>1, <2>1, IdleIs DEF Alive
  <2>5. s \in TableScopes /\ IsTable(t, q) /\ NamesApart(t, q)
    BY <1>1, <2>1, <2>2, <2>3, <2>4, EveryTable, LiveFacts
  <2>6. s \in DOMAIN lists
    <3>1. s \in TabledScopes \cup {FieldsOf(c) : c \in Range(lists[ConstructScope].elems)}
      BY <1>1, <2>1, <2>4, IdleIs DEF IInv, TablesOK
    <3>2. ContextScopes \cup OwnedOf(lists) \subseteq DOMAIN lists
      BY <1>1, <2>4 DEF IInv, ListsOK
    <3>3. QED BY <3>1, <3>2, ScopeFacts DEF OwnedOf
  <2>7. ListedIn(s) = Range(q)
    <3>1. q = lists[s].elems
      BY <2>1, <2>3, <2>6, IdleIs
    <3>2. QED BY <3>1, ListedIs
  <2>8. name \in DOMAIN HASH_FUNCTION
    <3>1. KindOf(s) \in Named
      BY <2>5 DEF TableScopes, KindOf, Named
    <3>2. QED BY <2>1, <3>1, NamesOfAssumption
  <2>9. PICK x : x = HashFind(t, name)
    OBVIOUS
  <2>10. IsFound(x, t, q, name)
    BY <2>5, <2>8, <2>9, HashFindOfWhole DEF IsTable
  <2>11. {id \in Range(q) : t.hh[id].key = name} = {x} \ {NULL}
    <3>1. NULL \notin Range(q)
      BY <2>5, TableHas DEF NULL
    <3>2. \A y, z \in Range(q) : t.hh[y].key = name /\ t.hh[z].key = name => y = z
      BY <2>1, <2>5 DEF NamesApart
    <3>3. QED BY <2>10, <3>1, <3>2 DEF IsFound
  <2>12. QED BY <2>2, <2>7, <2>9, <2>11
<1>2. QED BY <1>1, InvariantHolds, PTL

------------------------------------------------------------------------------
(* The refinement of NamedObjects.  What GivenNames says of a scope depends *)
(* on its table and the object of the call only, so that most steps leave   *)
(* it as it is.                                                             *)

\* What GivenNames says of one table, when the call has this object.
GivenIn(t, obj) ==
  LET order == AppOrder(t)
      given == {i \in DOMAIN order : order[i] # obj}
  IN  [i \in 1 .. Cardinality(given) |-> t.hh[order[i]].key]

\* The names of the elements of s.
NamesIn(t, s) == [i \in 1 .. Len(s) |-> t.hh[s[i]].key]

\* The scopes that GivenNames has.
NamedScopes == {s \in DOMAIN tables : call.kind # "construct" \/ s # Own("construct", call.obj)}
Open == status \in {"live", "undefined"} /\ call.kind # "destroy"

LEMMA GivenAll ==
  ASSUME NEW t, NEW s, IsTable(t, s), NEW o, o \notin Range(s)
  PROVE  GivenIn(t, o) = NamesIn(t, s)
<1>1. AppOrder(t) = s
  BY WalksOfWhole DEF IsTable
<1>2. PICK n \in Nat : n = Len(s) /\ DOMAIN s = 1 .. n
  BY TableHas, LenProperties
<1>3. {i \in DOMAIN s : s[i] # o} = 1 .. n
  <2>1. \A i \in 1 .. n : s[i] \in Range(s)
    BY <1>2 DEF Range
  <2>2. QED BY <1>2, <2>1
<1>4. Cardinality({i \in DOMAIN s : s[i] # o}) = n
  BY <1>3, CountToN
<1>5. QED BY <1>1, <1>2, <1>4 DEF GivenIn, NamesIn

LEMMA GivenButLast ==
  ASSUME NEW t, NEW s, IsTable(t, s), s # << >>, NEW o, o = LastOf(s)
  PROVE  GivenIn(t, o) = NamesIn(t, Front(s))
<1>1. AppOrder(t) = s
  BY WalksOfWhole DEF IsTable
<1>2. PICK n, q : n \in Nat /\ n = Len(s) /\ DOMAIN s = 1 .. n /\ n > 0 /\ q = Front(s)
  <2>1. Len(s) # 0
    BY TableHas, EmptySeq
  <2>2. QED BY <2>1, TableHas, LenProperties
<1>3. Len(q) = n - 1 /\ \A i \in 1 .. n - 1 : q[i] = s[i]
  <2>1. IsFront(q, s, DOMAIN t.hh)
    BY <1>2, TableHas, FrontFacts
  <2>2. QED BY <1>2, <2>1 DEF IsFront
<1>4. o = s[n] /\ \A i \in 1 .. n : s[i] = s[n] => i = n
  <2>1. IsInjective(s)
    BY TableHas
  <2>2. QED BY <1>2, <2>1 DEF IsInjective, LastOf
<1>5. {i \in DOMAIN s : s[i] # o} = 1 .. n - 1
  BY <1>2, <1>4
<1>6. Cardinality({i \in DOMAIN s : s[i] # o}) = n - 1
  <2>1. n - 1 \in Nat
    BY <1>2
  <2>2. QED BY <1>5, <2>1, CountToN
<1>7. GivenIn(t, o) = [i \in 1 .. n - 1 |-> t.hh[s[i]].key]
  BY <1>1, <1>6 DEF GivenIn
<1>8. NamesIn(t, q) = [i \in 1 .. n - 1 |-> t.hh[q[i]].key]
  BY <1>3 DEF NamesIn
<1>9. \A i \in 1 .. n - 1 : t.hh[q[i]].key = t.hh[s[i]].key
  BY <1>3
<1>10. QED BY <1>2, <1>7, <1>8, <1>9

\* The names of elements are the same in both tables.
LEMMA NamesSame ==
  ASSUME NEW r, NEW t, NEW S, NEW s \in Seq(S), SameNames(r, t, Range(s))
  PROVE  NamesIn(r, s) = NamesIn(t, s)
<1>1. \A i \in 1 .. Len(s) : s[i] \in Range(s)
  BY LenProperties DEF Range
<1>2. \A i \in 1 .. Len(s) : r.hh[s[i]].key = t.hh[s[i]].key
  BY <1>1 DEF SameNames
<1>3. QED BY <1>2 DEF NamesIn

\* A table with one more element has its name after the others.
LEMMA NamesAppended ==
  ASSUME NEW r, NEW t, NEW S, NEW q \in Seq(S), NEW e \in S, SameNames(r, t, Range(q))
  PROVE  NamesIn(r, Append(q, e)) = Append(NamesIn(t, q), r.hh[e].key)
<1>1. PICK n, s, K, f, g :
        /\ n \in Nat /\ n = Len(q) /\ s = Append(q, e) /\ K = {x.key : x \in {r.hh[y] : y \in S} \cup {t.hh[y] : y \in S}}
        /\ f = NamesIn(t, q) /\ g = NamesIn(r, s)
  BY LenProperties
<1>2. n \in Nat /\ Len(s) = n + 1 /\ s[n + 1] = e /\ s \in Seq(S) /\ \A i \in 1 .. n : s[i] = q[i]
  BY <1>1, AppendProperties
<1>3. \A i \in 1 .. n : q[i] \in S /\ q[i] \in Range(q)
  BY <1>1, LenProperties, ElementOfSeq DEF Range
<1>4. \A y \in S : r.hh[y].key \in K /\ t.hh[y].key \in K
  BY <1>1
<1>5. f = [i \in 1 .. n |-> t.hh[q[i]].key]
  BY <1>1 DEF NamesIn
<1>6. f \in [1 .. n -> K]
  BY <1>3, <1>4, <1>5
<1>7. f \in Seq(K) /\ Len(f) = n
  <2>1. f \in Seq(K)
    BY <1>2, <1>6, SeqDef
  <2>2. QED BY <1>2, <1>6, <2>1, LenProperties
<1>8. PICK h, k : k = r.hh[e].key /\ h = Append(f, k)
  OBVIOUS
<1>9. h \in Seq(K) /\ Len(h) = n + 1 /\ h[n + 1] = k /\ \A i \in 1 .. n : h[i] = f[i]
  BY <1>4, <1>7, <1>8, AppendProperties
<1>10. g = [i \in 1 .. n + 1 |-> r.hh[s[i]].key]
  BY <1>1, <1>2 DEF NamesIn
<1>11. \A i \in 1 .. n + 1 : g[i] = h[i]
  <2>1. g[n + 1] = k
    BY <1>2, <1>8, <1>10
  <2>2. \A i \in 1 .. n : g[i] = f[i]
    <3>1. \A i \in 1 .. n : g[i] = r.hh[q[i]].key /\ f[i] = t.hh[q[i]].key
      BY <1>2, <1>5, <1>10
    <3>2. QED BY <1>3, <3>1 DEF SameNames
  <2>3. QED BY <1>2, <1>8, <1>9, <2>1, <2>2
<1>12. DOMAIN h = 1 .. n + 1
  BY <1>9, LenProperties
<1>13. g = h
  <2>1. h = [i \in 1 .. n + 1 |-> h[i]]
    BY <1>9, <1>12, LenProperties
  <2>2. QED BY <1>10, <1>11, <2>1
<1>14. QED BY <1>1, <1>8, <1>13

\* The names as a function on the scopes.
NamesAre ==
  /\ Open => GivenNames = [s \in NamedScopes |-> GivenIn(tables[s], call.obj)]
  /\ ~Open => GivenNames = << >>

LEMMA GivenNamesAre == NamesAre
<1>1. CASE Open
  <2>1. [s \in NamedScopes |-> GivenIn(tables[s], call.obj)]
          = [scope \in {s \in DOMAIN tables : call.kind # "construct" \/ s # Own("construct", call.obj)} |->
               LET order == AppOrder(tables[scope])
                   given == {i \in DOMAIN order : order[i] # call.obj}
               IN  [i \in 1 .. Cardinality(given) |-> tables[scope].hh[order[i]].key]]
    BY DEF NamedScopes, GivenIn
  <2>2. QED BY <1>1, <2>1 DEF GivenNames, Open, NamesAre
<1>2. CASE ~Open
  BY <1>2 DEF GivenNames, Open, NamesAre
<1>3. QED BY <1>1, <1>2

LEMMA NamesAreNext == NamesAre'
BY GivenNamesAre, PTL

LEMMA NamesStay ==
  ASSUME Open, Open', NamedScopes' = NamedScopes,
         \A s \in NamedScopes : GivenIn(tables'[s], call'.obj) = GivenIn(tables[s], call.obj)
  PROVE  GivenNames' = GivenNames
<1>1. /\ GivenNames = [s \in NamedScopes |-> GivenIn(tables[s], call.obj)]
      /\ GivenNames' = [s \in NamedScopes' |-> GivenIn(tables'[s], call'.obj)]
  BY GivenNamesAre, NamesAreNext DEF NamesAre
<1>2. QED BY <1>1

LEMMA NoNames ==
  ASSUME ~Open, ~Open'
  PROVE  GivenNames' = GivenNames
BY GivenNamesAre, NamesAreNext DEF NamesAre

\* The tables and the object of the call are the same.
LEMMA SameFrame ==
  ASSUME tables' = tables, call'.kind = call.kind, call'.obj = call.obj, Alive <=> Alive'
  PROVE  GivenNames' = GivenNames
<1>1. Open' <=> Open
  BY DEF Open, Alive
<1>2. NamedScopes' = NamedScopes
  BY DEF NamedScopes, Own
<1>3. QED BY <1>1, <1>2, NamesStay, NoNames

\* The object of a call is in no table, but for one that is to expand.
LEMMA ObjectApart ==
  ASSUME IInv, status = "live", ~Destroying, NEW s \in DOMAIN tables, NEW o,
         o = NULL \/ (o = call.obj /\ ~(s = call.scope /\ call.step = "expand"))
  PROVE  o \notin Range(Held(s))
<1>1. GoodLists(lists) /\ Range(Held(s)) \subseteq AllOf(lists) /\ ~Beginning
  BY LiveFacts, HeldListed
<1>2. CASE o = NULL
  <2>1. \A r \in DOMAIN lists : NULL \notin Range(lists[r].elems)
    BY <1>1, GoodListsFacts DEF NULL
  <2>2. NULL \notin AllOf(lists)
    BY <2>1 DEF AllOf
  <2>3. QED BY <1>1, <1>2, <2>2
<1>3. CASE o # NULL
  <2>1. o = call.obj /\ ~(s = call.scope /\ call.step = "expand")
    BY <1>3
  <2>2. Making
    BY <1>1, <1>3, <2>1, IdleFacts DEF IInv, FrameOK
  <2>3. CASE Unlisted
    <3>1. call.obj \notin AllOf(lists)
      BY <2>2, <2>3, ListedIs DEF IInv, ListsOK
    <3>2. QED BY <1>1, <2>1, <3>1
  <2>4. CASE ~Unlisted
    <3>1. PICK scope, elems : scope = call.scope /\ elems = lists[scope].elems
      OBVIOUS
    <3>2. call.step \in StepsOf(call.kind)
      BY <2>2, MakingFacts
    <3>3. call.kind \in Named /\ call.step \in {"hash", "buckets", "expand", "err_arr"}
      BY <2>4, <3>2 DEF StepsOf, Unlisted
    <3>4. /\ scope \in DOMAIN lists
          /\ Held(scope) = (IF call.step = "expand" THEN elems ELSE Front(elems))
          /\ \A r : r # scope => Held(r) = (IF r \in DOMAIN lists THEN lists[r].elems ELSE << >>)
          /\ call.obj \notin Range(Front(elems)) /\ Range(Front(elems)) \cup {call.obj} = Range(elems)
      BY <2>2, <3>1, <3>3, NamingFacts
    <3>5. CASE s = scope
      BY <2>1, <3>1, <3>4, <3>5
    <3>6. CASE s # scope
      <4>1. Range(<< >>) = {}
        BY DEF Range
      <4>2. s \in DOMAIN lists => Range(lists[s].elems) \cap Range(lists[scope].elems) = {}
        BY <1>1, <3>4, <3>6 DEF GoodLists
      <4>3. QED BY <2>1, <3>1, <3>4, <3>6, <4>1, <4>2
    <3>7. QED BY <3>5, <3>6
  <2>5. QED BY <2>3, <2>4
<1>4. QED BY <1>2, <1>3

\* So the names given in a table are those of its elements.
LEMMA GivenHere ==
  ASSUME IInv, status = "live", ~Destroying, NEW s \in DOMAIN tables, NEW o,
         o = NULL \/ (o = call.obj /\ ~(s = call.scope /\ call.step = "expand"))
  PROVE  GivenIn(tables[s], o) = NamesIn(tables[s], Held(s))
<1>1. PICK held : held = Held(s)
  OBVIOUS
<1>2. IsTable(tables[s], held) /\ o \notin Range(held)
  BY <1>1, LiveFacts, ObjectApart
<1>3. QED BY <1>1, <1>2, GivenAll

\* A step that adds a name, and the scope of a construct if it is that of one.
Grows(scope, name, before, opened) ==
  /\ name = NoName \/ name \notin {before[i] : i \in DOMAIN before}
  /\ opened = {} \/ \E o : opened = {o}
  /\ opened \subseteq TableScopes /\ opened \cap NamedScopes = {} /\ NamedScopes' = NamedScopes \cup opened
  /\ \A s \in opened : GivenIn(tables'[s], call'.obj) = << >>
  /\ before = GivenIn(tables[scope], call.obj) /\ GivenIn(tables'[scope], call'.obj) = Append(before, name)
  /\ \A s \in NamedScopes :
       s # scope => GivenIn(tables'[s], call'.obj) = GivenIn(tables[s], call.obj)

LEMMA NamesGrow ==
  ASSUME Open, Open', err' = "MAM_SUCCESS", NEW scope \in NamedScopes, NEW name \in DOMAIN HASH_FUNCTION,
         NEW before, NEW opened, Grows(scope, name, before, opened)
  PROVE  Abstract!Next
<1>1. PICK g : g = GivenNames
  OBVIOUS
<1>2. /\ g = [s \in NamedScopes |-> GivenIn(tables[s], call.obj)]
      /\ GivenNames' = [s \in NamedScopes' |-> GivenIn(tables'[s], call'.obj)]
  BY <1>1, GivenNamesAre, NamesAreNext DEF NamesAre
<1>3. DOMAIN g = NamedScopes /\ g[scope] = before
  BY <1>2 DEF Grows
<1>4. GivenNames' = [s \in DOMAIN g \cup opened |->
                       IF s \in opened THEN << >> ELSE IF s = scope THEN Append(g[s], name) ELSE g[s]]
  BY <1>2, <1>3 DEF Grows
<1>5. name = NoName \/ name \notin Abstract!Given(scope)
  BY <1>1, <1>3 DEF Abstract!Given, Grows
<1>6. Abstract!Add(scope, name, opened)
  BY <1>1, <1>4, <1>5 DEF Abstract!Add
<1>7. opened \in {{s} : s \in DOMAIN GivenNames' \ DOMAIN GivenNames} \cup {{}}
  BY <1>1, <1>2, <1>3 DEF Grows
<1>8. QED BY <1>1, <1>3, <1>6, <1>7 DEF Abstract!Next, Grows

\* The call has added its element, and returns.
LEMMA AdditionReturns ==
  ASSUME IInv, status = "live", Making, call.kind \in Named, call.step \in {"hash", "buckets", "expand"},
         NEW scope, scope = call.scope, NEW t, tables' = [tables EXCEPT ![scope] = t],
         status' = "live", Return,
         NEW elems, elems = lists[scope].elems, IsTable(t, elems),
         NEW q, q = Front(elems), SameNames(t, tables[scope], Range(q)),
         NEW name, name = t.hh[call.obj].key, Unnamed(tables[scope], q, name)
  PROVE  Abstract!Next
<1>1. /\ Alive /\ ~Destroying /\ scope \in DOMAIN tables
      /\ elems \in Seq(Nat \ {0}) /\ IsInjective(elems) /\ elems # << >> /\ call.obj = LastOf(elems)
      /\ Held(scope) = (IF call.step = "expand" THEN elems ELSE q)
      /\ elems = Append(q, call.obj) /\ Range(q) \cup {call.obj} = Range(elems)
      /\ call.kind = "construct" => OwnScope = {FieldsOf(call.obj)} /\ scope = ConstructScope
      /\ call.kind # "construct" => OwnScope = {}
  BY NamingFacts
<1>2. q \in Seq(Nat \ {0}) /\ call.obj \in Nat \ {0}
  <2>1. IsFront(q, elems, Nat \ {0})
    BY <1>1, FrontFacts
  <2>2. QED BY <2>1, MakingFacts DEF IsFront
<1>3. IsTable(tables[scope], Held(scope))
  BY <1>1, LiveFacts
<1>4. PICK before : before = GivenIn(tables[scope], call.obj)
  OBVIOUS
<1>5. before = NamesIn(tables[scope], q)
  <2>1. CASE call.step = "expand"
    <3>1. IsTable(tables[scope], elems)
      BY <1>1, <1>3, <2>1
    <3>2. QED BY <1>1, <1>4, <3>1, GivenButLast
  <2>2. CASE call.step # "expand"
    BY <1>1, <1>4, <2>2, GivenHere
  <2>3. QED BY <2>1, <2>2
<1>6. call' = Idle /\ call'.obj = NULL /\ call'.kind = "none"
  BY IdleFacts DEF Return
<1>7. GivenIn(t, NULL) = Append(before, name)
  <2>1. NULL \notin Range(elems)
    <3>1. GoodLists(lists) /\ scope \in DOMAIN lists
      BY <1>1, LiveFacts, MakingFacts
    <3>2. QED BY <3>1, GoodListsFacts DEF NULL
  <2>2. GivenIn(t, NULL) = NamesIn(t, elems)
    BY <2>1, GivenAll
  <2>3. NamesIn(t, Append(q, call.obj)) = Append(NamesIn(tables[scope], q), t.hh[call.obj].key)
    BY <1>2, NamesAppended
  <2>4. QED BY <1>1, <1>5, <2>2, <2>3
<1>8. name \in DOMAIN HASH_FUNCTION
  <2>1. PICK n \in Nat : t \in TableOf(DOMAIN t.hh, n)
    BY WholeFacts DEF IsTable
  <2>2. call.obj \in DOMAIN t.hh
    BY <1>1, TableHas
  <2>3. t.hh[call.obj] \in Handle
    BY <2>1, <2>2, TableFacts
  <2>4. QED BY <2>3 DEF Handle
<1>9. name = NoName \/ name \notin {before[i] : i \in DOMAIN before}
  <2>1. SUFFICES ASSUME name # NoName, NEW i \in DOMAIN before PROVE before[i] # name
    OBVIOUS
  <2>2. i \in 1 .. Len(q) /\ before[i] = tables[scope].hh[q[i]].key
    BY <1>5, <2>1 DEF NamesIn
  <2>3. q[i] \in Range(q)
    BY <1>2, <2>2, LenProperties DEF Range
  <2>4. QED BY <2>1, <2>2, <2>3 DEF Unnamed
<1>10. PICK opened : opened = IF call.kind = "construct" THEN {FieldsOf(call.obj)} ELSE {}
  OBVIOUS
<1>11. Own("construct", call.obj) = FieldsOf(call.obj)
  BY DEF Own, FieldsOf
<1>12. NamedScopes = DOMAIN tables \ opened
  BY <1>10, <1>11 DEF NamedScopes
<1>13. opened \subseteq DOMAIN tables /\ opened \subseteq TableScopes /\ scope \notin opened
  <2>1. opened \subseteq DOMAIN tables
    BY <1>1, <1>10 DEF IInv, TablesOK
  <2>2. opened \subseteq TableScopes
    BY <2>1, EveryTable
  <2>3. ConstructScope # FieldsOf(call.obj)
    BY ScopesDiffer DEF ConstructScope, FieldsOf
  <2>4. QED BY <1>1, <1>10, <2>1, <2>2, <2>3
<1>14. NamedScopes' = NamedScopes \cup opened
  <2>1. NamedScopes' = DOMAIN tables
    BY <1>1, <1>6 DEF NamedScopes
  <2>2. QED BY <1>12, <1>13, <2>1
<1>15. \A s \in opened : GivenIn(tables'[s], call'.obj) = << >>
  <2>1. SUFFICES ASSUME NEW s \in opened PROVE GivenIn(tables'[s], call'.obj) = << >>
    OBVIOUS
  <2>2. s \in OwnScope /\ s # scope /\ s \in DOMAIN tables
    BY <1>1, <1>10, <1>13, <2>1
  <2>3. s \in DOMAIN lists => lists[s].elems = << >>
    BY <2>2 DEF IInv, ListsOK
  <2>4. Held(s) = << >>
    BY <1>1, <2>2, <2>3 DEF Held
  <2>5. GivenIn(tables[s], NULL) = NamesIn(tables[s], << >>)
    BY <1>1, <2>2, <2>4, GivenHere
  <2>6. NamesIn(tables[s], << >>) = << >>
    BY EmptySeq DEF NamesIn
  <2>7. QED BY <1>6, <2>2, <2>5, <2>6
<1>16. \A s \in NamedScopes :
         s # scope => GivenIn(tables'[s], call'.obj) = GivenIn(tables[s], call.obj)
  <2>1. SUFFICES ASSUME NEW s \in DOMAIN tables, s # scope
                 PROVE  GivenIn(tables'[s], call'.obj) = GivenIn(tables[s], call.obj)
    BY DEF NamedScopes
  <2>2. /\ GivenIn(tables[s], call.obj) = NamesIn(tables[s], Held(s))
        /\ GivenIn(tables[s], NULL) = NamesIn(tables[s], Held(s))
    BY <1>1, <2>1, GivenHere
  <2>3. QED BY <1>6, <2>1, <2>2
<1>17. Open /\ Open' /\ err' = "MAM_SUCCESS"
  <2>1. err = "MAM_SUCCESS"
    BY DEF IInv, FrameOK
  <2>2. Open
    BY <1>1 DEF Open, Destroying
  <2>3. Open'
    BY <1>6 DEF Open
  <2>4. QED BY <2>1, <2>2, <2>3 DEF Return
<1>18. scope \in NamedScopes /\ tables'[scope] = t /\ opened \cap NamedScopes = {}
  BY <1>1, <1>12, <1>13
<1>19. opened = {} \/ \E o : opened = {o}
  BY <1>10
<1>20. Grows(scope, name, before, opened)
  BY <1>4, <1>6, <1>7, <1>9, <1>13, <1>14, <1>15, <1>16, <1>18, <1>19 DEF Grows
<1>21. QED BY <1>8, <1>17, <1>18, <1>20, NamesGrow

\* What is known of the table after HASH_ADD_KEYPTR.
AddedTo(scope, t, elems) ==
  /\ scope = call.scope /\ t = HashAdd(tables[scope], call.obj, call.name) /\ elems = lists[scope].elems

LEMMA AddedFacts ==
  ASSUME IInv, status = "live", Making, call.step \in {"hash", "buckets"}, NEW scope, NEW t, NEW elems,
         AddedTo(scope, t, elems), NEW q, q = Front(elems)
  PROVE  /\ IsTable(tables[scope], q) /\ NamesApart(tables[scope], q)
         /\ Unnamed(tables[scope], q, call.name) /\ call.name \in DOMAIN HASH_FUNCTION
         /\ IsTable(t, elems) /\ DOMAIN t.hh \subseteq Range(elems) /\ t.hh[call.obj].key = call.name
         /\ SameNames(t, tables[scope], Range(q))
         /\ Full(t, BucketWith(t, call.obj)) => IsExpanding(t, call.obj)
         /\ ~Full(t, BucketWith(t, call.obj)) => ChainsShort(t)
<1>1. scope = call.scope /\ t = HashAdd(tables[scope], call.obj, call.name) /\ elems = lists[scope].elems
  BY DEF AddedTo
<1>2. call.kind \in Named /\ call.obj \in Nat \ {0}
  BY MakingFacts DEF StepsOf
<1>3. /\ Alive /\ ~Destroying /\ scope \in DOMAIN tables /\ Held(scope) = q
      /\ elems = Append(q, call.obj) /\ call.obj \notin Range(q) /\ Range(q) \cup {call.obj} = Range(elems)
  BY <1>1, <1>2, NamingFacts
<1>4. PICK name : name = call.name
  OBVIOUS
<1>5. /\ IsTable(tables[scope], q) /\ DOMAIN tables[scope].hh \subseteq Range(q)
      /\ NamesApart(tables[scope], q) /\ name \in DOMAIN HASH_FUNCTION
  <2>1. Orphans(scope) = {}
    BY DEF Orphans
  <2>2. name \in DOMAIN HASH_FUNCTION
    BY <1>4 DEF IInv, FrameOK, Frames
  <2>3. QED BY <1>3, <2>1, <2>2, LiveFacts
<1>6. ChainsShort(tables[scope]) /\ Unnamed(tables[scope], q, name)
  BY <1>1, <1>2, <1>3, <1>4 DEF IInv, ChainsOK, NamesOK
<1>7. HasAdded(t, tables[scope], q, call.obj, name)
  BY <1>1, <1>2, <1>3, <1>4, <1>5, <1>6, TableAdds
<1>8. /\ IsTable(t, elems) /\ DOMAIN t.hh \subseteq Range(elems) /\ t.hh[call.obj].key = name
      /\ SameNames(t, tables[scope], Range(q))
      /\ Full(t, BucketWith(t, call.obj)) => IsExpanding(t, call.obj)
      /\ ~Full(t, BucketWith(t, call.obj)) => ChainsShort(t)
  <2>1. Range(q) \subseteq DOMAIN tables[scope].hh \ {call.obj}
    BY <1>3, <1>5, TableHas
  <2>2. QED BY <1>3, <1>5, <1>7, <2>1 DEF HasAdded, SameNames
<1>9. QED BY <1>4, <1>5, <1>6, <1>8

\* A step that replaces one table by another with the same names.
LEMMA NamesTurn ==
  ASSUME IInv, status = "live", ~Destroying, status' = "live", NEW scope \in DOMAIN tables,
         call'.kind = call.kind, call'.obj = call.obj, NEW t, tables' = [tables EXCEPT ![scope] = t],
         GivenIn(t, call.obj) = GivenIn(tables[scope], call.obj)
  PROVE  GivenNames' = GivenNames
<1>1. Open /\ Open'
  BY DEF Open, Destroying
<1>2. NamedScopes' = NamedScopes
  BY DEF NamedScopes, Own
<1>3. \A s \in NamedScopes : GivenIn(tables'[s], call'.obj) = GivenIn(tables[s], call.obj)
  BY DEF NamedScopes
<1>4. QED BY <1>1, <1>2, <1>3, NamesStay

\* HASH_ADD_KEYPTR adds the name, unless the table has to be expanded first or
\* there was no memory.
LEMMA NameTurnsNames ==
  ASSUME IInv, call.step \in {"hash", "buckets"}, NameAdded \/ NameRefused,
         status # "undefined", UNCHANGED <<status, lists>>
  PROVE  Abstract!Next \/ GivenNames' = GivenNames
<1>1. PICK scope, table, elems, q :
        scope = call.scope /\ table = tables[scope] /\ elems = lists[scope].elems /\ q = Front(elems)
  OBVIOUS
<1>2. Making /\ call.step \in {"hash", "buckets"}
  BY IdleFacts DEF IInv, FrameOK
<1>3. call.kind \in Named /\ call.obj \in Nat \ {0}
  BY <1>2, MakingFacts DEF StepsOf
<1>4. /\ status = "live" /\ ~Destroying /\ scope \in DOMAIN tables
      /\ elems \in Seq(Nat \ {0}) /\ IsInjective(elems) /\ elems # << >> /\ call.obj = LastOf(elems)
      /\ Held(scope) = q /\ call.obj \notin Range(q)
  BY <1>1, <1>2, <1>3, NamingFacts
<1>5. q \in Seq(Nat \ {0})
  <2>1. IsFront(q, elems, Nat \ {0})
    BY <1>1, <1>4, FrontFacts
  <2>2. QED BY <2>1 DEF IsFront
<1>6. IsTable(table, q) /\ GivenIn(table, call.obj) = NamesIn(table, q)
  <2>1. IsTable(table, q)
    BY <1>1, <1>4, LiveFacts
  <2>2. QED BY <1>4, <2>1, GivenAll
<1>7. status' = "live" /\ lists' = lists
  BY <1>4
<1>8. CASE /\ tables' = [tables EXCEPT ![call.scope] = HashAdd(table, call.obj, call.name)]
           /\ IF Full(tables'[call.scope], BucketWith(tables'[call.scope], call.obj))
                THEN GoTo("expand") ELSE Return
  <2>1. PICK t : t = HashAdd(table, call.obj, call.name)
    OBVIOUS
  <2>2. tables' = [tables EXCEPT ![scope] = t] /\ tables'[scope] = t
    BY <1>1, <1>4, <1>8, <2>1
  <2>3. AddedTo(scope, t, elems)
    BY <1>1, <2>1 DEF AddedTo
  <2>4. /\ IsTable(t, elems) /\ SameNames(t, table, Range(q)) /\ t.hh[call.obj].key = call.name
        /\ Unnamed(table, q, call.name)
    BY <1>1, <1>2, <1>4, <2>3, AddedFacts
  <2>5. CASE Return
    BY <1>1, <1>2, <1>3, <1>4, <1>7, <2>2, <2>4, <2>5, AdditionReturns
  <2>6. CASE GoTo("expand")
    <3>1. GoesOn("expand")
      BY <1>2, <2>6, GoesOnFacts DEF GoTo, Steps
    <3>2. GivenIn(t, call.obj) = NamesIn(t, q)
      BY <1>1, <1>4, <2>4, GivenButLast
    <3>3. NamesIn(t, q) = NamesIn(table, q)
      BY <1>5, <2>4, NamesSame
    <3>4. call'.kind = call.kind /\ call'.obj = call.obj
      BY <3>1 DEF GoesOn
    <3>5. QED BY <1>1, <1>4, <1>6, <1>7, <2>2, <3>2, <3>3, <3>4, NamesTurn
  <2>7. QED BY <1>8, <2>5, <2>6
<1>9. CASE /\ tables' = [tables EXCEPT ![call.scope] = WithHandle(table, call.obj, call.name)]
           /\ Fail("err_arr")
  <2>1. PICK t, name : t = WithHandle(table, call.obj, name) /\ name = call.name
    OBVIOUS
  <2>2. tables' = [tables EXCEPT ![scope] = t]
    BY <1>1, <1>9, <2>1
  <2>3. name \in DOMAIN HASH_FUNCTION
    BY <2>1 DEF IInv, FrameOK, Frames
  <2>4. HasSame(t, table, q)
    BY <1>3, <1>4, <1>6, <2>1, <2>3, TableHandles
  <2>5. GivenIn(t, call.obj) = NamesIn(t, q) /\ NamesIn(t, q) = NamesIn(table, q)
    BY <1>4, <1>5, <2>4, GivenAll, NamesSame DEF HasSame
  <2>6. GoesOn("err_arr")
    BY <1>2, <1>9, GoesOnFacts DEF Fail, Steps
  <2>7. call'.kind = call.kind /\ call'.obj = call.obj
    BY <2>6 DEF GoesOn
  <2>8. QED BY <1>1, <1>4, <1>6, <1>7, <2>2, <2>5, <2>7, NamesTurn
<1>10. QED BY <1>1, <1>8, <1>9 DEF NameAdded, NameRefused

\* Between its two requests for a table nothing has a new name.
LEMMA AddNameNames ==
  ASSUME IInv, AddName, status # "undefined"
  PROVE  Abstract!Next \/ GivenNames' = GivenNames
<1>1. call.step = "hash" /\ UNCHANGED <<status, lists>>
  BY DEF AddName
<1>2. CASE NameAdded \/ NameRefused
  BY <1>1, <1>2, NameTurnsNames
<1>3. CASE GoTo("buckets") /\ UNCHANGED tables
  <2>1. Making
    BY <1>1, IdleFacts DEF IInv, FrameOK
  <2>2. GoesOn("buckets")
    BY <1>3, <2>1, GoesOnFacts DEF GoTo, Steps
  <2>3. Alive <=> Alive'
    BY <1>1 DEF Alive
  <2>4. QED BY <1>3, <2>2, <2>3, SameFrame DEF GoesOn
<1>4. QED BY <1>2, <1>3 DEF AddName

LEMMA MakeBucketsNames ==
  ASSUME IInv, MakeBuckets, status # "undefined"
  PROVE  Abstract!Next \/ GivenNames' = GivenNames
BY NameTurnsNames DEF MakeBuckets

\* An expansion adds the name that HASH_ADD_KEYPTR could not add yet, and its
\* rollback takes nothing else away.
LEMMA ExpandNames ==
  ASSUME IInv, Expand, status # "undefined"
  PROVE  Abstract!Next \/ GivenNames' = GivenNames
<1>1. PICK scope, table, elems, q :
        scope = call.scope /\ table = tables[scope] /\ elems = lists[scope].elems /\ q = Front(elems)
  OBVIOUS
<1>2. Making /\ call.step = "expand"
  BY IdleFacts DEF IInv, FrameOK, Expand
<1>3. call.kind \in Named /\ call.obj \in Nat \ {0}
  BY <1>2, MakingFacts DEF StepsOf
<1>4. /\ status = "live" /\ Alive /\ ~Destroying /\ scope \in DOMAIN tables
      /\ elems \in Seq(Nat \ {0}) /\ IsInjective(elems) /\ elems # << >> /\ call.obj = LastOf(elems)
      /\ Held(scope) = elems /\ call.obj \notin Range(q) /\ Range(q) \cup {call.obj} = Range(elems)
  BY <1>1, <1>2, <1>3, NamingFacts
<1>5. q \in Seq(Nat \ {0})
  <2>1. IsFront(q, elems, Nat \ {0})
    BY <1>1, <1>4, FrontFacts
  <2>2. QED BY <2>1 DEF IsFront
<1>6. /\ IsTable(table, elems) /\ DOMAIN table.hh \subseteq Range(elems) /\ NamesApart(table, elems)
      /\ Range(elems) \subseteq DOMAIN table.hh
  <2>1. Orphans(scope) = {}
    BY <1>2 DEF Orphans
  <2>2. QED BY <1>1, <1>4, <2>1, LiveFacts, TableHas
<1>7. GivenIn(table, call.obj) = NamesIn(table, q)
  BY <1>1, <1>4, <1>6, GivenButLast
<1>8. status' = "live" /\ lists' = lists
  BY <1>4 DEF Expand
<1>9. CASE tables' = [tables EXCEPT ![call.scope] = RolledBack(table, call.obj)] /\ Fail("err_arr")
  <2>1. PICK t : t = RolledBack(table, call.obj)
    OBVIOUS
  <2>2. tables' = [tables EXCEPT ![scope] = t]
    BY <1>1, <1>9, <2>1
  <2>3. IsExpanding(table, call.obj)
    BY <1>1, <1>2, <1>4 DEF IInv, ChainsOK
  <2>4. HasLost(t, table, elems)
    BY <1>4, <1>6, <2>1, <2>3, TableRollsBack
  <2>5. IsTable(t, q) /\ SameNames(t, table, Range(q))
    BY <1>1, <1>4, <1>6, <2>4 DEF HasLost, SameNames
  <2>6. GivenIn(t, call.obj) = NamesIn(t, q) /\ NamesIn(t, q) = NamesIn(table, q)
    BY <1>4, <1>5, <2>5, GivenAll, NamesSame
  <2>7. GoesOn("err_arr")
    BY <1>2, <1>9, GoesOnFacts DEF Fail, Steps
  <2>8. call'.kind = call.kind /\ call'.obj = call.obj
    BY <2>7 DEF GoesOn
  <2>9. QED BY <1>1, <1>4, <1>7, <1>8, <2>2, <2>6, <2>8, NamesTurn
<1>10. CASE tables' = [tables EXCEPT ![call.scope] = Expanded(table)] /\ Return
  <2>1. PICK t : t = Expanded(table)
    OBVIOUS
  <2>2. tables' = [tables EXCEPT ![scope] = t]
    BY <1>1, <1>10, <2>1
  <2>3. HasExpanded(t, table, elems)
    BY <1>4, <1>6, <2>1, TableExpands
  <2>4. /\ IsTable(t, elems) /\ SameNames(t, table, Range(q)) /\ t.hh[call.obj].key = table.hh[call.obj].key
    BY <1>4, <1>6, <2>3 DEF HasExpanded, SameNames
  <2>5. Unnamed(table, q, t.hh[call.obj].key)
    BY <1>4, <1>6, <2>4 DEF NamesApart, Unnamed
  <2>6. QED BY <1>1, <1>2, <1>3, <1>4, <1>8, <1>10, <2>2, <2>4, <2>5, AdditionReturns
<1>11. QED BY <1>1, <1>9, <1>10 DEF Expand

\* An object that is made has no name yet.
LEMMA MakeNames ==
  ASSUME IInv, NEW kind \in Kinds, NEW scope, NEW name, Make(kind, scope, name)
  PROVE  GivenNames' = GivenNames
<1>1. status = "live" /\ call = Idle /\ ~Destroying /\ call.kind = "none" /\ call.obj = NULL
  BY IdleIs, IdleFacts DEF Make
<1>2. CASE /\ status' = IF kind \in {"pointer", "array"} THEN "undefined" ELSE status
           /\ UNCHANGED <<call, tables>>
  <2>1. Alive /\ Alive'
    BY <1>1, <1>2 DEF Alive
  <2>2. QED BY <1>2, <2>1, SameFrame
<1>3. ASSUME NEW id, id = NewId, call'.kind = kind, call'.obj = id, status' = "live",
             tables' = IF kind = "construct" THEN With(tables, Own(kind, id), NoTable) ELSE tables
      PROVE  GivenNames' = GivenNames
  <2>1. id \notin AllOf(lists) /\ FieldsOf(id) \notin DOMAIN tables
    <3>1. IsFiniteSet(heap)
      BY <1>1, LiveFacts
    <3>2. id \in Nat \ {0} /\ Object(id) \notin heap
      BY <1>3, <3>1, FreshId
    <3>3. QED BY <1>1, <3>2, FreshOwn
  <2>2. Own("construct", id) = FieldsOf(id)
    BY DEF Own, FieldsOf
  <2>3. \A s \in DOMAIN tables : s \in DOMAIN tables' /\ tables'[s] = tables[s]
    BY <1>3, <2>1, <2>2 DEF With
  <2>4. NamedScopes = DOMAIN tables /\ NamedScopes' = DOMAIN tables
    <3>1. NamedScopes = DOMAIN tables
      BY <1>1 DEF NamedScopes
    <3>2. CASE kind = "construct"
      <4>1. DOMAIN tables' = DOMAIN tables \cup {FieldsOf(id)}
        BY <1>3, <2>2, <3>2 DEF With
      <4>2. NamedScopes' = DOMAIN tables' \ {FieldsOf(id)}
        BY <1>3, <2>2, <3>2 DEF NamedScopes
      <4>3. QED BY <2>1, <3>1, <4>1, <4>2
    <3>3. CASE kind # "construct"
      BY <1>3, <3>1, <3>3 DEF NamedScopes
    <3>4. QED BY <3>2, <3>3
  <2>5. ASSUME NEW s \in DOMAIN tables
        PROVE  GivenIn(tables[s], id) = GivenIn(tables[s], call.obj)
    <3>1. PICK held : held = Held(s)
      OBVIOUS
    <3>2. IsTable(tables[s], held) /\ Range(held) \subseteq AllOf(lists)
      BY <1>1, <3>1, LiveFacts, HeldListed
    <3>3. GivenIn(tables[s], id) = NamesIn(tables[s], held)
      BY <2>1, <3>2, GivenAll
    <3>4. GivenIn(tables[s], NULL) = NamesIn(tables[s], held)
      BY <1>1, <3>1, GivenHere
    <3>5. QED BY <1>1, <3>3, <3>4
  <2>6. Open /\ Open'
    BY <1>1, <1>3, KindFacts DEF Open
  <2>7. QED BY <1>3, <2>3, <2>4, <2>5, <2>6, NamesStay
<1>4. QED
  <2>1. \/ /\ status' = IF kind \in {"pointer", "array"} THEN "undefined" ELSE status
           /\ UNCHANGED <<call, tables>>
        \/ /\ call'.kind = kind /\ call'.obj = NewId /\ status' = "live"
           /\ tables' = IF kind = "construct" THEN With(tables, Own(kind, NewId), NoTable) ELSE tables
    BY DEF Make
  <2>2. QED BY <1>2, <1>3, <2>1

\* The object of a call that returns here has no name, or has it already.
LEMMA NamelessReturns ==
  ASSUME IInv, status = "live", Making, call.step = "push", call.kind \notin Named,
         status' = "live", tables' = tables, Return
  PROVE  GivenNames' = GivenNames
<1>1. call' = Idle /\ call'.kind = "none" /\ call'.obj = NULL /\ ~Destroying
  BY IdleFacts, MakingFacts DEF Return
<1>2. NamedScopes' = NamedScopes
  BY <1>1 DEF NamedScopes, Named
<1>3. Open /\ Open'
  BY <1>1 DEF Open, Destroying
<1>4. \A s \in NamedScopes : GivenIn(tables'[s], call'.obj) = GivenIn(tables[s], call.obj)
  <2>1. SUFFICES ASSUME NEW s \in DOMAIN tables
                 PROVE  GivenIn(tables'[s], call'.obj) = GivenIn(tables[s], call.obj)
    BY DEF NamedScopes
  <2>2. /\ GivenIn(tables[s], call.obj) = NamesIn(tables[s], Held(s))
        /\ GivenIn(tables[s], NULL) = NamesIn(tables[s], Held(s))
    BY <1>1, GivenHere
  <2>3. QED BY <1>1, <2>2
<1>5. QED BY <1>2, <1>3, <1>4, NamesStay

LEMMA PushNames ==
  ASSUME IInv, Push, status # "undefined"
  PROVE  GivenNames' = GivenNames
<1>1. Making /\ status = "live" /\ tables' = tables /\ call.step = "push"
  BY PushBegins DEF Push
<1>2. CASE status' = "undefined" /\ call' = call
  <2>1. Alive /\ Alive'
    BY <1>1, <1>2 DEF Alive
  <2>2. QED BY <1>1, <1>2, <2>1, SameFrame
<1>3. ASSUME NEW st \in Steps, call' = [call EXCEPT !.step = st], status' = status
      PROVE  GivenNames' = GivenNames
  <2>1. call'.kind = call.kind /\ call'.obj = call.obj
    BY <1>1, <1>3, GoesOnFacts DEF GoesOn
  <2>2. Alive /\ Alive'
    BY <1>1, <1>3 DEF Alive
  <2>3. QED BY <1>1, <2>1, <2>2, SameFrame
<1>4. CASE Return /\ call.kind \notin Named /\ status' = status
  BY <1>1, <1>4, NamelessReturns
<1>5. QED
  <2>1. \/ status' = "undefined" /\ call' = call
        \/ call' = [call EXCEPT !.step = "err_arr"] /\ status' = status
        \/ call' = [call EXCEPT !.step = "err_mem"] /\ status' = status
        \/ call' = [call EXCEPT !.step = "hash"] /\ status' = status
        \/ Return /\ call.kind \notin Named /\ status' = status
    BY DEF Push, Fail, GoTo
  <2>2. "err_arr" \in Steps /\ "err_mem" \in Steps /\ "hash" \in Steps
    BY DEF Steps
  <2>3. QED BY <1>2, <1>3, <1>4, <2>1, <2>2

\* An object that is given up had no name; what else has one keeps it.
LEMMA GiveUpNames ==
  ASSUME IInv, GiveUp, status # "undefined"
  PROVE  GivenNames' = GivenNames
<1>1. PICK own : own = Own(call.kind, call.obj)
  OBVIOUS
<1>2. Making /\ call.step = "err_mem"
  BY DEF GiveUp, Making
<1>3. /\ status = "live" /\ ~Destroying
      /\ call.kind # "construct" => own \notin DOMAIN tables
  BY <1>1, <1>2, GivingUp
<1>4. /\ tables' = [s \in DOMAIN tables \ {own} |-> WithoutHandle(tables[s], call.obj)]
      /\ call'.kind = "none" /\ call'.obj = NULL /\ status' = "live"
  BY <1>1, <1>3, IdleFacts DEF GiveUp, Return
<1>5. NamedScopes = DOMAIN tables \ {own} /\ NamedScopes' = NamedScopes
  <2>1. NamedScopes = DOMAIN tables \ {own}
    BY <1>1, <1>3 DEF NamedScopes
  <2>2. NamedScopes' = DOMAIN tables'
    BY <1>4 DEF NamedScopes
  <2>3. QED BY <1>4, <2>1, <2>2
<1>6. ASSUME NEW s \in DOMAIN tables
      PROVE  GivenIn(WithoutHandle(tables[s], call.obj), NULL) = GivenIn(tables[s], call.obj)
  <2>1. PICK held, t : held = Held(s) /\ t = WithoutHandle(tables[s], call.obj)
    OBVIOUS
  <2>2. IsTable(tables[s], held) /\ call.obj \notin Range(held) /\ NULL \notin Range(held)
    BY <1>2, <1>3, <2>1, LiveFacts, ObjectApart
  <2>3. HasSame(t, tables[s], held)
    BY <2>1, <2>2, TableForgets
  <2>4. GivenIn(tables[s], call.obj) = NamesIn(tables[s], held) /\ GivenIn(t, NULL) = NamesIn(t, held)
    BY <2>2, <2>3, GivenAll DEF HasSame
  <2>5. held \in Seq(DOMAIN tables[s].hh)
    BY <2>2, TableHas
  <2>6. NamesIn(t, held) = NamesIn(tables[s], held)
    BY <2>3, <2>5, NamesSame DEF HasSame
  <2>7. QED BY <2>1, <2>4, <2>6
<1>7. Open /\ Open'
  BY <1>3, <1>4 DEF Open, Destroying
<1>8. \A s \in NamedScopes : GivenIn(tables'[s], call'.obj) = GivenIn(tables[s], call.obj)
  BY <1>4, <1>5, <1>6
<1>9. QED BY <1>5, <1>7, <1>8, NamesStay

\* The last utarray_new of mam_context_create begins, mam_context_destroy ends.
LEMMA NewContextArrayNames ==
  ASSUME IInv, NewContextArray
  PROVE  Abstract!Next \/ GivenNames' = GivenNames
<1>1. /\ call.kind = "context" /\ call.step = "new" /\ Beginning /\ tables' = tables
      /\ status = "platform" /\ err = "MAM_SUCCESS"
  BY KindFacts, IdleFacts DEF NewContextArray, Beginning, IInv, FrameOK, Making, Destroying
<1>2. tables = [s \in TabledScopes |-> NoTable]
  BY <1>1 DEF IInv, ListsOK
<1>3. ~Open
  BY <1>1 DEF Open
<1>4. CASE status' = status
  <2>1. ~Open'
    BY <1>1, <1>4 DEF Open
  <2>2. QED BY <1>3, <2>1, NoNames
<1>5. CASE status' = "live" /\ Return
  <2>1. call'.kind = "none" /\ call'.obj = NULL /\ err' = "MAM_SUCCESS"
    BY <1>1, <1>5, IdleFacts DEF Return
  <2>2. Open'
    BY <1>5, <2>1 DEF Open
  <2>3. NamedScopes' = TabledScopes
    BY <1>1, <1>2, <2>1 DEF NamedScopes
  <2>4. GivenIn(NoTable, NULL) = << >>
    <3>1. NULL \notin Range(<< >>)
      BY DEF Range
    <3>2. GivenIn(NoTable, NULL) = NamesIn(NoTable, << >>)
      BY <3>1, NoTableIs, GivenAll
    <3>3. QED BY <3>2, EmptySeq DEF NamesIn
  <2>5. GivenNames' = [s \in TabledScopes |-> << >>]
    <3>1. GivenNames' = [s \in NamedScopes' |-> GivenIn(tables'[s], call'.obj)]
      BY <2>2, NamesAreNext DEF NamesAre
    <3>2. \A s \in TabledScopes : GivenIn(tables'[s], call'.obj) = << >>
      BY <1>1, <1>2, <2>1, <2>4
    <3>3. QED BY <2>3, <3>1, <3>2
  <2>6. DOMAIN GivenNames = {}
    BY <1>3, GivenNamesAre DEF NamesAre
  <2>7. Abstract!Begin
    BY <2>1, <2>5, <2>6 DEF Abstract!Begin, TabledScopes, ConstructScope, VariableScope
  <2>8. QED BY <2>7 DEF Abstract!Next
<1>6. QED BY <1>4, <1>5 DEF NewContextArray

LEMMA DestroyContextNames ==
  ASSUME IInv, DestroyContext
  PROVE  Abstract!Next
<1>1. status = "live" /\ call = Idle /\ call.kind = "none" /\ call'.kind = "destroy" /\ err' = "MAM_SUCCESS"
  BY IdleIs DEF DestroyContext, Idle
<1>2. Open /\ ~Open' /\ NamedScopes = DOMAIN tables
  BY <1>1 DEF Open, NamedScopes
<1>3. DOMAIN GivenNames = DOMAIN tables /\ GivenNames' = << >>
  BY <1>2, GivenNamesAre, NamesAreNext DEF NamesAre
<1>4. ConstructScope \in DOMAIN tables
  BY <1>1 DEF IInv, TablesOK, Alive, TabledScopes
<1>5. Abstract!End
  BY <1>1, <1>3, <1>4 DEF Abstract!End
<1>6. QED BY <1>5 DEF Abstract!Next

\* Every step adds a name, begins or ends a context, or changes no name.
LEMMA NamesStep == IInv /\ IInv' /\ [Next]_vars => [Abstract!Next]_<<GivenNames, err>>
<1> SUFFICES ASSUME IInv, IInv', [Next]_vars PROVE Abstract!Next
  OBVIOUS
<1>1. err' \in {"MAM_SUCCESS", "MAM_EINVAL", "MAM_ENOMEM"}
  BY DEF IInv, FrameOK
<1>2. ASSUME GivenNames' = GivenNames PROVE Abstract!Next
  BY <1>1, <1>2 DEF Abstract!Next, Abstract!NoChange
<1>3. CASE CreatePlatform \/ DestroyPlatform \/ CreateContext
  <2>1. status \notin {"live", "undefined"} /\ status' \notin {"live", "undefined"}
    BY <1>3 DEF CreatePlatform, DestroyPlatform, CreateContext
  <2>2. ~Open /\ ~Open'
    BY <2>1 DEF Open
  <2>3. QED BY <1>2, <2>2, NoNames
<1>4. CASE Refuse \/ Lost \/ UNCHANGED vars
  <2>1. UNCHANGED <<status, call, tables>>
    BY <1>4 DEF Refuse, Lost, vars
  <2>2. Alive <=> Alive'
    BY <2>1 DEF Alive
  <2>3. QED BY <1>2, <2>1, <2>2, SameFrame
<1>5. CASE DestroyContext
  BY <1>5, DestroyContextNames
<1>6. CASE \E kind \in Kinds : \E scope \in ScopesOf(kind) :
             \E name \in IF kind \in Named THEN NamesOf[kind] ELSE {NoName} : Make(kind, scope, name)
  <2>1. PICK kind \in Kinds : \E scope, name : Make(kind, scope, name)
    BY <1>6
  <2>2. PICK scope, name : Make(kind, scope, name)
    BY <2>1
  <2>3. QED BY <1>2, <2>1, <2>2, MakeNames
<1>7. CASE Step
  <2>1. status # "undefined"
    BY <1>7 DEF Step
  <2>2. CASE NewContextArray
    BY <1>2, <2>2, NewContextArrayNames
  <2>3. CASE NewOwnArray \/ TakeBack
    <3>1. Making
      BY <2>3, IdleFacts, KindFacts DEF NewOwnArray, TakeBack, Making, IInv, FrameOK
    <3>2. PICK st \in Steps : call' = [call EXCEPT !.step = st]
      BY <2>3 DEF NewOwnArray, TakeBack, Fail, GoTo, Steps
    <3>3. call'.kind = call.kind /\ call'.obj = call.obj
      BY <3>1, <3>2, GoesOnFacts DEF GoesOn
    <3>4. tables' = tables /\ (Alive <=> Alive')
      BY <2>3 DEF NewOwnArray, TakeBack, Alive
    <3>5. QED BY <1>2, <3>3, <3>4, SameFrame
  <2>4. CASE Push
    BY <1>2, <2>1, <2>4, PushNames
  <2>5. CASE AddName
    BY <1>2, <2>1, <2>5, AddNameNames
  <2>6. CASE Expand
    BY <1>2, <2>1, <2>6, ExpandNames
  <2>7. CASE GiveUp
    BY <1>2, <2>1, <2>7, GiveUpNames
  <2>8. CASE ContextFails
    <3>1. Beginning /\ status' = status
      BY <2>8 DEF ContextFails, Beginning
    <3>2. status = "platform"
      BY <3>1, IdleFacts, KindFacts DEF IInv, FrameOK, Beginning, Making, Destroying
    <3>3. ~Open /\ ~Open'
      BY <3>1, <3>2 DEF Open
    <3>4. QED BY <1>2, <3>3, NoNames
  <2>9. CASE ClearFields \/ DestroyObject \/ ObjectsDestroyed \/ FreeContext
    <3>1. call.kind = "destroy" /\ (call'.kind = "destroy" \/ status' = "platform")
      <4>1. call \in Frames
        BY DEF IInv, FrameOK
      <4>2. CASE ClearFields \/ DestroyObject \/ ObjectsDestroyed
        BY <4>1, <4>2 DEF ClearFields, DestroyObject, ObjectsDestroyed, GoTo, Frames
      <4>3. CASE FreeContext
        BY <4>3 DEF FreeContext
      <4>4. QED BY <2>9, <4>2, <4>3
    <3>2. ~Open /\ ~Open'
      BY <3>1 DEF Open
    <3>3. QED BY <1>2, <3>2, NoNames
  <2>10. CASE MakeBuckets
    BY <1>2, <2>1, <2>10, MakeBucketsNames
  <2>11. QED BY <1>7, <2>2, <2>3, <2>4, <2>5, <2>6, <2>7, <2>8, <2>9, <2>10 DEF Step
<1>8. QED BY <1>3, <1>4, <1>5, <1>6, <1>7 DEF Next, Request

\* Every call adds one name or none, whatever is refused on the way: the
\* tables with their expansions and rollbacks implement NamedObjects.
THEOREM TablesImplementNames == Spec => ImplementsNamedObjects
<1>1. Init => Abstract!Init
  <2> SUFFICES ASSUME Init PROVE Abstract!Init
    OBVIOUS
  <2>1. ~Open /\ err = "MAM_SUCCESS"
    BY DEF Init, Open
  <2>2. QED BY <2>1, GivenNamesAre DEF NamesAre, Abstract!Init
<1>2. QED BY <1>1, NamesStep, InvariantHolds, PTL DEF Spec, ImplementsNamedObjects, Abstract!Spec
===============================================================================
