----------------------------- MODULE ContextHeap -----------------------------
(***************************************************************************)
(* The memory of a context of src/copy-engine.c: which blocks it holds,    *)
(* what points to them, and what every call does when malloc, calloc or    *)
(* realloc refuses.                                                        *)
(*                                                                         *)
(* Here a call is a sequence of steps, one for each request of memory and  *)
(* one for each error label, because what has to be given back depends on  *)
(* the request that failed.  `call` is the frame of the call under way.    *)
(* The program is sequential: a call begins when none is under way.  Types *)
(* and layouts, and the calls they make refuse, are in TypeContext; they   *)
(* decide nothing here.                                                    *)
(*                                                                         *)
(* A block is named after what it is for: an object by its number, an      *)
(* array or a table by its scope, which is <<"variables", 0>> and the like *)
(* for those of the context, <<"fields", c>> for the fields of construct   *)
(* c, <<"dimensions", a>> for the dimensions of array a.                   *)
(***************************************************************************)
EXTENDS UtArray, UtHash

CONSTANTS
  NamesOf,      \* the names the client gives to objects of each kind
  NoName,       \* the empty string
  Populations,  \* bounds: the objects of a context are within one of these
  MaxRefusals   \* bound on the requests of a context that get no memory

Kinds == {"pointer", "array", "dimension", "construct", "field", "variable"}
Named == {"construct", "field", "variable"}

ASSUME NamesOfAssumption ==
  /\ DOMAIN NamesOf = Named
  /\ \A kind \in Named : NamesOf[kind] \cup {NoName} \subseteq DOMAIN HASH_FUNCTION
ASSUME PopulationsAssumption ==
  /\ Populations \subseteq [Kinds -> Nat]
  /\ MaxRefusals \in Nat

VARIABLES
  status,    \* "none", "platform" (created), "live", or "undefined"
  call,      \* the frame of the call under way
  heap,      \* the blocks that are allocated
  lists,     \* the UT_arrays, by scope
  tables,    \* the hash tables, by scope
  fault,     \* a block was freed or read that was not allocated
  err,       \* what the last call returned, or the one under way will
  refusals   \* how often the context got no memory, for the bound only

vars == <<status, call, heap, lists, tables, fault, err, refusals>>

------------------------------------------------------------------------------
(* Blocks, and what a step does with them.                                 *)

PlatformBlock == <<"platform", "", 0>>
ContextBlock == <<"context", "", 0>>
Object(id) == <<"object", "", id>>
Header(scope) == <<"header", scope[1], scope[2]>>
Slots(scope) == <<"slots", scope[1], scope[2]>>
TableBlocks(scope, table) == {<<m[1], scope[1], scope[2], m[2]>> : m \in table.mem}

\* utarray_free: free(d) is called if n is not 0, and does nothing for NULL.
ArrayBlocks(scope) ==
  {Header(scope)}
    \cup {b \in {Slots(scope)} : lists[scope].n # 0 /\ lists[scope].room # 0}

\* Blocks are given back and obtained; those read or given back must be there.
Memory(read, freed, obtained) ==
  /\ heap' = (heap \ freed) \cup obtained
  /\ fault' = (fault \/ ~(read \cup freed \subseteq heap))

\* A table becomes another, with what memory that takes.
TableMemoryMoves(scope, table) ==
  Memory({}, TableBlocks(scope, tables[scope]) \ TableBlocks(scope, table),
         TableBlocks(scope, table))

With(f, x, value) == [y \in DOMAIN f \cup {x} |-> IF y = x THEN value ELSE f[y]]
Without(f, xs) == [y \in DOMAIN f \ xs |-> f[y]]

------------------------------------------------------------------------------
(* Frames.                                                                 *)

Idle == [kind |-> "none", step |-> "none", obj |-> NULL, scope |-> <<"none", 0>>,
         name |-> NoName, at |-> 0]

Return == call' = Idle /\ UNCHANGED err
GoTo(step) == call' = [call EXCEPT !.step = step] /\ UNCHANGED err

\* A request is given its memory, or is not and the call goes to a label.
Given == UNCHANGED refusals
NotGiven == refusals < MaxRefusals /\ refusals' = refusals + 1 /\ err' = "MAM_ENOMEM"
Fail(label) == NotGiven /\ call' = [call EXCEPT !.step = label]

\* The array that belongs to the object being made.
Own(kind, id) == IF kind = "construct" THEN <<"fields", id>> ELSE <<"dimensions", id>>

ContextLists == <<"pointers", "arrays", "constructs", "variables">>

\* The scopes the client can add an object of this kind to.
ScopesOf(kind) ==
  CASE kind = "pointer" -> {<<"pointers", 0>>}
    [] kind = "array" -> {<<"arrays", 0>>}
    [] kind = "construct" -> {<<"constructs", 0>>}
    [] kind = "variable" -> {<<"variables", 0>>}
    [] kind = "field" -> {s \in DOMAIN lists : s[1] = "fields"}
    [] kind = "dimension" -> {s \in DOMAIN lists : s[1] = "dimensions"}

ListedIn(scope) == {lists[scope].elems[i] : i \in DOMAIN lists[scope].elems}
Listed == UNION {ListedIn(scope) : scope \in DOMAIN lists}

Population ==
  [kind \in Kinds |-> Cardinality(UNION {ListedIn(scope) : scope \in ScopesOf(kind)})]
Bounded(kind) ==
  LET grown == [Population EXCEPT ![kind] = @ + 1] IN
  \E most \in Populations : \A k \in Kinds : grown[k] <= most[k]

\* A number for a new object, the least that is free: malloc may use freed
\* memory again.
NewId ==
  LET free == {id \in 1 .. Cardinality(heap) + 1 : Object(id) \notin heap}
  IN  CHOOSE id \in free : \A j \in free : id <= j

------------------------------------------------------------------------------
(* Platforms, and the beginning of a context.                              *)

Init ==
  /\ status = "none" /\ call = Idle /\ heap = {} /\ lists = << >> /\ tables = << >>
  /\ fault = FALSE /\ err = "MAM_SUCCESS" /\ refusals = 0

\* mam_platform_create and mam_platform_create_host
CreatePlatform ==
  /\ status = "none"
  /\ \/ status' = "platform" /\ Memory({}, {}, {PlatformBlock}) /\ err' = "MAM_SUCCESS"
     \/ err' \in {"MAM_EINVAL", "MAM_ENOMEM"} /\ UNCHANGED <<status, heap, fault>>
  /\ UNCHANGED <<call, lists, tables, refusals>>

\* mam_platform_destroy, once no context needs the platform.
DestroyPlatform ==
  /\ status = "platform" /\ call = Idle
  /\ status' = "none" /\ Memory({}, {PlatformBlock}, {}) /\ err' = "MAM_SUCCESS"
  /\ UNCHANGED <<call, lists, tables, refusals>>

\* mam_context_create, up to its calloc.
CreateContext ==
  /\ status = "platform" /\ call = Idle
  /\ \/ /\ call' = [Idle EXCEPT !.kind = "context", !.step = "new", !.at = 1]
        /\ tables' = [scope \in {<<"constructs", 0>>, <<"variables", 0>>} |-> NoTable]
        /\ Memory({PlatformBlock}, {}, {ContextBlock})
        /\ err' = "MAM_SUCCESS"
     \/ err' \in {"MAM_EINVAL", "MAM_ENOMEM"} /\ UNCHANGED <<call, tables, heap, fault>>
  /\ UNCHANGED <<status, lists, refusals>>

\* One of its four utarray_new.
NewContextArray ==
  LET scope == <<ContextLists[call.at], 0>> IN
  /\ call.kind = "context" /\ call.step = "new"
  /\ \/ /\ lists' = With(lists, scope, EmptyArray)
        /\ Memory({}, {}, {Header(scope)})
        /\ Given
        /\ IF call.at < Len(ContextLists)
             THEN call' = [call EXCEPT !.at = @ + 1] /\ UNCHANGED <<status, err>>
             ELSE status' = "live" /\ Return
     \/ Fail("err_mem") /\ UNCHANGED <<status, lists, heap, fault>>
  /\ UNCHANGED tables

\* Its label err_mem: what cannot have been made is not looked at.
ContextFails ==
  /\ call.kind = "context" /\ call.step = "err_mem"
  /\ Memory({}, {ContextBlock}
                  \cup {Header(s) : s \in DOMAIN lists \ {<<"variables", 0>>}}, {})
  /\ lists' = << >> /\ tables' = << >> /\ refusals' = 0
  /\ Return /\ UNCHANGED status

------------------------------------------------------------------------------
(* The calls that make an object.                                          *)

\* Arguments are checked and, in five of the six, a name is looked up.
Refuse ==
  /\ status = "live" /\ call = Idle
  /\ err' = "MAM_EINVAL" /\ UNCHANGED <<status, call, heap, lists, tables, fault, refusals>>

\* Mutant of NameAccepted: the name is not looked up.
NameNotLookedUp(kind, scope, name) == kind \in {"field", "variable"} => name # NoName

\* The object is added under a name that is free.
NameAccepted(kind, scope, name) ==
  \/ kind \notin Named
  \/ kind = "construct" /\ name = NoName
  \/ name # NoName /\ HashFind(tables[scope], name) = NULL

\* The calloc of a new object.  Two calls do not look at its result.
Make(kind, scope, name) ==
  /\ status = "live" /\ call = Idle
  /\ Bounded(kind) /\ NameAccepted(kind, scope, name)
  /\ \/ /\ call' = [kind |-> kind, step |-> IF kind \in {"construct", "array"} THEN "new" ELSE "push",
                    obj |-> NewId, scope |-> scope, name |-> name, at |-> 0]
        /\ tables' = IF kind = "construct" THEN With(tables, Own(kind, NewId), NoTable) ELSE tables
        /\ Memory({Header(scope)}, {}, {Object(NewId)})
        /\ Given /\ err' = "MAM_SUCCESS" /\ UNCHANGED status
     \/ /\ NotGiven
        /\ status' = IF kind \in {"pointer", "array"} THEN "undefined" ELSE status
        /\ UNCHANGED <<call, tables, heap, fault>>
  /\ UNCHANGED lists

\* The utarray_new of an object's own array.
NewOwnArray ==
  LET own == Own(call.kind, call.obj) IN
  /\ call.kind \in {"construct", "array"} /\ call.step = "new"
  /\ \/ lists' = With(lists, own, EmptyArray) /\ Memory({}, {}, {Header(own)}) /\ Given /\ GoTo("push")
     \/ Fail("err_mem") /\ UNCHANGED <<lists, heap, fault>>
  /\ UNCHANGED <<status, tables>>

\* utarray_push_back
Push ==
  LET list == lists[call.scope] IN
  /\ call.step = "push"
  /\ \/ /\ PushOverruns(list)
        /\ status' = "undefined" /\ UNCHANGED <<call, heap, lists, fault, err, refusals>>
     \/ /\ MustGrow(list)
        /\ lists' = [lists EXCEPT ![call.scope] = ReserveFailed(list)]
        /\ Fail(IF call.kind = "array" THEN "err_arr" ELSE "err_mem")
        /\ UNCHANGED <<status, heap, fault>>
     \/ /\ ~PushOverruns(list)
        /\ lists' = [lists EXCEPT ![call.scope] = PushedBack(list, call.obj)]
        /\ Memory({Header(call.scope)}, {}, {Slots(call.scope)})
        /\ IF call.kind \in Named THEN GoTo("hash") ELSE Return
        /\ Given /\ UNCHANGED status
  /\ UNCHANGED tables

\* HASH_ADD_KEYPTR has put the object into the table, or has found no memory
\* to make the table from.
NameAdded ==
  /\ tables' = [tables EXCEPT ![call.scope] = HashAdd(@, call.obj, call.name)]
  /\ TableMemoryMoves(call.scope, tables'[call.scope])
  /\ IF Full(tables'[call.scope], BucketWith(tables'[call.scope], call.obj))
       THEN GoTo("expand") ELSE Return
  /\ Given
NameRefused ==
  /\ tables' = [tables EXCEPT ![call.scope] = WithHandle(@, call.obj, call.name)]
  /\ Fail("err_arr")

\* The UT_hash_table that is being made, which only the object's handle knows.
NewTbl == <<"tbl", call.scope[1], call.scope[2], 0>>

\* HASH_ADD_KEYPTR, up to the first malloc of its HASH_MAKE_TABLE if there is
\* no table yet.
AddName ==
  /\ call.step = "hash"
  /\ \/ tables[call.scope].head # NULL /\ NameAdded
     \/ /\ tables[call.scope].head = NULL
        /\ \/ Memory({}, {}, {NewTbl}) /\ Given /\ GoTo("buckets") /\ UNCHANGED tables
           \/ NameRefused /\ UNCHANGED <<heap, fault>>
  /\ UNCHANGED <<status, lists>>

\* The second malloc of HASH_MAKE_TABLE.
MakeBuckets ==
  /\ call.step = "buckets"
  /\ \/ NameAdded
     \/ NameRefused /\ Memory({}, {NewTbl}, {})
  /\ UNCHANGED <<status, lists>>

\* Its HASH_EXPAND_BUCKETS.
Expand ==
  LET table == tables[call.scope] IN
  /\ call.step = "expand"
  /\ \/ tables' = [tables EXCEPT ![call.scope] = RolledBack(table, call.obj)] /\ Fail("err_arr")
     \/ tables' = [tables EXCEPT ![call.scope] = Expanded(table)] /\ Given /\ Return
  /\ TableMemoryMoves(call.scope, tables'[call.scope])
  /\ UNCHANGED <<status, lists>>

\* Mutant of Popped: utarray_pop_back is left out.
Unpopped(list) == list

Popped(list) == PoppedBack(list)

\* Label err_arr.
TakeBack ==
  LET own == Own(call.kind, call.obj) IN
  /\ call.step = "err_arr"
  /\ IF call.kind = "array"
       THEN Memory({}, ArrayBlocks(own), {}) /\ lists' = Without(lists, {own})
       ELSE /\ lists' = [lists EXCEPT ![call.scope] = Popped(@)]
            /\ UNCHANGED <<heap, fault>>
  /\ GoTo("err_mem") /\ UNCHANGED <<status, tables, refusals>>

\* Mutants of Abandoned: the fields of the construct are forgotten, the
\* dimensions of the array are given back here as well.
AbandonedAlone == {Object(call.obj)}
AbandonedAgain ==
  {Object(call.obj)}
    \cup IF call.kind \in {"array", "construct"} THEN {Header(Own(call.kind, call.obj))} ELSE {}

\* The blocks that label err_mem gives back.
Abandoned ==
  LET own == Own(call.kind, call.obj) IN
  {Object(call.obj)}
    \cup IF call.kind = "construct" /\ own \in DOMAIN lists THEN ArrayBlocks(own) ELSE {}

\* Label err_mem of the calls that make an object.
GiveUp ==
  LET own == Own(call.kind, call.obj) IN
  /\ call.kind \in Kinds /\ call.step = "err_mem"
  /\ Memory({}, Abandoned, {})
  /\ lists' = Without(lists, {own})
  /\ tables' = [scope \in DOMAIN tables \ {own} |-> WithoutHandle(tables[scope], call.obj)]
  /\ Return /\ UNCHANGED <<status, refusals>>

------------------------------------------------------------------------------
(* mam_context_destroy.                                                    *)

\* HASH_CLEAR reads the table through its first element.
ReadBy(table) == {Object(id) : id \in {table.head} \ {NULL}}

\* It clears both tables of the context first.
DestroyContext ==
  LET cleared == {<<"variables", 0>>, <<"constructs", 0>>} IN
  /\ status = "live" /\ call = Idle
  /\ call' = [Idle EXCEPT !.kind = "destroy", !.step = "objects", !.at = 1]
  /\ tables' = [s \in DOMAIN tables |-> IF s \in cleared THEN HashClear(tables[s]) ELSE tables[s]]
  /\ Memory(UNION {ReadBy(tables[s]) : s \in cleared},
            UNION {TableBlocks(s, tables[s]) \ TableBlocks(s, HashClear(tables[s])) : s \in cleared},
            {})
  /\ err' = "MAM_SUCCESS" /\ UNCHANGED <<status, lists, refusals>>

\* What _mam_pointer_destroy, _mam_array_destroy, _mam_construct_destroy and
\* _mam_variable_destroy give back with free and utarray_free.
DestroyedBlocks(kind, id) ==
  {Object(id)} \cup
  CASE kind = "arrays" -> LET own == <<"dimensions", id>> IN
         ArrayBlocks(own) \cup {Object(d) : d \in ListedIn(own)}
    [] kind = "constructs" -> LET own == <<"fields", id>> IN
         ArrayBlocks(own) \cup {Object(f) : f \in ListedIn(own)}
    [] OTHER -> {}

\* The objects in the order in which they are destroyed.
DestroyOrder ==
  LET All(k) == [i \in DOMAIN lists[<<ContextLists[k], 0>>].elems |->
                   <<ContextLists[k], lists[<<ContextLists[k], 0>>].elems[i]>>]
  IN  All(1) \o All(2) \o All(3) \o All(4)

\* Mutants of NextObject: utarray_next returns the same element again, or
\* leaves one out.
SameObject == call.at
OtherObject == call.at + 2

NextObject == call.at + 1

\* The kind and the number of the object that is destroyed next.
ThisKind == DestroyOrder[call.at][1]
ThisId == DestroyOrder[call.at][2]

\* _mam_construct_destroy clears the table of the fields before it frees them.
ClearFields ==
  LET own == <<"fields", ThisId>> IN
  /\ call.kind = "destroy" /\ call.step = "objects"
  /\ call.at <= Len(DestroyOrder) /\ ThisKind = "constructs"
  /\ tables' = [tables EXCEPT ![own] = HashClear(@)]
  /\ Memory({Header(<<ThisKind, 0>>)} \cup ReadBy(tables[own]),
            TableBlocks(own, tables[own]) \ TableBlocks(own, tables'[own]), {})
  /\ GoTo("fields") /\ UNCHANGED <<status, lists, refusals>>

DestroyObject ==
  /\ call.kind = "destroy" /\ call.at <= Len(DestroyOrder)
  /\ call.step = IF ThisKind = "constructs" THEN "fields" ELSE "objects"
  /\ Memory({Header(<<ThisKind, 0>>)}, DestroyedBlocks(ThisKind, ThisId), {})
  /\ call' = [call EXCEPT !.step = "objects", !.at = NextObject]
  /\ UNCHANGED <<status, lists, tables, err, refusals>>

\* utarray_next has no further element, of the last of the four arrays.
ObjectsDestroyed ==
  /\ call.kind = "destroy" /\ call.step = "objects" /\ call.at > Len(DestroyOrder)
  /\ GoTo("free") /\ UNCHANGED <<status, heap, lists, tables, fault, refusals>>

FreeContext ==
  /\ call.kind = "destroy" /\ call.step = "free"
  /\ Memory({}, {ContextBlock} \cup UNION {ArrayBlocks(<<ContextLists[k], 0>>) : k \in 1 .. 4}, {})
  /\ lists' = << >> /\ tables' = << >> /\ refusals' = 0
  /\ status' = "platform" /\ Return

------------------------------------------------------------------------------
\* After undefined behaviour nothing is followed further.
Lost == status = "undefined" /\ UNCHANGED vars

\* What the client asks for ...
Request ==
  \/ CreatePlatform \/ DestroyPlatform \/ CreateContext \/ Refuse \/ DestroyContext
  \/ \E kind \in Kinds : \E scope \in ScopesOf(kind) :
       \E name \in IF kind \in Named THEN NamesOf[kind] ELSE {NoName} : Make(kind, scope, name)

\* ... and how a call goes on.
Step ==
  /\ status # "undefined"
  /\ \/ NewContextArray \/ ContextFails
     \/ NewOwnArray \/ Push \/ AddName \/ MakeBuckets \/ Expand \/ TakeBack \/ GiveUp
     \/ ClearFields \/ DestroyObject \/ ObjectsDestroyed \/ FreeContext

Next == Request \/ Step \/ Lost

\* A call that has begun is executed: nothing in it waits for anything.
Fairness == WF_vars(Step)

Spec == Init /\ [][Next]_vars /\ Fairness

------------------------------------------------------------------------------
(* Properties.                                                             *)

Scopes ==
  ({"pointers", "arrays", "constructs", "variables"} \X {0})
    \cup ({"fields", "dimensions"} \X (Nat \ {0}))
TableScopes == ({"constructs", "variables"} \X {0}) \cup ({"fields"} \X (Nat \ {0}))
KindOf(scope) ==
  CASE scope[1] = "variables" -> "variable"
    [] scope[1] = "constructs" -> "construct"
    [] scope[1] = "fields" -> "field"

\* The variables have the values the other properties expect of them; a
\* destruction looks no further than one past the last object.
TypeOK ==
  /\ status \in {"none", "platform", "live", "undefined"}
  /\ err \in {"MAM_SUCCESS", "MAM_EINVAL", "MAM_ENOMEM"}
  /\ fault \in BOOLEAN
  /\ DOMAIN lists \subseteq Scopes /\ DOMAIN tables \subseteq TableScopes
  /\ \A scope \in DOMAIN lists : lists[scope] \in UtArrayOf(Nat \ {0})
  /\ \A scope \in DOMAIN tables : tables[scope].num_items \in Nat
  /\ call.obj \in Nat
  /\ call.kind = "destroy" => call.at \in 1 .. Len(DestroyOrder) + 1

\* Between two steps every hash table is whole: what HASH_FSCK tests, and
\* besides, the tail is the last element in the order of addition, and every
\* element of the list lies in the chain of its own hash value.  An addition
\* whose expansion is refused memory has to undo three structures for this.
HashConsistent ==
  \A scope \in DOMAIN tables :
    LET t == tables[scope]
        order == AppOrder(t)
        In(walk) == {walk[i] : i \in DOMAIN walk}
    IN  /\ HashFsck(t)
        /\ t.head # NULL =>
             /\ t.tail = order[Len(order)]
             /\ \A e \in In(order) :
                  e \in In(Chain(t, BucketWith(t, e)))

\* The bound on the length of a chain for which uthash.h expands its tables
\* holds after every addition, also after an expansion and after one that
\* failed, until the table has given up expanding.  An expansion itself may
\* leave a chain at the threshold, where the elements are so many: then it
\* is as short as the elements allow.
ChainsBounded ==
  \A scope \in DOMAIN tables : \A b \in DOMAIN tables[scope].buckets :
    LET t == tables[scope]
        bucket == t.buckets[b]
    IN
    \/ bucket.count < (bucket.expand_mult + 1) * HASH_BKT_CAPACITY_THRESH
    \/ bucket.count <= (bucket.expand_mult + 1) * IdealLength(t.num_items, NumBuckets(t))
    \/ t.noexpand
    \/ call.step = "expand" /\ call.scope = scope

\* What the program can still reach, and so give back.
Reachable ==
  {b \in {PlatformBlock} : status # "none"} \cup {b \in {ContextBlock} : status = "live"}
    \cup {Header(scope) : scope \in DOMAIN lists}
    \cup {Slots(scope) : scope \in {s \in DOMAIN lists : lists[s].room # 0}}
    \cup {Object(id) : id \in Listed}
    \cup UNION {TableBlocks(scope, tables[scope]) : scope \in DOMAIN tables}

\* Between two calls every block that is allocated can be reached, and every
\* block that can be reached is allocated: no error label, and no
\* destruction, forgets a block or gives one back too many.
NothingLeaks == call = Idle /\ status # "undefined" => heap = Reachable

\* No block is given back twice, or read or given back after it was freed,
\* whichever request of memory fails and in whatever order things are
\* destroyed.
NoFault == ~fault

\* Also in the middle of a call, until the context is being destroyed, no
\* array and no table points to a block that is not allocated.
NothingDangles ==
  status = "live" /\ call.kind # "destroy" =>
    /\ \A scope \in DOMAIN lists : Header(scope) \in heap
    /\ \A id \in Listed : Object(id) \in heap
    /\ \A scope \in DOMAIN tables :
         LET t == tables[scope]
             order == AppOrder(t)
             pointers == {t.head, t.tail} \cup
               UNION {{t.hh[order[i]][link] : link \in {"prev", "next", "hh_prev", "hh_next"}} :
                        i \in DOMAIN order}
         IN  \A id \in pointers \ {NULL} : Object(id) \in heap

\* Between two calls a look-up by name finds the object of that name that
\* the array of its scope lists, and nothing when there is none, whatever
\* expansions and failed additions came before.
FoundByName ==
  status = "live" /\ call = Idle =>
    \A scope \in DOMAIN tables : \A name \in NamesOf[KindOf(scope)] \ {NoName} :
      {id \in ListedIn(scope) : tables[scope].hh[id].key = name}
        = {HashFind(tables[scope], name)} \ {NULL}

\* The names that can be found, in the order in which they were added; an
\* object that is still being made does not count, nor do its fields.
GivenNames ==
  IF status \in {"live", "undefined"} /\ call.kind # "destroy"
    THEN [scope \in {s \in DOMAIN tables : call.kind # "construct" \/ s # Own("construct", call.obj)} |->
            LET order == AppOrder(tables[scope])
                given == {i \in DOMAIN order : order[i] # call.obj}
            IN  [i \in 1 .. Cardinality(given) |-> tables[scope].hh[order[i]].key]]
    ELSE << >>

Abstract ==
  INSTANCE NamedObjects
    WITH names <- GivenNames,
         ContextScopes <- {<<"constructs", 0>>, <<"variables", 0>>},
         Scopes <- TableScopes,
         Names <- DOMAIN HASH_FUNCTION

\* The tables, their buckets and the rollback of a failed addition together
\* are the names of NamedObjects: every call adds one name or none.
ImplementsNamedObjects == Abstract!Spec

\* A call that was begun returns, or runs into undefined behaviour: every
\* error label comes to an end, and so does the destruction of a context.
CallsReturn == (call # Idle) ~> (call = Idle \/ status = "undefined")
=============================================================================
