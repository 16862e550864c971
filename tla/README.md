# A verification of mirrored-allocators

The library has two independent parts. The **mirrored allocator**
(`src/mirrored-allocators.c`) hands out blocks that exist twice, at the same
offset of two buffers obtained from two platform allocators (a host and a
device, say). The **copy engine** (`src/copy-engine.c`) lets a client describe
data types for a platform: structs, unions, arrays, pointers and variables,
with the layout a C compiler would give them. Both use the vendored containers
`utarray.h` and `uthash.h`. Everything is sequential: there are no threads,
messages or persistent state, and no callback re-enters the library. What is
hard is elsewhere: long sequences of calls, calls that fail half way, word
arithmetic that wraps, and sizes copied from objects that may change later.

## Inventory

| Component | State | Operations | Interacts with | Hard part | What makes it correct |
|---|---|---|---|---|---|
| Mirrored allocator | `total_size`, `current_buffer`, `buffers`, the descriptors | create, destroy, alloc, alloc_aligned, get_buffer_descs | calls alloc1/alloc2 of the platforms; utarray | wrap-around, retirement before a successor exists, rollback | blocks inside their buffers, disjoint, aligned on the mirror side; nothing leaks; failures harmless |
| Buffer size loop | a candidate size | one `while` loop | inside alloc | the last bit shifted out | holds the request, no excess, ends |
| utarray | `i`, `n`, `d` | new, reserve, push, pop, len, next, free | used by both parts | `n` updated before realloc succeeds | slots counted are slots allocated |
| Copy engine contexts | five object kinds, their arrays and two name tables | create/destroy context; create struct, union, array, pointer, variable; add_field; add_dimension; getters | types refer to types; utarray, uthash | copies of sizes, freezing, self reference, padding, every call can run out of memory in several places, each with its own label | fields apart and aligned, copied sizes stay true, containment ends, names agree; every block owned once |
| Platforms, host type map | immutable records | create, create_host, destroy | read by contexts | a wrong entry misplaces every later field | a field takes as many bytes as the C type does |
| uthash | buckets, list of all elements, counts; the links lie inside the elements | find, add, expand, roll back, clear | names of constructs, variables, fields | expansion; the rollback of an addition whose expansion got no memory | bucket, list and counts agree, chains stay bounded, each name is found |

`mam_allocator_attach_ready_cb`, `mam_transform_set_t` and
`mam_default_type_map` are declared and have no code; the `ready` flag of a
buffer is never written. They are not modelled.

## Modules

| Module | Models |
|---|---|
| `UtArray` | the array as a record `elems`, `n`, `room`; `room` is what the last successful realloc gave, kept apart from `n` on purpose |
| `BufferSizing` | the size of a new buffer as a function: the first try times the least power of two that reaches the request, with the value 0 for "the loop never ends" |
| `BufferGrowth` | the same loop turn by turn, with fairness |
| `MirroredAllocator` | the allocator; extends the two first modules |
| `MirroredArena` | what the allocator promises its client: pairs of areas and blocks. `MirroredAllocator!ImplementsArena` is the refinement |
| `TypeLayout` | the arithmetic of types: sizes, alignments, offsets, extents |
| `TypeContext` | what a context of the copy engine describes, and what its getters tell; extends `TypeLayout` and `UtArray` |
| `HostTypeMap` | the type map of the host, from the sizes of the C types; extends `TypeContext` |
| `UtHash` | the hash table as a record of list, buckets and links: find, add, expansion, rollback, clear |
| `ContextHeap` | the memory of a context, one request or error label per step; extends `UtArray` and `UtHash` |
| `NamedObjects` | what a context promises about names. `ContextHeap!ImplementsNamedObjects` is the refinement |
| `MCMirroredAllocator`, `MCTypeContext`, `MCContextHeap` | values for TLC |
| `CommonLemmas` | lemmas on natural numbers (least elements, remainders) and on sequences |
| `BufferSizingProofs`, `BufferGrowthProofs` | theorems about the size of a buffer, as a function and as a loop |
| `MirroredAllocatorProofs` | theorems about the allocator: its blocks and memory, its counters, the refinement |
| `TypeContextProofs`, `TypeLayoutProofs` | theorems about contexts: types, names and failures; sizes, offsets and alignments |
| `UtHashProofs` | theorems about the operators of the hash table |
| `ContextHeapProofs` | theorems about the memory, the tables and the names of a context, and the refinement of `NamedObjects` |

**Allocator.** One action is one call, split by the way it goes. `Alloc` is
`mam_allocator_alloc` (alignment 1) and `alloc_aligned`, and is one of
`AllocFromCurrent` (the request fits), `AllocRetireFails` (realloc fails while
the current buffer is put in the list), `AllocRetireOverruns` (the header claims
a slot that was never allocated, the write is undefined), `AllocHangs` (the
doubling loop does not end), `AllocNoMemory` (calloc, alloc1 or alloc2 fails,
with the rollback) and `AllocFresh`. The C standard would let a compiler assume
that the doubling loop ends; the model takes the loop as it is written.
`hostMem`/`mirrorMem` are the ledgers of what the platforms are owed, and
`granted` remembers what the client was told. A request that succeeds without
being placed (the code ignores the second answer of `_mam_find_in_buffer`) is in
`granted` with `placed = FALSE`. The platform allocators are external: they may
return any free, non-wrapping region, or fail.

**Types.** One action is one public function, its disjuncts the ways it can go,
in the order of the checks in the code. Objects are numbered by their position
in the context's array of their kind. A field type is a kind and a number. A name
table is the set of positions it holds. A field also records whether the client
chose its offset, which the code knows only during the call. `Failing` selects
the allocations that may fail in a run. Several `MAM_FIELD_OPTION_OFFSET`
arguments in one call are taken as one, since the last wins and each is checked
alike. Field types and dimensions with invalid tags are not given: the
code leaves validating them as a TODO. The getters change nothing; `ReadField`,
`GetConstructByName` and the like are what they answer, and `NamesAgree` and
`FailureIsHarmless` are stated through them, as a client would see it.
`HostTypeMap` adds the map that `mam_platform_create_host` computes; the layouts
of the runs use that map.

**Memory.** `TypeContext` and `ContextHeap` model the same calls from two sides.
`TypeContext` takes a call as one step and keeps sizes, offsets and types;
`ContextHeap` keeps neither, and takes a call as the sequence of its requests of
memory, because which blocks have to go back depends on the request that was
refused. `Make` is the calloc of the six calls that make an object (construct,
field, pointer, array, dimension, variable). `NewOwnArray`, `Push`, `AddName`,
`MakeBuckets` and `Expand` are the requests that follow (`utarray_new`,
`utarray_push_back`, the three of `HASH_ADD_KEYPTR`: the `UT_hash_table`, its
buckets, the expansion). Between the first two of `HASH_ADD_KEYPTR` only the handle
of the new object knows the half-made table, which goes back if there is no memory
for its buckets. `TakeBack` is label `err_arr`, `GiveUp` is `err_mem`.
`mam_context_create` is `CreateContext`, `NewContextArray`, `ContextFails`;
`mam_context_destroy` is `DestroyContext`, then `DestroyObject` once for each
object, `ObjectsDestroyed` when the walk has come to its end, then `FreeContext`. A
construct takes two steps: `ClearFields`, which reads the table of its fields
through the handle in the first of them, and `DestroyObject`, which frees the fields. `call` is the frame of the call under way, and no other
call begins before it returns: the library has no locks and its documentation no
threads. `fault` becomes true when a block is freed or read that is not
allocated. A new object gets the lowest free number, so that freed memory is used
again. After undefined behaviour (an unchecked calloc, a push past `d`) nothing is
followed further, and nothing claimed but that `fault` was false.

**Hash table.** `UtHash` is the code of the macros on a record: `hh` holds the
`prev`, `next`, `hh_prev`, `hh_next` of each element, `buckets` the head, `count` and
`expand_mult` of each chain. An addition links the element first (`HashAdd`); if its
bucket is then `Full`, the expansion is a step of its own, which either moves
everything (`Expanded`) or is refused memory (`RolledBack`, the three macros of the
rollback in their order). The Jenkins hash is replaced by a function from names to
numbers, a parameter.

## Runs

| Run | Question | Bounds |
|---|---|---|
| `allocator` | Are blocks inside their buffers, disjoint, mirrored, aligned, counted; does anything leak, does the growth stay geometric, do listings stay right, is a failed call harmless; is every call a step of the arena; when is a success without address possible? | 5-bit words, first buffer of 4 bytes, three base addresses a side, sizes 0, 1, 4, 5, 31, alignments 1, 3 (refused), 4, three grants, three descriptors, arrays of 0 and 2 entries for a listing |
| `growth` | What the loop computes, and that it ends | every total and request of 6 bits |
| `layout` | Where do fields go, how large are arrays, and does the host's map give each field the size of the C type? | one construct with three fields, and a pointer, at offsets 0, 5, 59 of 64; or two arrays with three dimensions between them, of five shapes |
| `types` | Do copies stay true, does containment end? | two constructs of two fields, an array, a variable, every calloc failing |
| `failures` | Is a failed call harmless, does it freeze no type, do names and arrays agree? | one construct, named or anonymous, with two fields, one array, one variable, every realloc and table failing |
| `heap` | Is every block owned by exactly one place, at every point where memory can be refused; are the hash tables whole and bounded; is a name found; does each call return; is each call one step of `NamedObjects`? | contexts within one of three populations (six variables; a construct with two fields and a variable; a pointer, an array with a dimension and a construct), 2 first buckets, chains of 2, one refusal in the life of a context |

The bounds reach the cases of interest: with 5 bits and a first buffer of 4
bytes, the current buffer fills, is retired and outgrown within three calls,
`size + pad` wraps, and the address space runs out; `FirstSlots` of 1 makes
the array of buffers grow twice. Three grants are enough for two blocks
in one buffer and a third in the next, or for two retirements. Alignment 0,
which the code accepts and whose mask is all ones, is in no passing run; the
theorems hold for it as well. Offset 59 of 64 makes offsets, sizes and padding
wrap. Symmetry is over descriptors and over names, which the code only
compares. A bound on successes (`MaxBlocks`, ...) never disables the failures of a
call, so none is hidden by it. `Populations` bounds the objects of a context: it
holds at most as many of each kind as one of the populations says, and several
small populations replace one large one.

In `heap`, tables begin with 2 buckets instead of 32 and chains of 2 instead of 10
start an expansion, so that six names reach all a table can do: expansions,
a bucket with a raised `expand_mult`, two ineffective expansions and `noexpand`, a
rollback in a table that was expanded before, two names with one hash value.
`MaxRefusals` is 1: one request of a context, any one, is refused. After the
labels have run, nothing of the failure is left but `n` of an array (the one
exception, which run `slots` shows) and the flags of a table, so what a second
refusal does is what a first one does in a state that is reached without it.
The bound starts over with each context. (With 2 the
invariants hold too, over 463,009 states; only the temporal properties take too long.)
`CHECK_DEADLOCK FALSE` is set for `growth` only: a loop that was left has no
next turn.

Six runs are expected to fail; each shows where the code departs from what the
repository says of it.

* `placed`: a request as large as the new buffer is answered `MAM_SUCCESS` with
  no address (`free > sz` is strict, and the answer is ignored).
* `beyond`: `size + pad` wraps and the block overlaps the next one.
* `slots`: a failed realloc leaves `n` doubled; the next push writes past `d`.
* `zero`: a dimension of 0 followed by one of 4 gives an array of 4 elements.
* `dynamic`: an array of dynamic arrays has size 0 instead of -1, so that a
  struct accepts it as a field.
* `wrapped`: a field at an offset near the end of the address space wraps
  `last_offset`, and the next field is placed at the beginning of the construct.

The safety properties of blocks are therefore stated for *sane* grants: placed,
with a non-zero alignment, and `size + alignment` within a word. Those of
constructs are stated where no sum wrapped (`NoWrap`), and those of array sizes
for non-zero extents and products in range: what the code makes of a product that
does not fit in a `ssize_t` is modelled, but nothing is claimed of it.

Seen while modelling, without a line of the repository that says otherwise: a
construct is accepted as its own field, with the size it had before
(`CopiedSizesStay` exempts it); `mam_context_create_variable` leaves the type
frozen when it fails (`FailureFreezesNothing` says that it is the only call that
does); `create_pointer` and `create_array` do not check calloc.
An expansion may leave a chain at its threshold when there are very many elements (the
chain is then no longer than the even share it was measured by), and such a chain
grows until the next addition to it expands again. `ChainsBounded` therefore allows
each chain the larger of the two lengths. With the 32 buckets and the threshold of 10
of the code this takes thousands of names in a few chains, with those of run
`heap` more names than its six; there the first bound is the one that counts.

## Fairness

`BufferGrowth` assumes weak fairness of `Next`: the thread that executes the loop is
not stopped, which is all the code needs. `ContextHeap` assumes weak fairness of
`Step`, which are the steps of a call that has begun: nothing in them waits for
anything, and memory is given or refused at once. There is no fairness for
`Request`: no client has to call. `CallsReturn` says that with this every call
comes back, the error labels and the walk of a destruction included.

## Proofs

The theorems hold for every width of `size_t` (a power of two; at least 6 bits
for the copy engine, so that 16 bytes are a size), every default size, all
sets of addresses, sizes, alignments, names, offsets, dimensions and
populations, every hash function, every number of first buckets, every threshold of at least 2, and any number of
refused requests. Every invariant, every action property and both refinements that
a passing run checks are theorems.

**Blocks and memory** (`MirroredAllocatorProofs`): `TypeOK`,
`BlocksInsideBuffers`, `BlocksDisjoint`, `MirrorAligned`, `NothingLeaks`,
`ListingIsPrefix` and the action property `FailureIsHarmless` follow from one
invariant, `IInv`. That blocks are disjoint is not inductive alone: it needs
that every block lies in the carved part of its buffer (so that the next one is
past it), that buffers are apart from each other on both sides, and that the
ledgers hold exactly the live descriptors (so that a new buffer is apart from
the old). That nothing leaks needs that each live descriptor is listed exactly
once (`Enumerated`). There is a lemma per action, and the arithmetic of a
placement is in lemmas about one buffer.

**Counters** (`MirroredAllocatorProofs`): `CountMatches`, `TotalIsHeld`,
`BuffersDouble` and `UnplacedOnlyWhenTight`, as the invariant `Accounts` on top of
`IInv`. The number of bytes held is a cardinality; that it fits in `total_size`
without wrapping needs that the blocks of a platform are disjoint and end within
the address space. `BuffersDouble` needs that a buffer has at least the size of
`total_size` when it is obtained, a lemma about `BuffAllocSize`.

**Refinement** (`MirroredAllocatorProofs`): `ImplementsArena`. Every action maps to a
step of `MirroredArena` or to a stutter, under the mapping of
`MirroredAllocator`, given `IInv`.

**The loop** (`BufferSizingProofs`, `BufferGrowthProofs`): `TypeOK`,
`FitsWithoutExcess`, `ZeroOnlyForHuge`, and `LoopComputesBuffAllocSize`: when the
loop is left it holds what the function says. `BuffAllocSize` takes the least
factor whose candidate reaches the request instead of recursing; the invariant of
the loop is that its candidate is that of a factor below which none reaches. Where
an induction is needed, the proofs take a least counterexample.

**Contexts** (`TypeContextProofs`): `TypeOK`, `NamesAgree` and the action properties
`FailureIsHarmless` and `FailureFreezesNothing`. `EveryStep` reduces each action, with its failures, to one of
the changes that `Change` lists: nothing a client sees, the end of the context, or
one object added and what it refers to frozen. `NamesAgree` needs `NamesListed`:
the table of names holds exactly the positions there are, and no two objects
share a name unless both are anonymous. A push that fails must therefore leave elements and table in
step, which is where the order of `HASH_ADD` and `utarray_pop_back` matters.
`FailureFreezesNothing` follows from the same list: each change freezes what is referred to
and nothing else, and of the calls that fail only `create_variable` refers to something.

**Layout** (`TypeLayoutProofs`), from those changes:

* `CopiedSizesStay` and `ContainmentEnds` from `RefsFrozen`: whatever a field, an
  array or a variable refers to exists and is frozen, so that no later call changes
  its size, and nothing it contains can come to contain it. A construct as its own field is the exception
  that both properties state.
* `FieldsApart` from `ConstructsLaidOut`: in a struct offsets and ends are in order and
  `last_offset` is the end of the last field, and `total_size` is that end, or the
  size of the largest field of a union, rounded up to the alignment, as long as no
  sum wrapped. The size of a union is rounded again at each field; `RoundTwice`
  says that this gives what rounding once does.
* `FieldsAligned` from `FieldsFit`: in a construct that is not packed, the alignment
  is at least that of each field. Alignments are 1, 2, 4, 8 or 16, so that a
  smaller one divides a larger.
* `ArraySizesRight` from `ArraysSized`: an array without dimensions has size 0, one
  with a dynamic extent -1, any other the product. `Products` is a recursive
  function; that it exists and is unique is proved by a least counterexample. A
  product that fits has partial products that fit, since no extent is 0.
* `NativeFields` from `CopiedSizesStay` and a lemma on `_mam_get_int`.

**Hash tables** (`UtHashProofs`). `Whole(t, s, chains)` says what the macros take
for granted of a table `t`: the list of all elements is `s` forth and back, the
chain of each bucket is `chains[b]` forth and back, an element is in the chain of its hash
value and in no other, and the counts are right. `HashAddWhole`, `RolledBackWhole`
and `ExpandedWhole` say that an addition, its rollback and an expansion lead from
a whole table to a whole one, and which elements, keys and chains that has;
`FsckOfWhole` that a whole table passes `HASH_FSCK`; `HashFindOfWhole` that a look-up
finds an element of the name if there is one. Each proof has two steps, first
what the operator does to each member of the record, then that the result is
whole. The rollback runs three macros of which each undoes one structure; its
proof shows that each finds the structure it undoes in the state it expects. For
the bound on chains, an expansion sets `expand_mult` to the number of even shares
in a chain, rounded down, so that it is at most `expand_mult + 1` shares long;
`IsExpanding` keeps, while an expansion is under way, what its rollback restores:
without the new element every chain was short.

**Memory of a context** (`ContextHeapProofs`). The inductive invariant `IInv` has
seven parts, and each is there because another property fails without it:

* `FrameOK`: which frames there are, and in which state of the context each.
* `ListsOK`: the arrays are those of the context and one for each construct and
  array that is listed, and the one the call under way has made; each object is
  listed once, the object of the call only after its push. Without it `GiveUp`
  could free an object that an array still lists.
* `TablesOK`: each table is whole and holds what the array of its scope lists
  (`Held`), but for the object that is pushed and not yet added, or rolled back
  and not yet popped. The handle of such an object (`Orphans`) is the only one that
  may lie outside.
* `NamesOK`: no two elements have one name, and none has the name that is about to
  be given. `FoundByName` needs it, and it has to survive between the look-up at
  the beginning of a call and `HASH_ADD` at its end.
* `ChainsOK`: chains are short, or an expansion is under way.
* `HeapOK`: `heap` *is* what the arrays, the tables and the frame own (`Owed`), or,
  during a destruction, what the objects that are left own. An equation is needed
  here: an inclusion one way loses `NothingLeaks`, the other way `NoFault`. During a
  destruction the arrays still list what is freed, and the equation is over
  `call.at .. Len(DestroyOrder)`, where a construct owns the table of its fields
  until `ClearFields` (`Rest`); that the entries own disjoint blocks makes each
  step free only what is there. The half-made table between two requests of
  `HASH_ADD_KEYPTR` is in no array and no table, so that the equation has a part
  of its own for it (`Spare`).
* `~fault`.

There is a lemma `<Action>Keeps` for each action. The theorems are `HeapTypes`,
`NeverFaults`, `NoLeaks`, `NoDangling`, `TablesConsistent`, `ChainsStayShort` and
`NamesFound`.

**Names** (`ContextHeapProofs`): `TablesImplementNames` proves
`ImplementsNamedObjects` from the same invariant. `NamesStep` shows that each step adds one name,
opens or closes the set of names, or changes none. `GivenNames` depends, scope by scope, on the table
of the scope and on the object of the call alone (`GivenIn`), so that only the
steps that write a table or change the frame need an argument. `TablesOK` makes
the names of a scope those of the list the array keeps (`GivenAll`,
`GivenButLast`). A name comes into being when `AddName`, `MakeBuckets`
or `Expand` completes an addition, and `NamesOK` gives that it was free. An expansion that is
refused and rolled back, and the orphaned handle that a failed call takes out of
its own table, leave the names of every scope as they were.

The assumptions are those named in the modules: word sizes and the sets of
inputs are what they are called, and `NoDesc` is no descriptor. The external
platform allocators are assumed only to return free, non-wrapping regions
(`Available`). `HostAssumption` says that the platform of the context is the host, if
the host is not refused, and `HalfAssumption` that a half has 2 bytes: C has no
such type and the code asks nothing of it. `HashAssumption` says that hash values
are natural numbers, `ThresholdAssumption` that a chain of one element starts no expansion (the code has
32 buckets and a threshold of 10).

Only model-checked: `EndsUnlessHuge` and `CallsReturn`, which are liveness and out of
the prover's reach. That the six violated claims fail is what a counterexample
shows; there is nothing to prove.

## Not modelled

* The rest of the vendored headers: the library calls none of it (sorting,
  replacing and selecting in `uthash.h`, its Bloom filter and the hash functions;
  inserting, erasing and sorting in `utarray.h`).
* The checks of NULL arguments, which change nothing: `Refuse` and its like stand
  for every call that is refused because of its arguments.
* The names, contents and byte order a platform stores: nothing reads them.
* What is declared without code (see the inventory), the build and the tests.
* The sign of the host's `intptr_t` and `uintptr_t`: `HostTypeMap` has them as the
  code has (`intptr_t` unsigned, `uintptr_t` signed), but nothing in the
  library reads a sign, and nothing in the repository says which it should be.

## Plan

Nothing of the plan is left. The two parts of the library that are declared
without code (ready callbacks and transform sets) would be the next to model once
they exist.
