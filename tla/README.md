# Verification of itlib

[itlib](../src/README.md) is a collection of single-header C++ libraries: containers, synchronization helpers, holders,
stream buffers and wrappers. The headers are almost independent of one another, so this project is a set of independent
specifications, one per component that has state and a protocol of its own. Each is translated from the header under
`src/include/itlib/`; the doctest suites under `src/test/` and the comments in the headers were read for the intended use
and for what is promised.

`PROJECT.json` maps every definition to the lines it models, and lists the runs, the mutants that show each property can
fail, the hazards, the findings and the theorems.

## 1. Inventory

Components that keep state across calls, roughly in order of how hard they are to test.

| component (header) | state | operations | what is hard | what makes it correct |
|---|---|---|---|---|
| `atomic_shared_ptr_storage` | spinlock flag, `shared_ptr` | load, store, exchange, compare_exchange from any thread | interleavings of unlocked counter updates with the critical section; destructors of `T` running in the middle of an operation; an unbounded spin | mutual exclusion, exact use counts, linearizability, progress |
| `strong_try_rec_mutex` (`mutex.hpp`) | inner mutex, owner, depth | try_lock, unlock | nesting, owner and depth changed separately, spurious failure | recursive mutual exclusion, try_lock fails only when another thread has the lock, calls return |
| `data_mutex` | mutex, data, wrappers with a `m_data` pointer | eight ways to lock, move and destruction of wrappers | failed, throwing and moved-from wrappers | one wrapper per lock, unlocked exactly once, no data race |
| `small_vector` | `m_begin`, `m_end`, `m_capacity`, static buffer or block | all of `std::vector` | object lifetimes while elements move between and inside buffers; allocation or construction that throws; the boundary between the buffers | no lifetime fault, no leak, contents of a `std::vector` |
| `flat_set`, `flat_map` | a sorted container, a comparator | insert, emplace_hint, erase, construct, swap | hints, comparators that travel with the container, a full container | strictly sorted, behaves as an ordered map |
| `static_vector` | buffer, size | `std::vector`'s, in a fixed buffer | as `small_vector`, and overflow of the capacity | as `small_vector` |
| `pod_vector` | begin, end, capacity of raw memory | `std::vector`'s for trivial types, `recast_take_from`, `expand` | size arithmetic, byte counts | contents of a `std::vector`, no write past the block |
| `dynamic_bitset` | words, size in bits | set, flip, append, copy, resize | bits past the end, copies that cross words | behaves as a sequence of bits |
| `expected` | value, error, or nothing alive; a flag | construct, move, copy, assign, emplace, getters that give references | constructors that throw between destroy and construct | one member is alive, and it is the one the flag says |
| `any` (`any.hpp`), `opt_ref_buffer` | an object in a small buffer or on the heap; a span into it | emplace, move, copy, reset | the span after a move | the object is destroyed once; the span points into what is owned |
| `generator` | coroutine handle, promise with a value or exception | next, begin, ++, done, move | resumption after the end, exceptions | yields each value once and in order |
| `mem_streambuf` | put and get areas | write, read, seek, get/set container | pointers against the container's size | behaves as a sequence of bytes |
| `ref_ptr` | `shared_ptr`, copy-on-write | unique, copy, write | the use count races with other owners | a shared object is not written |
| `atomic_relaxed_counter` (`atomic.hpp`) | an atomic integer | ++, --, copies | the copy is a load and a store | no increment is lost |
| `ufunction`, `shared_func`, `func_ptr`, `sentry`, `make_ptr`, `shared_from` | one pointer | forwarding | none beyond ownership | called or released once |
| views: `span`, `stride_span`, `poly_span`, `memory_view` | pointer, length, stride | none that changes other state | - | - |
| the rest: `tep_vector`, `transparent_umap`, `pmr_allocator`, `rstream`, `rand_dist`, `time_t`, `strutil`, `qalgorithm`, `utility`, `type_traits`, `throw_ex` | none of their own, or the standard library's | - | - | - |

**Interactions.** `opt_ref_buffer` holds an `any` and a `span`; `mem_streambuf` and `flat_set`/`flat_map` take any vector of
the library as a container, so they depend on its exception behaviour; `ref_ptr` and `shared_func` rely on
`std::shared_ptr`'s control block, as `atomic_shared_ptr_storage` does. Concurrency appears in the first three rows, in
`ref_ptr` and in `atomic_relaxed_counter` only; callbacks into user code are the constructors, destructors and comparators
of `T`. Nothing is persisted, and nothing is sent over a network.

## 2. Modules

| module | models |
|---|---|
| `AtomicSharedPtr` | abstract: an atomic register of pointers with load, store, exchange, compare_exchange |
| `SharedPtrStorage` | `atomic_shared_ptr_storage` before C++20, and the use counts of `std::shared_ptr` |
| `SharedPtrStorageProofs` | its proofs |
| `RecursiveTryLock` | abstract: a recursive lock whose `try_lock` is strong |
| `StrongTryRecMutex`, `StrongTryRecMutexProofs` | `strong_try_rec_mutex`, its proofs |
| `DataMutex`, `DataMutexProofs` | `data_mutex` and its wrappers, their proofs |
| `SmallVector`, `SmallVectorProofs` | `small_vector`, its proofs |
| `OrderedMap` | abstract: ordered maps as sets of elements, without positions |
| `FlatMap`, `FlatMapProofs` | `flat_map`, its proofs |
| `FlatSet` | `flat_set`, as a `FlatMap` whose elements have keys only |
| `StaticVector` | `static_vector` |
| `PodVector` | `pod_vector`, its bytes and its allocators |
| `DynamicBitset` | `dynamic_bitset` |
| `Expected` | the six specializations of `expected` |
| `AnyObject` | `any` |
| `OptRefBuffer` | `opt_ref_buffer_t` for several element types |
| `Generator` | `generator`, its promise and its pseudo-iterators |
| `MemStreambuf` | `mem_ostreambuf`, and `mem_istreambuf` reading what it hands over |
| `RefPtr` | `ref_ptr` in copy-on-write by several threads |
| `Domains` | the constants that several of these ten components share |
| `Owners`, `OwnersProofs` | an instance of each of the seven components that own one thing or construct objects in themselves (`Expected` to `RefPtr`, and `StaticVector`), and the proofs about them |
| `Vectors`, `VectorsProofs` | an instance of each of the three other containers (`FlatSet`, `PodVector`, `DynamicBitset`), and the proofs about them |
| `Holders`, `HoldersProofs` | the program that uses any one of the ten, and the proofs that it keeps what each of them keeps |
| `MC*` | the values, symmetries and comparators of the model-checked instances |

### SharedPtrStorage

A step is one access to shared memory. `flag` and `m_ptr` are the members; `uses[o]` is the counter in the control block of
the object at address `o`, which is external code modelled from its contract. Addresses are recycled, so a `compare_exchange` can meet
the same address holding another object, as it can in the program. Each thread has the variables a caller has: `cur`
receives results and is the `expect` reference, `mine` is what it passes. An object in `Reentrant` has a destructor that
loads from the same storage. `pc` follows the code between the lock and the unlock: `acquire`, `compare`, `copy` and
`addref` (the two halves of copying `m_ptr`), `assign` (`expect = m_ptr`), `swap_read` and `swap_write`, `release`, and
`drop`, where the parameter is destroyed after the lock. The memory orders are not modelled: every shared access but the
flag and the counters is inside the lock, whose acquire and release make the critical sections sequential.

### StrongTryRecMutex

`m_mutex`, `m_owner`, `m_depth` as in the code, each read or write a step between taking and releasing the inner mutex.
`held` counts, outside the code, the successful `try_lock`s of each thread. The caller obeys the documented protocol: it unlocks only what it
holds.

### DataMutex

Each thread has two variables that hold wrappers, exclusive or shared, made by the blocking or the `try_` functions. A
constructor is three steps as in the header: the base sets `m_data`, the mutex is locked, and (for `try_` wrappers that
failed) `m_data` is cleared. The mutex may refuse spuriously and may throw. If it throws, the destructor of the base class runs, and unlocks a mutex that its
thread does not have. That is undefined for the standard mutexes: here it does nothing, or releases the lock of any thread that has it, and `misused`
records it. The program goes on; `OneWrapperPerLock` and `NoDataRace` claim nothing from then on, and `UnlocksWhatItLocked` shows that no other step gets there. Moves and destructors are one step.

### SmallVector

Memory is explicit: `object` maps the locations at which a `T` is alive to values and `block` gives the size of each
allocated block. A function of the class is translated into the sequence of steps it makes (construct, move, destroy, allocate,
deallocate, set the three members), computed from the state at the call, when all its branches are decided, and executed one at a time. A step that misuses memory sets
`fault`, where the behaviour ends; a step that throws abandons the others. Arguments may be elements of the vector itself (`AssignOwn`,
`InsertOwn`, `ResizeOwn`): `call.stale` says that the element is gone when it is read. `contents` is the history of what a `std::vector` would hold after the
same calls.

### FlatMap

`m_container[m]` is the vector of map `m` and `cmp[m]` its comparator, as the relation it computes: any strict weak order,
so keys may be equivalent and not equal. An iterator is a position. `answer` records the last call: what it was given and
the element, or `Nothing` for `end()` and for an exception, that the returned iterator or reference denotes. The caller takes the answer
before the next call, which only keeps apart in time what a sequential program keeps apart anyway. The standard algorithms and the vector are
external: `lower_bound` and `upper_bound` are partition points, `std::sort` is any permutation in order (it is not
stable), and a full vector (`static_vector`) throws with no effect. `flat_set` has the same functions over elements that are only keys,
so `FlatSet` is an instance of `FlatMap` with one value, and maps each of its functions to the one of `FlatMap` that does the same. `OrderedMap` knows only sets of elements, so it says which element each iterator must be at,
and that a hint never matters. The `flat_map_ready_tag` constructors get sorted containers only, which is what the tag promises.

### StaticVector

`object[v]` is a function from the slots of `v` that hold a living `T` to their values: constructing adds a slot to its domain, destroying removes one. A function of the class is the sequence of constructions and destructions
it makes, computed at the call; if its copies may throw, it may end before any of them. `contents` is what a `std::vector`
would hold, `torn` which vectors a copy was thrown in while they were constructed or had a gap in the middle, and `fault` names the function that
first misused a lifetime, or read another element than it was given: a behaviour ends there. Arguments may be elements of the vector. An insert that throws leaves a vector with a
hole below `m_size` (`Holed`). The vector is still to be destroyed, so the functions that destroy all its elements first are modelled for it (`clear`,
which is all that the destructor does, and the assignments), and have the fault `torn`; calls that read such a vector are not modelled. A constructor that throws leaves no vector to destroy.

### PodVector

A block is the sequence of its bytes; those that nobody wrote are `Junk`. `type` fixes `sizeof(T)`, whether the allocator
aligns its blocks (if not, the elements begin at a shift that the byte before them records), and whether it can expand
them. An expand that reckons from another shift than the block has leaves it `Short`. `realloc_wasteful_copy_size` chooses, as in the code, between reallocating and copying. `recast_take_from` moves
a block between vectors of different types, so the same bytes are counted in other units afterwards. The functions with `own` in their names have an element of
the vector for an argument, which they read after they have made room, as the code does: if the block is another one by then, or the insert has moved the
element, that is a fault, and otherwise they must insert what `contents` has at that place.

### DynamicBitset

A word is the set of its bits that are set; shifts drop what leaves the word. `bits` is the `vector<bool>` after the same
calls. A `copy` that drops a bit which is set (section 6) has the fault `copy`, after which nothing is said. Bits past the size keep what the code leaves in them.

### Expected

`union` says which of the two members is alive and what it contains, `m_has_value` what the flag says. `kind` is the
specialization: each member is an object, a reference (whose flag is its own null pointer) or void. Constructors of `T` that
an `emplace` calls may throw. `abandoned` is an object that such a throw left with nothing alive and a flag that says otherwise. `given` is the member and the
contents that each object was given last; a move gives the target what the source was given, and leaves a shell to the source. It is kept apart from `union`, whatever
the code does with the members. `take` is a caller that moves from what a getter of an rvalue refers to, and the rvalue `value_or` does the same.

### AnyObject

`m_block` and the base `allocator` of each any; `block` is what the allocators know of a block (who allocated it, and for which type), `size` what the
block says of itself, `object` what is alive in it. Allocations and constructors may throw at every call.

### OptRefBuffer

What matters is where the owned bytes are: in a block that a move passes on, or inside the owner (a short string, a small
container in an any), where a move copies them. `m_span` points to a place and counts in the `T` of the buffer.

### Generator

The coroutine is external: `plan` says how many values it yields and how it ends. A resume runs it to its next `co_yield` or
its end. The consumer mixes `next()` and iterators over the same frame; `seen` is what it got, `skipped` what it resumed past without
looking, `caught` the exceptions it got. A frame is used for one coroutine.

### MemStreambuf

Pointers are offsets. The constructor may reserve, and a string has some capacity unasked, so a stream may begin with a put area. `file` is what was written, and where; `handed` the part of it that the istreambuf's source should be. The container grows to a
capacity of its choice, filled with zeros, or throws. `fault` is an access outside the memory.

### RefPtr

The counter of the control block is changed atomically; `unique()` and the write or copy it decides on are two steps, between which
other threads run. A pointer is used by one thread only, which may copy it for another.

## 3. Runs

All runs take well under a minute except `storage_safety`, `small_vector`, `flat_map` and `holders`.

| run | instance | shows |
|---|---|---|
| `storage_safety` | 2 threads, 3 addresses, one with a reentrant destructor | mutual exclusion, exact counts, no copy of a dead object, atomic swaps, and `SharedPtrStorage` implements `AtomicSharedPtr` |
| `storage_live` | 2 threads, 2 addresses | calls keep finishing, and a thread left alone returns |
| `storage_dtor_deadlock` | as above, a destructor that loads | **violated**: a thread waits for its own lock |
| `rec_mutex` | 3 threads, depth 3 | owner and depth are exact, exclusion, the assertions, `StrongTryRecMutex` implements `RecursiveTryLock`, calls return |
| `data_mutex` | 3 threads, 2 variables each | locks and wrappers are one to one, no data race, until the mutex is misused, which takes a constructor that throws |
| `small_vector` | 2 vectors, 3 blocks, 2 values, static capacity 2, revert below 2, sizes up to 3 | lifetimes, contents, blocks, with allocation failures and arguments that are own elements |
| `flat_map` | 2 maps, 3 keys, 2 values, two orders (ascending, and by parity, which does not tell 1 from 3), capacity 3 | vectors stay sorted by their own comparators, and `FlatMap` implements `OrderedMap` |
| `holders` | of each of ten components two or three small objects, one component at a time | see below |
| `small_vector_revert`, `_reserve`, `_empty_range`, `_throw` | 1 vector | **violated**: see section 6 |

**The holders.** Components that do not interact share one run: the initial state chooses which of them a behaviour
exercises (`which`), so that the state spaces add up instead of multiplying. The others keep their initial states.

| component | instance | properties |
|---|---|---|
| `expected` | 2 objects, 2 contents, all kinds | `HoldsOneOfTwo`: the flag is truthful after moves in both directions and after throws; `HoldsWhatItWasGiven`: each holds what was put or moved into it last |
| `any` | 2 anys, 3 blocks, 2 types (one can be copied), 2 allocators | `BlocksOwned`: one owner per block, freed as it was allocated |
| `opt_ref_buffer` | buffers of `T`s of 1, 1 and 2 bytes; blocks of 3 and 4 bytes | `SpanOfOwned`: the span is where the bytes are |
| `generator` | 2 owners, coroutines of up to 2 values that return or throw | `Delivered`: each value once, and the end; `FramesOwned` |
| `mem_streambuf` | 2 bytes, up to 2 of them | `AccessesInside`, `ReadsWhatWasWritten` |
| `ref_ptr` | 2 threads of 2 pointers, 3 objects, 2 values | `StillUnique`: `unique()` holds until the write; `Detached`: no write is seen through another pointer |
| `dynamic_bitset` | words of 3 bits, bitsets of up to 4 and 3 | `LikeVectorBool`, until a `copy` loses a bit |
| `static_vector` | 2 vectors of capacity 3, 2 values | `NoLifetimeFault`, `LikeStdVector` |
| `pod_vector` | vectors of up to 3 and 1 elements, of 1 and 2 bytes; 3 blocks | `NoOverrun`, `BuffersBacked`, `LikeVectorOfBytes` |
| `flat_set` | 2 sets, 3 keys, 2 orders, capacity 3 | `LikeStdSet`: it implements `OrderedMap` |

Several of these properties name calls after which they claim nothing, because the code goes wrong there: `NoOverrun`, for example, names those that access
memory outside the block or read what is gone from it. They are confined, not caught: the property shows that no other call does it. Section 6 lists them. This run and those of `small_vector` allow deadlock: these are objects whose caller may stop, and a behaviour ends
where one is used beyond what the language defines, or when all of them were left in a state that nothing can be done with.

**Bounds.** Two threads suffice for the pairwise conflicts of the storage (every step involves the lock's holder and one other);
its safety theorems hold for any number. Three addresses allow both callers and the storage to hold distinct objects. In `rec_mutex` a
third thread sees the lock between an unlock and a retry by the two others, and depth 3 separates first, inner and last
locks. In `data_mutex` two variables per thread are what a move needs. For `small_vector`, capacity 2 with size up to 3 reaches the static buffer (full and not), a block whose content would fit in the
static buffer, the exact boundary, growth twice over, and moves of one and of two elements past a position; `MaxSize = 4` and `RevertToStaticBelow = 0` were also run once and pass.
For `flat_map`, three elements are the first size with an element before and one after the place where a key belongs, so that a hint can be wrong on either side, and
the first full vector that an insertion in the middle meets; two maps are what copies, moves and swaps relate.
`MaxDepth`, `MaxSize` and `Capacity` bound what the program asks for, and `MaxGiven` (2) the containers that a map is constructed from: two
elements are the first that can be in the wrong order or equivalent.
For the holders: two objects are what moves and swaps relate; capacity 3 leaves room to open a gap of one or two before elements that stay; a word of
three bits and bitsets of 4 and 3 let a copy end in a second word; two values per coroutine are a first one, a last one and the end; types of 1 and 2
bytes are what recasts and alignment tell apart. `MaxSize` of `MemStreambuf`, `DynamicBitset` and `PodVector`, `MaxYields` and the
one-use frames of `Generator` are bounds.

**Fairness.** `FairSpec` in `SharedPtrStorage` and `StrongTryRecMutex` is weak fairness of each thread's current operation:
the operating system eventually runs a thread that can run. No caller is obliged to call. Neither the spinlock nor
`std::mutex` is assumed to be fair, so nothing says that a particular thread gets in while others keep trying; only
`CallsKeepFinishing`, `CallsReturn` (somebody returns) and `ReturnsAlone` are claimed.

## 4. Proofs

Every theorem holds for all values of the constants that satisfy the named assumptions (finitely many threads, `NoThread` not a thread, and
the like). Each proof module has the same plan: an inductive invariant is shown to hold
initially and to be preserved by each action; the properties follow. TLC checked the invariants first, but for the one of `SmallVectorProofs`, which quantifies over
whole executions: of it, the runs check the consequences.

* `SharedPtrStorageProofs`. `MutualExclusion` is not inductive alone: `Consistent` says which operation can be where,
  `ReadsStand` that what the holder of the lock has read is still stored. `CountsExact` is proved by counting: lemma
  `HoldersUpdate` says how the number of holders of an object changes when one thread's variable changes, and `Balance`
  that every step changes a counter and the number of holders alike. That the counters never fall below zero, a part of `TypeOK`, is a
  consequence of `CountsExact` (a cardinality is not negative), so types are first proved with integers. `Linearizability` shows each step to be a step or a stutter of
  `AtomicSharedPtr` under the mapping of `Atomic`: an operation takes effect at its last access to `m_ptr`.
  `NoSelfWait`: without reentrant destructors no thread waits for itself, so the finding is the only way.
* `StrongTryRecMutexProofs`. `InnerExcludes` serializes the steps, `OwnerCounts` ties members to history, `Consistent`
  says what a thread knows of the members at each step. `Strength` is the refinement.
* `DataMutexProofs`. `OneWrapperPerLock` with `Consistent` (a wrapper under construction does not own yet) is inductive as long as the mutex is not misused;
  race freedom follows, and so does `UnlocksWhatItLocked`: until then a wrapper that owns has a lock to release, and a step that releases without one is the
  destruction of a wrapper under construction.
* `SmallVectorProofs` proves the four properties of the `small_vector` run for any number of vectors and blocks, all sizes and any thresholds (no bound of the
  run is used). It assumes `CopyThrows = {}` (of what the operations call, only the allocator throws) and `EmptyRanges = FALSE`: the runs
  `small_vector_throw` and `small_vector_empty_range` show that the code needs both. `BuffersAssumption` says that the static buffer of a vector is
  no block of the allocator.
  * The memory is one value and a step a function of it (`After`), so that a sequence of steps has an execution: `Runs(m, s, e, A)` says that `s` leads
    from `m` to `e` with no misuse, and allocates, which may throw, only in a memory of `A`; `Halts(m, s, A)` that it comes to a step that misuses what it finds.
  * Each loop that the functions are made of (destroy a range, fill, fill with defaults, copy, move to another buffer, shift elements right or left) has a lemma that says
    what it makes of any memory in which its cells are alive or free as it needs them. They are proved by following the loop's memories one index at a time.
  * `Rest(m, xs, T)` says that the vectors are at rest: apart in memory, each in its own static buffer or the one owner of its block, with its `Size` elements
    equal to `xs`, and nothing else alive; those in `T` are torn. Lemmas about `Rebased` and `Gapped` say when a change of one vector leaves all at rest, and when a vector with an open gap
    is again at rest once the gap is filled. An operation is then a composition of loops between memories at rest, in the code's order.
  * The inductive invariant `IInv` says that between operations the vectors are at rest and contain `contents`, and that in an operation the steps that are left lead to
    vectors at rest that contain `goal`, or halt at an argument that is stale; wherever an allocation may throw on the way, the vectors still contain `contents`, but
    for one that an assignment has torn. A step of an operation keeps that because it shortens what is left.
  * How much a vector grows is a recursive function (`Grown`): the proofs show that it exists and returns enough. Induction over numbers, here and along the loops, has the form
    that a nonempty set of them has a least one (`Least`), which the library's well-founded ordering of finite sets gives.
* `FlatMapProofs`. `Sorted` with `TypeOK` is inductive. The lemmas say that inserting at a place that fits between its neighbours
  (`InsertSorted` and those it rests on), removing an element, writing to a value and dropping equivalent neighbours of a sorted vector keep it
  strictly sorted; the place that `lower_bound` finds fits because the order is weak (`OrdersAssumption`), and so does a hint that passed its
  two comparisons, because a strict weak order is transitive.
  `Refinement` shows that `FlatMap` implements `OrderedMap`: from `Sorted`, no two positions hold equivalent elements, so that the set of elements
  has as many members as the vector, the element at a partition point is the first of those behind it, and a key that `lower_bound` does not stop at is not
  in the map; of each class of equivalent elements that a constructor is given, the first position is one that `unique` keeps (`KeepsOneOfEach`). Then
  one lemma per function maps it to the function of the ordered map.
* `OwnersProofs` has a section for each component of `Owners`. The assumptions on constants are named in `Owners` and `Domains`.
  * `expected`, assuming that nothing alive looks dead (`Dead \notin Alive`). `HoldsOneOfTwo` with types is inductive; the lemmas say what constructing,
    destroying and moving from the member that a flag names leaves of a union for which `Good` holds. `HoldsWhatItWasGiven` is inductive with it: the member
    that a move reads is the one that the source was given.
  * `any`, assuming that `Null` is no block, allocator or type. The functions of `any` are compositions (release, then
    allocate, or take), so the invariant is a predicate `Good` of allocators, owners and a memory, and a lemma each says that releasing, storing, moving and
    changing an allocator keep it; the steps put them together in the code's order.
  * `opt_ref_buffer`. Where a buffer's bytes are and which span goes with them is a statement about one buffer, but two buffers must not
    own the same block: a move passes the block on together with its span, so the invariant is kept by relating the two sides of the move. The only
    exception, an any that holds its container in itself, is part of the statement.
  * `generator`, under like assumptions. `Delivered` needs to know (`FrameInv`) that what is in the promise is what was yielded last and that nothing seen is later;
    then counting what was seen, skipped and not yet read is inductive. `FramesOwned` is inductive alone.
  * `mem_streambuf`. The memory is, as long as no access faulted, the file as far as it was written and zeros behind (`IsOverwritten`); the put and
    get areas lie in it, and what is read from the istreambuf is what was handed over. No bound on sizes is assumed.
  * `ref_ptr`, assuming that `Null` is no object. Counts are exact by counting owners as in `SharedPtrStorageProofs`; from that, a counter of one means that the
    pointer is alone, and a thread about to write stays alone because nobody else has a pointer to copy (`Alone`). `Detached` follows step by step.
  * `static_vector`, assuming that a slot is no value (`StaticAssumption`). The two invariants hold for any number of vectors, any values and any `Capacity`. The memory, objects and sizes together,
    is one value and a step a function of it. `Runs(m, s, e, B)` says that the steps `s` of the call `B` lead from `m` to `e` with no misuse, `Halts` that they come to one that misuses what it finds;
    in both, a copy is made only in a memory in which it may throw (`MayThrow`): either the vector is filled, its slots below `m_size` alive and no others, or the
    call is one of those that the history says tear it.
    * Most functions change one vector (`One`), a move and a swap two (`Two`). Each loop (push, destroy from either end, shift up or down over a gap, fill the gap, move or exchange
      with another vector) has a lemma that says what it makes of such a memory. It is proved by giving the row of the vector after every round (`Pushed`, `Grown`, `Shrunk`, `Hole`, `Mixed`, ...)
      and showing that each round leads from one to the next (`RunsEach`, `RunsLoop`).
    * The inductive invariant `StaticInv` says that until a fault every vector that is not torn is filled, with what `contents` lists. A function is a composition of loops
      from there, in the code's order. The calls that `NoLifetimeFault` excepts are proved to halt or to run, as their arguments have it; of a vector with a hole, only that it cannot
      be called otherwise than to destroy it is needed.
    * The model was restated so that it could be reasoned about: objects are kept vector by vector, and the memory after k steps is a recursive function.
* `VectorsProofs` proves the three properties of `pod_vector`, the refinement of `flat_set`, and that `dynamic_bitset` is a `vector<bool>` until a `copy` loses a bit. The first hold for any number of vectors, any sizes of their elements, each kind of allocator and any
  `realloc_wasteful_copy_size`; the sizes and the bytes of the run are no assumptions. `PodTypesAssumption` says that types have a size, `PodBytesAssumption` that 0 is a
  byte, and `PodBlocksAssumption` that the allocator has a block that no vector uses: as in the model, no allocation fails. `NullAssumption` says that `Null` is no block.
  * `Sound` says what a buffer is whose block was allocated, reallocated, expanded or recast: its start is where the byte before the elements says, and it has
    room for its capacity, unless it begins further from the start than some type expects that may have expanded it. `Filled` says that it has room for
    the elements of its vector, and that their bytes are those of the history. `PodIndInv` is both, of every vector, and that every block has one owner. `BuffersBacked` alone is
    not inductive: the elements must be known to be in the block to be copied from it.
  * The lemmas say what allocating, reallocating in place or elsewhere, `memmove` and `memset` make of a buffer that is sound, and which bytes it has then;
    a function is a composition of them, and then takes the buffer (`PodBecomes`) or has the fault that `NoOverrun` names. An own element that is read where it was, in the block
    where it was, has the bytes of the history (`KeptElement`). Sizes are products
    (`Span`), which recasts convert: that as many whole elements of another type need no more bytes is a lemma of its own.
  * The proof corrected the model. `BuffersBacked` excepted the vectors whose own type is less aligned than the block's, but a block that such a vector left short can be
    taken back by one of the more aligned type, which then reckons with a capacity it does not have. The run is too small for that (the
    vector of two-byte elements has one of them); with `MaxPods = <<3, 5>>` and two-byte elements first TLC finds it. The
    exception is now that of the proof, and `fault` says `expand` wherever the block was short; that instance passes too.
  * `flat_set`: a step of `FlatSet` is a step of `FlatMap` with one value, whose proofs are instantiated (`Flat`, with `SetsAssumption` for the
    assumptions of `FlatMap`), so that `FlatSet` implements `OrderedMap` too.
  * `dynamic_bitset`, for words of any positive number of bits and bitsets of any size (`BitsAssumption`). The invariant is `Packed`: bit `i` of the history is the bit `bit_index(i)` of the word
    `word_index(i)`, there are as many words as `word_size` says, and past the size the last word may hold anything. `LikeVectorBool`, which compares the answers of `any` and `all` too,
    follows. A lemma for each function says that it leaves the words packed with the bits that it promises: `resize`, which the functions that grow use, clears what an earlier use left past the size before it is uncovered; `append`
    and `copy` shift words across the boundaries between them (`InShiftLeft`, `InShiftRight`, `SplicedBit`); a `copy` gives the bits of its source but for `LostBits`, so that it
    is exact if none of those is set (`NothingLost`); `any` and `all` mask the last word.
* `HoldersProofs`. A behaviour of `Holders` is a behaviour of each component (one lemma each: a step is a step of that component, or leaves its variables
  alone), so that the properties of the `holders` run follow from `OwnersProofs` and `VectorsProofs`.

Every invariant, action property and refinement of the passing runs is thus a theorem for all values of the constants. Only model-checked: liveness (`CallsKeepFinishing`, `ReturnsAlone` and `CallsReturn` of the two locks), which
is out of reach of the prover, and the runs that show a violation, which are counterexamples.

## 5. Not modelled

The C++20 branch of `atomic_shared_ptr_storage` is `std::atomic<std::shared_ptr>`. In `small_vector`: element access,
iterators, comparisons, the optional range checks, and copy constructors of `T` that throw (except in the run that shows what follows). In `static_vector`: calls, other than those that destroy its elements, on a vector in which a throwing insert has left
a hole. In `pod_vector` (`partly`): allocations that fail,
types whose new elements are not zeroed, and recasts to a type that the block is misaligned for. In `ref_ptr`: the memory order of
unsynchronized accesses, and conversions that change no count. `modify_container` of the maps lets the caller break their order.

Not modelled at all: views (`span`, `stride_span`, `poly_span`, `memory_view`) change no state; `atomic_relaxed_counter` has single atomic operations and promises nothing of
its one compound operation; `ufunction`, `shared_func`, `func_ptr`, `sentry`, `make_ptr` and `shared_from` forward to one
pointer; the others adapt the standard library or compute at compile time (see the notes in `PROJECT.json`).

## 6. What the checks found

* `storage_dtor_deadlock`: a failed `compare_exchange` assigns to `expect` with the spinlock held. If that drops the last
  reference to an object whose destructor uses the storage, the thread waits for itself. `store` and `exchange` do not have this.
* `small_vector_revert`: `revert_to_static` returns true but leaves a vector of exactly `StaticCapacity` elements in a block.
* `small_vector_reserve`: inserting into a vector with reserved memory may give the memory up for the static buffer.
* `small_vector_empty_range`: inserting or erasing an empty range before the end constructs elements over live ones, or reads destroyed ones.
* `small_vector_throw`: a constructor that throws in `push_back`, `insert` or `resize` leaves `m_end` past an object that was not constructed.

The `small_vector` run shows two more, which its properties name as exceptions: an assignment destroys the elements before it
allocates, so that a failing allocation leaves a vector that counts destroyed elements (`Torn`); and an argument that is an element of the
vector is read after the vector was made ready: in `assign` it is destroyed by then, in `insert`, `push_back` and `resize` it is if the buffer changes, and an
`insert` in place before the element inserts the element from `num` places before it, or a destroyed one.

The `holders` run has the following in its models, and its properties name each as an exception, after which they mostly claim nothing. The histories that they compare with are those of `std::vector`,
`vector<bool>`, the file or the maps, with three exceptions that follow the code and are marked (*):

* `static_vector`: an erase of an empty range before the end destroys elements and then moves from them; `assign` of an own element reads it after it was
  destroyed, and an `insert` of one from behind the gap reads what is not there any more: another element, or none. A self move-assignment clears the vector (*). An assignment that does not
  fit clears the vector first (*). A copy that throws in a constructor leaks the elements before it. In an insert it leaves `m_size` counting slots in which nothing is alive, which the destructor then destroys.
* `pod_vector`: `resize(n, val)` fills n elements from the old end instead of `n - size()`; `push_back`, `assign(n, v[i])`, `resize(n, v[i])` and both `insert`s of an own element read it from a block that was
  freed, and an `insert` in place reads another element if the gap does not hold the bytes of its own any more; a
  block taken from a vector of a more aligned type is shorter, from where its elements begin, than `expand` reckons, and stays short when a vector of the more aligned type takes it back.
* `dynamic_bitset`: `copy` reads one word for a tail whose bits span two, so the others are lost, where the header says "copy elements from another dynamic_bitset"
  (`dynamic_bitset.hpp:108`). `all()` of words narrower than `int` with a whole word is false, where it says "all bits true?" (line 75). Both contradict the comments;
  `LikeVectorBool` does not require the false `all()`, and claims only that it is not true wrongly.
* `expected`: an `emplace` that throws leaves nothing alive and the flag as it was, so that not even the destructor may run.
* `opt_ref_buffer`: an any that holds its container inside itself moves away from the span; only a `std::string` is spanned again.
* `mem_streambuf`: seeks are not checked against the memory, those from the end count from the capacity (*), and a write after a seek past the end, or after `get_container` with a container whose `data()` is not null,
  goes outside of it.
* `generator`: `operator=` does not check for itself: a self-assignment destroys the frame and keeps its handle.
* `any`: `copy_from` resets before it reads, so a copy-assignment to itself empties it. A move assignment takes the block but not the allocator, so another one frees it.

Seen while reading and not checked by a run: `resize` of `small_vector` never reverts to the static buffer although the header says it may; `data_mutex`'s constructors leave `m_data` set, or
uninitialized, when the mutex throws, and the base destructor then unlocks what it does not have (the model has it: `misused` is possible, but only then, and exclusion is claimed until then only). `unique()` of `ref_ptr` reads the counter relaxed,
which does not order the write after the last read through a pointer that another thread has dropped: exclusion in time is proved, ordering is not. The
converting "move" constructors of `ref_ptr` copy.

## 7. What is left

1. The views, as functions of their sequences, and `atomic_relaxed_counter`.
