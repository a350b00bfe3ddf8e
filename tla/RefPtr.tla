--------------------------------- MODULE RefPtr ---------------------------------
(***************************************************************************)
(* itlib::ref_ptr, a shared_ptr without weak_ptrs, in the copy-on-write    *)
(* that it is made for: a thread that finds its pointer unique() writes to *)
(* the object, and another one makes a copy of it first.                   *)
(*                                                                         *)
(* The control block is std::shared_ptr's: a counter that threads change   *)
(* atomically.  A pointer belongs to one thread, which may hand a copy to  *)
(* another; between the threads' reads of the counter and what they do     *)
(* next, the other threads run.  The order of memory accesses that are not *)
(* synchronized is not modelled.                                           *)
(***************************************************************************)
EXTENDS Naturals, FiniteSets

CONSTANTS Threads, Slots,   \* the threads, and the pointers of each
          Objects, Values,  \* the addresses of objects, and what they contain
          Null

VARIABLES
    ptr,       \* where each pointer points
    uses,      \* the counter of each object
    content,   \* what each object contains
    seen,      \* history: what the owner of each pointer knows of its object
    writing    \* the pointer that a thread is writing through, and what unique()
               \* told it, or Null

vars == <<ptr, uses, content, seen, writing>>

TypeOK ==
    /\ ptr \in [Threads -> [Slots -> Objects \cup {Null}]]
    /\ uses \in [Objects -> Nat]
    /\ content \in [Objects -> Values \cup {Null}]
    /\ seen \in [Threads -> [Slots -> Values \cup {Null}]]
    /\ writing \in [Threads -> [slot : Slots, unique : BOOLEAN] \cup {Null}]

Init ==
    /\ ptr = [t \in Threads |-> [i \in Slots |-> Null]]
    /\ uses = [o \in Objects |-> 0]
    /\ content = [o \in Objects |-> Null]
    /\ seen = ptr
    /\ writing = [t \in Threads |-> Null]

use_count(t, i) == uses[ptr[t][i]]
Idle(t) == writing[t] = Null

\* The counters after a pointer that was at o points to p: p is counted first.
Recounted(o, p) == [q \in Objects |->
    IF o = p THEN uses[q]
    ELSE IF q = p THEN uses[q] + 1
    ELSE IF q = o THEN uses[q] - 1 ELSE uses[q]]

Points(t, i, o) == ptr' = [ptr EXCEPT ![t][i] = o] /\ uses' = Recounted(ptr[t][i], o)

\* make_ref_ptr(value), assigned to a pointer of t.
make(t, i, v) == \E o \in Objects :
    /\ uses[o] = 0
    /\ Points(t, i, o)
    /\ content' = [content EXCEPT ![o] = v]
    /\ seen' = [seen EXCEPT ![t][i] = v]

Make(t, i, v) == Idle(t) /\ make(t, i, v) /\ UNCHANGED writing

\* A copy of t's pointer i, or null, is assigned to u's pointer j; if they are
\* different threads, t hands it over.
Copy(t, i, u, j) ==
    /\ Idle(t) /\ Idle(u)
    /\ Points(u, j, ptr[t][i])
    /\ seen' = [seen EXCEPT ![u][j] = seen[t][i]]
    /\ UNCHANGED <<content, writing>>

\* reset(), = nullptr, and the destructor.
reset(t, i) ==
    /\ Idle(t) /\ Points(t, i, Null)
    /\ seen' = [seen EXCEPT ![t][i] = Null]
    /\ UNCHANGED <<content, writing>>

\* A move that leaves the pointer in its source.
MoveAndKeep(t, i, j) ==
    /\ Idle(t) /\ i # j
    /\ ptr' = [ptr EXCEPT ![t][j] = ptr[t][i]]
    /\ uses' = Recounted(ptr[t][j], Null)
    /\ seen' = [seen EXCEPT ![t][j] = seen[t][i]]
    /\ UNCHANGED <<content, writing>>

\* A move, and with _as_shared_ptr_unsafe a move to a shared_ptr of the caller.
Move(t, i, j) ==
    /\ Idle(t) /\ i # j
    /\ ptr' = [ptr EXCEPT ![t][i] = Null, ![t][j] = ptr[t][i]]
    /\ uses' = Recounted(ptr[t][j], Null)
    /\ seen' = [seen EXCEPT ![t][i] = Null, ![t][j] = seen[t][i]]
    /\ UNCHANGED <<content, writing>>

\* The move from a ref_ptr<U> takes a const ref_ptr<U>&&, and copies.
MoveConverting(t, i, j) == Copy(t, i, t, j)

\* A unique() that is true of two pointers.
unique_or_two(t, i) ==
    /\ Idle(t) /\ ptr[t][i] # Null
    /\ writing' = [writing EXCEPT ![t] = [slot |-> i, unique |-> use_count(t, i) <= 2]]
    /\ UNCHANGED <<ptr, uses, content, seen>>

\* unique(), before a write.
unique(t, i) ==
    /\ Idle(t) /\ ptr[t][i] # Null
    /\ writing' = [writing EXCEPT ![t] = [slot |-> i, unique |-> use_count(t, i) = 1]]
    /\ UNCHANGED <<ptr, uses, content, seen>>

WriteInPlace(t, v) ==
    /\ ~Idle(t) /\ writing[t].unique
    /\ content' = [content EXCEPT ![ptr[t][writing[t].slot]] = v]
    /\ seen' = [seen EXCEPT ![t][writing[t].slot] = v]
    /\ writing' = [writing EXCEPT ![t] = Null]
    /\ UNCHANGED <<ptr, uses>>

\* The copy has the new value when it takes the place of the shared object.
WriteCopy(t, v) ==
    /\ ~Idle(t) /\ ~writing[t].unique
    /\ make(t, writing[t].slot, v)
    /\ writing' = [writing EXCEPT ![t] = Null]

Next ==
    \E t \in Threads :
        \/ \E v \in Values : WriteInPlace(t, v) \/ WriteCopy(t, v)
        \/ \E i \in Slots :
              \/ \E v \in Values : Make(t, i, v)
              \/ \E u \in Threads, j \in Slots : Copy(t, i, u, j)
              \/ \E j \in Slots : Move(t, i, j) \/ MoveConverting(t, i, j)
              \/ reset(t, i) \/ unique(t, i)

Spec == Init /\ [][Next]_vars

-----------------------------------------------------------------------------
(* Correctness.                                                            *)

\* The counter of an object is the number of the pointers to it.
Owners(o) == {p \in Threads \X Slots : ptr[p[1]][p[2]] = o}
UseCounts == \A o \in Objects : uses[o] = Cardinality(Owners(o))

\* What unique() said is still so when the thread comes to write, however many
\* pointers the other threads copied, moved and dropped since.
StillUnique ==
    \A t \in Threads : ~Idle(t) /\ writing[t].unique =>
        Owners(ptr[t][writing[t].slot]) = {<<t, writing[t].slot>>}

\* A shared object is not written to: the owner of a pointer sees through it
\* what it saw when it got it, but for its own writes.
Detached ==
    \A t \in Threads, i \in Slots : ptr[t][i] # Null => content[ptr[t][i]] = seen[t][i]
=============================================================================
