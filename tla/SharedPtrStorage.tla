--------------------------- MODULE SharedPtrStorage ---------------------------
(***************************************************************************)
(* itlib::atomic_shared_ptr_storage<T> as it is built before C++20: a      *)
(* std::shared_ptr guarded by a spinlock (asps_holder, asps_spinlock).     *)
(*                                                                         *)
(* Every access to shared memory is a step of its own: test_and_set, the   *)
(* read of m_ptr, the increment of the control block's counter, each half  *)
(* of a swap, the clear of the flag, the release of a counted reference.   *)
(* A shared_ptr's control block is external code: it is the counter        *)
(* uses[o], and an object whose counter drops to 0 is destroyed there and  *)
(* then, by the thread that dropped it.  A destroyed object's address may  *)
(* be handed out again by the next make_shared, so addresses recur.        *)
(*                                                                         *)
(* Each thread owns two shared_ptr variables: `mine`, what it passes to    *)
(* store, exchange and compare_exchange, and `cur`, which receives what    *)
(* load and exchange return and is passed by reference as `expect`.        *)
(***************************************************************************)
EXTENDS Naturals, FiniteSets

CONSTANTS Threads,     \* the threads that share the storage
          Objects,     \* the addresses make_shared can return
          Reentrant,   \* those whose T has a destructor that calls storage.load()
          Null         \* the null shared_ptr

ASSUME NullAssumption == Null \notin Objects
ASSUME ReentrantAssumption == Reentrant \subseteq Objects
ASSUME FinitenessAssumption == IsFiniteSet(Threads)

Pointers == Objects \cup {Null}

VARIABLES
    flag,    \* asps_spinlock::flag
    m_ptr,   \* asps_holder::m_ptr
    uses,    \* the use count in each object's control block
    pc,      \* where each thread is in the operation it is executing
    op,      \* that operation
    cur,     \* the caller's variable for results, the `expect` of compare_exchange
    mine,    \* the caller's variable for new objects
    arg,     \* the by-value parameter `ptr` of the operation
    seen,    \* the pointer read from m_ptr by the copy or the swap in progress
    ok,      \* what compare_exchange returns
    after,   \* where a destructor that runs returns to
    dying    \* the object whose destructor the thread is in

vars == <<flag, m_ptr, uses, pc, op, cur, mine, arg, seen, ok, after, dying>>

Steps == {"idle", "acquire", "compare", "copy", "addref", "assign",
          "swap_read", "swap_write", "release", "drop"}
Ops == {"none", "load", "store", "exchange", "cas", "dtor"}

Typed(Count) ==
    /\ flag \in BOOLEAN
    /\ m_ptr \in Pointers
    /\ uses \in [Objects -> Count]
    /\ pc \in [Threads -> Steps]
    /\ op \in [Threads -> Ops]
    /\ cur \in [Threads -> Pointers]
    /\ mine \in [Threads -> Pointers]
    /\ arg \in [Threads -> Pointers]
    /\ seen \in [Threads -> Pointers]
    /\ ok \in [Threads -> BOOLEAN]
    /\ after \in [Threads -> {"idle", "release"}]
    /\ dying \in [Threads -> Pointers]

\* Every variable has its type; a counter that fell below zero would not.
TypeOK == Typed(Nat)

\* Default construction, or construction from a freshly made shared_ptr.
Init ==
    /\ flag = FALSE
    /\ m_ptr \in Pointers
    /\ uses = [o \in Objects |-> IF o = m_ptr THEN 1 ELSE 0]
    /\ pc = [t \in Threads |-> "idle"]
    /\ op = [t \in Threads |-> "none"]
    /\ cur = [t \in Threads |-> Null]
    /\ mine = [t \in Threads |-> Null]
    /\ arg = [t \in Threads |-> Null]
    /\ seen = [t \in Threads |-> Null]
    /\ ok = [t \in Threads |-> FALSE]
    /\ after = [t \in Threads |-> "idle"]
    /\ dying = [t \in Threads |-> Null]

-----------------------------------------------------------------------------
(* The control block.                                                      *)

\* Copying a shared_ptr that holds p.
AddRef(p) ==
    uses' = IF p = Null THEN uses ELSE [uses EXCEPT ![p] = @ + 1]

\* Thread t destroys a shared_ptr that holds p and goes on at `next`.  If it
\* was the last one, ~T runs first: a reentrant one calls storage.load().
DropRef(t, p, next, nextOp) ==
    /\ uses' = IF p = Null THEN uses ELSE [uses EXCEPT ![p] = @ - 1]
    /\ IF p \in Reentrant /\ uses[p] = 1
       THEN /\ pc' = [pc EXCEPT ![t] = "acquire"]
            /\ op' = [op EXCEPT ![t] = "dtor"]
            /\ after' = [after EXCEPT ![t] = next]
            /\ dying' = [dying EXCEPT ![t] = p]
       ELSE /\ pc' = [pc EXCEPT ![t] = next]
            /\ op' = [op EXCEPT ![t] = nextOp]
            /\ after' = [after EXCEPT ![t] = "idle"]
            /\ dying' = [dying EXCEPT ![t] = Null]

-----------------------------------------------------------------------------
(* The caller.                                                             *)

\* mine = std::make_shared<T>(): any free address, counter 1.  The memory of
\* an object is free once its destructor has returned.
Make(t) ==
    /\ pc[t] = "idle" /\ mine[t] = Null
    /\ \E o \in Objects :
          /\ uses[o] = 0 /\ \A u \in Threads : dying[u] # o
          /\ uses' = [uses EXCEPT ![o] = 1]
          /\ mine' = [mine EXCEPT ![t] = o]
    /\ UNCHANGED <<flag, m_ptr, pc, op, cur, arg, seen, ok, after, dying>>

ResetMine(t) ==
    /\ pc[t] = "idle" /\ mine[t] # Null
    /\ DropRef(t, mine[t], "idle", "none")
    /\ mine' = [mine EXCEPT ![t] = Null]
    /\ UNCHANGED <<flag, m_ptr, cur, arg, seen, ok>>

ResetCur(t) ==
    /\ pc[t] = "idle" /\ cur[t] # Null
    /\ DropRef(t, cur[t], "idle", "none")
    /\ cur' = [cur EXCEPT ![t] = Null]
    /\ UNCHANGED <<flag, m_ptr, mine, arg, seen, ok>>

\* cur = storage.load()
CallLoad(t) ==
    /\ pc[t] = "idle"
    /\ pc' = [pc EXCEPT ![t] = "acquire"]
    /\ op' = [op EXCEPT ![t] = "load"]
    /\ UNCHANGED <<flag, m_ptr, uses, cur, mine, arg, seen, ok, after, dying>>

\* storage.store(mine), cur = storage.exchange(mine) or
\* storage.compare_exchange(cur, mine): the parameter is a copy of mine.
CallWith(t, k) ==
    /\ pc[t] = "idle"
    /\ AddRef(mine[t])
    /\ arg' = [arg EXCEPT ![t] = mine[t]]
    /\ pc' = [pc EXCEPT ![t] = "acquire"]
    /\ op' = [op EXCEPT ![t] = k]
    /\ UNCHANGED <<flag, m_ptr, cur, mine, seen, ok, after, dying>>

-----------------------------------------------------------------------------
\* Where each operation starts once it has the lock.
Entry(k) ==
    CASE k = "cas" -> "compare"
      [] k \in {"store", "exchange"} -> "swap_read"
      [] OTHER -> "copy"

(* Slips each of which would break a property below.                       *)

\* `if (flag.test_and_set())` in place of `while`.
TestAndSetOnce(t) ==
    /\ pc[t] = "acquire"
    /\ flag' = TRUE
    /\ pc' = [pc EXCEPT ![t] = Entry(op[t])]
    /\ UNCHANGED <<m_ptr, uses, op, cur, mine, arg, seen, ok, after, dying>>

\* The lock is released once the pointer is read, before the increment.
CopyReadUnlocks(t) ==
    /\ pc[t] = "copy"
    /\ seen' = [seen EXCEPT ![t] = m_ptr]
    /\ pc' = [pc EXCEPT ![t] = "addref"]
    /\ flag' = FALSE
    /\ UNCHANGED <<m_ptr, uses, op, cur, mine, arg, ok, after, dying>>

\* A raw copy of the pointer, the counter left alone.
CopyNoAddRef(t) ==
    /\ pc[t] = "addref"
    /\ pc' = [pc EXCEPT ![t] = IF op[t] = "cas" THEN "assign" ELSE "release"]
    /\ UNCHANGED <<flag, m_ptr, uses, op, cur, mine, arg, seen, ok, after, dying>>

\* A failed compare_exchange that leaves `expect` as it was.
AssignNothing(t) ==
    /\ pc[t] = "assign"
    /\ DropRef(t, seen[t], "release", "cas")
    /\ seen' = [seen EXCEPT ![t] = Null]
    /\ UNCHANGED <<flag, m_ptr, cur, mine, arg, ok>>

\* m_ptr takes the parameter and what it held is forgotten.
SwapForgets(t) ==
    /\ pc[t] = "swap_write"
    /\ m_ptr' = arg[t]
    /\ arg' = [arg EXCEPT ![t] = Null]
    /\ seen' = [seen EXCEPT ![t] = Null]
    /\ pc' = [pc EXCEPT ![t] = "release"]
    /\ UNCHANGED <<flag, uses, op, cur, mine, ok, after, dying>>

\* A return that skips the unlock.
UnlockSkipped(t) ==
    /\ pc[t] = "release"
    /\ pc' = [pc EXCEPT ![t] = "drop"]
    /\ UNCHANGED <<flag, m_ptr, uses, op, cur, mine, arg, seen, ok, after, dying>>

-----------------------------------------------------------------------------
(* The operations.                                                         *)

\* asps_spinlock::lock, one iteration of the loop: the flag is set whatever
\* it was, and the thread is through when it was clear.
TestAndSet(t) ==
    /\ pc[t] = "acquire"
    /\ flag' = TRUE
    /\ pc' = IF flag THEN pc ELSE [pc EXCEPT ![t] = Entry(op[t])]
    /\ UNCHANGED <<m_ptr, uses, op, cur, mine, arg, seen, ok, after, dying>>

\* compare_exchange_strong: m_ptr == expect.
Compare(t) ==
    /\ pc[t] = "compare"
    /\ ok' = [ok EXCEPT ![t] = (m_ptr = cur[t])]
    /\ pc' = [pc EXCEPT ![t] = IF m_ptr = cur[t] THEN "swap_read" ELSE "copy"]
    /\ UNCHANGED <<flag, m_ptr, uses, op, cur, mine, arg, seen, after, dying>>

\* The copy of m_ptr that load returns or that `expect = m_ptr` makes: the
\* pointer is read first, and the counter incremented afterwards.
CopyRead(t) ==
    /\ pc[t] = "copy"
    /\ seen' = [seen EXCEPT ![t] = m_ptr]
    /\ pc' = [pc EXCEPT ![t] = "addref"]
    /\ UNCHANGED <<flag, m_ptr, uses, op, cur, mine, arg, ok, after, dying>>

CopyAddRef(t) ==
    /\ pc[t] = "addref"
    /\ AddRef(seen[t])
    /\ pc' = [pc EXCEPT ![t] = IF op[t] = "cas" THEN "assign" ELSE "release"]
    /\ UNCHANGED <<flag, m_ptr, op, cur, mine, arg, seen, ok, after, dying>>

\* The rest of `expect = m_ptr`: expect takes the copy and what it held is
\* released, here, with the lock held.
AssignExpect(t) ==
    /\ pc[t] = "assign"
    /\ DropRef(t, cur[t], "release", "cas")
    /\ cur' = [cur EXCEPT ![t] = seen[t]]
    /\ seen' = [seen EXCEPT ![t] = Null]
    /\ UNCHANGED <<flag, m_ptr, mine, arg, ok>>

\* m_ptr.swap(ptr): no counter changes.
SwapRead(t) ==
    /\ pc[t] = "swap_read"
    /\ seen' = [seen EXCEPT ![t] = m_ptr]
    /\ pc' = [pc EXCEPT ![t] = "swap_write"]
    /\ UNCHANGED <<flag, m_ptr, uses, op, cur, mine, arg, ok, after, dying>>

SwapWrite(t) ==
    /\ pc[t] = "swap_write"
    /\ m_ptr' = arg[t]
    /\ arg' = [arg EXCEPT ![t] = seen[t]]
    /\ seen' = [seen EXCEPT ![t] = Null]
    /\ pc' = [pc EXCEPT ![t] = "release"]
    /\ UNCHANGED <<flag, uses, op, cur, mine, ok, after, dying>>

\* ~lock_guard, asps_spinlock::unlock.
Unlock(t) ==
    /\ pc[t] = "release"
    /\ flag' = FALSE
    /\ pc' = [pc EXCEPT ![t] = "drop"]
    /\ UNCHANGED <<m_ptr, uses, op, cur, mine, arg, seen, ok, after, dying>>

\* The operation returns and its last shared_ptr is destroyed, after the
\* lock_guard: the parameter of store and compare_exchange, or what the
\* caller's variable held before it received the result of load or exchange.
Finish(t) ==
    /\ pc[t] = "drop"
    /\ \/ /\ op[t] = "load"
          /\ DropRef(t, cur[t], "idle", "none")
          /\ cur' = [cur EXCEPT ![t] = seen[t]]
          /\ seen' = [seen EXCEPT ![t] = Null]
          /\ UNCHANGED arg
       \/ /\ op[t] = "exchange"
          /\ DropRef(t, cur[t], "idle", "none")
          /\ cur' = [cur EXCEPT ![t] = arg[t]]
          /\ arg' = [arg EXCEPT ![t] = Null]
          /\ UNCHANGED seen
       \/ /\ op[t] \in {"store", "cas"}
          /\ DropRef(t, arg[t], "idle", "none")
          /\ arg' = [arg EXCEPT ![t] = Null]
          /\ UNCHANGED <<cur, seen>>
       \/ /\ op[t] = "dtor"
          /\ DropRef(t, seen[t], after[t], IF after[t] = "release" THEN "cas" ELSE "none")
          /\ seen' = [seen EXCEPT ![t] = Null]
          /\ UNCHANGED <<cur, arg>>
    /\ ok' = [ok EXCEPT ![t] = FALSE]
    /\ UNCHANGED <<flag, m_ptr, mine>>

-----------------------------------------------------------------------------
Caller(t) ==
    \/ Make(t) \/ ResetMine(t) \/ ResetCur(t) \/ CallLoad(t)
    \/ \E k \in {"store", "exchange", "cas"} : CallWith(t, k)

Operation(t) ==
    \/ TestAndSet(t) \/ Compare(t) \/ CopyRead(t) \/ CopyAddRef(t) \/ AssignExpect(t)
    \/ SwapRead(t) \/ SwapWrite(t) \/ Unlock(t) \/ Finish(t)

Next == \E t \in Threads : Caller(t) \/ Operation(t)

Spec == Init /\ [][Next]_vars

\* A thread that is in an operation is eventually scheduled; nothing makes a
\* caller call, and nothing favours a spinning thread.
FairSpec == Spec /\ \A t \in Threads : WF_vars(Operation(t))
-----------------------------------------------------------------------------
(* Correctness.                                                            *)

\* t is between test_and_set and clear, in the operation it executes or in
\* the one whose `expect` it is releasing.
Critical == {"compare", "copy", "addref", "assign", "swap_read", "swap_write", "release"}
Holds(t) == pc[t] \in Critical \/ (op[t] = "dtor" /\ after[t] = "release")

\* The spinlock excludes: the flag is set exactly while one thread is in the
\* critical section (asps_spinlock and its lock_guard).
MutualExclusion ==
    /\ flag = (\E t \in Threads : Holds(t))
    /\ \A t, u \in Threads : Holds(t) /\ Holds(u) => t = u

\* `seen` is a counted shared_ptr from the increment on; before it, and in a
\* swap, it is a bare address.
Counted(t) == pc[t] = "assign" \/ (pc[t] \in {"release", "drop"} /\ op[t] \in {"load", "dtor"})
Copies == [t \in Threads |-> IF Counted(t) THEN seen[t] ELSE Null]

One(p, o) == IF p = o THEN 1 ELSE 0
Holders(var, o) == Cardinality({t \in Threads : var[t] = o})

\* Whatever the interleaving of loads, stores, exchanges and compare_exchanges,
\* every counter is exactly the number of shared_ptr variables that hold the
\* object: nothing is leaked and nothing is released twice (asps_holder).
CountsExact ==
    \A o \in Objects :
        uses[o] = One(m_ptr, o) + Holders(cur, o) + Holders(mine, o)
                    + Holders(arg, o) + Holders(Copies, o)

\* Between reading m_ptr and incrementing its counter, load and a failed
\* compare_exchange hold an address no other thread can free under them.
NoDeadCopy ==
    \A t \in Threads : pc[t] = "addref" /\ seen[t] # Null => uses[seen[t]] > 0

\* compare_exchange installs `ptr` only over what it compared: when the swap
\* is written, m_ptr still is `expect` and still is what the swap read.
SwapIsAtomic ==
    \A t \in Threads : pc[t] = "swap_write" =>
        seen[t] = m_ptr /\ (op[t] = "cas" => m_ptr = cur[t])

(* What makes the above inductive.                                         *)

\* Which operations can be at which step, and which of their variables are
\* in use.  A destructor that starts inside compare_exchange never gets
\* past the spin loop.
Consistent ==
    \A t \in Threads :
        /\ pc[t] = "idle" <=> op[t] = "none"
        /\ pc[t] \in {"compare", "assign"} => op[t] = "cas"
        /\ pc[t] \in {"copy", "addref"} => op[t] \in {"load", "cas", "dtor"}
        /\ pc[t] \in {"swap_read", "swap_write"} => op[t] \in {"store", "exchange", "cas"}
        /\ after[t] = "release" => op[t] = "dtor" /\ pc[t] = "acquire"
        /\ op[t] \in {"none", "load"} \/ (op[t] = "dtor" /\ after[t] = "idle")
               => arg[t] = Null
        /\ op[t] # "cas" \/ pc[t] = "acquire" => ok[t] = FALSE

\* What the holder of the lock has read is still what is stored, and the
\* outcome of its comparison still stands.
ReadsStand ==
    \A t \in Threads :
        /\ pc[t] \in {"addref", "swap_write"} => seen[t] = m_ptr
        /\ op[t] = "cas" /\ pc[t] \in {"swap_read", "swap_write"} => ok[t] /\ m_ptr = cur[t]
        /\ op[t] = "cas" /\ pc[t] = "copy" => ~ok[t] /\ m_ptr # cur[t]
        /\ pc[t] \in {"addref", "assign"} => ~ok[t]

IndInv == TypeOK /\ Consistent /\ MutualExclusion /\ ReadsStand /\ CountsExact

(* The storage implements the atomic register.  A destructor that loads    *)
(* from the storage is not a call of the program's: it is hidden.          *)
BeforeEffect == {"acquire", "compare", "copy", "swap_read", "swap_write"}

CallOf(t) ==
    IF pc[t] = "idle" \/ (op[t] = "dtor" /\ after[t] = "idle")
    THEN [stage |-> "idle", kind |-> "load", expect |-> Null, desired |-> Null,
          result |-> Null, ok |-> FALSE]
    ELSE IF op[t] # "dtor" /\ pc[t] \in BeforeEffect
    THEN [stage |-> "pending", kind |-> op[t],
          expect |-> IF op[t] = "cas" THEN cur[t] ELSE Null,
          desired |-> arg[t], result |-> Null, ok |-> FALSE]
    ELSE [stage |-> "done", kind |-> IF op[t] = "dtor" THEN "cas" ELSE op[t],
          expect |-> Null, desired |-> Null, ok |-> ok[t],
          result |-> CASE op[t] = "load" -> seen[t]
                       [] op[t] = "exchange" -> arg[t]
                       [] op[t] = "store" -> Null
                       [] OTHER -> IF pc[t] \in {"addref", "assign"}
                                   THEN seen[t] ELSE cur[t]]

Atomic == INSTANCE AtomicSharedPtr
              WITH cell <- m_ptr, call <- [t \in Threads |-> CallOf(t)]

\* load, store, exchange and compare_exchange are linearizable: each takes
\* effect at one instant, on the register AtomicSharedPtr specifies.
Linearizable == Atomic!Spec

\* A thread never spins on a flag it set itself: an operation that holds the
\* lock does not start another (compare_exchange_strong's `expect = m_ptr`
\* runs the destructor of what `expect` held).
NeverWaitsForItself == \A t \in Threads : ~(pc[t] = "acquire" /\ Holds(t))

\* A thread may starve in the spin loop, the threads together may not: either
\* the program stops using the storage or calls keep finishing.  (Stated for
\* objects whose destructors leave the storage alone, Reentrant = {}.)
CallsKeepFinishing ==
    \/ <>[](\A t \in Threads : pc[t] = "idle")
    \/ []<><<\E t \in Threads : Finish(t)>>_vars

\* An operation of t returns if from some point on no other thread is in one:
\* there is no lost unlock to wait for (asps_spinlock::lock).
ReturnsAlone ==
    \A t \in Threads :
        (<>[](\A u \in Threads \ {t} : pc[u] = "idle")) => []<>(pc[t] = "idle")
=============================================================================
