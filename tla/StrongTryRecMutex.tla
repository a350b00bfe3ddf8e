--------------------------- MODULE StrongTryRecMutex ---------------------------
(***************************************************************************)
(* itlib::strong_try_rec_mutex: m_owner and m_depth behind a std::mutex,   *)
(* which is external code and excludes.  Each access to either member is a *)
(* step of its own.                                                        *)
(***************************************************************************)
EXTENDS Integers

CONSTANTS Threads,
          MaxDepth,   \* a bound on how deep the program nests its locks
          NoThread    \* std::thread::id()

ASSUME NoThreadAssumption == NoThread \notin Threads
ASSUME MaxDepthAssumption == MaxDepth \in Nat

VARIABLES
    m_mutex,   \* the thread that has the inner mutex
    m_owner,   \* the thread that has the lock
    m_depth,   \* how many times
    pc,        \* where each thread is in try_lock or unlock
    held       \* history: the calls of try_lock that have returned true to
               \* each thread, less its calls of unlock that have returned

vars == <<m_mutex, m_owner, m_depth, pc, held>>

Inside == {"test", "increment", "decrement", "clear", "true", "false", "unlocked"}

TypeOK ==
    /\ m_mutex \in Threads \cup {NoThread}
    /\ m_owner \in Threads \cup {NoThread}
    /\ m_depth \in Nat
    /\ pc \in [Threads -> {"idle", "try_lock", "unlock"} \cup Inside]
    /\ held \in [Threads -> Nat]

Init ==
    /\ m_mutex = NoThread
    /\ m_owner = NoThread
    /\ m_depth = 0
    /\ pc = [t \in Threads |-> "idle"]
    /\ held = [t \in Threads |-> 0]

Go(t, from, to) == pc[t] = from /\ pc' = [pc EXCEPT ![t] = to]

\* A caller unlocks only what it has locked.
Call(t) ==
    /\ \/ held[t] < MaxDepth /\ Go(t, "idle", "try_lock")
       \/ held[t] > 0 /\ Go(t, "idle", "unlock")
    /\ UNCHANGED <<m_mutex, m_owner, m_depth, held>>

\* std::lock_guard<std::mutex> l(m_mutex)
Enter(t) ==
    /\ m_mutex = NoThread
    /\ m_mutex' = t
    /\ Go(t, "try_lock", "test") \/ Go(t, "unlock", "decrement")
    /\ UNCHANGED <<m_owner, m_depth, held>>

\* A test that mistakes the caller's own lock for another thread's.
TestNotRecursive(t) ==
    /\ \/ m_owner = NoThread /\ m_owner' = t /\ Go(t, "test", "increment")
       \/ m_owner # NoThread /\ UNCHANGED m_owner /\ Go(t, "test", "false")
    /\ UNCHANGED <<m_mutex, m_depth, held>>

\* A test that lets any thread in.
TestNotOwner(t) ==
    /\ m_owner' = IF m_owner = NoThread THEN t ELSE m_owner
    /\ Go(t, "test", "increment")
    /\ UNCHANGED <<m_mutex, m_depth, held>>

Test(t) ==
    /\ \/ m_owner = NoThread /\ m_owner' = t /\ Go(t, "test", "increment")
       \/ m_owner = t /\ UNCHANGED m_owner /\ Go(t, "test", "increment")
       \/ m_owner \notin {t, NoThread} /\ UNCHANGED m_owner /\ Go(t, "test", "false")
    /\ UNCHANGED <<m_mutex, m_depth, held>>

\* m_depth set on every lock, not counted.
IncrementSets(t) ==
    /\ Go(t, "increment", "true")
    /\ m_depth' = 1
    /\ UNCHANGED <<m_mutex, m_owner, held>>

Increment(t) ==
    /\ Go(t, "increment", "true")
    /\ m_depth' = m_depth + 1
    /\ UNCHANGED <<m_mutex, m_owner, held>>

Decrement(t) ==
    /\ Go(t, "decrement", "clear")
    /\ m_depth' = m_depth - 1
    /\ UNCHANGED <<m_mutex, m_owner, held>>

\* The owner is cleared on every unlock, not only on the last.
ClearAlways(t) ==
    /\ Go(t, "clear", "unlocked")
    /\ m_owner' = NoThread
    /\ UNCHANGED <<m_mutex, m_depth, held>>

Clear(t) ==
    /\ Go(t, "clear", "unlocked")
    /\ m_owner' = IF m_depth = 0 THEN NoThread ELSE m_owner
    /\ UNCHANGED <<m_mutex, m_depth, held>>

\* A return that keeps the inner mutex.
LeaveLocked(t) ==
    /\ pc[t] \in {"true", "false", "unlocked"}
    /\ pc' = [pc EXCEPT ![t] = "idle"]
    /\ held' = [held EXCEPT ![t] = IF pc[t] = "true" THEN @ + 1
                                   ELSE IF pc[t] = "unlocked" THEN @ - 1 ELSE @]
    /\ UNCHANGED <<m_mutex, m_owner, m_depth>>

\* The lock_guard is destroyed and the call returns.
Leave(t) ==
    /\ \/ Go(t, "true", "idle") /\ held' = [held EXCEPT ![t] = @ + 1]
       \/ Go(t, "false", "idle") /\ UNCHANGED held
       \/ Go(t, "unlocked", "idle") /\ held' = [held EXCEPT ![t] = @ - 1]
    /\ m_mutex' = NoThread
    /\ UNCHANGED <<m_owner, m_depth>>

Operation(t) ==
    Enter(t) \/ Test(t) \/ Increment(t) \/ Decrement(t) \/ Clear(t) \/ Leave(t)

Next == \E t \in Threads : Call(t) \/ Operation(t)

Spec == Init /\ [][Next]_vars

\* A thread in a call is eventually scheduled; std::mutex is not assumed fair.
FairSpec == Spec /\ \A t \in Threads : WF_vars(Operation(t))

-----------------------------------------------------------------------------
(* Correctness.                                                            *)

\* What t has done to m_depth and not yet returned from.
Pending(t) ==
    IF pc[t] = "true" THEN 1 ELSE IF pc[t] \in {"clear", "unlocked"} THEN -1 ELSE 0

\* The members say who has the lock and how often: m_depth is the number of
\* successful try_locks its owner has not undone, and nobody else has any.
OwnerCounts ==
    \A t \in Threads : held[t] + Pending(t) = IF m_owner = t THEN m_depth ELSE 0

\* Two threads never have the lock at once.
Exclusive == \A t, u \in Threads : held[t] > 0 /\ held[u] > 0 => t = u

\* The three assertions of the code hold where they stand.
AssertionsHold ==
    \A t \in Threads :
        /\ pc[t] = "test" /\ m_owner = NoThread => m_depth = 0
        /\ pc[t] = "decrement" => m_owner = t /\ m_depth > 0

\* What makes the above inductive: one thread at a time is past the inner
\* mutex, and what it has seen of the members still holds.
InnerExcludes == \A t \in Threads : pc[t] \in Inside <=> m_mutex = t
Consistent ==
    /\ m_owner = NoThread => m_depth = 0
    /\ \A t \in Threads :
          /\ pc[t] \in {"increment", "true", "clear"} => m_owner = t
          /\ pc[t] \in {"unlock", "decrement", "clear", "unlocked"} => held[t] > 0
          /\ pc[t] = "unlocked" => m_owner \in {t, NoThread}
          /\ m_owner = t /\ m_depth = 0 => pc[t] \in {"increment", "clear"}

IndInv == TypeOK /\ InnerExcludes /\ OwnerCounts /\ Consistent

\* try_lock and unlock take effect at one instant, and try_lock returns false
\* only if at that instant another thread has the lock: `strong'.
Lock == INSTANCE RecursiveTryLock
            WITH locks <- [t \in Threads |->
                              IF m_owner # t THEN 0
                              ELSE IF pc[t] = "increment" THEN m_depth + 1 ELSE m_depth],
                 call <- [t \in Threads |->
                              CASE pc[t] = "test" -> "try_lock"
                                [] pc[t] = "increment" -> "true"
                                [] pc[t] = "decrement" -> "unlock"
                                [] pc[t] = "clear" -> "unlocked"
                                [] OTHER -> pc[t]]
Strong == Lock!Spec

\* try_lock never blocks for good: while any thread is in a call, calls return.
CallsReturn ==
    <>[](\A t \in Threads : pc[t] = "idle") \/ []<><<\E t \in Threads : Leave(t)>>_vars
=============================================================================
