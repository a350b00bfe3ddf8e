--------------------------- MODULE AtomicSharedPtr ---------------------------
(***************************************************************************)
(* What atomic_shared_ptr_storage<T> promises: one cell holding a          *)
(* std::shared_ptr, on which load, store, exchange and compare_exchange    *)
(* take effect at one instant between their call and their return.  There  *)
(* is no lock here, and no reference count: only the values the callers    *)
(* pass and see.                                                           *)
(***************************************************************************)
CONSTANTS Threads,   \* the threads that share the storage
          Pointers   \* the values a shared_ptr can have, null included

CONSTANT Null        \* the null shared_ptr

VARIABLES cell,      \* the stored pointer
          call       \* the call each thread is in, with its arguments and result

vars == <<cell, call>>

Kinds == {"load", "store", "exchange", "cas"}

\* A thread that is in no call.
NoCall == [stage |-> "idle", kind |-> "load", expect |-> Null,
           desired |-> Null, result |-> Null, ok |-> FALSE]

\* A call that has not taken effect, and one that has and is to return r and ok.
Pending(k, e, d) == [stage |-> "pending", kind |-> k, expect |-> e, desired |-> d,
                     result |-> Null, ok |-> FALSE]
Done(k, r, ok) == [stage |-> "done", kind |-> k, expect |-> Null, desired |-> Null,
                   result |-> r, ok |-> ok]

Calls == [stage : {"idle", "pending", "done"}, kind : Kinds,
          expect : Pointers, desired : Pointers, result : Pointers, ok : BOOLEAN]

TypeOK == cell \in Pointers /\ call \in [Threads -> Calls]

Init == cell \in Pointers /\ call = [t \in Threads |-> NoCall]

-----------------------------------------------------------------------------
\* A thread calls an operation: only compare_exchange has an expected value,
\* and load has no desired one.
Invoke(t) ==
    /\ call[t] = NoCall
    /\ \E k \in Kinds, e \in Pointers, d \in Pointers :
          /\ k = "cas" \/ e = Null
          /\ k # "load" \/ d = Null
          /\ call' = [call EXCEPT ![t] = Pending(k, e, d)]
    /\ UNCHANGED cell

\* The instant at which the operation of t happens: what it returns, and
\* what it leaves in the cell.
Answer(t, r, ok) == call' = [call EXCEPT ![t] = Done(call[t].kind, r, ok)]

TakeEffect(t) ==
    /\ call[t].stage = "pending"
    /\ \/ call[t].kind = "load" /\ Answer(t, cell, FALSE) /\ UNCHANGED cell
       \/ call[t].kind = "store" /\ Answer(t, Null, FALSE) /\ cell' = call[t].desired
       \/ call[t].kind = "exchange" /\ Answer(t, cell, FALSE) /\ cell' = call[t].desired
       \/ /\ call[t].kind = "cas"
          /\ \/ cell = call[t].expect /\ Answer(t, cell, TRUE) /\ cell' = call[t].desired
             \/ cell # call[t].expect /\ Answer(t, cell, FALSE) /\ UNCHANGED cell

Return(t) ==
    /\ call[t].stage = "done"
    /\ call' = [call EXCEPT ![t] = NoCall]
    /\ UNCHANGED cell

Next == \E t \in Threads : Invoke(t) \/ TakeEffect(t) \/ Return(t)

Spec == Init /\ [][Next]_vars
=============================================================================
