--------------------------- MODULE RecursiveTryLock ---------------------------
(***************************************************************************)
(* What strong_try_rec_mutex promises: a recursive lock whose try_lock     *)
(* fails only if another thread has the lock at that instant.              *)
(***************************************************************************)
EXTENDS Integers

CONSTANT Threads

VARIABLES locks,   \* how many times each thread has the lock
          call     \* the call each thread is in

vars == <<locks, call>>

Init == locks = [t \in Threads |-> 0] /\ call = [t \in Threads |-> "idle"]

Invoke(t) ==
    /\ call[t] = "idle"
    /\ \/ call' = [call EXCEPT ![t] = "try_lock"]
       \/ locks[t] > 0 /\ call' = [call EXCEPT ![t] = "unlock"]
    /\ UNCHANGED locks

\* The instant at which try_lock or unlock happens.
TakeEffect(t) ==
    \/ /\ call[t] = "try_lock"
       /\ \A u \in Threads \ {t} : locks[u] = 0
       /\ locks' = [locks EXCEPT ![t] = @ + 1]
       /\ call' = [call EXCEPT ![t] = "true"]
    \/ /\ call[t] = "try_lock"
       /\ \E u \in Threads \ {t} : locks[u] > 0
       /\ call' = [call EXCEPT ![t] = "false"]
       /\ UNCHANGED locks
    \/ /\ call[t] = "unlock"
       /\ locks' = [locks EXCEPT ![t] = @ - 1]
       /\ call' = [call EXCEPT ![t] = "unlocked"]

Return(t) ==
    /\ call[t] \in {"true", "false", "unlocked"}
    /\ call' = [call EXCEPT ![t] = "idle"]
    /\ UNCHANGED locks

Next == \E t \in Threads : Invoke(t) \/ TakeEffect(t) \/ Return(t)

Spec == Init /\ [][Next]_vars
=============================================================================
