------------------------ MODULE StrongTryRecMutexProofs ------------------------
(***************************************************************************)
(* Proofs about StrongTryRecMutex, for any set of threads and any depth.   *)
(***************************************************************************)
EXTENDS StrongTryRecMutex, TLAPS

-----------------------------------------------------------------------------
(* The inductive invariant.                                                *)

LEMMA InitInv == Init => IndInv
BY NoThreadAssumption
   DEF Init, IndInv, TypeOK, InnerExcludes, OwnerCounts, Consistent, Pending, Inside

LEMMA StepInv ==
    ASSUME IndInv, NEW t \in Threads, Call(t) \/ Operation(t)
    PROVE  IndInv'
<1> USE NoThreadAssumption, MaxDepthAssumption
    DEF IndInv, TypeOK, InnerExcludes, OwnerCounts, Consistent, Pending, Inside, Go
<1>1. CASE Call(t)
  BY <1>1 DEF Call
<1>2. CASE Enter(t)
  BY <1>2 DEF Enter
<1>3. CASE Test(t)
  BY <1>3 DEF Test
<1>4. CASE Increment(t)
  BY <1>4 DEF Increment
<1>5. CASE Decrement(t)
  BY <1>5 DEF Decrement
<1>6. CASE Clear(t)
  BY <1>6 DEF Clear
<1>7. CASE Leave(t)
  <2>1. CASE pc[t] = "true"
    BY <1>7, <2>1 DEF Leave
  <2>2. CASE pc[t] = "false"
    BY <1>7, <2>2 DEF Leave
  <2>3. CASE pc[t] = "unlocked"
    BY <1>7, <2>3 DEF Leave
  <2> QED
    BY <1>7, <2>1, <2>2, <2>3 DEF Leave
<1> QED
  BY <1>1, <1>2, <1>3, <1>4, <1>5, <1>6, <1>7 DEF Operation

LEMMA Invariance == Spec => []IndInv
<1>1. IndInv /\ UNCHANGED vars => IndInv'
  BY DEF IndInv, vars, TypeOK, InnerExcludes, OwnerCounts, Consistent, Pending
<1>2. IndInv /\ [Next]_vars => IndInv'
  BY <1>1, StepInv DEF Next
<1> QED
  BY InitInv, <1>2, PTL DEF Spec

-----------------------------------------------------------------------------
(* What follows from it.                                                   *)

\* The members and the history keep their types: m_depth is never negative.
THEOREM TypeCorrect == Spec => []TypeOK
<1>1. IndInv => TypeOK
  BY DEF IndInv
<1> QED
  BY <1>1, Invariance, PTL

\* m_depth is what the owner has locked and not unlocked.
THEOREM CountedByOwner == Spec => []OwnerCounts
<1>1. IndInv => OwnerCounts
  BY DEF IndInv
<1> QED
  BY <1>1, Invariance, PTL

\* Two threads never have the lock at once.
THEOREM Exclusion == Spec => []Exclusive
<1>1. IndInv => Exclusive
  BY NoThreadAssumption
     DEF IndInv, TypeOK, OwnerCounts, Consistent, InnerExcludes, Inside, Pending, Exclusive
<1> QED
  BY <1>1, Invariance, PTL

\* The assertions in try_lock and unlock hold.
THEOREM NoAssertionFails == Spec => []AssertionsHold
<1>1. IndInv => AssertionsHold
  <2> SUFFICES ASSUME IndInv, NEW t \in Threads
               PROVE  /\ pc[t] = "test" /\ m_owner = NoThread => m_depth = 0
                      /\ pc[t] = "decrement" => m_owner = t /\ m_depth > 0
    BY DEF AssertionsHold
  <2> QED
    BY NoThreadAssumption DEF IndInv, TypeOK, OwnerCounts, Consistent, Pending
<1> QED
  BY <1>1, Invariance, PTL

-----------------------------------------------------------------------------
(* The mutex implements the recursive try-lock.                            *)

LEMMA InitMaps == Init => Lock!Init
BY NoThreadAssumption DEF Init, Lock!Init

Locks == [t \in Threads |-> IF m_owner # t THEN 0
                            ELSE IF pc[t] = "increment" THEN m_depth + 1 ELSE m_depth]
Calls == [t \in Threads |-> CASE pc[t] = "test" -> "try_lock"
                              [] pc[t] = "increment" -> "true"
                              [] pc[t] = "decrement" -> "unlock"
                              [] pc[t] = "clear" -> "unlocked"
                              [] OTHER -> pc[t]]

LEMMA CallMaps ==
    ASSUME IndInv, NEW t \in Threads, Call(t)
    PROVE  Lock!Invoke(t)
<1> USE NoThreadAssumption DEF Locks, Calls
<1>1. pc[t] = "idle" /\ pc \in [Threads -> {"idle", "try_lock", "unlock"} \cup Inside]
  BY DEF Call, Go, IndInv, TypeOK
<1>2. Calls[t] = "idle" /\ Locks' = Locks
  BY <1>1 DEF Call, Go, Inside
<1>3. \/ Calls' = [Calls EXCEPT ![t] = "try_lock"]
      \/ held[t] > 0 /\ Calls' = [Calls EXCEPT ![t] = "unlock"]
  BY <1>1 DEF Call, Go, Inside
<1>4. held[t] > 0 => Locks[t] > 0
  BY <1>1 DEF IndInv, TypeOK, OwnerCounts, Pending
<1> QED
  BY <1>2, <1>3, <1>4 DEF Lock!Invoke

LEMMA TestMaps ==
    ASSUME IndInv, NEW t \in Threads, Test(t)
    PROVE  Lock!TakeEffect(t)
<1> USE NoThreadAssumption DEF Inside, Go
<1>1. Calls[t] = "try_lock"
  BY DEF Test, Calls
<1>2. m_mutex = t /\ \A u \in Threads \ {t} : pc[u] \notin Inside
  BY DEF Test, IndInv, TypeOK, InnerExcludes
<1>3. CASE m_owner \in {t, NoThread}
  <2>1. Locks' = [Locks EXCEPT ![t] = @ + 1] /\ \A u \in Threads \ {t} : Locks[u] = 0
    BY <1>2, <1>3 DEF Test, IndInv, TypeOK, Consistent, Locks
  <2>2. Calls' = [Calls EXCEPT ![t] = "true"]
    BY <1>3 DEF Test, IndInv, TypeOK, Calls
  <2> QED
    BY <1>1, <2>1, <2>2 DEF Lock!TakeEffect, Locks, Calls
<1>4. CASE m_owner \notin {t, NoThread}
  <2>1. Locks' = Locks /\ m_owner \in Threads \ {t} /\ Locks[m_owner] > 0
    BY <1>2, <1>4 DEF Test, IndInv, TypeOK, Consistent, Locks
  <2>2. Calls' = [Calls EXCEPT ![t] = "false"]
    BY <1>4 DEF Test, IndInv, TypeOK, Calls
  <2> QED
    BY <1>1, <2>1, <2>2 DEF Lock!TakeEffect, Locks, Calls
<1> QED
  BY <1>3, <1>4

LEMMA DecrementMaps ==
    ASSUME IndInv, NEW t \in Threads, Decrement(t)
    PROVE  Lock!TakeEffect(t)
<1> USE NoThreadAssumption DEF Inside, Go
<1>1. Calls[t] = "unlock" /\ Calls' = [Calls EXCEPT ![t] = "unlocked"]
  BY DEF Decrement, IndInv, TypeOK, Calls
<1>2. m_owner = t
  BY DEF Decrement, IndInv, TypeOK, OwnerCounts, Consistent, Pending
<1>3. Locks' = [Locks EXCEPT ![t] = @ - 1]
  BY <1>2 DEF Decrement, IndInv, TypeOK, Locks
<1> QED
  BY <1>1, <1>3 DEF Lock!TakeEffect, Locks, Calls

LEMMA StepMaps ==
    ASSUME IndInv, NEW t \in Threads, Call(t) \/ Operation(t)
    PROVE  Lock!Next \/ UNCHANGED <<Locks, Calls>>
<1> USE NoThreadAssumption DEF IndInv, TypeOK, Consistent, Inside, Go, Locks, Calls
<1>1. CASE Call(t)
  BY <1>1, CallMaps DEF Lock!Next
<1>2. CASE Enter(t)
  BY <1>2 DEF Enter
<1>3. CASE Test(t)
  BY <1>3, TestMaps DEF Lock!Next
<1>4. CASE Increment(t)
  BY <1>4 DEF Increment
<1>5. CASE Decrement(t)
  BY <1>5, DecrementMaps DEF Lock!Next
<1>6. CASE Clear(t)
  BY <1>6 DEF Clear
<1>7. CASE Leave(t)
  <2>1. Lock!Return(t)
    BY <1>7 DEF Leave, Lock!Return
  <2> QED
    BY <2>1 DEF Lock!Next
<1> QED
  BY <1>1, <1>2, <1>3, <1>4, <1>5, <1>6, <1>7 DEF Operation

\* strong_try_rec_mutex is a recursive lock without spurious failures, for
\* any number of threads.
THEOREM Strength == Spec => Strong
<1>1. IndInv /\ [Next]_vars => [Lock!Next]_(Lock!vars)
  <2> SUFFICES ASSUME IndInv, [Next]_vars
               PROVE  Lock!Next \/ UNCHANGED <<Locks, Calls>>
    BY DEF Lock!vars, Locks, Calls
  <2>1. CASE UNCHANGED vars
    BY <2>1 DEF vars, Locks, Calls
  <2> QED
    BY <2>1, StepMaps DEF Next
<1> QED
  BY <1>1, Invariance, InitMaps, PTL DEF Spec, Strong, Lock!Spec
=============================================================================
