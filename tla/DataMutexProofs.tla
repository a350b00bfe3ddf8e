---------------------------- MODULE DataMutexProofs ----------------------------
(***************************************************************************)
(* Proofs about DataMutex, for any set of threads and variables.           *)
(***************************************************************************)
EXTENDS DataMutex, TLAPS

LEMMA InitInv == Init => IndInv
<1> SUFFICES ASSUME Init
             PROVE  IndInv
  OBVIOUS
<1>1. TypeOK
  BY DEF Init, TypeOK
<1>2. \A t \in Threads, v \in Variables : ~Owns(t, v)
  BY DEF Init, Owns
<1>3. \A t \in Threads : Matches(t)
  BY <1>2, NoThreadAssumption DEF Init, Matches, OwnsAs
<1>4. Consistent
  BY DEF Init, Consistent
<1> QED
  BY <1>1, <1>3, <1>4 DEF IndInv

-----------------------------------------------------------------------------
(* A step of t changes nothing of another thread's wrappers and locks.     *)

Untouched(t) ==
    \A u \in Threads \ {t} :
        /\ m_data'[u] = m_data[u] /\ wrapper'[u] = wrapper[u] /\ building'[u] = building[u]
        /\ access'[u] = access[u]
        /\ writer' = u <=> writer = u
        /\ u \in readers' <=> u \in readers

LEMMA TypeStep ==
    ASSUME TypeOK, NEW t \in Threads, Step(t)
    PROVE  TypeOK'
<1> USE NoThreadAssumption, NoneAssumption
    DEF TypeOK, Ready, Building, Constructed, Remove, Release
<1>1. CASE End(t)
  BY <1>1 DEF End
<1>2. ASSUME NEW v \in Variables, NEW mode \in {"unique", "shared"}, NEW try \in BOOLEAN,
             Construct(t, v, mode, try)
      PROVE  TypeOK'
  BY <1>2 DEF Construct
<1>3. ASSUME NEW v \in Variables, Acquire(t, v)
      PROVE  TypeOK'
  BY <1>3 DEF Acquire, Free, Lock
<1>4. ASSUME NEW v \in Variables, Refuse(t, v)
      PROVE  TypeOK'
  BY <1>4 DEF Refuse
<1>5. ASSUME NEW v \in Variables, Throw(t, v)
      PROVE  TypeOK'
  BY <1>5 DEF Throw, Unlock
<1>6. ASSUME NEW v \in Variables, Destroy(t, v)
      PROVE  TypeOK'
  BY <1>6 DEF Destroy, Unlock
<1>7. ASSUME NEW v \in Variables, NEW w \in Variables, Move(t, v, w)
      PROVE  TypeOK'
  BY <1>7 DEF Move
<1>8. ASSUME NEW v \in Variables, NEW kind \in {"read", "write"}, Begin(t, v, kind)
      PROVE  TypeOK'
  BY <1>8 DEF Begin
<1> QED
  BY <1>1, <1>2, <1>3, <1>4, <1>5, <1>6, <1>7, <1>8 DEF Step

\* What was misused remains so.
LEMMA MisuseStep ==
    ASSUME NEW t \in Threads, Step(t), misused
    PROVE  misused'
  BY DEF Step, End, Construct, Acquire, Refuse, Throw, Destroy, Move, Begin, Constructed,
         Remove, Release, Unlock

\* The destructor of a wrapper that is not being constructed unlocks what its
\* thread has, and that of one whose constructor throws does not.
LEMMA ReleaseStep ==
    ASSUME IndInv, ~misused, NEW t \in Threads, NEW v \in Variables
    PROVE  /\ Destroy(t, v) /\ m_data[t][v] => Has(t, wrapper[t][v])
           /\ Throw(t, v) => ~Has(t, wrapper[t][v])
<1>0. TypeOK /\ Matches(t) /\ Consistent
  BY DEF IndInv
<1>1. ASSUME Destroy(t, v), m_data[t][v]
      PROVE  Has(t, wrapper[t][v])
  <2>1. Owns(t, v) /\ wrapper[t][v] \in {"unique", "shared"}
    BY <1>0, <1>1, NoneAssumption DEF Destroy, Ready, Owns, TypeOK
  <2> QED
    BY <1>0, <2>1 DEF Matches, OwnsAs, Has
<1>2. ASSUME Throw(t, v)
      PROVE  ~Has(t, wrapper[t][v])
  <2>1. building[t] = v /\ v # None
    BY <1>2 DEF Throw, Building
  <2>2. writer # t /\ t \notin readers
    BY <1>0, <2>1 DEF Consistent
  <2> QED
    BY <2>2 DEF Has
<1> QED
  BY <1>1, <1>2

\* So a mutex that is not misused is released by its owner, or not at all.
LEMMA LocksStep ==
    ASSUME IndInv, ~misused, ~misused', NEW t \in Threads, NEW v \in Variables
    PROVE  /\ Throw(t, v) => UNCHANGED <<writer, readers>> /\ ~m_data[t][v]
           /\ Destroy(t, v) /\ m_data[t][v] =>
                 /\ writer' = IF wrapper[t][v] = "unique" THEN NoThread ELSE writer
                 /\ readers' = IF wrapper[t][v] = "unique" THEN readers ELSE readers \ {t}
                 /\ Has(t, wrapper[t][v])
           /\ Destroy(t, v) /\ ~m_data[t][v] => UNCHANGED <<writer, readers>>
<1>1. /\ Destroy(t, v) /\ m_data[t][v] => Has(t, wrapper[t][v])
      /\ Throw(t, v) => ~Has(t, wrapper[t][v])
  BY ReleaseStep
<1> QED
  BY <1>1 DEF Throw, Destroy, Release, Unlock

LEMMA UntouchedStep ==
    ASSUME IndInv, ~misused, ~misused', NEW t \in Threads, Step(t)
    PROVE  Untouched(t)
<1> USE NoThreadAssumption, NoneAssumption
    DEF IndInv, TypeOK, Consistent, Ready, Building, Constructed, Remove, Untouched
<1>1. CASE End(t)
  BY <1>1 DEF End
<1>2. ASSUME NEW v \in Variables, NEW mode \in {"unique", "shared"}, NEW try \in BOOLEAN,
             Construct(t, v, mode, try)
      PROVE  Untouched(t)
  BY <1>2 DEF Construct
<1>3. ASSUME NEW v \in Variables, Acquire(t, v)
      PROVE  Untouched(t)
  BY <1>3 DEF Acquire, Free, Lock
<1>4. ASSUME NEW v \in Variables, Refuse(t, v)
      PROVE  Untouched(t)
  BY <1>4 DEF Refuse
<1>5. ASSUME NEW v \in Variables, Throw(t, v)
      PROVE  Untouched(t)
  <2>1. UNCHANGED <<writer, readers>> /\ ~m_data[t][v]
    BY <1>5, LocksStep
  <2> QED
    BY <1>5, <2>1 DEF Throw
<1>6. ASSUME NEW v \in Variables, Destroy(t, v)
      PROVE  Untouched(t)
  <2>1. CASE ~m_data[t][v]
    <3>1. UNCHANGED <<writer, readers>>
      BY <1>6, <2>1, LocksStep
    <3> QED
      BY <1>6, <2>1, <3>1 DEF Destroy
  <2>2. CASE m_data[t][v]
    <3>1. /\ writer' = IF wrapper[t][v] = "unique" THEN NoThread ELSE writer
          /\ readers' = IF wrapper[t][v] = "unique" THEN readers ELSE readers \ {t}
          /\ Has(t, wrapper[t][v])
      BY <1>6, <2>2, LocksStep
    <3> QED
      BY <1>6, <2>2, <3>1 DEF Destroy, Has
  <2> QED
    BY <2>1, <2>2
<1>7. ASSUME NEW v \in Variables, NEW w \in Variables, Move(t, v, w)
      PROVE  Untouched(t)
  BY <1>7 DEF Move
<1>8. ASSUME NEW v \in Variables, NEW kind \in {"read", "write"}, Begin(t, v, kind)
      PROVE  Untouched(t)
  BY <1>8 DEF Begin
<1> QED
  BY <1>1, <1>2, <1>3, <1>4, <1>5, <1>6, <1>7, <1>8 DEF Step

\* The wrappers of t and the locks it has still match.
LEMMA OwnStep ==
    ASSUME IndInv, ~misused, ~misused', NEW t \in Threads, Step(t)
    PROVE  Matches(t)'
<1>0. TypeOK /\ Matches(t) /\ Consistent
  BY DEF IndInv
<1> USE <1>0, NoThreadAssumption, NoneAssumption
    DEF TypeOK, Matches, OwnsAs, Owns, Consistent, Ready, Building, Constructed, Remove
<1>1. CASE End(t)
  BY <1>1 DEF End
<1>2. ASSUME NEW v \in Variables, NEW mode \in {"unique", "shared"}, NEW try \in BOOLEAN,
             Construct(t, v, mode, try)
      PROVE  Matches(t)'
  BY <1>2 DEF Construct
<1>3. ASSUME NEW v \in Variables, Acquire(t, v)
      PROVE  Matches(t)'
  BY <1>3 DEF Acquire, Free, Lock
<1>4. ASSUME NEW v \in Variables, Refuse(t, v)
      PROVE  Matches(t)'
  BY <1>4 DEF Refuse
<1>5. ASSUME NEW v \in Variables, Throw(t, v)
      PROVE  Matches(t)'
  <2>1. UNCHANGED <<writer, readers>> /\ ~m_data[t][v]
    BY <1>5, LocksStep
  <2> QED
    BY <1>5, <2>1 DEF Throw
<1>6. ASSUME NEW v \in Variables, Destroy(t, v)
      PROVE  Matches(t)'
  <2>1. CASE ~m_data[t][v]
    <3>1. \A x \in Variables : Owns(t, x)' <=> Owns(t, x)
      BY <1>6, <2>1 DEF Destroy
    <3>2. \A x \in Variables : Owns(t, x) => wrapper'[t][x] = wrapper[t][x]
      BY <1>6, <2>1 DEF Destroy
    <3> QED
      BY <1>6, <2>1, <3>1, <3>2, LocksStep DEF Destroy
  <2>2. CASE m_data[t][v]
    <3>1. Owns(t, v) /\ \A x \in Variables : ~Owns(t, x)'
      BY <1>6, <2>2 DEF Destroy
    <3>2. /\ writer' = IF wrapper[t][v] = "unique" THEN NoThread ELSE writer
          /\ readers' = IF wrapper[t][v] = "unique" THEN readers ELSE readers \ {t}
      BY <1>6, <2>2, LocksStep
    <3>3. OwnsAs(t, v, "unique") \/ OwnsAs(t, v, "shared")
      BY <1>6, <3>1 DEF Destroy
    <3>4. writer' # t /\ t \notin readers'
      BY <3>2, <3>3, <1>6
    <3> QED
      BY <3>1, <3>4
  <2> QED
    BY <2>1, <2>2
<1>7. ASSUME NEW v \in Variables, NEW w \in Variables, Move(t, v, w)
      PROVE  Matches(t)'
  <2>1. building[t] = None /\ UNCHANGED <<writer, readers, building>>
    BY <1>7 DEF Move
  <2>2. CASE ~m_data[t][v]
    <3>1. \A x \in Variables : Owns(t, x)' <=> Owns(t, x)
      BY <1>7, <2>2 DEF Move
    <3>2. \A x \in Variables : Owns(t, x) => wrapper'[t][x] = wrapper[t][x]
      BY <1>7, <2>2 DEF Move
    <3> QED
      BY <2>1, <3>1, <3>2
  <2>3. CASE m_data[t][v]
    <3>1. Owns(t, v) /\ \A x \in Variables : Owns(t, x)' <=> x = w
      BY <1>7, <2>1, <2>3 DEF Move
    <3>2. wrapper'[t][w] = wrapper[t][v]
      BY <1>7 DEF Move
    <3>3. \A x \in Variables : Owns(t, x) => x = v
      BY <3>1
    <3>4. /\ (\E x \in Variables : OwnsAs(t, x, "unique")') <=> wrapper[t][v] = "unique"
          /\ (\E x \in Variables : OwnsAs(t, x, "shared")') <=> wrapper[t][v] = "shared"
      BY <3>1, <3>2
    <3>5. /\ (\E x \in Variables : OwnsAs(t, x, "unique")) <=> wrapper[t][v] = "unique"
          /\ (\E x \in Variables : OwnsAs(t, x, "shared")) <=> wrapper[t][v] = "shared"
      BY <3>1, <3>3
    <3>6. \A x, y \in Variables : Owns(t, x)' /\ Owns(t, y)' => x = y
      BY <3>1
    <3>7. writer = t <=> wrapper[t][v] = "unique"
      BY <3>5
    <3>8. t \in readers <=> wrapper[t][v] = "shared"
      BY <3>5
    <3> HIDE DEF Owns, OwnsAs
    <3> QED
      BY <2>1, <3>4, <3>6, <3>7, <3>8
  <2> QED
    BY <2>2, <2>3
<1>8. ASSUME NEW v \in Variables, NEW kind \in {"read", "write"}, Begin(t, v, kind)
      PROVE  Matches(t)'
  BY <1>8 DEF Begin
<1> QED
  BY <1>1, <1>2, <1>3, <1>4, <1>5, <1>6, <1>7, <1>8 DEF Step

LEMMA ConsistentStep ==
    ASSUME IndInv, ~misused, ~misused', NEW t \in Threads, Step(t)
    PROVE  Consistent'
<1>0. TypeOK /\ Matches(t) /\ Consistent
  BY DEF IndInv
<1> USE <1>0, NoThreadAssumption, NoneAssumption
    DEF TypeOK, Matches, OwnsAs, Owns, Consistent,
        Ready, Building, Constructed, Remove
<1>1. CASE End(t)
  BY <1>1 DEF End
<1>2. ASSUME NEW v \in Variables, NEW mode \in {"unique", "shared"}, NEW try \in BOOLEAN,
             Construct(t, v, mode, try)
      PROVE  Consistent'
  BY <1>2 DEF Construct
<1>3. ASSUME NEW v \in Variables, Acquire(t, v)
      PROVE  Consistent'
  BY <1>3 DEF Acquire, Free, Lock
<1>4. ASSUME NEW v \in Variables, Refuse(t, v)
      PROVE  Consistent'
  BY <1>4 DEF Refuse
<1>5. ASSUME NEW v \in Variables, Throw(t, v)
      PROVE  Consistent'
  <2>1. UNCHANGED <<writer, readers>> /\ ~m_data[t][v]
    BY <1>5, LocksStep
  <2> QED
    BY <1>5, <2>1 DEF Throw
<1>6. ASSUME NEW v \in Variables, Destroy(t, v)
      PROVE  Consistent'
  <2>1. CASE ~m_data[t][v]
    <3>1. UNCHANGED <<writer, readers>>
      BY <1>6, <2>1, LocksStep
    <3> QED
      BY <1>6, <2>1, <3>1 DEF Destroy
  <2>2. CASE m_data[t][v]
    <3>1. /\ writer' = IF wrapper[t][v] = "unique" THEN NoThread ELSE writer
          /\ readers' = IF wrapper[t][v] = "unique" THEN readers ELSE readers \ {t}
          /\ Has(t, wrapper[t][v])
      BY <1>6, <2>2, LocksStep
    <3> QED
      BY <1>6, <2>2, <3>1 DEF Destroy, Has
  <2> QED
    BY <2>1, <2>2
<1>7. ASSUME NEW v \in Variables, NEW w \in Variables, Move(t, v, w)
      PROVE  Consistent'
  BY <1>7 DEF Move
<1>8. ASSUME NEW v \in Variables, NEW kind \in {"read", "write"}, Begin(t, v, kind)
      PROVE  Consistent'
  BY <1>8 DEF Begin
<1> QED
  BY <1>1, <1>2, <1>3, <1>4, <1>5, <1>6, <1>7, <1>8 DEF Step

LEMMA StepInv ==
    ASSUME IndInv, NEW t \in Threads, Step(t)
    PROVE  IndInv'
<1>1. TypeOK'
  BY TypeStep DEF IndInv
<1>2. ASSUME ~misused'
      PROVE  Consistent' /\ \A u \in Threads : Matches(u)'
  <2>1. ~misused
    BY <1>2, MisuseStep
  <2>2. ASSUME NEW u \in Threads \ {t}
        PROVE  Matches(u)'
    <3>1. Matches(u) /\ Untouched(t)
      BY <1>2, <2>1, UntouchedStep DEF IndInv
    <3> QED
      BY <3>1 DEF Untouched, Matches, OwnsAs, Owns
  <2>3. Matches(t)' /\ Consistent'
    BY <1>2, <2>1, OwnStep, ConsistentStep
  <2> QED
    BY <2>2, <2>3
<1> QED
  BY <1>1, <1>2 DEF IndInv

\* The locks and the wrappers match, whatever is moved or refused, and whatever
\* throws without the mutex being unlocked by a thread that does not have it.
THEOREM Invariance == Spec => []IndInv
<1>1. IndInv /\ UNCHANGED vars => IndInv'
  BY DEF vars, IndInv, TypeOK, Matches, OwnsAs, Owns, Consistent
<1>2. IndInv /\ [Next]_vars => IndInv'
  BY <1>1, StepInv DEF Next
<1> QED
  BY InitInv, <1>2, PTL DEF Spec

\* Every variable keeps its type.
THEOREM TypeCorrect == Spec => []TypeOK
<1>1. IndInv => TypeOK
  BY DEF IndInv
<1> QED
  BY <1>1, Invariance, PTL

\* Each lock is held by exactly one wrapper, until the mutex is misused.
THEOREM LocksMatchWrappers == Spec => []OneWrapperPerLock
<1>1. IndInv => OneWrapperPerLock
  BY DEF IndInv, OneWrapperPerLock
<1> QED
  BY <1>1, Invariance, PTL

\* Until the mutex is misused, the data of a data_mutex is never written while
\* another thread uses it.
THEOREM RaceFreedom == Spec => []NoDataRace
<1>1. IndInv => NoDataRace
  BY NoThreadAssumption DEF IndInv, TypeOK, Consistent, NoDataRace
<1> QED
  BY <1>1, Invariance, PTL

\* Only a wrapper whose constructor throws misuses the mutex.
THEOREM MisuseNeedsThrow == Spec => UnlocksWhatItLocked
<1> DEFINE A == misused' /\ ~misused =>
                  \E t \in Threads :
                      LET v == building[t] IN v # None /\ wrapper'[t][v] = "none"
<1>1. ASSUME IndInv, NEW t \in Threads, Step(t), misused', ~misused
      PROVE  building[t] # None /\ wrapper'[t][building[t]] = "none"
  <2>1. PICK v \in Variables : Throw(t, v) \/ Destroy(t, v)
    BY <1>1 DEF Step, End, Construct, Acquire, Refuse, Move, Begin, Constructed
  <2>2. CASE Throw(t, v)
    BY <1>1, <2>2 DEF Throw, Building, Remove, IndInv, TypeOK
  <2>3. CASE Destroy(t, v)
    BY <1>1, <2>3, ReleaseStep DEF Destroy, Release, Unlock
  <2> QED
    BY <2>1, <2>2, <2>3
<1>2. IndInv /\ [Next]_vars => [A]_vars
  BY <1>1 DEF Next
<1> QED
  BY <1>2, Invariance, PTL DEF Spec, UnlocksWhatItLocked
=============================================================================
