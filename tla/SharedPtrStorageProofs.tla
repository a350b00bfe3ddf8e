----------------------- MODULE SharedPtrStorageProofs -----------------------
(***************************************************************************)
(* Proofs about SharedPtrStorage, for any number of threads and objects    *)
(* and any choice of the objects whose destructors use the storage.        *)
(***************************************************************************)
EXTENDS SharedPtrStorage, FiniteSetTheorems, TLAPS

(* How the number of variables that hold an object changes.                *)

\* A thread is counted once for each of its variables: when the variable of t
\* goes from f[t] to g[t], one count moves from the former to the latter.
LEMMA HoldersUpdate ==
    ASSUME NEW f \in [Threads -> Pointers], NEW g \in [Threads -> Pointers],
           NEW t \in Threads, \A u \in Threads \ {t} : g[u] = f[u], NEW o
    PROVE  /\ Holders(f, o) \in Nat
           /\ Holders(g, o) = Holders(f, o) - One(f[t], o) + One(g[t], o)
<1> DEFINE S == {u \in Threads : f[u] = o}
           T == {u \in Threads : g[u] = o}
           R == S \ {t}
<1>1. IsFiniteSet(S) /\ IsFiniteSet(T) /\ IsFiniteSet(R)
  BY FinitenessAssumption, FS_Subset
<1>2. Cardinality(S) \in Nat /\ Cardinality(R) \in Nat /\ Cardinality(T) \in Nat
  BY <1>1, FS_CardinalityType
<1>3. Cardinality(R \cup {t}) = Cardinality(R) + 1
  BY <1>1, <1>2, FS_AddElement
<1>4. S = IF f[t] = o THEN R \cup {t} ELSE R
  OBVIOUS
<1>5. T = IF g[t] = o THEN R \cup {t} ELSE R
  OBVIOUS
<1> HIDE DEF S, T, R
<1>6. /\ Cardinality(S) = Cardinality(R) + One(f[t], o)
      /\ Cardinality(T) = Cardinality(R) + One(g[t], o)
  BY <1>2, <1>3, <1>4, <1>5 DEF One
<1>7. Holders(f, o) = Cardinality(S) /\ Holders(g, o) = Cardinality(T)
  BY DEF Holders, S, T
<1> QED
  BY <1>2, <1>6, <1>7, SMT DEF One

LEMMA HoldersNat ==
    ASSUME NEW f, NEW o
    PROVE  Holders(f, o) \in Nat
<1>1. IsFiniteSet({t \in Threads : f[t] = o})
  BY FinitenessAssumption, FS_Subset
<1> QED
  BY <1>1, FS_CardinalityType DEF Holders

\* Nothing holds anything initially.
LEMMA HoldersOfNull ==
    ASSUME NEW o \in Objects
    PROVE  Holders([t \in Threads |-> Null], o) = 0
<1>1. {t \in Threads : [u \in Threads |-> Null][t] = o} = {}
  BY NullAssumption
<1> QED
  BY <1>1, FS_EmptySet DEF Holders

-----------------------------------------------------------------------------
(* Types.  The counters are integers whatever happens; that they are never *)
(* negative follows from CountsExact.                                      *)

LEMMA CallerTypes ==
    ASSUME Typed(Int), NEW t \in Threads, Caller(t)
    PROVE  Typed(Int)'
<1> USE ReentrantAssumption DEF Typed, Pointers, Steps, Ops
<1>1. CASE Make(t)
  BY <1>1 DEF Make
<1>2. CASE ResetMine(t)
  BY <1>2 DEF ResetMine, DropRef
<1>3. CASE ResetCur(t)
  BY <1>3 DEF ResetCur, DropRef
<1>4. CASE CallLoad(t)
  BY <1>4 DEF CallLoad
<1>5. ASSUME NEW k \in {"store", "exchange", "cas"}, CallWith(t, k)
      PROVE  Typed(Int)'
  BY <1>5 DEF CallWith, AddRef
<1> QED
  BY <1>1, <1>2, <1>3, <1>4, <1>5 DEF Caller

LEMMA OperationTypes ==
    ASSUME Typed(Int), Consistent, NEW t \in Threads, Operation(t)
    PROVE  Typed(Int)'
<1> USE ReentrantAssumption DEF Typed, Pointers, Steps, Ops
<1>1. CASE TestAndSet(t)
  BY <1>1 DEF TestAndSet, Entry, Consistent
<1>2. CASE Compare(t)
  BY <1>2 DEF Compare
<1>3. CASE CopyRead(t)
  BY <1>3 DEF CopyRead
<1>4. CASE CopyAddRef(t)
  BY <1>4 DEF CopyAddRef, AddRef
<1>5. CASE AssignExpect(t)
  BY <1>5 DEF AssignExpect, DropRef
<1>6. CASE SwapRead(t)
  BY <1>6 DEF SwapRead
<1>7. CASE SwapWrite(t)
  BY <1>7 DEF SwapWrite
<1>8. CASE Unlock(t)
  BY <1>8 DEF Unlock
<1>9. CASE Finish(t)
  BY <1>9 DEF Finish, DropRef
<1> QED
  BY <1>1, <1>2, <1>3, <1>4, <1>5, <1>6, <1>7, <1>8, <1>9 DEF Operation

LEMMA StepTypes ==
    ASSUME TypeOK, Consistent, NEW t \in Threads, Caller(t) \/ Operation(t)
    PROVE  Typed(Int)'
<1>1. Typed(Int)
  BY DEF TypeOK, Typed
<1> QED
  BY <1>1, CallerTypes, OperationTypes

-----------------------------------------------------------------------------
(* The control state.                                                      *)

\* The step and the operation a thread is at fit together, and the variables
\* it does not use are null.
LEMMA ConsistentStep ==
    ASSUME TypeOK, Consistent, MutualExclusion, ReadsStand,
           NEW t \in Threads, Caller(t) \/ Operation(t)
    PROVE  Consistent'
<1> USE ReentrantAssumption DEF TypeOK, Typed, Consistent
<1>1. CASE Make(t)
  BY <1>1 DEF Make
<1>2. CASE ResetMine(t)
  BY <1>2 DEF ResetMine, DropRef
<1>3. CASE ResetCur(t)
  BY <1>3 DEF ResetCur, DropRef
<1>4. CASE CallLoad(t)
  BY <1>4 DEF CallLoad
<1>5. ASSUME NEW k \in {"store", "exchange", "cas"}, CallWith(t, k)
      PROVE  Consistent'
  BY <1>5 DEF CallWith
<1>6. CASE TestAndSet(t)
  <2>1. CASE flag
    BY <1>6, <2>1 DEF TestAndSet
  <2>2. CASE ~flag
    <3>1. after[t] # "release"
      BY <2>2 DEF MutualExclusion, Holds
    <3>2. op[t] # "none" /\ pc' = [pc EXCEPT ![t] = Entry(op[t])]
      BY <1>6, <2>2 DEF TestAndSet
    <3>3. /\ Entry(op[t]) \in {"copy", "swap_read", "compare"}
          /\ Entry(op[t]) = "compare" => op[t] = "cas"
          /\ Entry(op[t]) = "copy" => op[t] \in {"load", "dtor"}
          /\ Entry(op[t]) = "swap_read" => op[t] \in {"store", "exchange"}
      BY <3>2 DEF Entry, Ops
    <3> HIDE DEF Entry
    <3> QED
      BY <1>6, <3>1, <3>2, <3>3 DEF TestAndSet
  <2> QED
    BY <2>1, <2>2
<1>7. CASE Compare(t)
  BY <1>7 DEF Compare
<1>8. CASE CopyRead(t)
  BY <1>8 DEF CopyRead
<1>9. CASE CopyAddRef(t)
  BY <1>9 DEF CopyAddRef
<1>10. CASE AssignExpect(t)
  BY <1>10 DEF AssignExpect, DropRef, ReadsStand
<1>11. CASE SwapRead(t)
  BY <1>11 DEF SwapRead
<1>12. CASE SwapWrite(t)
  BY <1>12 DEF SwapWrite
<1>13. CASE Unlock(t)
  BY <1>13 DEF Unlock
<1>14. CASE Finish(t)
  BY <1>14 DEF Finish, DropRef
<1> QED
  BY <1>1, <1>2, <1>3, <1>4, <1>5, <1>6, <1>7, <1>8, <1>9, <1>10, <1>11, <1>12, <1>13, <1>14
     DEF Caller, Operation

-----------------------------------------------------------------------------
(* Mutual exclusion.                                                       *)

OthersKeep(t) == \A u \in Threads \ {t} : Holds(u)' = Holds(u)
Acquires(t) == ~flag /\ flag' /\ Holds(t)' /\ OthersKeep(t)
Releases(t) == Holds(t) /\ ~flag' /\ ~Holds(t)' /\ OthersKeep(t)
KeepsLock(t) == flag' = flag /\ Holds(t)' = Holds(t) /\ OthersKeep(t)

\* A step takes the lock when it is free, gives up the one its thread has,
\* or changes nothing about it.
LEMMA LockStep ==
    ASSUME TypeOK, Consistent, NEW t \in Threads, Caller(t) \/ Operation(t)
    PROVE  Acquires(t) \/ Releases(t) \/ KeepsLock(t)
<1> USE DEF TypeOK, Typed, Consistent, Acquires, Releases, KeepsLock, OthersKeep,
             Holds, Critical, Steps, Ops
<1>1. CASE Make(t)
  BY <1>1 DEF Make
<1>2. CASE ResetMine(t)
  BY <1>2 DEF ResetMine, DropRef
<1>3. CASE ResetCur(t)
  BY <1>3 DEF ResetCur, DropRef
<1>4. CASE CallLoad(t)
  BY <1>4 DEF CallLoad
<1>5. ASSUME NEW k \in {"store", "exchange", "cas"}, CallWith(t, k)
      PROVE  Acquires(t) \/ Releases(t) \/ KeepsLock(t)
  BY <1>5 DEF CallWith
<1>6. CASE TestAndSet(t)
  <2>1. CASE flag
    BY <1>6, <2>1 DEF TestAndSet
  <2>2. CASE ~flag
    BY <1>6, <2>2 DEF TestAndSet, Entry
  <2> QED
    BY <2>1, <2>2
<1>7. CASE Compare(t)
  BY <1>7 DEF Compare
<1>8. CASE CopyRead(t)
  BY <1>8 DEF CopyRead
<1>9. CASE CopyAddRef(t)
  BY <1>9 DEF CopyAddRef
<1>10. CASE AssignExpect(t)
  <2>1. pc[t] = "assign" /\ op[t] = "cas" /\ flag' = flag /\ Holds(t)
    BY <1>10 DEF AssignExpect
  <2>2. \/ pc' = [pc EXCEPT ![t] = "acquire"] /\ op' = [op EXCEPT ![t] = "dtor"]
           /\ after' = [after EXCEPT ![t] = "release"]
        \/ pc' = [pc EXCEPT ![t] = "release"] /\ op' = [op EXCEPT ![t] = "cas"]
           /\ after' = [after EXCEPT ![t] = "idle"]
    BY <1>10 DEF AssignExpect, DropRef
  <2> QED
    BY <2>1, <2>2
<1>11. CASE SwapRead(t)
  BY <1>11 DEF SwapRead
<1>12. CASE SwapWrite(t)
  BY <1>12 DEF SwapWrite
<1>13. CASE Unlock(t)
  BY <1>13 DEF Unlock
<1>14. CASE Finish(t)
  BY <1>14 DEF Finish, DropRef
<1> QED
  BY <1>1, <1>2, <1>3, <1>4, <1>5, <1>6, <1>7, <1>8, <1>9, <1>10, <1>11, <1>12, <1>13, <1>14
     DEF Caller, Operation

LEMMA MutualExclusionStep ==
    ASSUME TypeOK, Consistent, MutualExclusion, NEW t \in Threads, Caller(t) \/ Operation(t)
    PROVE  MutualExclusion'
<1>1. Acquires(t) \/ Releases(t) \/ KeepsLock(t)
  BY LockStep
<1>2. flag \in BOOLEAN /\ flag' \in BOOLEAN
  BY StepTypes DEF TypeOK, Typed
<1>3. \A u \in Threads : Holds(u) => flag
  BY <1>2 DEF MutualExclusion
<1>4. CASE Acquires(t)
  BY <1>2, <1>3, <1>4 DEF MutualExclusion, Acquires, OthersKeep
<1>5. CASE Releases(t)
  BY <1>2, <1>5 DEF MutualExclusion, Releases, OthersKeep
<1>6. CASE KeepsLock(t)
  <2>1. \A u \in Threads : Holds(u)' <=> Holds(u)
    BY <1>6 DEF KeepsLock, OthersKeep
  <2> QED
    BY <1>2, <1>6, <2>1 DEF MutualExclusion, KeepsLock
<1> QED
  BY <1>1, <1>4, <1>5, <1>6

-----------------------------------------------------------------------------
(* What the holder of the lock has read.                                   *)

LEMMA ReadsStandStep ==
    ASSUME TypeOK, Consistent, MutualExclusion, ReadsStand,
           NEW t \in Threads, Caller(t) \/ Operation(t)
    PROVE  ReadsStand'
<1> USE DEF TypeOK, Typed, Consistent, ReadsStand, Steps, Ops
<1>1. CASE Make(t)
  BY <1>1 DEF Make
<1>2. CASE ResetMine(t)
  BY <1>2 DEF ResetMine, DropRef
<1>3. CASE ResetCur(t)
  BY <1>3 DEF ResetCur, DropRef
<1>4. CASE CallLoad(t)
  BY <1>4 DEF CallLoad
<1>5. ASSUME NEW k \in {"store", "exchange", "cas"}, CallWith(t, k)
      PROVE  ReadsStand'
  BY <1>5 DEF CallWith
<1>6. CASE TestAndSet(t)
  <2>1. CASE flag
    BY <1>6, <2>1 DEF TestAndSet
  <2>2. CASE ~flag
    BY <1>6, <2>2 DEF TestAndSet, Entry
  <2> QED
    BY <2>1, <2>2
<1>7. CASE Compare(t)
  BY <1>7 DEF Compare
<1>8. CASE CopyRead(t)
  BY <1>8 DEF CopyRead
<1>9. CASE CopyAddRef(t)
  BY <1>9 DEF CopyAddRef
<1>10. CASE AssignExpect(t)
  BY <1>10 DEF AssignExpect, DropRef
<1>11. CASE SwapRead(t)
  BY <1>11 DEF SwapRead
<1>12. CASE SwapWrite(t)
  <2>1. \A u \in Threads : u # t => pc[u] \notin Critical
    BY <1>12 DEF SwapWrite, MutualExclusion, Holds, Critical
  <2> QED
    BY <1>12, <2>1 DEF SwapWrite, Critical
<1>13. CASE Unlock(t)
  BY <1>13 DEF Unlock
<1>14. CASE Finish(t)
  BY <1>14 DEF Finish, DropRef
<1> QED
  BY <1>1, <1>2, <1>3, <1>4, <1>5, <1>6, <1>7, <1>8, <1>9, <1>10, <1>11, <1>12, <1>13, <1>14
     DEF Caller, Operation

-----------------------------------------------------------------------------
(* The counters.                                                           *)

\* A step of t leaves every other thread's variables alone.
LocalTo(t) ==
    \A u \in Threads \ {t} :
        /\ pc'[u] = pc[u] /\ op'[u] = op[u] /\ after'[u] = after[u]
        /\ cur'[u] = cur[u] /\ mine'[u] = mine[u] /\ arg'[u] = arg[u]
        /\ seen'[u] = seen[u] /\ ok'[u] = ok[u]

LEMMA LocalStep ==
    ASSUME TypeOK, NEW t \in Threads, Caller(t) \/ Operation(t)
    PROVE  LocalTo(t)
<1> USE DEF TypeOK, Typed, LocalTo
<1>1. CASE Make(t)
  BY <1>1 DEF Make
<1>2. CASE ResetMine(t)
  BY <1>2 DEF ResetMine, DropRef
<1>3. CASE ResetCur(t)
  BY <1>3 DEF ResetCur, DropRef
<1>4. CASE CallLoad(t)
  BY <1>4 DEF CallLoad
<1>5. ASSUME NEW k \in {"store", "exchange", "cas"}, CallWith(t, k)
      PROVE  LocalTo(t)
  BY <1>5 DEF CallWith
<1>6. CASE TestAndSet(t)
  BY <1>6 DEF TestAndSet
<1>7. CASE Compare(t)
  BY <1>7 DEF Compare
<1>8. CASE CopyRead(t)
  BY <1>8 DEF CopyRead
<1>9. CASE CopyAddRef(t)
  BY <1>9 DEF CopyAddRef
<1>10. CASE AssignExpect(t)
  BY <1>10 DEF AssignExpect, DropRef
<1>11. CASE SwapRead(t)
  BY <1>11 DEF SwapRead
<1>12. CASE SwapWrite(t)
  BY <1>12 DEF SwapWrite
<1>13. CASE Unlock(t)
  BY <1>13 DEF Unlock
<1>14. CASE Finish(t)
  BY <1>14 DEF Finish, DropRef
<1> QED
  BY <1>1, <1>2, <1>3, <1>4, <1>5, <1>6, <1>7, <1>8, <1>9, <1>10, <1>11, <1>12, <1>13, <1>14
     DEF Caller, Operation

\* How many of t's variables hold o.
Owned(t, o) == One(cur[t], o) + One(mine[t], o) + One(arg[t], o) + One(Copies[t], o)

\* If the counter of every object moves by as much as the number of t's
\* variables and of m_ptr that hold it, the counters stay exact.
LEMMA Balance ==
    ASSUME TypeOK, CountsExact, Typed(Int)', NEW t \in Threads, LocalTo(t),
           \A o \in Objects :
               uses'[o] = uses[o] + One(m_ptr', o) - One(m_ptr, o) + Owned(t, o)' - Owned(t, o)
    PROVE  CountsExact'
<1> SUFFICES ASSUME NEW o \in Objects
             PROVE  uses'[o] = One(m_ptr', o) + Holders(cur', o) + Holders(mine', o)
                                 + Holders(arg', o) + Holders(Copies', o)
  BY DEF CountsExact, Holders
<1>1. /\ Copies \in [Threads -> Pointers] /\ Copies' \in [Threads -> Pointers]
      /\ \A u \in Threads \ {t} : Copies'[u] = Copies[u]
  <2>1. \A u \in Threads : seen[u] \in Pointers /\ seen'[u] \in Pointers
    BY DEF TypeOK, Typed
  <2>2. \A u \in Threads \ {t} : Counted(u)' <=> Counted(u)
    BY DEF LocalTo, Counted
  <2>3. /\ Copies = [u \in Threads |-> IF Counted(u) THEN seen[u] ELSE Null]
        /\ Copies' = [u \in Threads |-> IF Counted(u)' THEN seen'[u] ELSE Null]
    BY DEF Copies
  <2> HIDE DEF Counted
  <2> QED
    BY <2>1, <2>2, <2>3 DEF LocalTo, Pointers
<1>2. /\ Holders(cur, o) \in Nat /\ Holders(mine, o) \in Nat
      /\ Holders(arg, o) \in Nat /\ Holders(Copies, o) \in Nat
      /\ Holders(cur', o) = Holders(cur, o) - One(cur[t], o) + One(cur'[t], o)
      /\ Holders(mine', o) = Holders(mine, o) - One(mine[t], o) + One(mine'[t], o)
      /\ Holders(arg', o) = Holders(arg, o) - One(arg[t], o) + One(arg'[t], o)
      /\ Holders(Copies', o) = Holders(Copies, o) - One(Copies[t], o) + One(Copies'[t], o)
  <2>1. Holders(cur, o) \in Nat /\ Holders(cur', o) = Holders(cur, o) - One(cur[t], o) + One(cur'[t], o)
    <3>1. /\ cur \in [Threads -> Pointers] /\ cur' \in [Threads -> Pointers]
          /\ \A u \in Threads \ {t} : cur'[u] = cur[u]
      BY DEF TypeOK, Typed, LocalTo
    <3> QED
      BY <3>1, HoldersUpdate
  <2>2. Holders(mine, o) \in Nat /\ Holders(mine', o) = Holders(mine, o) - One(mine[t], o) + One(mine'[t], o)
    <3>1. /\ mine \in [Threads -> Pointers] /\ mine' \in [Threads -> Pointers]
          /\ \A u \in Threads \ {t} : mine'[u] = mine[u]
      BY DEF TypeOK, Typed, LocalTo
    <3> QED
      BY <3>1, HoldersUpdate
  <2>3. Holders(arg, o) \in Nat /\ Holders(arg', o) = Holders(arg, o) - One(arg[t], o) + One(arg'[t], o)
    <3>1. /\ arg \in [Threads -> Pointers] /\ arg' \in [Threads -> Pointers]
          /\ \A u \in Threads \ {t} : arg'[u] = arg[u]
      BY DEF TypeOK, Typed, LocalTo
    <3> QED
      BY <3>1, HoldersUpdate
  <2>4. Holders(Copies, o) \in Nat /\ Holders(Copies', o) = Holders(Copies, o) - One(Copies[t], o) + One(Copies'[t], o)
    BY <1>1, HoldersUpdate
  <2> QED
    BY <2>1, <2>2, <2>3, <2>4
<1>3. uses[o] = One(m_ptr, o) + Holders(cur, o) + Holders(mine, o)
                  + Holders(arg, o) + Holders(Copies, o)
  BY DEF CountsExact
<1>4. uses'[o] = uses[o] + One(m_ptr', o) - One(m_ptr, o)
                   + (One(cur'[t], o) + One(mine'[t], o) + One(arg'[t], o) + One(Copies'[t], o))
                   - (One(cur[t], o) + One(mine[t], o) + One(arg[t], o) + One(Copies[t], o))
  BY DEF Owned
<1> HIDE DEF Copies
<1> QED
  BY <1>2, <1>3, <1>4 DEF One

\* The balance of a step of t.
Balanced(t) ==
    \A o \in Objects :
        uses'[o] = uses[o] + One(m_ptr', o) - One(m_ptr, o) + Owned(t, o)' - Owned(t, o)

LEMMA BalancedStep ==
    ASSUME TypeOK, Consistent, ReadsStand, NEW t \in Threads, Caller(t) \/ Operation(t)
    PROVE  Balanced(t)
<1> USE NullAssumption DEF TypeOK, Typed, Consistent, ReadsStand, Balanced, Owned, One, Copies, Counted, Pointers
<1>1. CASE Make(t)
  BY <1>1 DEF Make
<1>2. CASE ResetMine(t)
  BY <1>2 DEF ResetMine, DropRef
<1>3. CASE ResetCur(t)
  BY <1>3 DEF ResetCur, DropRef
<1>4. CASE CallLoad(t)
  BY <1>4 DEF CallLoad
<1>5. ASSUME NEW k \in {"store", "exchange", "cas"}, CallWith(t, k)
      PROVE  Balanced(t)
  BY <1>5 DEF CallWith, AddRef
<1>6. CASE TestAndSet(t)
  <2>1. \/ pc' = pc
        \/ pc'[t] \in {"compare", "copy", "swap_read"}
    BY <1>6 DEF TestAndSet, Entry
  <2> QED
    BY <1>6, <2>1 DEF TestAndSet
<1>7. CASE Compare(t)
  BY <1>7 DEF Compare
<1>8. CASE CopyRead(t)
  BY <1>8 DEF CopyRead
<1>9. CASE CopyAddRef(t)
  BY <1>9 DEF CopyAddRef, AddRef
<1>10. CASE AssignExpect(t)
  BY <1>10 DEF AssignExpect, DropRef
<1>11. CASE SwapRead(t)
  BY <1>11 DEF SwapRead
<1>12. CASE SwapWrite(t)
  BY <1>12 DEF SwapWrite
<1>13. CASE Unlock(t)
  BY <1>13 DEF Unlock
<1>14. CASE Finish(t)
  BY <1>14 DEF Finish, DropRef
<1> QED
  BY <1>1, <1>2, <1>3, <1>4, <1>5, <1>6, <1>7, <1>8, <1>9, <1>10, <1>11, <1>12, <1>13, <1>14
     DEF Caller, Operation

LEMMA CountsExactStep ==
    ASSUME TypeOK, Consistent, ReadsStand, CountsExact,
           NEW t \in Threads, Caller(t) \/ Operation(t)
    PROVE  CountsExact'
<1>1. Typed(Int)' /\ LocalTo(t) /\ Balanced(t)
  BY StepTypes, LocalStep, BalancedStep
<1> QED
  BY <1>1, Balance DEF Balanced

\* Exact counters are not negative.
LEMMA ExactCountsAreNatural == Typed(Int) /\ CountsExact => TypeOK
<1> SUFFICES ASSUME Typed(Int), CountsExact
             PROVE  TypeOK
  OBVIOUS
<1>1. ASSUME NEW o \in Objects
      PROVE  uses[o] \in Nat
  <2>1. /\ Holders(cur, o) \in Nat /\ Holders(mine, o) \in Nat
        /\ Holders(arg, o) \in Nat /\ Holders(Copies, o) \in Nat
    BY HoldersNat
  <2> QED
    BY <2>1 DEF CountsExact, One
<1> QED
  BY <1>1 DEF TypeOK, Typed

-----------------------------------------------------------------------------
(* The inductive invariant and what follows from it.                       *)

LEMMA InitInv == Init => IndInv
<1> SUFFICES ASSUME Init
             PROVE  IndInv
  OBVIOUS
<1>1. TypeOK
  BY DEF Init, TypeOK, Typed, Pointers, Steps, Ops
<1>2. Consistent /\ MutualExclusion /\ ReadsStand
  BY DEF Init, Consistent, MutualExclusion, ReadsStand, Holds, Critical
<1>3. CountsExact
  <2>1. Copies = [t \in Threads |-> Null]
    BY DEF Init, Copies, Counted
  <2>2. \A o \in Objects : Holders([t \in Threads |-> Null], o) = 0
    BY HoldersOfNull
  <2> QED
    BY <2>1, <2>2 DEF Init, CountsExact, One
<1> QED
  BY <1>1, <1>2, <1>3 DEF IndInv

LEMMA StepInv ==
    ASSUME IndInv, NEW t \in Threads, Caller(t) \/ Operation(t)
    PROVE  IndInv'
<1>1. TypeOK /\ Consistent /\ MutualExclusion /\ ReadsStand /\ CountsExact
  BY DEF IndInv
<1>2. Consistent' /\ MutualExclusion' /\ ReadsStand'
  BY <1>1, ConsistentStep, MutualExclusionStep, ReadsStandStep
<1>3. CountsExact' /\ Typed(Int)'
  BY <1>1, CountsExactStep, StepTypes
<1>4. TypeOK'
  BY <1>3, ExactCountsAreNatural, PTL
<1> QED
  BY <1>2, <1>3, <1>4 DEF IndInv

\* IndInv is an invariant of the storage, for every set of threads, objects
\* and reentrant objects.
THEOREM Invariance == Spec => []IndInv
<1>1. IndInv /\ UNCHANGED vars => IndInv'
  BY DEF IndInv, vars, TypeOK, Typed, Consistent, MutualExclusion, Holds, ReadsStand,
         CountsExact, Copies, Counted
<1>2. IndInv /\ [Next]_vars => IndInv'
  BY <1>1, StepInv DEF Next
<1> QED
  BY InitInv, <1>2, PTL DEF Spec

\* Every variable keeps its type; in particular no counter of a shared_ptr's
\* control block falls below zero.
THEOREM TypeCorrect == Spec => []TypeOK
<1>1. IndInv => TypeOK
  BY DEF IndInv
<1> QED
  BY <1>1, Invariance, PTL

\* asps_spinlock excludes.
THEOREM Exclusion == Spec => []MutualExclusion
<1>1. IndInv => MutualExclusion
  BY DEF IndInv
<1> QED
  BY <1>1, Invariance, PTL

\* No reference is leaked or released twice, in any interleaving.
THEOREM ExactCounts == Spec => []CountsExact
<1>1. IndInv => CountsExact
  BY DEF IndInv
<1> QED
  BY <1>1, Invariance, PTL

\* The address load is about to count is that of a live object.
THEOREM LiveCopies == Spec => []NoDeadCopy
<1>1. IndInv => NoDeadCopy
  <2> SUFFICES ASSUME IndInv, NEW t \in Threads, pc[t] = "addref", seen[t] # Null
               PROVE  uses[seen[t]] > 0
    BY DEF NoDeadCopy
  <2>1. seen[t] = m_ptr /\ m_ptr \in Objects
    BY DEF IndInv, ReadsStand, TypeOK, Typed, Pointers
  <2>2. /\ Holders(cur, m_ptr) \in Nat /\ Holders(mine, m_ptr) \in Nat
        /\ Holders(arg, m_ptr) \in Nat /\ Holders(Copies, m_ptr) \in Nat
    BY HoldersNat
  <2>3. One(m_ptr, m_ptr) = 1
    BY DEF One
  <2> QED
    BY <2>1, <2>2, <2>3 DEF IndInv, CountsExact
<1> QED
  BY <1>1, Invariance, PTL

\* compare_exchange swaps over exactly what it compared.
THEOREM AtomicSwap == Spec => []SwapIsAtomic
<1>1. IndInv => SwapIsAtomic
  BY DEF IndInv, ReadsStand, SwapIsAtomic
<1> QED
  BY <1>1, Invariance, PTL

-----------------------------------------------------------------------------
(* The storage implements the atomic register.                             *)

Mapped == [t \in Threads |-> CallOf(t)]

\* Only the call of the thread that steps changes.
LEMMA MappedStep ==
    ASSUME NEW t \in Threads, LocalTo(t)
    PROVE  Mapped' = [Mapped EXCEPT ![t] = CallOf(t)']
<1>1. \A u \in Threads \ {t} : CallOf(u)' = CallOf(u)
  BY DEF CallOf, LocalTo
<1>2. Mapped' = [u \in Threads |-> CallOf(u)']
  BY DEF Mapped
<1> HIDE DEF CallOf
<1> QED
  BY <1>1, <1>2 DEF Mapped

\* The steps of the register, in terms of the call of t.
Invokes(t) ==
    /\ m_ptr' = m_ptr /\ CallOf(t) = Atomic!NoCall
    /\ \/ CallOf(t)' = Atomic!Pending("load", Null, Null)
       \/ CallOf(t)' = Atomic!Pending("store", Null, mine[t])
       \/ CallOf(t)' = Atomic!Pending("exchange", Null, mine[t])
       \/ CallOf(t)' = Atomic!Pending("cas", cur[t], mine[t])

TakesEffect(t) ==
    \/ CallOf(t) = Atomic!Pending("load", Null, Null) /\ CallOf(t)' = Atomic!Done("load", m_ptr, FALSE)
          /\ m_ptr' = m_ptr
    \/ CallOf(t) = Atomic!Pending("store", Null, arg[t]) /\ CallOf(t)' = Atomic!Done("store", Null, FALSE)
          /\ m_ptr' = arg[t]
    \/ CallOf(t) = Atomic!Pending("exchange", Null, arg[t]) /\ CallOf(t)' = Atomic!Done("exchange", m_ptr, FALSE)
          /\ m_ptr' = arg[t]
    \/ CallOf(t) = Atomic!Pending("cas", cur[t], arg[t]) /\ CallOf(t)' = Atomic!Done("cas", m_ptr, TRUE)
          /\ m_ptr = cur[t] /\ m_ptr' = arg[t]
    \/ CallOf(t) = Atomic!Pending("cas", cur[t], arg[t]) /\ CallOf(t)' = Atomic!Done("cas", m_ptr, FALSE)
          /\ m_ptr # cur[t] /\ m_ptr' = m_ptr

Returns(t) ==
    CallOf(t).stage = "done" /\ CallOf(t)' = Atomic!NoCall /\ m_ptr' = m_ptr

Hidden(t) == CallOf(t)' = CallOf(t) /\ m_ptr' = m_ptr

LEMMA RegisterStep ==
    ASSUME TypeOK, Consistent, MutualExclusion, ReadsStand,
           NEW t \in Threads, Caller(t) \/ Operation(t)
    PROVE  Invokes(t) \/ TakesEffect(t) \/ Returns(t) \/ Hidden(t)
<1> USE DEF TypeOK, Typed, Consistent, ReadsStand, CallOf, BeforeEffect, Atomic!Pending, Atomic!Done,
             Invokes, TakesEffect, Returns, Hidden, Atomic!NoCall
<1>1. CASE Make(t)
  BY <1>1 DEF Make
<1>2. CASE ResetMine(t)
  BY <1>2 DEF ResetMine, DropRef
<1>3. CASE ResetCur(t)
  BY <1>3 DEF ResetCur, DropRef
<1>4. CASE CallLoad(t)
  BY <1>4 DEF CallLoad
<1>5. ASSUME NEW k \in {"store", "exchange", "cas"}, CallWith(t, k)
      PROVE  Invokes(t)
  BY <1>5 DEF CallWith
<1>6. CASE TestAndSet(t)
  BY <1>6 DEF TestAndSet, Entry
<1>7. CASE Compare(t)
  BY <1>7 DEF Compare
<1>8. CASE CopyRead(t)
  BY <1>8 DEF CopyRead
<1>9. CASE CopyAddRef(t)
  BY <1>9 DEF CopyAddRef
<1>10. CASE AssignExpect(t)
  BY <1>10 DEF AssignExpect, DropRef
<1>11. CASE SwapRead(t)
  BY <1>11 DEF SwapRead
<1>12. CASE SwapWrite(t)
  <2>1. /\ pc[t] = "swap_write" /\ pc'[t] = "release" /\ op' = op /\ ok' = ok /\ cur' = cur
        /\ m_ptr' = arg[t] /\ arg'[t] = m_ptr
    BY <1>12 DEF SwapWrite
  <2>2. CASE op[t] = "store"
    BY <2>1, <2>2
  <2>3. CASE op[t] = "exchange"
    BY <2>1, <2>3
  <2>4. CASE op[t] = "cas"
    BY <2>1, <2>4
  <2> QED
    BY <2>1, <2>2, <2>3, <2>4
<1>13. CASE Unlock(t)
  BY <1>13 DEF Unlock
<1>14. CASE Finish(t)
  BY <1>14 DEF Finish, DropRef
<1> QED
  BY <1>1, <1>2, <1>3, <1>4, <1>5, <1>6, <1>7, <1>8, <1>9, <1>10, <1>11, <1>12, <1>13, <1>14
     DEF Caller, Operation

LEMMA MapsToRegister ==
    ASSUME TypeOK, Typed(Int)', NEW t \in Threads, LocalTo(t),
           Invokes(t) \/ TakesEffect(t) \/ Returns(t) \/ Hidden(t)
    PROVE  Atomic!Next \/ (m_ptr' = m_ptr /\ Mapped' = Mapped)
<1>1. Mapped' = [Mapped EXCEPT ![t] = CallOf(t)'] /\ Mapped[t] = CallOf(t)
  BY MappedStep DEF Mapped
<1>2. mine[t] \in Pointers /\ cur[t] \in Pointers /\ arg[t] \in Pointers /\ Null \in Pointers
  BY DEF TypeOK, Typed, Pointers
<1> HIDE DEF CallOf, Mapped
<1>3. CASE Invokes(t)
  <2>1. ASSUME NEW k \in Atomic!Kinds, NEW e \in Pointers, NEW d \in Pointers,
               k = "cas" \/ e = Null, k # "load" \/ d = Null,
               CallOf(t)' = Atomic!Pending(k, e, d)
        PROVE  Atomic!Invoke(t)
    <3>1. Mapped[t] = Atomic!NoCall /\ m_ptr' = m_ptr
      BY <1>1, <1>3 DEF Invokes
    <3>2. Mapped' = [Mapped EXCEPT ![t] = Atomic!Pending(k, e, d)]
      BY <1>1, <2>1
    <3> QED
      BY <2>1, <3>1, <3>2 DEF Atomic!Invoke, Mapped
  <2>2. Atomic!Invoke(t)
    BY <1>2, <1>3, <2>1 DEF Invokes, Atomic!Kinds
  <2> QED
    BY <2>2 DEF Atomic!Next
<1>4. CASE TakesEffect(t)
  <2>1. ASSUME NEW k, NEW r, NEW b, CallOf(t).kind = k, CallOf(t)' = Atomic!Done(k, r, b)
        PROVE  Atomic!Answer(t, r, b)
    <3>1. Mapped' = [Mapped EXCEPT ![t] = Atomic!Done(Mapped[t].kind, r, b)]
      BY <1>1, <2>1
    <3> QED
      BY <3>1 DEF Atomic!Answer, Mapped
  <2>2. ASSUME NEW k, NEW e, NEW d, CallOf(t) = Atomic!Pending(k, e, d)
        PROVE  /\ Mapped[t].stage = "pending" /\ Mapped[t].kind = k
               /\ Mapped[t].expect = e /\ Mapped[t].desired = d /\ CallOf(t).kind = k
    BY <1>1, <2>2 DEF Atomic!Pending
  <2>3. \/ /\ Mapped[t].stage = "pending" /\ Mapped[t].kind = "load"
           /\ Atomic!Answer(t, m_ptr, FALSE) /\ m_ptr' = m_ptr
        \/ /\ Mapped[t].stage = "pending" /\ Mapped[t].kind = "store"
           /\ Atomic!Answer(t, Null, FALSE) /\ m_ptr' = Mapped[t].desired
        \/ /\ Mapped[t].stage = "pending" /\ Mapped[t].kind = "exchange"
           /\ Atomic!Answer(t, m_ptr, FALSE) /\ m_ptr' = Mapped[t].desired
        \/ /\ Mapped[t].stage = "pending" /\ Mapped[t].kind = "cas" /\ m_ptr = Mapped[t].expect
           /\ Atomic!Answer(t, m_ptr, TRUE) /\ m_ptr' = Mapped[t].desired
        \/ /\ Mapped[t].stage = "pending" /\ Mapped[t].kind = "cas" /\ m_ptr # Mapped[t].expect
           /\ Atomic!Answer(t, m_ptr, FALSE) /\ m_ptr' = m_ptr
    BY <1>4, <2>1, <2>2 DEF TakesEffect
  <2>4. Atomic!TakeEffect(t)
    BY <2>3 DEF Atomic!TakeEffect, Mapped
  <2> QED
    BY <2>4 DEF Atomic!Next
<1>5. CASE Returns(t)
  <2>1. Atomic!Return(t)
    BY <1>1, <1>5 DEF Returns, Atomic!Return, Mapped
  <2> QED
    BY <2>1 DEF Atomic!Next
<1>6. CASE Hidden(t)
  <2>1. Mapped' = Mapped
    BY <1>1, <1>6 DEF Hidden, Mapped
  <2> QED
    BY <2>1, <1>6 DEF Hidden
<1> QED
  BY <1>3, <1>4, <1>5, <1>6

LEMMA InitMaps == Init => Atomic!Init
BY DEF Init, Atomic!Init, Atomic!NoCall, CallOf

LEMMA NextMaps == IndInv /\ [Next]_vars => [Atomic!Next]_(Atomic!vars)
<1> SUFFICES ASSUME IndInv, [Next]_vars
             PROVE  Atomic!Next \/ (m_ptr' = m_ptr /\ Mapped' = Mapped)
  BY DEF Atomic!vars, Mapped
<1>1. ASSUME NEW t \in Threads, Caller(t) \/ Operation(t)
      PROVE  Atomic!Next \/ (m_ptr' = m_ptr /\ Mapped' = Mapped)
  <2>1. TypeOK /\ Consistent /\ MutualExclusion /\ ReadsStand
    BY DEF IndInv
  <2>2. Typed(Int)' /\ LocalTo(t)
    BY <1>1, <2>1, StepTypes, LocalStep
  <2>3. Invokes(t) \/ TakesEffect(t) \/ Returns(t) \/ Hidden(t)
    BY <1>1, <2>1, RegisterStep
  <2> QED
    BY <2>1, <2>2, <2>3, MapsToRegister
<1>2. CASE UNCHANGED vars
  BY <1>2 DEF vars, Mapped, CallOf
<1> QED
  BY <1>1, <1>2 DEF Next

\* load, store, exchange and compare_exchange are linearizable, whatever the
\* number of threads and objects: every behaviour of the spinlock and its
\* counted pointer is one of the atomic register.
THEOREM Linearizability == Spec => Linearizable
<1> QED
  BY Invariance, InitMaps, NextMaps, PTL DEF Spec, Linearizable, Atomic!Spec

-----------------------------------------------------------------------------
(* Where the spinlock cannot deadlock.                                     *)

NoDestructor == \A t \in Threads : op[t] # "dtor"

\* A thread waits for a lock it holds only through a destructor that uses the
\* storage: when no object has one, it never happens.
THEOREM NoSelfWait ==
    ASSUME Reentrant = {}
    PROVE  Spec => []NeverWaitsForItself
<1>1. Init => NoDestructor
  BY DEF Init, NoDestructor
<1>2. IndInv /\ NoDestructor /\ [Next]_vars => NoDestructor'
  <2> SUFFICES ASSUME IndInv, NoDestructor, [Next]_vars
               PROVE  NoDestructor'
    OBVIOUS
  <2> USE DEF IndInv, TypeOK, Typed, NoDestructor
  <2>1. CASE UNCHANGED vars
    BY <2>1 DEF vars
  <2>2. ASSUME NEW t \in Threads, Caller(t)
        PROVE  NoDestructor'
    BY <2>2 DEF Caller, Make, ResetMine, ResetCur, CallLoad, CallWith, DropRef
  <2>3. ASSUME NEW t \in Threads, Operation(t)
        PROVE  NoDestructor'
    BY <2>3 DEF Operation, TestAndSet, Compare, CopyRead, CopyAddRef, AssignExpect, SwapRead,
                SwapWrite, Unlock, Finish, DropRef
  <2> QED
    BY <2>1, <2>2, <2>3 DEF Next
<1>3. IndInv /\ NoDestructor => NeverWaitsForItself
  BY DEF NoDestructor, NeverWaitsForItself, Holds, Critical
<1> QED
  BY <1>1, <1>2, <1>3, Invariance, PTL DEF Spec
=============================================================================
