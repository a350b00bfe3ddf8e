----------------------------- MODULE FlatMapProofs -----------------------------
(***************************************************************************)
(* Proofs about flat_map, for any keys, comparators and numbers of maps.   *)
(***************************************************************************)
EXTENDS FlatMap, SequenceTheorems, FiniteSetTheorems, WellFoundedInduction, TLAPS

-----------------------------------------------------------------------------
(* What the vector's functions make of a sequence.                         *)

LEMMA InsertAtProperties ==
    ASSUME NEW S, NEW s \in Seq(S), NEW i \in 1..(Len(s) + 1), NEW e \in S
    PROVE  /\ InsertAt(s, i, e) \in Seq(S)
           /\ Len(InsertAt(s, i, e)) = Len(s) + 1
           /\ \A j \in 1..(Len(s) + 1) :
                 InsertAt(s, i, e)[j] = IF j < i THEN s[j] ELSE IF j = i THEN e ELSE s[j - 1]
<1> DEFINE left == SubSeq(s, 1, i - 1)
           right == SubSeq(s, i, Len(s))
           start == left \o <<e>>
           whole == start \o right
<1>1. /\ left \in Seq(S) /\ Len(left) = i - 1
      /\ \A j \in 1..(i - 1) : left[j] = s[j]
  BY SubSeqProperties
<1>2. /\ right \in Seq(S) /\ Len(right) = Len(s) - i + 1
      /\ \A j \in 1..(Len(s) - i + 1) : right[j] = s[i + j - 1]
  BY SubSeqProperties
<1>3. <<e>> \in Seq(S) /\ Len(<<e>>) = 1 /\ <<e>>[1] = e
  OBVIOUS
<1>4. InsertAt(s, i, e) = whole
  BY DEF InsertAt
<1> HIDE DEF left, right
<1>5. /\ start \in Seq(S) /\ Len(start) = Len(left) + 1
      /\ \A j \in 1..(Len(left) + 1) :
            start[j] = IF j <= Len(left) THEN left[j] ELSE <<e>>[j - Len(left)]
  BY <1>1, <1>3, ConcatProperties
<1> HIDE DEF start
<1>6. /\ whole \in Seq(S) /\ Len(whole) = Len(start) + Len(right)
      /\ \A j \in 1..(Len(start) + Len(right)) :
            whole[j] = IF j <= Len(start) THEN start[j] ELSE right[j - Len(start)]
  BY <1>2, <1>5, ConcatProperties
<1> HIDE DEF whole
<1>7. Len(start) = i /\ Len(whole) = Len(s) + 1
  BY <1>1, <1>2, <1>5, <1>6
<1>8. ASSUME NEW j \in 1..(Len(s) + 1)
      PROVE  whole[j] = IF j < i THEN s[j] ELSE IF j = i THEN e ELSE s[j - 1]
  <2>1. CASE j < i
    BY <1>1, <1>2, <1>5, <1>6, <1>7, <2>1
  <2>2. CASE j = i
    BY <1>1, <1>2, <1>3, <1>5, <1>6, <1>7, <2>2
  <2>3. CASE j > i
    BY <1>2, <1>6, <1>7, <2>3
  <2> QED  BY <2>1, <2>2, <2>3
<1> QED  BY <1>4, <1>6, <1>7, <1>8

LEMMA RemoveAtProperties ==
    ASSUME NEW S, NEW s \in Seq(S), NEW i \in 1..Len(s)
    PROVE  /\ RemoveAt(s, i) \in Seq(S)
           /\ Len(RemoveAt(s, i)) = Len(s) - 1
           /\ \A j \in 1..(Len(s) - 1) : RemoveAt(s, i)[j] = IF j < i THEN s[j] ELSE s[j + 1]
<1> DEFINE left == SubSeq(s, 1, i - 1)
           right == SubSeq(s, i + 1, Len(s))
           whole == left \o right
<1>1. /\ left \in Seq(S) /\ Len(left) = i - 1
      /\ \A j \in 1..(i - 1) : left[j] = s[j]
  BY SubSeqProperties
<1>2. /\ right \in Seq(S) /\ Len(right) = Len(s) - i
      /\ \A j \in 1..(Len(s) - i) : right[j] = s[i + j]
  BY SubSeqProperties
<1>3. RemoveAt(s, i) = whole
  BY DEF RemoveAt
<1> HIDE DEF left, right
<1>4. /\ whole \in Seq(S) /\ Len(whole) = Len(left) + Len(right)
      /\ \A j \in 1..(Len(left) + Len(right)) :
            whole[j] = IF j <= Len(left) THEN left[j] ELSE right[j - Len(left)]
  BY <1>1, <1>2, ConcatProperties
<1> HIDE DEF whole
<1>5. Len(whole) = Len(s) - 1
  BY <1>1, <1>2, <1>4
<1>6. ASSUME NEW j \in 1..(Len(s) - 1)
      PROVE  whole[j] = IF j < i THEN s[j] ELSE s[j + 1]
  <2>1. whole[j] = IF j <= Len(left) THEN left[j] ELSE right[j - Len(left)]
    BY <1>4, <1>5
  <2>2. CASE j < i
    BY <1>1, <2>1, <2>2
  <2>3. CASE j >= i
    <3> DEFINE n == j - Len(left)
    <3>1. n \in 1..(Len(s) - i) /\ i + n = j + 1 /\ ~(j <= Len(left))
      BY <1>1, <2>3
    <3>2. whole[j] = right[n]
      BY <2>1, <3>1
    <3> HIDE DEF n
    <3>3. whole[j] = s[j + 1]
      BY <1>2, <3>1, <3>2
    <3> QED  BY <2>3, <3>3
  <2> QED  BY <2>2, <2>3
<1> QED  BY <1>3, <1>4, <1>5, <1>6

LEMMA ContainersAreSequences ==
    ASSUME NEW s \in Containers
    PROVE  s \in Seq(Entry) /\ Len(s) \in 0..Capacity
BY CapacityAssumption, MaxGivenAssumption DEF Containers, BoundedSeq, SeqOf
-----------------------------------------------------------------------------
(* Sortedness.                                                             *)

StrictlySorted(r, s) == \A i, j \in 1..Len(s) : i < j => <<s[i].key, s[j].key>> \in r

IndInv == TypeOK /\ Sorted

LEMMA EntryKey ==
    ASSUME NEW e \in Entry
    PROVE  e.key \in Keys
BY DEF Entry

\* In terms of a single vector.
LEMMA SortedVectors ==
    Sorted <=> \A m \in Maps : StrictlySorted(cmp[m], m_container[m])
BY DEF Sorted, StrictlySorted, size, At, Less

LEMMA Transitive ==
    ASSUME NEW r \in Orders, NEW k \in Keys, NEW l \in Keys, NEW n \in Keys,
           <<k, l>> \in r, <<l, n>> \in r
    PROVE  <<k, n>> \in r
BY OrdersAssumption DEF StrictWeakOrder

\* A weak inequality followed by a strict one.
LEMMA WeakThenStrict ==
    ASSUME NEW r \in Orders, NEW k \in Keys, NEW l \in Keys, NEW n \in Keys,
           <<l, k>> \notin r, <<l, n>> \in r
    PROVE  <<k, n>> \in r
BY OrdersAssumption DEF StrictWeakOrder

\* An element goes between those that are less and those that are greater.
LEMMA InsertSorted ==
    ASSUME NEW r \in Orders, NEW s \in Seq(Entry), StrictlySorted(r, s),
           NEW i \in 1..(Len(s) + 1), NEW e \in Entry,
           i > 1 => <<s[i - 1].key, e.key>> \in r,
           i <= Len(s) => <<e.key, s[i].key>> \in r
    PROVE  StrictlySorted(r, InsertAt(s, i, e))
<1> DEFINE t == InsertAt(s, i, e)
<1>1. /\ Len(t) = Len(s) + 1
      /\ \A j \in 1..(Len(s) + 1) : t[j] = IF j < i THEN s[j] ELSE IF j = i THEN e ELSE s[j - 1]
  BY InsertAtProperties
<1>2. ASSUME NEW j \in 1..Len(s), j < i
      PROVE  <<s[j].key, e.key>> \in r
  <2>1. i - 1 \in 1..Len(s) /\ s[j].key \in Keys /\ s[i - 1].key \in Keys /\ e.key \in Keys
    BY <1>2, EntryKey
  <2>2. j = i - 1 \/ <<s[j].key, s[i - 1].key>> \in r
    BY <1>2, <2>1 DEF StrictlySorted
  <2> QED  BY <1>2, <2>1, <2>2, Transitive
<1>3. ASSUME NEW j \in 1..Len(s), j >= i
      PROVE  <<e.key, s[j].key>> \in r
  <2>1. i \in 1..Len(s) /\ s[j].key \in Keys /\ s[i].key \in Keys /\ e.key \in Keys
    BY <1>3, EntryKey
  <2>2. j = i \/ <<s[i].key, s[j].key>> \in r
    BY <1>3, <2>1 DEF StrictlySorted
  <2>3. <<e.key, s[i].key>> \in r
    BY <2>1
  <2> QED  BY <2>1, <2>2, <2>3, Transitive
<1> SUFFICES ASSUME NEW j \in 1..Len(t), NEW k \in 1..Len(t), j < k
             PROVE  <<t[j].key, t[k].key>> \in r
  BY DEF StrictlySorted
<1> HIDE DEF t
<1>4. CASE k < i
  BY <1>1, <1>4 DEF StrictlySorted
<1>5. CASE k = i
  BY <1>1, <1>2, <1>5
<1>6. CASE k > i /\ j = i
  BY <1>1, <1>3, <1>6
<1>7. CASE k > i /\ j < i
  <2>1. j \in 1..Len(s) /\ k - 1 \in 1..Len(s) /\ j < k - 1
    BY <1>1, <1>7
  <2> QED  BY <1>1, <1>7, <2>1 DEF StrictlySorted
<1>8. CASE k > i /\ j > i
  <2>1. j - 1 \in 1..Len(s) /\ k - 1 \in 1..Len(s) /\ j - 1 < k - 1
    BY <1>1, <1>8
  <2>2. t[j] = s[j - 1] /\ t[k] = s[k - 1]
    BY <1>1, <1>8
  <2> QED  BY <2>1, <2>2 DEF StrictlySorted
<1>9. j \in Int /\ k \in Int
  BY <1>1
<1> QED  BY <1>4, <1>5, <1>6, <1>7, <1>8, <1>9

LEMMA RemoveSorted ==
    ASSUME NEW r, NEW s \in Seq(Entry), StrictlySorted(r, s), NEW i \in 1..Len(s)
    PROVE  StrictlySorted(r, RemoveAt(s, i))
<1>1. /\ Len(RemoveAt(s, i)) = Len(s) - 1
      /\ \A j \in 1..(Len(s) - 1) : RemoveAt(s, i)[j] = IF j < i THEN s[j] ELSE s[j + 1]
  BY RemoveAtProperties
<1> SUFFICES ASSUME NEW j \in 1..(Len(s) - 1), NEW k \in 1..(Len(s) - 1), j < k
             PROVE  <<RemoveAt(s, i)[j].key, RemoveAt(s, i)[k].key>> \in r
  BY <1>1 DEF StrictlySorted
<1> DEFINE to(n) == IF n < i THEN n ELSE n + 1
<1>2. to(j) \in 1..Len(s) /\ to(k) \in 1..Len(s) /\ to(j) < to(k)
  OBVIOUS
<1>3. RemoveAt(s, i)[j] = s[to(j)] /\ RemoveAt(s, i)[k] = s[to(k)]
  BY <1>1
<1> HIDE DEF to
<1> QED  BY <1>2, <1>3 DEF StrictlySorted

LEMMA PositionsCardinality ==
    ASSUME NEW n \in Nat
    PROVE  IsFiniteSet(1..n) /\ Cardinality(1..n) = n
BY FS_Interval

\* What sort leaves in an order, unique makes strictly sorted.
LEMMA UniqueSorted ==
    ASSUME NEW r \in Orders, NEW s \in Containers, NEW t \in Sorts(r, s), NEW f \in Uniques(r, t)
    PROVE  LET u == [i \in DOMAIN f |-> t[f[i]]]
           IN  u \in Seq(Entry) /\ Len(u) \in 0..Capacity /\ StrictlySorted(r, u)
<1> DEFINE u == [i \in DOMAIN f |-> t[f[i]]]
<1>1. t \in Seq(Entry) /\ Len(t) = Len(s)
      /\ \A i, j \in 1..Len(t) : i < j => <<t[j].key, t[i].key>> \notin r
  <2>1. s \in Seq(Entry)
    BY ContainersAreSequences
  <2>2. PICK p \in [1..Len(s) -> 1..Len(s)] : t = [i \in 1..Len(s) |-> s[p[i]]]
    BY DEF Sorts, Bijection, Injection
  <2>3. t \in Seq(Entry) /\ Len(t) = Len(s)
    BY <2>1, <2>2
  <2> QED  BY <2>3 DEF Sorts
<1>2. Len(s) \in 0..Capacity
  BY ContainersAreSequences
<1>3. Kept(r, t) \subseteq 1..Len(t)
  BY DEF Kept
<1>4. Cardinality(Kept(r, t)) \in 0..Len(t)
  <2>1. Len(t) \in Nat
    BY <1>1
  <2>2. IsFiniteSet(1..Len(t)) /\ Cardinality(1..Len(t)) = Len(t)
    BY <2>1, PositionsCardinality
  <2>3. Cardinality(Kept(r, t)) \in Nat /\ Cardinality(Kept(r, t)) <= Len(t)
    BY <1>3, <2>2, FS_Subset, FS_CardinalityType
  <2> QED  BY <2>1, <2>3
<1> DEFINE n == Cardinality(Kept(r, t))
<1>5. f \in [1..n -> Kept(r, t)] /\ \A i, j \in 1..n : i < j => f[i] < f[j]
  BY DEF Uniques
<1> HIDE DEF n
<1>6. u \in Seq(Entry) /\ Len(u) = n
  <2>1. n \in Nat
    BY <1>1, <1>4 DEF n
  <2>2. u = [i \in 1..n |-> t[f[i]]]
    BY <1>5
  <2>3. ASSUME NEW i \in 1..n
        PROVE  t[f[i]] \in Entry
    <3>1. f[i] \in 1..Len(t)
      BY <1>3, <1>5
    <3> QED  BY <1>1, <3>1
  <2> HIDE DEF u
  <2> QED  BY <2>1, <2>2, <2>3
<1>7. ASSUME NEW i \in 1..n, NEW j \in 1..n, i < j
      PROVE  <<u[i].key, u[j].key>> \in r
  <2>1. f[i] \in 1..Len(t) /\ f[j] \in 1..Len(t) /\ f[i] < f[j] /\ f[j] \in Kept(r, t)
    BY <1>3, <1>5, <1>7
  <2>2. f[j] - 1 \in 1..Len(t) /\ <<t[f[j] - 1].key, t[f[j]].key>> \in r
    <3>1. f[j] # 1
      BY <1>3, <1>5, <1>7, <2>1
    <3> QED  BY <2>1, <3>1 DEF Kept
  <2>3. <<t[f[j] - 1].key, t[f[i]].key>> \notin r
    <3>1. CASE f[i] < f[j] - 1
      BY <1>1, <2>1, <2>2, <3>1
    <3>2. CASE f[i] = f[j] - 1
      BY <1>1, <2>1, <2>2, <3>2, EntryKey, OrdersAssumption DEF StrictWeakOrder
    <3> QED  BY <1>1, <2>1, <3>1, <3>2
  <2>4. t[f[i]].key \in Keys /\ t[f[j]].key \in Keys /\ t[f[j] - 1].key \in Keys
    BY <1>1, <2>1, <2>2, EntryKey
  <2>5. <<t[f[i]].key, t[f[j]].key>> \in r
    BY <2>2, <2>3, <2>4, WeakThenStrict
  <2> QED  BY <1>5, <2>5
<1>8. Len(u) \in 0..Capacity
  BY <1>1, <1>2, <1>4, <1>6, CapacityAssumption DEF n
<1> HIDE DEF u
<1>9. StrictlySorted(r, u)
  BY <1>6, <1>7 DEF StrictlySorted
<1> QED  BY <1>6, <1>8, <1>9 DEF u
-----------------------------------------------------------------------------
(* The invariant.                                                          *)

LEMMA InitInv == Init => IndInv
<1> SUFFICES ASSUME Init PROVE IndInv
  OBVIOUS
<1>1. TypeOK
  BY CapacityAssumption DEF Init, TypeOK
<1>2. Sorted
  BY DEF Init, Sorted, size
<1> QED  BY <1>1, <1>2 DEF IndInv

\* A step that gives one map a sorted vector.
LEMMA OneMapStep ==
    ASSUME IndInv, NEW m \in Maps, NEW s \in Seq(Entry), Len(s) \in 0..Capacity,
           NEW r \in Orders, StrictlySorted(r, s),
           m_container' = [m_container EXCEPT ![m] = s],
           cmp' = [cmp EXCEPT ![m] = r]
    PROVE  IndInv'
<1>1. TypeOK'
  BY CapacityAssumption DEF IndInv, TypeOK
<1>2. ASSUME NEW n \in Maps
      PROVE  StrictlySorted(cmp'[n], m_container'[n])
  <2>1. CASE n = m
    BY <2>1 DEF IndInv, TypeOK
  <2>2. CASE n # m
    BY <2>2, SortedVectors DEF IndInv, TypeOK
  <2> QED  BY <2>1, <2>2
<1>3. Sorted'
  BY <1>2 DEF Sorted, StrictlySorted, size, At, Less
<1> QED  BY <1>1, <1>3 DEF IndInv

LEMMA KeepStep ==
    ASSUME IndInv, UNCHANGED <<m_container, cmp>>
    PROVE  IndInv'
BY DEF IndInv, TypeOK, Sorted, size, At, Less

LEMMA InsertAtTyped ==
    ASSUME NEW s \in Seq(Entry), NEW i \in 1..(Len(s) + 1), NEW e \in Entry
    PROVE  InsertAt(s, i, e) \in Seq(Entry) /\ Len(InsertAt(s, i, e)) = Len(s) + 1
BY InsertAtProperties

LEMMA PlaceStep ==
    ASSUME IndInv, NEW m \in Maps, NEW i \in 1..end(m), NEW e \in Entry, Place(m, i, e),
           i > 1 => Less(m, At(m, i - 1).key, e.key),
           i # end(m) => Less(m, e.key, At(m, i).key)
    PROVE  IndInv'
<1>1. CASE Keep("insert", e, Nothing)
  BY <1>1, KeepStep DEF Keep
<1>2. CASE size(m) < Capacity /\ m_container' = [m_container EXCEPT ![m] = InsertAt(@, i, e)]
           /\ UNCHANGED cmp
  <2> DEFINE s == m_container[m]
  <2>1. s \in Seq(Entry) /\ cmp[m] \in Orders /\ StrictlySorted(cmp[m], s) /\ i \in 1..(Len(s) + 1)
    BY SortedVectors DEF IndInv, TypeOK, end, size
  <2>2. InsertAt(s, i, e) \in Seq(Entry) /\ Len(InsertAt(s, i, e)) = Len(s) + 1
    <3> HIDE DEF s
    <3> QED  BY <2>1, InsertAtTyped
  <2>3. StrictlySorted(cmp[m], InsertAt(s, i, e))
    <3>1. i > 1 => <<s[i - 1].key, e.key>> \in cmp[m]
      BY DEF Less, At
    <3>2. i <= Len(s) => <<e.key, s[i].key>> \in cmp[m]
      BY <2>1 DEF Less, At, end, size
    <3> QED  BY <2>1, <3>1, <3>2, InsertSorted
  <2>4. Len(s) + 1 \in 0..Capacity
    BY <1>2, <2>1, CapacityAssumption DEF size
  <2>5. cmp' = [cmp EXCEPT ![m] = cmp[m]] /\ m_container' = [m_container EXCEPT ![m] = InsertAt(s, i, e)]
    BY <1>2 DEF IndInv, TypeOK
  <2> QED  BY <2>1, <2>2, <2>3, <2>4, <2>5, OneMapStep
<1> QED  BY <1>1, <1>2 DEF Place

\* lower_bound, when it does not find the key, finds where it goes.
LEMMA LowerBoundFits ==
    ASSUME IndInv, NEW m \in Maps, NEW k \in Keys, NEW i \in 1..end(m),
           lower_bound(m, k, i), ~FoundAt(m, k, i)
    PROVE  /\ i > 1 => Less(m, At(m, i - 1).key, k)
           /\ i # end(m) => Less(m, k, At(m, i).key)
<1>1. size(m) \in Nat
  BY DEF IndInv, TypeOK, size
<1>2. ASSUME i > 1
      PROVE  Less(m, At(m, i - 1).key, k)
  <2>1. i - 1 \in 1..size(m) /\ i - 1 < i
    BY <1>1, <1>2 DEF end
  <2> QED  BY <2>1 DEF lower_bound
<1>3. i # end(m) => Less(m, k, At(m, i).key)
  BY DEF FoundAt
<1> QED  BY <1>2, <1>3

LEMMA InsertStep ==
    ASSUME IndInv, NEW m \in Maps, NEW e \in Entry, insert(m, e)
    PROVE  IndInv'
<1>1. PICK i \in 1..end(m) :
          /\ lower_bound(m, e.key, i)
          /\ \/ FoundAt(m, e.key, i) /\ Keep("insert", e, At(m, i))
             \/ ~FoundAt(m, e.key, i) /\ Place(m, i, e)
  BY DEF insert
<1>2. CASE Keep("insert", e, At(m, i))
  BY <1>2, KeepStep DEF Keep
<1>3. CASE ~FoundAt(m, e.key, i) /\ Place(m, i, e)
  BY <1>1, <1>3, EntryKey, LowerBoundFits, PlaceStep
<1> QED  BY <1>1, <1>2, <1>3

LEMMA HintStep ==
    ASSUME IndInv, NEW m \in Maps, NEW e \in Entry, NEW pos \in 1..end(m), emplace_hint(m, pos, e)
    PROVE  IndInv'
<1>1. CASE insert(m, e)
  BY <1>1, InsertStep
<1>2. CASE Place(m, pos, e) /\ size(m) = 0
  BY <1>2, PlaceStep DEF end
<1>3. CASE Place(m, pos, e) /\ FitsAt(m, pos, e.key)
  <2>1. pos \in Int
    BY DEF end, size, IndInv, TypeOK
  <2> QED  BY <1>3, <2>1, PlaceStep DEF FitsAt
<1> QED  BY <1>1, <1>2, <1>3 DEF emplace_hint

LEMMA RemoveStep ==
    ASSUME IndInv, NEW m \in Maps, NEW i \in 1..size(m), RemoveElement(m, i)
    PROVE  IndInv'
<1> DEFINE s == m_container[m]
<1>1. s \in Seq(Entry) /\ Len(s) <= Capacity /\ cmp[m] \in Orders /\ StrictlySorted(cmp[m], s) /\ i \in 1..Len(s)
  BY SortedVectors DEF IndInv, TypeOK, size
<1>2. RemoveAt(s, i) \in Seq(Entry) /\ Len(RemoveAt(s, i)) = Len(s) - 1
  BY <1>1, RemoveAtProperties
<1>3. StrictlySorted(cmp[m], RemoveAt(s, i))
  BY <1>1, RemoveSorted
<1>4. Len(s) - 1 \in 0..Capacity
  BY <1>1, CapacityAssumption
<1>5. cmp' = [cmp EXCEPT ![m] = cmp[m]] /\ m_container' = [m_container EXCEPT ![m] = RemoveAt(s, i)]
  BY DEF RemoveElement, IndInv, TypeOK
<1> QED  BY <1>1, <1>2, <1>3, <1>4, <1>5, OneMapStep

LEMMA SetValueStep ==
    ASSUME IndInv, NEW m \in Maps, NEW i \in 1..size(m), NEW x \in Values, SetValue(m, i, x)
    PROVE  IndInv'
<1> DEFINE s == m_container[m]
           t == [s EXCEPT ![i].value = x]
<1>1. s \in Seq(Entry) /\ Len(s) <= Capacity /\ cmp[m] \in Orders /\ StrictlySorted(cmp[m], s) /\ i \in 1..Len(s)
  BY SortedVectors DEF IndInv, TypeOK, size
<1>2. ASSUME NEW j \in 1..Len(s)
      PROVE  t[j] \in Entry /\ t[j].key = s[j].key
  <2>1. s[j] \in Entry
    BY <1>1
  <2> QED  BY <1>1, <2>1 DEF Entry
<1>3. t \in Seq(Entry) /\ Len(t) = Len(s)
  BY <1>1, <1>2
<1>4. cmp' = [cmp EXCEPT ![m] = cmp[m]] /\ m_container' = [m_container EXCEPT ![m] = t]
  BY DEF SetValue, IndInv, TypeOK
<1> HIDE DEF t
<1>5. StrictlySorted(cmp[m], t)
  BY <1>1, <1>2, <1>3 DEF StrictlySorted
<1>6. Len(t) \in 0..Capacity
  BY <1>1, <1>3, CapacityAssumption
<1> QED  BY <1>1, <1>3, <1>4, <1>5, <1>6, OneMapStep

LEMMA BecomeStep ==
    ASSUME IndInv, NEW m \in Maps, NEW s \in Seq(Entry), Len(s) \in 0..Capacity,
           NEW r \in Orders, StrictlySorted(r, s), Become(m, s, r)
    PROVE  IndInv'
BY OneMapStep DEF Become

LEMMA ConstructStep ==
    ASSUME IndInv, NEW m \in Maps, NEW s \in Containers, NEW r \in Orders,
           Construct(m, s, r) \/ ConstructReady(m, s, r)
    PROVE  IndInv'
<1>1. CASE Construct(m, s, r)
  <2>1. PICK t \in Sorts(r, s) :
            \E f \in Uniques(r, t) : Become(m, [i \in DOMAIN f |-> t[f[i]]], r)
    BY <1>1 DEF Construct
  <2>2. PICK f \in Uniques(r, t) : Become(m, [i \in DOMAIN f |-> t[f[i]]], r)
    BY <2>1
  <2> QED  BY <2>2, UniqueSorted, BecomeStep
<1>2. CASE ConstructReady(m, s, r)
  BY <1>2, ContainersAreSequences, BecomeStep DEF ConstructReady, StrictlySorted
<1> QED  BY <1>1, <1>2

\* A step that permutes vectors together with their comparators, or empties one.
LEMMA MovingStep ==
    ASSUME IndInv, NEW m \in Maps, NEW n \in Maps, swap(m, n) \/ Copy(m, n) \/ Move(m, n)
    PROVE  IndInv'
<1>1. ASSUME NEW k \in Maps
      PROVE  /\ m_container'[k] \in Seq(Entry) /\ Len(m_container'[k]) <= Capacity
             /\ cmp'[k] \in Orders /\ StrictlySorted(cmp'[k], m_container'[k])
  <2>1. \A l \in Maps : /\ m_container[l] \in Seq(Entry) /\ Len(m_container[l]) <= Capacity
                        /\ cmp[l] \in Orders /\ StrictlySorted(cmp[l], m_container[l])
    BY SortedVectors DEF IndInv, TypeOK
  <2>2. \/ \E l \in Maps : m_container'[k] = m_container[l] /\ cmp'[k] = cmp[l]
        \/ m_container'[k] = <<>> /\ cmp'[k] = cmp[k]
    BY DEF swap, Copy, Become, Move, IndInv, TypeOK
  <2>3. <<>> \in Seq(Entry) /\ Len(<<>>) <= Capacity /\ StrictlySorted(cmp[k], <<>>)
    BY CapacityAssumption DEF StrictlySorted
  <2> QED  BY <2>1, <2>2, <2>3
<1>2. DOMAIN m_container' = Maps /\ DOMAIN cmp' = Maps
      /\ m_container' = [k \in Maps |-> m_container'[k]] /\ cmp' = [k \in Maps |-> cmp'[k]]
  BY DEF swap, Copy, Become, Move, IndInv, TypeOK
<1>3. TypeOK'
  BY <1>1, <1>2 DEF TypeOK
<1>4. Sorted'
  BY <1>1 DEF Sorted, StrictlySorted, size, At, Less
<1> QED  BY <1>3, <1>4 DEF IndInv

LEMMA StepInv == IndInv /\ [Next]_vars => IndInv'
<1> SUFFICES ASSUME IndInv, [Next]_vars PROVE IndInv'
  OBVIOUS
<1>1. CASE UNCHANGED vars \/ Take
  BY <1>1, KeepStep DEF vars, Take
<1>2. ASSUME NEW m \in Maps, NEW e \in Entry, insert(m, e)
      PROVE  IndInv'
  BY <1>2, InsertStep
<1>3. ASSUME NEW m \in Maps, NEW e \in Entry, NEW pos \in 1..end(m), emplace_hint(m, pos, e)
      PROVE  IndInv'
  BY <1>3, HintStep
<1>4. ASSUME NEW m \in Maps, NEW k \in Keys, subscript(m, k)
      PROVE  IndInv'
  BY <1>4, DefaultAssumption, InsertStep DEF subscript, Plain, Entry
<1>5. ASSUME NEW m \in Maps, NEW k \in Keys,
             find(m, k) \/ at(m, k) \/ LowerBound(m, k) \/ UpperBound(m, k)
      PROVE  IndInv'
  BY <1>5, KeepStep DEF find, at, LowerBound, UpperBound, Keep
<1>6. ASSUME NEW m \in Maps, NEW k \in Keys, EraseKey(m, k)
      PROVE  IndInv'
  <2>1. PICK i \in 1..end(m) : (FoundAt(m, k, i) /\ RemoveElement(m, i)) \/ Keep("erase_key", Plain(k), Nothing)
    BY <1>6 DEF EraseKey
  <2>2. FoundAt(m, k, i) => i \in 1..size(m)
    BY DEF FoundAt, end, size, IndInv, TypeOK
  <2> QED  BY <2>1, <2>2, RemoveStep, KeepStep DEF Keep
<1>7. ASSUME NEW m \in Maps, NEW i \in 1..size(m), erase(m, i)
      PROVE  IndInv'
  BY <1>7, RemoveStep DEF erase
<1>8. ASSUME NEW m \in Maps, NEW i \in 1..size(m), NEW x \in Values, SetValue(m, i, x)
      PROVE  IndInv'
  BY <1>8, SetValueStep
<1>9. ASSUME NEW m \in Maps, clear(m)
      PROVE  IndInv'
  <2>1. <<>> \in Seq(Entry) /\ Len(<<>>) \in 0..Capacity
    BY CapacityAssumption
  <2>2. StrictlySorted(cmp[m], <<>>) /\ cmp[m] \in Orders
    BY DEF StrictlySorted, IndInv, TypeOK
  <2>3. Become(m, <<>>, cmp[m])
    BY <1>9 DEF clear
  <2> QED  BY <2>1, <2>2, <2>3, BecomeStep
<1>10. ASSUME NEW m \in Maps, NEW s \in Containers, NEW r \in Orders,
              Construct(m, s, r) \/ ConstructReady(m, s, r)
       PROVE  IndInv'
  BY <1>10, ConstructStep
<1>11. ASSUME NEW m \in Maps, NEW n \in Maps, swap(m, n) \/ Copy(m, n) \/ Move(m, n)
       PROVE  IndInv'
  BY <1>11, MovingStep
<1> QED  BY <1>1, <1>2, <1>3, <1>4, <1>5, <1>6, <1>7, <1>8, <1>9, <1>10, <1>11 DEF Next

THEOREM Invariance == Spec => []IndInv
<1>1. Init => IndInv
  BY InitInv
<1>2. IndInv /\ [Next]_vars => IndInv'
  BY StepInv
<1> QED  BY <1>1, <1>2, PTL DEF Spec

\* Every vector is strictly sorted by the comparator of its own map: lookups
\* are binary searches, and are right, whatever was done before (flat_map).
THEOREM AlwaysSorted == Spec => []Sorted
<1>1. IndInv => Sorted
  BY DEF IndInv
<1> QED  BY <1>1, Invariance, PTL

\* No vector holds more than its capacity.
THEOREM TypeCorrect == Spec => []TypeOK
<1>1. IndInv => TypeOK
  BY DEF IndInv
<1> QED  BY <1>1, Invariance, PTL
-----------------------------------------------------------------------------
(* The set of a vector's elements.                                         *)

LEMMA RangeIs ==
    ASSUME NEW s \in Seq(Entry)
    PROVE  /\ Range(s) = {s[i] : i \in 1..Len(s)}
           /\ Range(s) \subseteq Entry
           /\ \A i \in 1..Len(s) : s[i] \in Range(s)
           /\ \A p \in Range(s) : \E i \in 1..Len(s) : p = s[i]
BY RangeEquality, RangeOfSeq

\* Equivalent elements are at the same position.
LEMMA Distinct ==
    ASSUME NEW r \in Orders, NEW s \in Seq(Entry), StrictlySorted(r, s),
           NEW i \in 1..Len(s), NEW j \in 1..Len(s),
           <<s[i].key, s[j].key>> \notin r, <<s[j].key, s[i].key>> \notin r
    PROVE  i = j
<1>1. ~(i < j) /\ ~(j < i)
  BY DEF StrictlySorted
<1> QED  BY <1>1

LEMMA Irreflexive ==
    ASSUME NEW r \in Orders, NEW k \in Keys
    PROVE  <<k, k>> \notin r
BY OrdersAssumption DEF StrictWeakOrder

LEMMA SizeIsCardinality ==
    ASSUME NEW r \in Orders, NEW s \in Seq(Entry), StrictlySorted(r, s)
    PROVE  Cardinality(Range(s)) = Len(s)
<1>1. \A i, j \in 1..Len(s) : s[i] = s[j] => i = j
  <2> SUFFICES ASSUME NEW i \in 1..Len(s), NEW j \in 1..Len(s), s[i] = s[j]
               PROVE  i = j
    OBVIOUS
  <2>1. s[i].key \in Keys
    BY EntryKey
  <2>2. <<s[i].key, s[i].key>> \notin r
    BY <2>1, Irreflexive
  <2> QED  BY <2>2, Distinct
<1>2. s \in [1..Len(s) -> Range(s)] /\ \A p \in Range(s) : \E i \in 1..Len(s) : s[i] = p
  <2>1. s \in [1..Len(s) -> Entry]
    OBVIOUS
  <2> QED  BY <2>1, RangeIs
<1>3. s \in Bijection(1..Len(s), Range(s))
  BY <1>1, <1>2 DEF Bijection, Injection, Surjection, IsInjective
<1>4. Len(s) \in Nat
  OBVIOUS
<1> QED  BY <1>3, <1>4, FS_CountingElements DEF ExistsBijection

LEMMA InsertAtRange ==
    ASSUME NEW s \in Seq(Entry), NEW i \in 1..(Len(s) + 1), NEW e \in Entry
    PROVE  Range(InsertAt(s, i, e)) = Range(s) \cup {e}
<1> DEFINE t == InsertAt(s, i, e)
<1>1. /\ t \in Seq(Entry) /\ Len(t) = Len(s) + 1
      /\ \A j \in 1..(Len(s) + 1) : t[j] = IF j < i THEN s[j] ELSE IF j = i THEN e ELSE s[j - 1]
  BY InsertAtProperties
<1> HIDE DEF t
<1>2. ASSUME NEW j \in 1..Len(t)
      PROVE  t[j] \in Range(s) \cup {e}
  <2>1. CASE j < i
    BY <1>1, <2>1, RangeIs
  <2>2. CASE j = i
    BY <1>1, <2>2
  <2>3. CASE j > i
    <3>1. j - 1 \in 1..Len(s) /\ t[j] = s[j - 1]
      BY <1>1, <2>3
    <3> QED  BY <3>1, RangeIs
  <2> QED  BY <1>1, <2>1, <2>2, <2>3
<1>3. ASSUME NEW j \in 1..Len(s)
      PROVE  s[j] \in Range(t)
  <2>1. CASE j < i
    <3>1. j \in 1..Len(t) /\ t[j] = s[j]
      BY <1>1, <2>1
    <3> QED  BY <1>1, <3>1, RangeIs
  <2>2. CASE j >= i
    <3> DEFINE n == j + 1
    <3>1. n \in 1..(Len(s) + 1) /\ n > i /\ n - 1 = j
      BY <2>2
    <3> HIDE DEF n
    <3>2. n \in 1..Len(t) /\ t[n] = s[j]
      BY <1>1, <3>1
    <3> QED  BY <1>1, <3>2, RangeIs
  <2> QED  BY <2>1, <2>2
<1>4. e \in Range(t)
  <2>1. i \in 1..Len(t) /\ t[i] = e
    BY <1>1
  <2> QED  BY <1>1, <2>1, RangeIs
<1>5. Range(t) \subseteq Range(s) \cup {e}
  BY <1>1, <1>2, RangeIs
<1>6. Range(s) \subseteq Range(t)
  BY <1>3, RangeIs
<1> QED  BY <1>4, <1>5, <1>6 DEF t

LEMMA RemoveAtRange ==
    ASSUME NEW r \in Orders, NEW s \in Seq(Entry), StrictlySorted(r, s), NEW i \in 1..Len(s)
    PROVE  Range(RemoveAt(s, i)) = Range(s) \ {s[i]}
<1> DEFINE t == RemoveAt(s, i)
<1>1. /\ t \in Seq(Entry) /\ Len(t) = Len(s) - 1
      /\ \A j \in 1..(Len(s) - 1) : t[j] = IF j < i THEN s[j] ELSE s[j + 1]
  BY RemoveAtProperties
<1> HIDE DEF t
<1>2. ASSUME NEW j \in 1..Len(s), j # i
      PROVE  s[j] # s[i]
  <2>1. s[i].key \in Keys
    BY EntryKey
  <2>2. <<s[i].key, s[i].key>> \notin r
    BY <2>1, Irreflexive
  <2> QED  BY <1>2, <2>2, Distinct
<1>3. ASSUME NEW j \in 1..Len(t)
      PROVE  t[j] \in Range(s) \ {s[i]}
  <2>1. CASE j < i
    <3>1. j \in 1..Len(s) /\ j # i /\ t[j] = s[j]
      BY <1>1, <2>1
    <3> QED  BY <1>2, <3>1, RangeIs
  <2>2. CASE j >= i
    <3>1. j \in 1..(Len(s) - 1) /\ j + 1 \in 1..Len(s) /\ j + 1 # i /\ ~(j < i)
      BY <1>1, <2>2
    <3>2. t[j] = s[j + 1]
      BY <1>1, <3>1
    <3> QED  BY <1>2, <3>1, <3>2, RangeIs
  <2> QED  BY <2>1, <2>2
<1>4. ASSUME NEW j \in 1..Len(s), j # i
      PROVE  s[j] \in Range(t)
  <2>1. CASE j < i
    <3>1. j \in 1..Len(t) /\ t[j] = s[j]
      BY <1>1, <2>1
    <3> QED  BY <1>1, <3>1, RangeIs
  <2>2. CASE j > i
    <3>1. j - 1 \in 1..Len(t) /\ t[j - 1] = s[j]
      BY <1>1, <2>2
    <3> QED  BY <1>1, <3>1, RangeIs
  <2> QED  BY <1>4, <2>1, <2>2
<1>5. Range(t) \subseteq Range(s) \ {s[i]}
  BY <1>1, <1>3, RangeIs
<1>6. ASSUME NEW p \in Range(s), p # s[i]
      PROVE  p \in Range(t)
  <2>1. PICK j \in 1..Len(s) : p = s[j]
    BY RangeIs
  <2> QED  BY <1>4, <1>6, <2>1
<1> QED  BY <1>5, <1>6 DEF t

\* Writing to the value of an element.
LEMMA SetValueRange ==
    ASSUME NEW r \in Orders, NEW s \in Seq(Entry), StrictlySorted(r, s), NEW i \in 1..Len(s),
           NEW e \in Entry
    PROVE  \E t \in Seq(Entry) :
              /\ t = [j \in 1..Len(s) |-> IF j = i THEN e ELSE s[j]]
              /\ Range(t) = (Range(s) \ {s[i]}) \cup {e}
<1> DEFINE t == [j \in 1..Len(s) |-> IF j = i THEN e ELSE s[j]]
<1>0. /\ t \in Seq(Entry) /\ Len(t) = Len(s)
      /\ \A j \in 1..Len(s) : t[j] = IF j = i THEN e ELSE s[j]
  OBVIOUS
<1> HIDE DEF t
<1>1. ASSUME NEW j \in 1..Len(s), j # i
      PROVE  s[j] # s[i]
  <2>1. s[i].key \in Keys
    BY EntryKey
  <2>2. <<s[i].key, s[i].key>> \notin r
    BY <2>1, Irreflexive
  <2> QED  BY <1>1, <2>2, Distinct
<1>2. \A j \in 1..Len(t) : t[j] \in (Range(s) \ {s[i]}) \cup {e}
  BY <1>0, <1>1, RangeIs
<1>3. \A j \in 1..Len(s) : s[j] # s[i] => s[j] \in Range(t)
  <2> SUFFICES ASSUME NEW j \in 1..Len(s), s[j] # s[i] PROVE s[j] \in Range(t)
    OBVIOUS
  <2>1. j \in 1..Len(t) /\ t[j] = s[j]
    BY <1>0
  <2> QED  BY <1>0, <2>1, RangeIs
<1>4. e \in Range(t)
  <2>1. i \in 1..Len(t) /\ t[i] = e
    BY <1>0
  <2> QED  BY <1>0, <2>1, RangeIs
<1>5. Range(t) \subseteq (Range(s) \ {s[i]}) \cup {e}
  BY <1>0, <1>2, RangeIs
<1>6. ASSUME NEW p \in Range(s), p # s[i]
      PROVE  p \in Range(t)
  <2>1. PICK j \in 1..Len(s) : p = s[j]
    BY RangeIs
  <2> QED  BY <1>3, <1>6, <2>1
<1>7. Range(t) = (Range(s) \ {s[i]}) \cup {e}
  BY <1>4, <1>5, <1>6
<1> QED  BY <1>0, <1>7 DEF t

-----------------------------------------------------------------------------
(* What a constructor keeps.                                               *)

\* A set of positive numbers has a least one.
LEMMA Least ==
    ASSUME NEW P \in SUBSET (Nat \ {0}), P # {}
    PROVE  \E i \in P : \A j \in P : i <= j
<1>1. PICK n \in P : TRUE
  OBVIOUS
<1> DEFINE T == {1..i : i \in P}
<1>2. T \subseteq FiniteSubsetsOf(Nat) /\ T # {}
  <2>1. \A i \in P : 1..i \in SUBSET Nat /\ IsFiniteSet(1..i)
    BY FS_Interval
  <2> QED  BY <1>1, <2>1 DEF FiniteSubsetsOf
<1>3. PICK U \in T : \A V \in T : <<V, U>> \notin StrictSubsetOrdering(Nat)
  <2> HIDE DEF T
  <2> QED  BY <1>2, FS_StrictSubsetOrderingWellFounded, WFMin
<1>4. PICK i \in P : U = 1..i
  OBVIOUS
<1>5. ASSUME NEW j \in P, j < i
      PROVE  FALSE
  <2>1. 1..j \in T /\ 1..j \subseteq 1..i /\ i \in 1..i /\ i \notin 1..j
    BY <1>5
  <2>2. <<1..j, U>> \in StrictSubsetOrdering(Nat)
    BY <1>4, <2>1 DEF StrictSubsetOrdering
  <2> QED  BY <1>3, <2>1, <2>2
<1> QED  BY <1>4, <1>5

LEMMA SortsKeeps ==
    ASSUME NEW r, NEW s \in Seq(Entry), NEW t \in Sorts(r, s)
    PROVE  t \in Seq(Entry) /\ Len(t) = Len(s) /\ Range(t) = Range(s)
<1>1. PICK p \in Bijection(1..Len(s), 1..Len(s)) : t = [i \in 1..Len(s) |-> s[p[i]]]
  BY DEF Sorts
<1>2. p \in [1..Len(s) -> 1..Len(s)] /\ \A j \in 1..Len(s) : \E i \in 1..Len(s) : p[i] = j
  BY DEF Bijection, Injection, Surjection
<1>3. t \in Seq(Entry) /\ Len(t) = Len(s)
  BY <1>1, <1>2
<1>4. ASSUME NEW i \in 1..Len(s)
      PROVE  t[i] \in Range(s)
  <2>1. p[i] \in 1..Len(s) /\ t[i] = s[p[i]]
    BY <1>1, <1>2
  <2> QED  BY <2>1, RangeIs
<1>5. ASSUME NEW j \in 1..Len(s)
      PROVE  s[j] \in Range(t)
  <2>1. PICK i \in 1..Len(s) : p[i] = j
    BY <1>2
  <2>2. t[i] = s[j] /\ i \in 1..Len(t)
    BY <1>1, <1>3, <2>1
  <2> QED  BY <1>3, <2>2, RangeIs
<1>6. Range(t) \subseteq Range(s)
  BY <1>3, <1>4, RangeIs
<1>7. Range(s) \subseteq Range(t)
  BY <1>5, RangeIs
<1> QED  BY <1>3, <1>6, <1>7

\* Of every class of equivalent elements, unique keeps the first.
LEMMA KeepsOneOfEach ==
    ASSUME NEW r \in Orders, NEW t \in Seq(Entry),
           \A i, j \in 1..Len(t) : i < j => <<t[j].key, t[i].key>> \notin r,
           NEW n \in 1..Len(t)
    PROVE  \E i \in Kept(r, t) : <<t[n].key, t[i].key>> \notin r /\ <<t[i].key, t[n].key>> \notin r
<1> DEFINE P == {j \in 1..Len(t) : <<t[n].key, t[j].key>> \notin r /\ <<t[j].key, t[n].key>> \notin r}
<1>1. \A j \in 1..Len(t) : t[j].key \in Keys
  BY EntryKey
<1>2. P \in SUBSET (Nat \ {0}) /\ n \in P
  <2>1. <<t[n].key, t[n].key>> \notin r
    BY <1>1, Irreflexive
  <2> QED  BY <2>1
<1>3. PICK i \in P : \A j \in P : i <= j
  <2> HIDE DEF P
  <2> QED  BY <1>2, Least
<1>4. i \in Kept(r, t)
  <2> SUFFICES ASSUME i # 1 PROVE <<t[i - 1].key, t[i].key>> \in r
    BY DEF Kept
  <2> DEFINE h == i - 1
  <2>1. h \in 1..Len(t) /\ h < i /\ i \in 1..Len(t)
    OBVIOUS
  <2>2. h \notin P
    BY <1>3, <2>1
  <2> HIDE DEF h
  <2>3. <<t[h].key, t[n].key>> \in r \/ <<t[n].key, t[h].key>> \in r
    BY <2>1, <2>2
  <2>4. i <= n
    BY <1>2, <1>3
  <2>5. <<t[n].key, t[h].key>> \notin r
    BY <2>1, <2>4
  <2>6. <<t[i].key, t[n].key>> \notin r
    OBVIOUS
  <2>7. <<t[h].key, t[i].key>> \in r
    BY <1>1, <2>1, <2>3, <2>5, <2>6, OrdersAssumption DEF StrictWeakOrder
  <2> QED  BY <2>7 DEF h
<1> QED  BY <1>3, <1>4

\* What sort and unique make of the elements that a constructor is given.
LEMMA UniqueKeeps ==
    ASSUME NEW r \in Orders, NEW s \in Containers, NEW t \in Sorts(r, s), NEW f \in Uniques(r, t)
    PROVE  \E u \in Seq(Entry) :
              /\ u = [i \in DOMAIN f |-> t[f[i]]]
              /\ StrictlySorted(r, u) /\ Range(u) \subseteq Range(s)
              /\ \A p \in Range(s) : \E q \in Range(u) :
                    <<p.key, q.key>> \notin r /\ <<q.key, p.key>> \notin r
<1> DEFINE u == [i \in DOMAIN f |-> t[f[i]]]
<1>0. u \in Seq(Entry) /\ StrictlySorted(r, u)
  BY UniqueSorted
<1>1. t \in Seq(Entry) /\ Range(t) = Range(s)
  BY ContainersAreSequences, SortsKeeps
<1>2. \A i, j \in 1..Len(t) : i < j => <<t[j].key, t[i].key>> \notin r
  BY DEF Sorts
<1>3. DOMAIN f = DOMAIN u /\ \A i \in DOMAIN f : f[i] \in Kept(r, t) /\ u[i] = t[f[i]]
  BY DEF Uniques
<1>4. \A k \in Kept(r, t) : \E i \in DOMAIN f : f[i] = k
  BY DEF Uniques
<1>5. Kept(r, t) \subseteq 1..Len(t)
  BY DEF Kept
<1> HIDE DEF u
<1>6. Range(u) \subseteq Range(s)
  <2>1. \A i \in DOMAIN u : u[i] \in Range(t)
    BY <1>1, <1>3, <1>5, RangeIs
  <2> QED  BY <1>1, <2>1 DEF Range
<1>7. ASSUME NEW p \in Range(s)
      PROVE  \E q \in Range(u) : <<p.key, q.key>> \notin r /\ <<q.key, p.key>> \notin r
  <2>1. PICK n \in 1..Len(t) : p = t[n]
    BY <1>1, RangeIs
  <2>2. PICK k \in Kept(r, t) : <<t[n].key, t[k].key>> \notin r /\ <<t[k].key, t[n].key>> \notin r
    BY <1>1, <1>2, KeepsOneOfEach
  <2>3. PICK i \in DOMAIN f : f[i] = k
    BY <1>4
  <2>4. u[i] = t[k] /\ u[i] \in Range(u)
    BY <1>3, <2>3 DEF Range
  <2> QED  BY <2>1, <2>2, <2>4
<1> QED  BY <1>0, <1>6, <1>7 DEF u

\* A strictly sorted vector represents the elements it has one of each class of.
LEMMA SortedRepresents ==
    ASSUME NEW r \in Orders, NEW u \in Seq(Entry), StrictlySorted(r, u), NEW G,
           Range(u) \subseteq G,
           \A p \in G : \E q \in Range(u) : <<p.key, q.key>> \notin r /\ <<q.key, p.key>> \notin r
    PROVE  Map!Represents(r, Range(u), G)
<1>1. ASSUME NEW p \in Range(u), NEW q \in Range(u), p # q
      PROVE  <<p.key, q.key>> \in r \/ <<q.key, p.key>> \in r
  <2>1. PICK i \in 1..Len(u) : p = u[i]
    BY RangeIs
  <2>2. PICK j \in 1..Len(u) : q = u[j]
    BY RangeIs
  <2> QED  BY <1>1, <2>1, <2>2, Distinct
<1> QED  BY <1>1 DEF Map!Represents

-----------------------------------------------------------------------------
(* The refinement: a map is the set of its vector's elements.              *)

Elements == [m \in Maps |-> Range(m_container[m])]

LEMMA Vector ==
    ASSUME IndInv, NEW m \in Maps
    PROVE  /\ m_container[m] \in Seq(Entry) /\ Len(m_container[m]) <= Capacity
           /\ cmp[m] \in Orders /\ StrictlySorted(cmp[m], m_container[m])
           /\ Elements[m] = Range(m_container[m])
           /\ size(m) = Len(m_container[m]) /\ size(m) \in Nat /\ end(m) = size(m) + 1
BY SortedVectors DEF IndInv, TypeOK, Elements, size, end

LEMMA SameCardinality ==
    ASSUME NEW S
    PROVE  Map!Cardinality(S) = Cardinality(S)
BY DEF Map!Cardinality, Cardinality

LEMMA KeepMaps ==
    ASSUME NEW call, NEW of, NEW e, Keep(call, of, e)
    PROVE  Map!Keep(call, of, e)
BY DEF Keep, Map!Keep, Answer, Map!Answer, NoAnswer, Map!NoAnswer

LEMMA AnswerMaps ==
    ASSUME NEW call, NEW of, NEW e, NEW b, Answer(call, of, e, b)
    PROVE  Map!Answer(call, of, e, b)
BY DEF Answer, Map!Answer, NoAnswer, Map!NoAnswer

\* A step that gives one map another vector.
LEMMA OneMapMaps ==
    ASSUME IndInv, NEW m \in Maps, NEW s, m_container' = [m_container EXCEPT ![m] = s]
    PROVE  Elements' = [Elements EXCEPT ![m] = Range(s)]
BY DEF Elements, IndInv, TypeOK

\* No element is equivalent to a key that each is less or greater than.
LEMMA Misses ==
    ASSUME IndInv, NEW m \in Maps, NEW k \in Keys,
           \A j \in 1..size(m) : Less(m, At(m, j).key, k) \/ Less(m, k, At(m, j).key)
    PROVE  Map!Missing(m, k)
<1> SUFFICES ASSUME NEW p \in Elements[m]
             PROVE  Less(m, p.key, k) \/ Less(m, k, p.key)
  BY DEF Map!Missing, Map!Equivalent, Map!Less, Less, Elements
<1>1. PICK j \in 1..size(m) : p = At(m, j)
  BY Vector, RangeIs DEF At
<1> QED  BY <1>1

LEMMA NotFoundMisses ==
    ASSUME IndInv, NEW m \in Maps, NEW k \in Keys, NEW i \in 1..end(m),
           lower_bound(m, k, i), ~FoundAt(m, k, i)
    PROVE  Map!Missing(m, k)
<1> DEFINE s == m_container[m]
           r == cmp[m]
<1>1. /\ s \in Seq(Entry) /\ r \in Orders /\ StrictlySorted(r, s)
      /\ size(m) = Len(s) /\ size(m) \in Nat /\ end(m) = Len(s) + 1
  BY Vector
<1>2. ASSUME NEW j \in 1..size(m)
      PROVE  Less(m, At(m, j).key, k) \/ Less(m, k, At(m, j).key)
  <2>1. CASE j < i
    BY <2>1 DEF lower_bound
  <2>2. CASE j >= i
    <3>1. i \in 1..Len(s) /\ j \in 1..Len(s) /\ i # end(m)
      BY <1>1, <2>2
    <3>2. <<k, s[i].key>> \in r
      BY <3>1 DEF FoundAt, Less, At
    <3>3. j = i \/ <<s[i].key, s[j].key>> \in r
      BY <2>2, <3>1, <1>1 DEF StrictlySorted
    <3>4. s[i].key \in Keys /\ s[j].key \in Keys
      BY <1>1, <3>1, EntryKey
    <3>5. <<k, s[j].key>> \in r
      BY <1>1, <3>2, <3>3, <3>4, Transitive
    <3> QED  BY <3>5 DEF Less, At
  <2> QED  BY <1>1, <2>1, <2>2
<1> QED  BY <1>2, Misses

LEMMA FoundEquivalent ==
    ASSUME IndInv, NEW m \in Maps, NEW k \in Keys, NEW i \in 1..end(m),
           lower_bound(m, k, i), FoundAt(m, k, i)
    PROVE  At(m, i) \in Elements[m] /\ Map!Equivalent(m, At(m, i).key, k) /\ i \in 1..size(m)
<1>1. i \in 1..size(m)
  BY Vector DEF FoundAt
<1>2. At(m, i) \in Elements[m]
  BY <1>1, Vector, RangeIs DEF At
<1>3. ~Less(m, At(m, i).key, k) /\ ~Less(m, k, At(m, i).key)
  BY <1>1, Vector DEF lower_bound, FoundAt
<1> QED  BY <1>1, <1>2, <1>3 DEF Map!Equivalent, Map!Less, Less

\* The element at i is the first of those from i on.
LEMMA FirstAt ==
    ASSUME IndInv, NEW m \in Maps, NEW i \in 1..end(m), NEW S \in SUBSET Elements[m],
           \A j \in 1..size(m) : At(m, j) \in S <=> j >= i
    PROVE  Map!First(m, S, Deref(m, i)) /\ Deref(m, i) \in Map!Entry \cup {Nothing}
<1> DEFINE s == m_container[m]
           r == cmp[m]
<1>1. /\ s \in Seq(Entry) /\ r \in Orders /\ StrictlySorted(r, s)
      /\ size(m) = Len(s) /\ size(m) \in Nat /\ end(m) = Len(s) + 1 /\ Elements[m] = Range(s)
  BY Vector
<1>2. ASSUME NEW p \in S
      PROVE  \E j \in 1..Len(s) : j >= i /\ p = s[j]
  <2>1. PICK j \in 1..Len(s) : p = s[j]
    BY <1>1, RangeIs
  <2> QED  BY <1>1, <2>1 DEF At
<1>3. CASE i = end(m)
  <2>1. S = {}
    BY <1>1, <1>2, <1>3
  <2> QED  BY <1>3, <2>1 DEF Deref, Map!First
<1>4. CASE i # end(m)
  <2>1. i \in 1..Len(s)
    BY <1>1, <1>4
  <2>2. Deref(m, i) = s[i] /\ s[i] \in S
    BY <1>1, <1>4, <2>1 DEF Deref, At
  <2>3. ASSUME NEW p \in S
        PROVE  <<p.key, s[i].key>> \notin r
    <3>1. PICK j \in 1..Len(s) : j >= i /\ p = s[j]
      BY <1>2
    <3>2. s[i].key \in Keys /\ s[j].key \in Keys
      BY <1>1, <2>1, EntryKey
    <3>3. j = i \/ <<s[i].key, s[j].key>> \in r
      BY <1>1, <2>1, <3>1 DEF StrictlySorted
    <3> QED  BY <1>1, <3>1, <3>2, <3>3, Irreflexive, OrdersAssumption DEF StrictWeakOrder
  <2>4. s[i] \in Entry
    BY <1>1, <2>1
  <2>5. Map!Entry = Entry
    BY DEF Entry, Map!Entry
  <2> QED  BY <2>2, <2>3, <2>4, <2>5 DEF Map!First, Map!Less
<1> QED  BY <1>3, <1>4

-----------------------------------------------------------------------------
(* Each function of flat_map is the same function of the ordered map.      *)

LEMMA PlaceMaps ==
    ASSUME IndInv, NEW m \in Maps, NEW i \in 1..end(m), NEW e \in Entry,
           Map!Missing(m, e.key), Place(m, i, e)
    PROVE  Map!Insert(m, e)
<1> DEFINE s == m_container[m]
<1>1. /\ s \in Seq(Entry) /\ size(m) = Len(s) /\ i \in 1..(Len(s) + 1)
      /\ Cardinality(Elements[m]) = Len(s) /\ Elements[m] = Range(s)
  BY Vector, SizeIsCardinality
<1>2. CASE /\ size(m) < Capacity /\ Answer("insert", e, e, TRUE) /\ UNCHANGED cmp
           /\ m_container' = [m_container EXCEPT ![m] = InsertAt(@, i, e)]
  <2>1. m_container' = [m_container EXCEPT ![m] = InsertAt(s, i, e)]
    BY <1>2 DEF IndInv, TypeOK
  <2>2. Elements' = [Elements EXCEPT ![m] = Range(InsertAt(s, i, e))]
    BY <2>1, OneMapMaps
  <2>3. Range(InsertAt(s, i, e)) = Elements[m] \cup {e}
    BY <1>1, InsertAtRange
  <2>4. Elements' = [Elements EXCEPT ![m] = @ \cup {e}]
    BY <2>2, <2>3
  <2>5. Cardinality(Elements[m]) < Capacity
    BY <1>1, <1>2
  <2>6. Map!Answer("insert", e, e, TRUE)
    BY <1>2, AnswerMaps
  <2> QED  BY <1>2, <2>4, <2>5, <2>6, SameCardinality DEF Map!Insert, Elements
<1>3. CASE size(m) >= Capacity /\ Keep("insert", e, Nothing)
  <2>1. Cardinality(Elements[m]) >= Capacity /\ Map!Keep("insert", e, Nothing)
    BY <1>1, <1>3, KeepMaps
  <2> QED  BY <2>1, SameCardinality DEF Map!Insert, Elements
<1> QED  BY <1>2, <1>3 DEF Place

LEMMA InsertMaps ==
    ASSUME IndInv, NEW m \in Maps, NEW e \in Entry, insert(m, e)
    PROVE  Map!Insert(m, e)
<1>1. PICK i \in 1..end(m) :
          /\ lower_bound(m, e.key, i)
          /\ \/ FoundAt(m, e.key, i) /\ Keep("insert", e, At(m, i))
             \/ ~FoundAt(m, e.key, i) /\ Place(m, i, e)
  BY DEF insert
<1>2. e.key \in Keys
  BY EntryKey
<1>3. CASE FoundAt(m, e.key, i) /\ Keep("insert", e, At(m, i))
  <2>1. At(m, i) \in Elements[m] /\ Map!Equivalent(m, At(m, i).key, e.key)
    BY <1>1, <1>2, <1>3, FoundEquivalent
  <2>2. Map!Keep("insert", e, At(m, i))
    BY <1>3, KeepMaps
  <2> QED  BY <2>1, <2>2 DEF Map!Insert, Elements
<1>4. CASE ~FoundAt(m, e.key, i) /\ Place(m, i, e)
  BY <1>1, <1>2, <1>4, NotFoundMisses, PlaceMaps
<1> QED  BY <1>1, <1>3, <1>4

\* A hint that fits is where the key goes.
LEMMA HintMisses ==
    ASSUME IndInv, NEW m \in Maps, NEW k \in Keys, NEW pos \in 1..end(m),
           size(m) = 0 \/ FitsAt(m, pos, k)
    PROVE  Map!Missing(m, k)
<1> DEFINE s == m_container[m]
           r == cmp[m]
<1>1. /\ s \in Seq(Entry) /\ r \in Orders /\ StrictlySorted(r, s)
      /\ size(m) = Len(s) /\ size(m) \in Nat /\ end(m) = Len(s) + 1
  BY Vector
<1>2. ASSUME NEW j \in 1..size(m)
      PROVE  Less(m, At(m, j).key, k) \/ Less(m, k, At(m, j).key)
  <2>1. FitsAt(m, pos, k) /\ j \in 1..Len(s)
    BY <1>1
  <2>2. CASE j < pos
    <3>1. pos - 1 \in 1..Len(s) /\ pos # 1
      BY <1>1, <2>1, <2>2
    <3>2. <<s[pos - 1].key, k>> \in r
      BY <2>1, <3>1 DEF FitsAt, Less, At
    <3>3. j = pos - 1 \/ <<s[j].key, s[pos - 1].key>> \in r
      BY <1>1, <2>1, <2>2, <3>1 DEF StrictlySorted
    <3>4. s[j].key \in Keys /\ s[pos - 1].key \in Keys
      BY <1>1, <2>1, <3>1, EntryKey
    <3>5. <<s[j].key, k>> \in r
      BY <1>1, <3>2, <3>3, <3>4, Transitive
    <3> QED  BY <3>5 DEF Less, At
  <2>3. CASE j >= pos
    <3>1. pos \in 1..Len(s) /\ pos # end(m)
      BY <1>1, <2>1, <2>3
    <3>2. <<k, s[pos].key>> \in r
      BY <2>1, <3>1 DEF FitsAt, Less, At
    <3>3. j = pos \/ <<s[pos].key, s[j].key>> \in r
      BY <1>1, <2>1, <2>3, <3>1 DEF StrictlySorted
    <3>4. s[j].key \in Keys /\ s[pos].key \in Keys
      BY <1>1, <2>1, <3>1, EntryKey
    <3>5. <<k, s[j].key>> \in r
      BY <1>1, <3>2, <3>3, <3>4, Transitive
    <3> QED  BY <3>5 DEF Less, At
  <2> QED  BY <1>1, <2>1, <2>2, <2>3
<1> QED  BY <1>2, Misses

LEMMA HintMaps ==
    ASSUME IndInv, NEW m \in Maps, NEW e \in Entry, NEW pos \in 1..end(m), emplace_hint(m, pos, e)
    PROVE  Map!Insert(m, e)
<1>1. e.key \in Keys
  BY EntryKey
<1>2. CASE Place(m, pos, e) /\ (size(m) = 0 \/ FitsAt(m, pos, e.key))
  BY <1>1, <1>2, HintMisses, PlaceMaps
<1>3. CASE insert(m, e)
  BY <1>3, InsertMaps
<1> QED  BY <1>2, <1>3 DEF emplace_hint

LEMMA PlainSame ==
    ASSUME NEW k
    PROVE  Map!Plain(k) = Plain(k)
BY DEF Plain, Map!Plain

LEMMA FindMaps ==
    ASSUME IndInv, NEW m \in Maps, NEW k \in Keys, find(m, k) \/ at(m, k)
    PROVE  Map!Find(m, k)
<1>1. PICK i \in 1..end(m) :
          /\ lower_bound(m, k, i)
          /\ Keep("find", Plain(k), IF FoundAt(m, k, i) THEN At(m, i) ELSE Nothing)
  BY DEF find, at, FoundAt
<1>2. CASE FoundAt(m, k, i)
  <2>1. At(m, i) \in Elements[m] /\ Map!Equivalent(m, At(m, i).key, k)
    BY <1>1, <1>2, FoundEquivalent
  <2>2. Map!Keep("find", Plain(k), At(m, i))
    BY <1>1, <1>2, KeepMaps
  <2> QED  BY <2>1, <2>2, PlainSame DEF Map!Find, Elements
<1>3. CASE ~FoundAt(m, k, i)
  <2>1. Map!Missing(m, k)
    BY <1>1, <1>3, NotFoundMisses
  <2>2. Map!Keep("find", Plain(k), Nothing)
    BY <1>1, <1>3, KeepMaps
  <2> QED  BY <2>1, <2>2, PlainSame DEF Map!Find
<1> QED  BY <1>2, <1>3

LEMMA LowerBoundMaps ==
    ASSUME IndInv, NEW m \in Maps, NEW k \in Keys, LowerBound(m, k)
    PROVE  Map!LowerBound(m, k)
<1>1. PICK i \in 1..end(m) : lower_bound(m, k, i) /\ Keep("lower_bound", Plain(k), Deref(m, i))
  BY DEF LowerBound
<1> DEFINE S == {p \in Elements[m] : ~Map!Less(m, p.key, k)}
<1>2. \A j \in 1..size(m) : At(m, j) \in S <=> j >= i
  <2> SUFFICES ASSUME NEW j \in 1..size(m)
               PROVE  At(m, j) \in S <=> j >= i
    OBVIOUS
  <2>1. At(m, j) \in Elements[m]
    BY Vector, RangeIs DEF At
  <2>2. Less(m, At(m, j).key, k) <=> j < i
    BY <1>1 DEF lower_bound
  <2>3. i \in Int /\ j \in Int
    BY Vector
  <2> QED  BY <2>1, <2>2, <2>3 DEF Map!Less, Less
<1>3. Map!First(m, S, Deref(m, i)) /\ Deref(m, i) \in Map!Entry \cup {Nothing}
  <2> HIDE DEF S
  <2>1. S \in SUBSET Elements[m]
    BY DEF S
  <2> QED  BY <1>2, <2>1, FirstAt
<1>4. Map!Keep("lower_bound", Map!Plain(k), Deref(m, i))
  BY <1>1, KeepMaps, PlainSame
<1> QED  BY <1>3, <1>4 DEF Map!LowerBound, Elements

LEMMA UpperBoundMaps ==
    ASSUME IndInv, NEW m \in Maps, NEW k \in Keys, UpperBound(m, k)
    PROVE  Map!UpperBound(m, k)
<1>1. PICK i \in 1..end(m) : upper_bound(m, k, i) /\ Keep("upper_bound", Plain(k), Deref(m, i))
  BY DEF UpperBound
<1> DEFINE S == {p \in Elements[m] : Map!Less(m, k, p.key)}
<1>2. \A j \in 1..size(m) : At(m, j) \in S <=> j >= i
  <2> SUFFICES ASSUME NEW j \in 1..size(m)
               PROVE  At(m, j) \in S <=> j >= i
    OBVIOUS
  <2>1. At(m, j) \in Elements[m]
    BY Vector, RangeIs DEF At
  <2>2. Less(m, k, At(m, j).key) <=> j >= i
    BY <1>1 DEF upper_bound
  <2> QED  BY <2>1, <2>2 DEF Map!Less, Less
<1>3. Map!First(m, S, Deref(m, i)) /\ Deref(m, i) \in Map!Entry \cup {Nothing}
  <2> HIDE DEF S
  <2>1. S \in SUBSET Elements[m]
    BY DEF S
  <2> QED  BY <1>2, <2>1, FirstAt
<1>4. Map!Keep("upper_bound", Map!Plain(k), Deref(m, i))
  BY <1>1, KeepMaps, PlainSame
<1> QED  BY <1>3, <1>4 DEF Map!UpperBound, Elements

LEMMA RemoveMaps ==
    ASSUME IndInv, NEW m \in Maps, NEW i \in 1..size(m), RemoveElement(m, i)
    PROVE  /\ At(m, i) \in Elements[m]
           /\ Elements' = [Elements EXCEPT ![m] = @ \ {At(m, i)}]
<1> DEFINE s == m_container[m]
<1>1. m_container' = [m_container EXCEPT ![m] = RemoveAt(s, i)]
  BY DEF RemoveElement, IndInv, TypeOK
<1>2. Elements' = [Elements EXCEPT ![m] = Range(RemoveAt(s, i))]
  BY <1>1, OneMapMaps
<1>3. Range(RemoveAt(s, i)) = Elements[m] \ {s[i]} /\ s[i] \in Elements[m]
  BY Vector, RangeIs, RemoveAtRange
<1> QED  BY <1>2, <1>3 DEF At

LEMMA EraseKeyMaps ==
    ASSUME IndInv, NEW m \in Maps, NEW k \in Keys, EraseKey(m, k)
    PROVE  Map!EraseKey(m, k)
<1>1. PICK i \in 1..end(m) :
          /\ lower_bound(m, k, i)
          /\ \/ FoundAt(m, k, i) /\ RemoveElement(m, i) /\ Answer("erase_key", Plain(k), Nothing, TRUE)
             \/ ~FoundAt(m, k, i) /\ Keep("erase_key", Plain(k), Nothing)
  BY DEF EraseKey
<1>2. CASE FoundAt(m, k, i) /\ RemoveElement(m, i) /\ Answer("erase_key", Plain(k), Nothing, TRUE)
  <2>1. At(m, i) \in Elements[m] /\ Map!Equivalent(m, At(m, i).key, k) /\ i \in 1..size(m)
    BY <1>1, <1>2, FoundEquivalent
  <2>2. Elements' = [Elements EXCEPT ![m] = @ \ {At(m, i)}] /\ UNCHANGED cmp
    BY <1>2, <2>1, RemoveMaps DEF RemoveElement
  <2>3. Map!Answer("erase_key", Map!Plain(k), Nothing, TRUE)
    BY <1>2, AnswerMaps, PlainSame
  <2> QED  BY <2>1, <2>2, <2>3 DEF Map!EraseKey, Elements
<1>3. CASE ~FoundAt(m, k, i) /\ Keep("erase_key", Plain(k), Nothing)
  <2>1. Map!Missing(m, k)
    BY <1>1, <1>3, NotFoundMisses
  <2>2. Map!Keep("erase_key", Map!Plain(k), Nothing)
    BY <1>3, KeepMaps, PlainSame
  <2> QED  BY <2>1, <2>2 DEF Map!EraseKey
<1> QED  BY <1>1, <1>2, <1>3

LEMMA EraseMaps ==
    ASSUME IndInv, NEW m \in Maps, NEW i \in 1..size(m), erase(m, i)
    PROVE  Map!Erase(m)
<1> DEFINE s == m_container[m]
           r == cmp[m]
           S == {q \in Elements[m] : Map!Less(m, At(m, i).key, q.key)}
<1>1. /\ s \in Seq(Entry) /\ r \in Orders /\ StrictlySorted(r, s)
      /\ size(m) = Len(s) /\ size(m) \in Nat /\ end(m) = Len(s) + 1
  BY Vector
<1>2. ASSUME NEW j \in 1..size(m)
      PROVE  At(m, j) \in S <=> j >= i + 1
  <2>1. At(m, j) \in Elements[m]
    BY Vector, RangeIs DEF At
  <2>2. s[i].key \in Keys /\ s[j].key \in Keys
    BY <1>1, EntryKey
  <2>3. <<s[i].key, s[j].key>> \in r <=> j > i
    <3>1. CASE j > i
      BY <1>1, <3>1 DEF StrictlySorted
    <3>2. CASE j < i
      <4>1. <<s[j].key, s[i].key>> \in r
        BY <1>1, <3>2 DEF StrictlySorted
      <4>2. <<s[i].key, s[j].key>> \notin r
        BY <1>1, <2>2, <4>1, OrdersAssumption DEF StrictWeakOrder
      <4> QED  BY <3>2, <4>2
    <3>3. CASE j = i
      BY <1>1, <2>2, <3>3, Irreflexive
    <3> QED  BY <3>1, <3>2, <3>3
  <2>4. At(m, j) \in S <=> j > i
    BY <2>1, <2>3 DEF At, Map!Less
  <2> QED  BY <2>4
<1>3. i + 1 \in 1..end(m)
  BY <1>1
<1>4. Map!First(m, S, Deref(m, i + 1)) /\ Deref(m, i + 1) \in Map!Entry \cup {Nothing}
  <2>1. S \in SUBSET Elements[m]
    OBVIOUS
  <2> HIDE DEF S
  <2> QED  BY <1>2, <1>3, <2>1, FirstAt
<1>5. At(m, i) \in Elements[m] /\ Elements' = [Elements EXCEPT ![m] = @ \ {At(m, i)}] /\ UNCHANGED cmp
  BY RemoveMaps DEF erase, RemoveElement
<1>6. Map!Answer("erase", At(m, i), Deref(m, i + 1), TRUE)
  BY AnswerMaps DEF erase
<1> QED  BY <1>4, <1>5, <1>6 DEF Map!Erase, Elements

LEMMA SetValueMaps ==
    ASSUME IndInv, NEW m \in Maps, NEW i \in 1..size(m), NEW x \in Values, SetValue(m, i, x)
    PROVE  Map!SetValue(m, x)
<1>1. PICK s \in Seq(Entry), r \in Orders :
          /\ s = m_container[m] /\ r = cmp[m] /\ StrictlySorted(r, s) /\ i \in 1..Len(s)
          /\ Elements[m] = Range(s)
  BY Vector
<1>2. s[i] \in Entry /\ s[i] \in Elements[m]
  BY <1>1, RangeIs
<1>3. PICK e \in Entry : e = [key |-> s[i].key, value |-> x]
  BY <1>2 DEF Entry
<1>4. [s[i] EXCEPT !.value = x] = e
  BY <1>2, <1>3 DEF Entry
<1>5. PICK t \in Seq(Entry) :
          /\ t = [j \in 1..Len(s) |-> IF j = i THEN e ELSE s[j]]
          /\ Range(t) = (Range(s) \ {s[i]}) \cup {e}
  <2>1. StrictlySorted(r, s) /\ i \in 1..Len(s)
    BY <1>1
  <2> QED  BY <2>1, SetValueRange
<1>6. m_container' = [m_container EXCEPT ![m] = t] /\ UNCHANGED cmp
  <2>1. m_container' = [m_container EXCEPT ![m] = [s EXCEPT ![i].value = x]] /\ UNCHANGED cmp
    BY <1>1 DEF SetValue, IndInv, TypeOK
  <2>2. t = [s EXCEPT ![i] = e]
    BY <1>1, <1>5
  <2> QED  BY <1>4, <2>1, <2>2
<1>7. Elements' = [Elements EXCEPT ![m] = (@ \ {s[i]}) \cup {e}]
  <2>1. Elements' = [Elements EXCEPT ![m] = Range(t)]
    BY <1>6, OneMapMaps
  <2> QED  BY <1>1, <1>5, <2>1
<1>8. Map!Answer("set", s[i], e, FALSE)
  BY <1>1, <1>3, AnswerMaps DEF SetValue, At
<1> QED  BY <1>2, <1>3, <1>6, <1>7, <1>8 DEF Map!SetValue, Elements

LEMMA EmptyRange == Range(<<>>) = {}
BY DEF Range

LEMMA BecomeMaps ==
    ASSUME IndInv, NEW m \in Maps, NEW s, NEW r, Become(m, s, r)
    PROVE  Map!Become(m, Range(s), r)
<1>1. Elements' = [Elements EXCEPT ![m] = Range(s)]
  BY OneMapMaps DEF Become
<1> QED  BY <1>1 DEF Become, Map!Become, Elements

LEMMA ConstructMaps ==
    ASSUME IndInv, NEW m \in Maps, NEW s \in Containers, NEW r \in Orders,
           Construct(m, s, r) \/ ConstructReady(m, s, r)
    PROVE  Map!Construct(m)
<1>1. s \in Seq(Entry) /\ Range(s) \subseteq Entry
  BY ContainersAreSequences, RangeIs
<1>2. PICK u \in Seq(Entry) :
          /\ Become(m, u, r) /\ StrictlySorted(r, u) /\ Range(u) \subseteq Range(s)
          /\ \A p \in Range(s) : \E q \in Range(u) :
                <<p.key, q.key>> \notin r /\ <<q.key, p.key>> \notin r
  <2>1. CASE Construct(m, s, r)
    <3>1. PICK t \in Sorts(r, s) :
              \E f \in Uniques(r, t) : Become(m, [i \in DOMAIN f |-> t[f[i]]], r)
      BY <2>1 DEF Construct
    <3>2. PICK f \in Uniques(r, t) : Become(m, [i \in DOMAIN f |-> t[f[i]]], r)
      BY <3>1
    <3> QED  BY <3>2, UniqueKeeps
  <2>2. CASE ConstructReady(m, s, r)
    <3>1. Become(m, s, r) /\ StrictlySorted(r, s)
      BY <2>2 DEF ConstructReady, StrictlySorted
    <3>2. \A p \in Range(s) : <<p.key, p.key>> \notin r
      BY <1>1, EntryKey, Irreflexive
    <3> QED  BY <1>1, <3>1, <3>2
  <2> QED  BY <2>1, <2>2
<1>3. Map!Represents(r, Range(u), Range(s))
  BY <1>2, SortedRepresents
<1>4. Map!Become(m, Range(u), r)
  BY <1>2, BecomeMaps
<1>5. Elements'[m] = Range(u) /\ Elements[m] = {}
  <2>1. Elements' = [Elements EXCEPT ![m] = Range(u)]
    BY <1>2, OneMapMaps DEF Become
  <2>2. m_container[m] = <<>>
    BY Vector DEF Construct, ConstructReady
  <2> QED  BY <2>1, <2>2, EmptyRange DEF Elements
<1>6. answer = NoAnswer
      /\ answer' = [call |-> "construct", of |-> Nothing, element |-> Nothing,
                    changed |-> TRUE, given |-> Range(s)]
  BY DEF Construct, ConstructReady, Given, NoAnswer
<1>7. answer'.given = Range(s)
      /\ answer' = [NoAnswer EXCEPT !.call = "construct", !.changed = TRUE, !.given = answer'.given]
  <2>1. answer'.given = Range(s)
    BY <1>6
  <2>2. answer' = [NoAnswer EXCEPT !.call = "construct", !.changed = TRUE, !.given = Range(s)]
    BY DEF Construct, ConstructReady, Given
  <2> QED  BY <2>1, <2>2, Zenon
<1>8. Map!NoAnswer = NoAnswer /\ Map!Entry = Entry
  BY DEF NoAnswer, Map!NoAnswer, Entry, Map!Entry
<1> QED  BY <1>1, <1>3, <1>4, <1>5, <1>6, <1>7, <1>8 DEF Map!Construct, Elements

LEMMA ClearMaps ==
    ASSUME IndInv, NEW m \in Maps, clear(m)
    PROVE  Map!Clear(m)
<1>1. Map!Become(m, Range(<<>>), cmp[m]) /\ Map!Answer("clear", Nothing, Nothing, TRUE)
  BY BecomeMaps, AnswerMaps DEF clear
<1> QED  BY <1>1, EmptyRange DEF Map!Clear

LEMMA MovingMaps ==
    ASSUME IndInv, NEW m \in Maps, NEW n \in Maps
    PROVE  /\ swap(m, n) => Map!Swap(m, n)
           /\ Copy(m, n) => Map!Copy(m, n)
           /\ Move(m, n) => Map!Move(m, n)
<1>1. ASSUME swap(m, n)
      PROVE  Map!Swap(m, n)
  <2>1. Elements' = [Elements EXCEPT ![m] = Elements[n], ![n] = Elements[m]]
    BY <1>1 DEF swap, Elements, IndInv, TypeOK
  <2>2. Map!Answer("swap", Nothing, Nothing, TRUE)
    BY <1>1, AnswerMaps DEF swap
  <2> QED  BY <1>1, <2>1, <2>2 DEF swap, Map!Swap, Elements
<1>2. ASSUME Copy(m, n)
      PROVE  Map!Copy(m, n)
  <2>1. Map!Become(m, Elements[n], cmp[n]) /\ Map!Answer("copy", Nothing, Nothing, TRUE)
    BY <1>2, BecomeMaps, AnswerMaps DEF Copy, Elements
  <2> QED  BY <2>1 DEF Map!Copy, Elements
<1>3. ASSUME Move(m, n)
      PROVE  Map!Move(m, n)
  <2>1. Elements' = [Elements EXCEPT ![m] = Elements[n], ![n] = {}]
    BY <1>3, EmptyRange DEF Move, Elements, IndInv, TypeOK
  <2>2. Map!Answer("move", Nothing, Nothing, TRUE)
    BY <1>3, AnswerMaps DEF Move
  <2> QED  BY <1>3, <2>1, <2>2 DEF Move, Map!Move, Elements
<1> QED  BY <1>1, <1>2, <1>3

LEMMA InitMaps == Init => Map!Init
<1> SUFFICES ASSUME Init PROVE Map!Init
  OBVIOUS
<1>1. [m \in Maps |-> Range(m_container[m])] = [m \in Maps |-> {}]
  BY EmptyRange DEF Init
<1>2. answer = Map!NoAnswer /\ cmp \in [Maps -> Orders]
  BY DEF Init, NoAnswer, Map!NoAnswer
<1> QED  BY <1>1, <1>2 DEF Map!Init

LEMMA NextMaps == IndInv /\ Next => Map!Next
<1> SUFFICES ASSUME IndInv, Next
             PROVE  Map!Next
  OBVIOUS
<1>1. CASE Take
  <2>1. Map!Take
    BY <1>1 DEF Take, Map!Take, NoAnswer, Map!NoAnswer
  <2> QED  BY <2>1 DEF Map!Next
<1>2. Map!Entry = Entry
  BY DEF Entry, Map!Entry
<1>3. ASSUME NEW m \in Maps, NEW e \in Entry,
             insert(m, e) \/ \E pos \in 1..end(m) : emplace_hint(m, pos, e)
      PROVE  Map!Next
  <2>1. Map!Insert(m, e)
    BY <1>3, InsertMaps, HintMaps
  <2> QED  BY <1>2, <2>1 DEF Map!Next
<1>4. ASSUME NEW m \in Maps, NEW k \in Keys, subscript(m, k)
      PROVE  Map!Next
  <2>1. Plain(k) \in Entry
    BY DefaultAssumption DEF Plain, Entry
  <2>2. Map!Insert(m, Plain(k))
    BY <1>4, <2>1, InsertMaps DEF subscript
  <2> QED  BY <1>2, <2>1, <2>2 DEF Map!Next
<1>5. ASSUME NEW m \in Maps, NEW k \in Keys,
             find(m, k) \/ at(m, k) \/ LowerBound(m, k) \/ UpperBound(m, k) \/ EraseKey(m, k)
      PROVE  Map!Next
  <2>1. Map!Find(m, k) \/ Map!LowerBound(m, k) \/ Map!UpperBound(m, k) \/ Map!EraseKey(m, k)
    BY <1>5, FindMaps, LowerBoundMaps, UpperBoundMaps, EraseKeyMaps
  <2> QED  BY <2>1 DEF Map!Next
<1>6. ASSUME NEW m \in Maps, NEW i \in 1..size(m), erase(m, i)
      PROVE  Map!Next
  BY <1>6, EraseMaps DEF Map!Next
<1>7. ASSUME NEW m \in Maps, NEW i \in 1..size(m), NEW x \in Values, SetValue(m, i, x)
      PROVE  Map!Next
  BY <1>7, SetValueMaps DEF Map!Next
<1>8. ASSUME NEW m \in Maps, clear(m)
      PROVE  Map!Next
  BY <1>8, ClearMaps DEF Map!Next
<1>9. ASSUME NEW m \in Maps, NEW s \in Containers, NEW r \in Orders,
              Construct(m, s, r) \/ ConstructReady(m, s, r)
       PROVE  Map!Next
  BY <1>9, ConstructMaps DEF Map!Next
<1>10. ASSUME NEW m \in Maps, NEW n \in Maps, swap(m, n) \/ Copy(m, n) \/ Move(m, n)
       PROVE  Map!Next
  <2>1. Map!Swap(m, n) \/ Map!Copy(m, n) \/ Map!Move(m, n)
    BY <1>10, MovingMaps
  <2> QED  BY <2>1 DEF Map!Next
<1> QED  BY <1>1, <1>3, <1>4, <1>5, <1>6, <1>7, <1>8, <1>9, <1>10 DEF Next

LEMMA StepMaps == IndInv /\ [Next]_vars => [Map!Next]_(Map!vars)
  BY NextMaps DEF vars, Map!vars

\* flat_map is an ordered map: every function does to the set of elements, and
\* returns, what the map's does, for any keys, comparators and capacity.
THEOREM Refinement == Spec => LikeStdMap
<1>1. Init => Map!Init
  BY InitMaps
<1>2. IndInv /\ [Next]_vars => [Map!Next]_(Map!vars)
  BY StepMaps
<1> QED  BY <1>1, <1>2, Invariance, PTL DEF Spec, LikeStdMap, Map!Spec
=============================================================================
