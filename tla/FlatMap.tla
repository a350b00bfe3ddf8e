-------------------------------- MODULE FlatMap --------------------------------
(***************************************************************************)
(* itlib::flat_map and flat_set: an ordered map in a vector that is kept   *)
(* sorted.  The two classes have the same functions, and a flat_set is a   *)
(* flat_map whose elements have nothing but a key (one value).             *)
(*                                                                         *)
(* The vector and the algorithms of the standard library are external:     *)
(* lower_bound and upper_bound find the partition points of a sorted       *)
(* vector, sort is not stable, and emplace throws, changing nothing, when  *)
(* the vector is full (as static_vector's does).                           *)
(***************************************************************************)
EXTENDS Naturals, FiniteSets, TLC, SequencesExt

CONSTANTS Maps, Keys, Values,
          Default,    \* the value of a T()
          Orders,     \* the comparators, as the relations `less' that they compute
          Capacity,   \* how many elements a vector can hold
          MaxGiven,   \* bound: how many elements a constructor is given
          Nothing     \* end(), or an exception

Entry == [key : Keys, value : Values]
Plain(k) == [key |-> k, value |-> Default]

\* What a Compare must be: keys that r does not tell apart are equivalent.
StrictWeakOrder(r) ==
    /\ r \subseteq Keys \X Keys
    /\ \A k, l \in Keys : <<k, l>> \in r => <<l, k>> \notin r
    /\ \A k, l, n \in Keys : <<k, n>> \in r => <<k, l>> \in r \/ <<l, n>> \in r

ASSUME OrdersAssumption == \A r \in Orders : StrictWeakOrder(r)
ASSUME CapacityAssumption == Capacity \in Nat
ASSUME MaxGivenAssumption == MaxGiven \in 0..Capacity
ASSUME DefaultAssumption == Default \in Values
ASSUME NothingAssumption == Nothing \notin Entry

VARIABLES
    m_container,   \* the vector of each map
    cmp,           \* its comparator, the base class
    answer         \* history: the function that was called, the element it was
                   \* given, the element it returned an iterator or a reference
                   \* to, whether it changed a map, and the elements that a
                   \* constructor was given

vars == <<m_container, cmp, answer>>

\* No call, or one whose answer the caller has taken.
NoAnswer == [call |-> "none", of |-> Nothing, element |-> Nothing, changed |-> FALSE, given |-> {}]

TypeOK ==
    /\ m_container \in [Maps -> Seq(Entry)]
    /\ \A m \in Maps : Len(m_container[m]) <= Capacity
    /\ cmp \in [Maps -> Orders]

Init ==
    /\ m_container = [m \in Maps |-> <<>>]
    /\ cmp \in [Maps -> Orders]
    /\ answer = NoAnswer

size(m) == Len(m_container[m])
end(m) == size(m) + 1
At(m, i) == m_container[m][i]
Less(m, k, l) == <<k, l>> \in cmp[m]

\* The element that the iterator i is at.
Deref(m, i) == IF i = end(m) THEN Nothing ELSE At(m, i)

Answer(call, of, e, b) ==
    /\ answer = NoAnswer
    /\ answer' = [call |-> call, of |-> of, element |-> e, changed |-> b, given |-> {}]
Keep(call, of, e) == Answer(call, of, e, FALSE) /\ UNCHANGED <<m_container, cmp>>

\* The caller takes the answer before it calls again.
Take == answer # NoAnswer /\ answer' = NoAnswer /\ UNCHANGED <<m_container, cmp>>
-----------------------------------------------------------------------------
(* The vector.                                                             *)

\* m_container.emplace, or emplace_back.
Place(m, i, e) ==
    \/ /\ size(m) < Capacity
       /\ m_container' = [m_container EXCEPT ![m] = InsertAt(@, i, e)]
       /\ Answer("insert", e, e, TRUE)
       /\ UNCHANGED cmp
    \/ size(m) >= Capacity /\ Keep("insert", e, Nothing)

lower_bound(m, k, i) ==
    i \in 1..end(m) /\ \A j \in 1..size(m) : Less(m, At(m, j).key, k) <=> j < i

upper_bound(m, k, i) ==
    i \in 1..end(m) /\ \A j \in 1..size(m) : Less(m, k, At(m, j).key) <=> j >= i

-----------------------------------------------------------------------------
(* The functions of the class.                                             *)

\* A search that takes the first element that is not less for the key's.
FoundNotLess(m, k, i) == i # end(m)

\* lower_bound found the key itself.
FoundAt(m, k, i) == i # end(m) /\ ~Less(m, k, At(m, i).key)

\* insert(val) and emplace.
insert(m, e) == \E i \in 1..end(m) :
    /\ lower_bound(m, e.key, i)
    /\ \/ FoundAt(m, e.key, i) /\ Keep("insert", e, At(m, i))
       \/ ~FoundAt(m, e.key, i) /\ Place(m, i, e)

\* operator[]
subscript(m, k) == insert(m, Plain(k))

\* A hint that is compared with the element before it only.
FitsAfter(m, pos, k) == pos = 1 \/ Less(m, At(m, pos - 1).key, k)

FitsAt(m, pos, k) ==
    /\ pos = end(m) \/ Less(m, k, At(m, pos).key)
    /\ pos = 1 \/ Less(m, At(m, pos - 1).key, k)

\* insert(pos, val) and emplace_hint: the hint may be any iterator of the map.
emplace_hint(m, pos, e) ==
    IF size(m) = 0 \/ FitsAt(m, pos, e.key) THEN Place(m, pos, e) ELSE insert(m, e)

\* find and count.
find(m, k) == \E i \in 1..end(m) :
    lower_bound(m, k, i) /\ Keep("find", Plain(k), IF FoundAt(m, k, i) THEN At(m, i) ELSE Nothing)

\* at throws for a key that is not there.
at(m, k) == \E i \in 1..end(m) :
    /\ lower_bound(m, k, i)
    /\ Keep("find", Plain(k), IF i = end(m) \/ Less(m, k, At(m, i).key) THEN Nothing ELSE At(m, i))

LowerBound(m, k) == \E i \in 1..end(m) :
    lower_bound(m, k, i) /\ Keep("lower_bound", Plain(k), Deref(m, i))

UpperBound(m, k) == \E i \in 1..end(m) :
    upper_bound(m, k, i) /\ Keep("upper_bound", Plain(k), Deref(m, i))

RemoveElement(m, i) == m_container' = [m_container EXCEPT ![m] = RemoveAt(@, i)] /\ UNCHANGED cmp

\* erase(pos) returns an iterator past the element.
erase(m, i) == RemoveElement(m, i) /\ Answer("erase", At(m, i), Deref(m, i + 1), TRUE)

EraseKey(m, k) == \E i \in 1..end(m) :
    /\ lower_bound(m, k, i)
    /\ \/ FoundAt(m, k, i) /\ RemoveElement(m, i) /\ Answer("erase_key", Plain(k), Nothing, TRUE)
       \/ ~FoundAt(m, k, i) /\ Keep("erase_key", Plain(k), Nothing)

\* The caller writes to the value of an element, by an iterator or a reference.
SetValue(m, i, x) ==
    /\ m_container' = [m_container EXCEPT ![m][i].value = x]
    /\ Answer("set", At(m, i), [key |-> At(m, i).key, value |-> x], FALSE)
    /\ UNCHANGED cmp

Become(m, s, r) == m_container' = [m_container EXCEPT ![m] = s] /\ cmp' = [cmp EXCEPT ![m] = r]

clear(m) == Become(m, <<>>, cmp[m]) /\ Answer("clear", Nothing, Nothing, TRUE)

\* What std::sort may make of s: any permutation in an order by r.
Sorts(r, s) ==
    {t \in {[i \in 1..Len(s) |-> s[p[i]]] : p \in Bijection(1..Len(s), 1..Len(s))} :
        \A i, j \in 1..Len(t) : i < j => <<t[j].key, t[i].key>> \notin r}

\* std::unique, and the erase that follows it, keep the first of the elements
\* of t that are equivalent: the increasing sequence of their positions.
Kept(r, t) == {i \in 1..Len(t) : i = 1 \/ <<t[i - 1].key, t[i].key>> \in r}
Uniques(r, t) ==
    {f \in [1..Cardinality(Kept(r, t)) -> Kept(r, t)] :
        /\ \A i, j \in DOMAIN f : i < j => f[i] < f[j]
        /\ \A k \in Kept(r, t) : \E i \in DOMAIN f : f[i] = k}

Containers == BoundedSeq(Entry, MaxGiven)
Given(s) ==
    /\ answer = NoAnswer
    /\ answer' = [NoAnswer EXCEPT !.call = "construct", !.changed = TRUE, !.given = Range(s)]

\* The constructors from a container, a list or a range; the new map takes the
\* place of an empty one.
Construct(m, s, r) ==
    /\ size(m) = 0
    /\ \E t \in Sorts(r, s) : \E f \in Uniques(r, t) : Become(m, [i \in DOMAIN f |-> t[f[i]]], r)
    /\ Given(s)

\* Those with a flat_map_ready_tag, whose caller gives what is sorted already.
ConstructReady(m, s, r) ==
    /\ size(m) = 0
    /\ \A i, j \in 1..Len(s) : i < j => <<s[i].key, s[j].key>> \in r
    /\ Become(m, s, r)
    /\ Given(s)

swap(m, n) ==
    /\ m_container' = [m_container EXCEPT ![m] = m_container[n], ![n] = m_container[m]]
    /\ cmp' = [cmp EXCEPT ![m] = cmp[n], ![n] = cmp[m]]
    /\ Answer("swap", Nothing, Nothing, TRUE)

\* The copies and moves are those of the vector and of the comparator.
Copy(m, n) == Become(m, m_container[n], cmp[n]) /\ Answer("copy", Nothing, Nothing, TRUE)

Move(m, n) ==
    /\ m # n
    /\ m_container' = [m_container EXCEPT ![m] = m_container[n], ![n] = <<>>]
    /\ cmp' = [cmp EXCEPT ![m] = cmp[n]]
    /\ Answer("move", Nothing, Nothing, TRUE)

Next ==
    \/ Take
    \/ \E m \in Maps :
          \/ \E e \in Entry : insert(m, e) \/ \E pos \in 1..end(m) : emplace_hint(m, pos, e)
          \/ \E k \in Keys :
                \/ subscript(m, k) \/ find(m, k) \/ at(m, k)
                \/ LowerBound(m, k) \/ UpperBound(m, k) \/ EraseKey(m, k)
          \/ \E i \in 1..size(m) : erase(m, i) \/ \E x \in Values : SetValue(m, i, x)
          \/ clear(m)
          \/ \E s \in Containers, r \in Orders : Construct(m, s, r) \/ ConstructReady(m, s, r)
          \/ \E n \in Maps : swap(m, n) \/ Copy(m, n) \/ Move(m, n)

Spec == Init /\ [][Next]_vars

-----------------------------------------------------------------------------
(* Correctness.                                                            *)

\* Every vector is strictly sorted by the comparator of its own map, whatever
\* the hints, and wherever vectors and comparators were copied, moved or
\* swapped to.
Sorted ==
    \A m \in Maps : \A i, j \in 1..size(m) : i < j => Less(m, At(m, i).key, At(m, j).key)

\* Each operation does to the set of elements, and returns, what std::map's
\* would: no two elements are equivalent, none is lost, what a hint says makes
\* no difference, and an iterator that is returned is at the right element.
Map == INSTANCE OrderedMap WITH pairs <- [m \in Maps |-> Range(m_container[m])]
LikeStdMap == Map!Spec
=============================================================================
