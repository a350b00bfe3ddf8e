------------------------------ MODULE OrderedMap ------------------------------
(***************************************************************************)
(* What flat_map promises: the std::map of its elements, which holds no    *)
(* two elements whose keys its order does not tell apart.  A map is the    *)
(* set of its elements: there are no positions here, and the element that  *)
(* an iterator or a reference returned to the caller denotes is itself the *)
(* answer.  A flat_set is a flat_map of elements with nothing but a key.   *)
(***************************************************************************)
EXTENDS Naturals, FiniteSets

CONSTANTS Maps, Keys, Values,
          Default,    \* the value of a T()
          Orders,     \* the comparators, as the relations `less' that they compute
          Capacity,   \* how many elements a map can hold before it throws
          Nothing     \* end(), or an exception

Entry == [key : Keys, value : Values]
Plain(k) == [key |-> k, value |-> Default]

VARIABLES pairs,      \* the elements of each map
          cmp,        \* its comparator
          answer      \* the function that was called, the element it was given,
                      \* the element it returned, whether it changed a map, and
                      \* the elements that a constructor was given

vars == <<pairs, cmp, answer>>

\* No call, or one whose answer the caller has taken.
NoAnswer == [call |-> "none", of |-> Nothing, element |-> Nothing, changed |-> FALSE, given |-> {}]

Init ==
    /\ pairs = [m \in Maps |-> {}]
    /\ cmp \in [Maps -> Orders]
    /\ answer = NoAnswer

Less(m, k, l) == <<k, l>> \in cmp[m]
Equivalent(m, k, l) == ~Less(m, k, l) /\ ~Less(m, l, k)

Answer(call, of, e, b) ==
    /\ answer = NoAnswer
    /\ answer' = [call |-> call, of |-> of, element |-> e, changed |-> b, given |-> {}]
Keep(call, of, e) == Answer(call, of, e, FALSE) /\ UNCHANGED <<pairs, cmp>>
Missing(m, k) == \A p \in pairs[m] : ~Equivalent(m, p.key, k)

\* e is the first of the elements of S; Nothing, if S is empty.
First(m, S, e) ==
    \/ S = {} /\ e = Nothing
    \/ e \in S /\ \A p \in S : ~Less(m, p.key, e.key)
-----------------------------------------------------------------------------
Insert(m, e) ==
    \/ \E p \in pairs[m] : Keep("insert", e, p) /\ Equivalent(m, p.key, e.key)
    \/ /\ Answer("insert", e, e, TRUE)
       /\ Missing(m, e.key) /\ Cardinality(pairs[m]) < Capacity
       /\ pairs' = [pairs EXCEPT ![m] = @ \cup {e}]
       /\ UNCHANGED cmp
    \/ Keep("insert", e, Nothing) /\ Missing(m, e.key) /\ Cardinality(pairs[m]) >= Capacity

Find(m, k) ==
    \/ \E p \in pairs[m] : Keep("find", Plain(k), p) /\ Equivalent(m, p.key, k)
    \/ Keep("find", Plain(k), Nothing) /\ Missing(m, k)

LowerBound(m, k) == \E e \in Entry \cup {Nothing} :
    Keep("lower_bound", Plain(k), e) /\ First(m, {p \in pairs[m] : ~Less(m, p.key, k)}, e)

UpperBound(m, k) == \E e \in Entry \cup {Nothing} :
    Keep("upper_bound", Plain(k), e) /\ First(m, {p \in pairs[m] : Less(m, k, p.key)}, e)

EraseKey(m, k) ==
    \/ /\ Answer("erase_key", Plain(k), Nothing, TRUE)
       /\ \E p \in pairs[m] :
             /\ Equivalent(m, p.key, k)
             /\ pairs' = [pairs EXCEPT ![m] = @ \ {p}]
       /\ UNCHANGED cmp
    \/ Keep("erase_key", Plain(k), Nothing) /\ Missing(m, k)

\* Erasing an element returns the next one.
Erase(m) == \E p \in pairs[m], e \in Entry \cup {Nothing} :
    /\ Answer("erase", p, e, TRUE)
    /\ First(m, {q \in pairs[m] : Less(m, p.key, q.key)}, e)
    /\ pairs' = [pairs EXCEPT ![m] = @ \ {p}]
    /\ UNCHANGED cmp

SetValue(m, x) == \E p \in pairs[m] :
    LET e == [key |-> p.key, value |-> x]
    IN  /\ Answer("set", p, e, FALSE)
        /\ pairs' = [pairs EXCEPT ![m] = (@ \ {p}) \cup {e}]
        /\ UNCHANGED cmp

\* The map becomes the elements S under the order r.
Become(m, S, r) ==
    /\ pairs' = [pairs EXCEPT ![m] = S]
    /\ cmp' = [cmp EXCEPT ![m] = r]

Clear(m) == Answer("clear", Nothing, Nothing, TRUE) /\ Become(m, {}, cmp[m])

\* Of the given elements that r does not tell apart, an unspecified one is kept.
Represents(r, S, G) ==
    /\ S \subseteq G
    /\ \A p \in G : \E q \in S : <<p.key, q.key>> \notin r /\ <<q.key, p.key>> \notin r
    /\ \A p, q \in S : p # q => <<p.key, q.key>> \in r \/ <<q.key, p.key>> \in r

Construct(m) ==
    /\ answer = NoAnswer
    /\ answer' = [NoAnswer EXCEPT !.call = "construct", !.changed = TRUE, !.given = answer'.given]
    /\ answer'.given \subseteq Entry
    /\ pairs[m] = {}
    /\ \E r \in Orders : Become(m, pairs'[m], r) /\ Represents(r, pairs'[m], answer'.given)

Swap(m, n) ==
    /\ Answer("swap", Nothing, Nothing, TRUE)
    /\ pairs' = [pairs EXCEPT ![m] = pairs[n], ![n] = pairs[m]]
    /\ cmp' = [cmp EXCEPT ![m] = cmp[n], ![n] = cmp[m]]

Copy(m, n) == Answer("copy", Nothing, Nothing, TRUE) /\ Become(m, pairs[n], cmp[n])

Move(m, n) ==
    /\ m # n
    /\ Answer("move", Nothing, Nothing, TRUE)
    /\ pairs' = [pairs EXCEPT ![m] = pairs[n], ![n] = {}]
    /\ cmp' = [cmp EXCEPT ![m] = cmp[n]]

Take == answer # NoAnswer /\ answer' = NoAnswer /\ UNCHANGED <<pairs, cmp>>

Next ==
    \/ Take
    \/ \E m \in Maps :
          \/ Construct(m) \/ Clear(m) \/ Erase(m)
          \/ \E n \in Maps : Swap(m, n) \/ Copy(m, n) \/ Move(m, n)
          \/ \E k \in Keys :
                Find(m, k) \/ LowerBound(m, k) \/ UpperBound(m, k) \/ EraseKey(m, k)
          \/ \E e \in Entry : Insert(m, e)
          \/ \E x \in Values : SetValue(m, x)

Spec == Init /\ [][Next]_vars
=============================================================================
