-------------------------------- MODULE FlatSet --------------------------------
(***************************************************************************)
(* itlib::flat_set: an ordered set in a vector that is kept sorted.  Its   *)
(* functions are those of flat_map, made of the same calls in the same     *)
(* order; where flat_map's elements are pairs and their keys are compared, *)
(* a set's element is the key.  So the actions are those of FlatMap on     *)
(* elements with nothing but a key: there is one value.                    *)
(***************************************************************************)
EXTENDS Naturals, FiniteSets, TLC, SequencesExt

CONSTANTS Sets, Keys,
          Orders,     \* the comparators, as the relations `less' that they compute
          Capacity,   \* how many elements a vector can hold
          Nothing     \* end()

VARIABLES m_container, cmp,
          answer      \* history, as in FlatMap

vars == <<m_container, cmp, answer>>

Unit == "unit"
Map == INSTANCE FlatMap WITH Maps <- Sets, Values <- {Unit}, Default <- Unit, MaxGiven <- Capacity

Element(k) == [key |-> k, value |-> Unit]
Elements(s) == [i \in DOMAIN s |-> Element(s[i])]

Init == Map!Init

size(m) == Map!size(m)

\* insert(val), emplace
insert(m, k) == Map!insert(m, Element(k))

\* insert(pos, val), emplace_hint
emplace_hint(m, pos, k) == Map!emplace_hint(m, pos, Element(k))

\* find, count
find(m, k) == Map!find(m, k)

lower_bound(m, k) == Map!LowerBound(m, k)
upper_bound(m, k) == Map!UpperBound(m, k)

erase(m, i) == Map!erase(m, i)
EraseKey(m, k) == Map!EraseKey(m, k)

clear(m) == Map!clear(m)

\* A constructor that does not sort.
ConstructAsGiven(m, s, r) ==
    size(m) = 0 /\ Map!Become(m, Elements(s), r) /\ Map!Given(Elements(s))

\* The constructors that sort what they are given, and those that do not.
Construct(m, s, r) == Map!Construct(m, Elements(s), r)
ConstructReady(m, s, r) == Map!ConstructReady(m, Elements(s), r)

\* The defaulted copies and moves, and swap.
Copy(m, n) == Map!Copy(m, n)
Move(m, n) == Map!Move(m, n)
swap(m, n) == Map!swap(m, n)

Next ==
    \/ Map!Take
    \/ \E m \in Sets :
          \/ \E k \in Keys :
                \/ insert(m, k) \/ find(m, k) \/ EraseKey(m, k)
                \/ lower_bound(m, k) \/ upper_bound(m, k)
                \/ \E pos \in 1..size(m) + 1 : emplace_hint(m, pos, k)
          \/ \E i \in 1..size(m) : erase(m, i)
          \/ clear(m)
          \/ \E s \in BoundedSeq(Keys, Capacity), r \in Orders : Construct(m, s, r) \/ ConstructReady(m, s, r)
          \/ \E n \in Sets : Copy(m, n) \/ Move(m, n) \/ swap(m, n)

Spec == Init /\ [][Next]_vars

-----------------------------------------------------------------------------
(* Correctness.                                                            *)

\* Each function does to the set of elements, and returns, what std::set's
\* would: no two elements are equivalent, what was given and is not equivalent
\* to an earlier element is there, whatever the hints and the comparators.
LikeStdSet == Map!LikeStdMap
=============================================================================
