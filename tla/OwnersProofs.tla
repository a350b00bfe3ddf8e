----------------------------- MODULE OwnersProofs -----------------------------
(***************************************************************************)
(* Proofs about the components of Owners, for any objects, values, blocks, *)
(* kinds, allocators, frames and threads that satisfy the assumptions.     *)
(***************************************************************************)
EXTENDS Owners, Integers, SequenceTheorems, FiniteSetTheorems, WellFoundedInduction, TLAPS

-----------------------------------------------------------------------------
(***************************************************************************)
(* expected: the flag says what is alive, which is what was given.         *)
(***************************************************************************)
Union == [Expected!Members -> Expected!Alive \cup {Null}]

\* What is alive in u is what the flag b says.
ExpectedGood(u, b) == \A m \in Expected!Members : u[m] # Null <=> m = Expected!Held(b) /\ e_kind[m] # "void"

UnionTypeOK ==
    /\ e_kind \in Expected!Kinds
    /\ e_exists \subseteq Objects /\ e_abandoned \subseteq e_exists
    /\ e_union \in [Objects -> Union]
    /\ e_has_value \in [Objects -> BOOLEAN]

ExpectedIndInv == UnionTypeOK /\ Expected!HoldsOneOfTwo

-----------------------------------------------------------------------------
(* Constructing, destroying and moving from a member.                      *)

LEMMA HeldMember == ASSUME NEW b \in BOOLEAN PROVE Expected!Held(b) \in Expected!Members
  BY DEF Expected!Held, Expected!Members

LEMMA ConstructedGood ==
    ASSUME NEW u \in Union, NEW b \in BOOLEAN, NEW c \in Expected!Alive \cup {Null},
           e_kind[Expected!Held(b)] # "void" => c # Null,
           \A m \in Expected!Members : m # Expected!Held(b) \/ e_kind[m] = "void" => u[m] = Null
    PROVE  Expected!Constructed(u, Expected!Held(b), c) \in Union /\ ExpectedGood(Expected!Constructed(u, Expected!Held(b), c), b)
<1>1. Expected!Held(b) \in Expected!Members
  BY HeldMember
<1> QED
  BY <1>1 DEF Expected!Constructed, ExpectedGood, Union

LEMMA EmptyGood ==
    /\ Expected!Empty \in Union
    /\ \A m \in Expected!Members : Expected!Empty[m] = Null
  BY DEF Expected!Empty, Union

LEMMA DestroyedEmpty ==
    ASSUME NEW u \in Union, NEW b \in BOOLEAN, ExpectedGood(u, b)
    PROVE  Expected!Destroyed(u, Expected!Held(b)) = Expected!Empty
<1>1. Expected!Held(b) \in Expected!Members
  BY HeldMember
<1>2. \A m \in Expected!Members : Expected!Destroyed(u, Expected!Held(b))[m] = Null
  BY <1>1 DEF Expected!Destroyed, ExpectedGood, Union
<1>3. Expected!Destroyed(u, Expected!Held(b)) \in Union
  BY <1>1 DEF Expected!Destroyed, Union
<1> QED
  BY <1>2, <1>3 DEF Expected!Empty, Union

LEMMA MovedFromGood ==
    ASSUME Null \notin Expected!Alive, NEW u \in Union, NEW b \in BOOLEAN, ExpectedGood(u, b)
    PROVE  Expected!MovedFrom(u, Expected!Held(b)) \in Union /\ ExpectedGood(Expected!MovedFrom(u, Expected!Held(b)), b)
<1>1. Expected!Held(b) \in Expected!Members
  BY HeldMember
<1>2. CASE e_kind[Expected!Held(b)] = "object"
  <2>1. Moved \in Expected!Alive /\ Moved # Null
    BY DEF Expected!Alive
  <2>2. Expected!MovedFrom(u, Expected!Held(b)) = [u EXCEPT ![Expected!Held(b)] = Moved]
    BY <1>2 DEF Expected!MovedFrom
  <2> QED
    BY <1>1, <1>2, <2>1, <2>2 DEF ExpectedGood, Union
<1>3. CASE e_kind[Expected!Held(b)] # "object"
  BY <1>3 DEF Expected!MovedFrom
<1> QED
  BY <1>2, <1>3

-----------------------------------------------------------------------------
(* Steps.                                                                  *)

\* What an object that can be used has.
LEMMA UsableGood ==
    ASSUME ExpectedIndInv, NEW x \in Expected!Usable
    PROVE  /\ x \in Objects /\ x \in e_exists /\ x \notin e_abandoned
           /\ e_union[x] \in Union /\ e_has_value[x] \in BOOLEAN /\ ExpectedGood(e_union[x], e_has_value[x])
           /\ e_union[x][Expected!Holds(x)] \in Expected!Alive \cup {Null}
           /\ e_kind[Expected!Holds(x)] # "void" => e_union[x][Expected!Holds(x)] # Null
<1>1. /\ x \in Objects /\ x \in e_exists /\ x \notin e_abandoned
      /\ e_union[x] \in Union /\ e_has_value[x] \in BOOLEAN
  BY DEF ExpectedIndInv, UnionTypeOK, Expected!Usable, Union
<1>2. Expected!Truthful(x)
  BY <1>1 DEF ExpectedIndInv, Expected!HoldsOneOfTwo
<1>3. ExpectedGood(e_union[x], e_has_value[x])
  BY <1>1, <1>2 DEF Expected!Truthful, ExpectedGood, Expected!Holds
<1>4. Expected!Holds(x) \in Expected!Members
  BY <1>1, HeldMember DEF Expected!Holds
<1> QED
  BY <1>1, <1>3, <1>4 DEF ExpectedGood, Expected!Holds, Union

\* And what one that does not exist has.
LEMMA NewEmpty ==
    ASSUME ExpectedIndInv, NEW x \in Objects, x \notin e_exists
    PROVE  e_union[x] = Expected!Empty /\ x \notin e_abandoned
<1>1. x \notin e_abandoned
  BY DEF ExpectedIndInv, UnionTypeOK
<1>2. \A m \in Expected!Members : e_union[x][m] = Null
  BY <1>1 DEF ExpectedIndInv, Expected!HoldsOneOfTwo, Expected!Truthful
<1> QED
  BY <1>1, <1>2 DEF ExpectedIndInv, UnionTypeOK, Union, Expected!Empty

\* One object, or one and another that it is moved from, changes.
LEMMA ExpectedStep ==
    ASSUME ExpectedIndInv, NEW x \in Objects, e_kind' = e_kind,
           e_exists' \subseteq Objects, e_abandoned' \subseteq e_exists',
           e_union' \in [Objects -> Union], e_has_value' \in [Objects -> BOOLEAN],
           \/ x \in e_exists' /\ ExpectedGood(e_union'[x], e_has_value'[x])
           \/ e_union'[x] = Expected!Empty /\ (x \notin e_exists' \/ x \in e_abandoned'),
           \A y \in Objects \ {x} :
               /\ y \in e_exists' <=> y \in e_exists
               /\ y \in e_abandoned' <=> y \in e_abandoned
               /\ e_has_value'[y] = e_has_value[y]
               /\ \/ e_union'[y] = e_union[y]
                  \/ y \in e_exists /\ ExpectedGood(e_union'[y], e_has_value[y])
    PROVE  ExpectedIndInv'
<1>1. UnionTypeOK'
  BY DEF ExpectedIndInv, UnionTypeOK, Union
<1>2. ASSUME NEW y \in Objects, y \in e_exists', ExpectedGood(e_union'[y], e_has_value'[y])
      PROVE  Expected!Truthful(y)'
  BY <1>2 DEF Expected!Truthful, ExpectedGood, Expected!Holds
<1>3. Expected!Truthful(x)' \/ (x \in e_abandoned' /\ e_union'[x] = Expected!Empty')
  <2>1. CASE x \notin e_exists' /\ e_union'[x] = Expected!Empty
    BY <2>1, EmptyGood DEF Expected!Truthful
  <2> QED
    BY <1>2, <2>1 DEF Expected!Empty
<1>4. ASSUME NEW y \in Objects \ {x}
      PROVE  Expected!Truthful(y)' \/ (y \in e_abandoned' /\ e_union'[y] = Expected!Empty')
  <2>1. CASE e_union'[y] = e_union[y]
    <3>1. Expected!Truthful(y)' <=> Expected!Truthful(y)
      BY <2>1 DEF Expected!Truthful, Expected!Holds
    <3> QED
      BY <2>1, <3>1 DEF ExpectedIndInv, Expected!HoldsOneOfTwo, Expected!Empty
  <2> QED
    BY <1>2, <2>1
<1> QED
  BY <1>1, <1>3, <1>4 DEF ExpectedIndInv, Expected!HoldsOneOfTwo

\* Likewise, as Set has it,
LEMMA SetStep ==
    ASSUME ExpectedIndInv, NEW x \in Objects, NEW u \in Union, NEW b \in BOOLEAN, Expected!Set(x, u, b),
           \/ /\ Expected!New(x) \/ Expected!Stays(x)
              /\ ExpectedGood(u, b)
           \/ Expected!Abandons(x) /\ u = Expected!Empty
           \/ e_exists' = e_exists \ {x} /\ x \notin e_abandoned /\ UNCHANGED e_abandoned /\ u = Expected!Empty
    PROVE  ExpectedIndInv'
<1>1. /\ e_union' \in [Objects -> Union] /\ e_has_value' \in [Objects -> BOOLEAN]
      /\ e_union'[x] = u /\ e_has_value'[x] = b
      /\ \A y \in Objects \ {x} : e_union'[y] = e_union[y] /\ e_has_value'[y] = e_has_value[y]
  BY DEF Expected!Set, ExpectedIndInv, UnionTypeOK, Union
<1>2. e_exists' \subseteq Objects /\ e_abandoned' \subseteq e_exists'
  BY DEF Expected!New, Expected!Stays, Expected!Abandons, Expected!Usable, ExpectedIndInv,
     UnionTypeOK
<1>3. \/ x \in e_exists' /\ ExpectedGood(e_union'[x], e_has_value'[x])
      \/ e_union'[x] = Expected!Empty /\ (x \notin e_exists' \/ x \in e_abandoned')
  BY <1>1 DEF Expected!New, Expected!Stays, Expected!Abandons, Expected!Usable
<1>4. \A y \in Objects \ {x} : (y \in e_exists' <=> y \in e_exists) /\ (y \in e_abandoned' <=> y \in e_abandoned)
  BY DEF Expected!New, Expected!Stays, Expected!Abandons
<1> QED
  BY <1>1, <1>2, <1>3, <1>4, ExpectedStep DEF Expected!Set

\* and as SetFrom does.
LEMMA SetFromStep ==
    ASSUME Null \notin Expected!Alive, ExpectedIndInv, NEW x \in Objects, NEW y \in Expected!Usable, x # y,
           NEW u \in Union, Expected!SetFrom(x, u, e_has_value[y], y), Expected!New(x) \/ Expected!Stays(x),
           ExpectedGood(u, e_has_value[y])
    PROVE  ExpectedIndInv'
<1>1. y \in Objects /\ y \in e_exists /\ e_has_value[y] \in BOOLEAN
  BY UsableGood
<1>2. Expected!MovedFrom(e_union[y], Expected!Holds(y)) \in Union /\ ExpectedGood(Expected!MovedFrom(e_union[y], Expected!Holds(y)), e_has_value[y])
  BY UsableGood, MovedFromGood DEF Expected!Holds
<1>3. /\ e_union' \in [Objects -> Union] /\ e_has_value' \in [Objects -> BOOLEAN]
      /\ e_union'[x] = u /\ e_has_value'[x] = e_has_value[y]
      /\ e_union'[y] = Expected!MovedFrom(e_union[y], Expected!Holds(y))
      /\ \A z \in Objects \ {x} : e_has_value'[z] = e_has_value[z] /\ (z # y => e_union'[z] = e_union[z])
  BY <1>1, <1>2 DEF Expected!SetFrom, ExpectedIndInv, UnionTypeOK, Union
<1>4. /\ e_exists' \subseteq Objects /\ e_abandoned' \subseteq e_exists' /\ x \in e_exists'
      /\ \A z \in Objects \ {x} : (z \in e_exists' <=> z \in e_exists) /\ (z \in e_abandoned' <=> z \in e_abandoned)
  BY DEF Expected!New, Expected!Stays, Expected!Usable, ExpectedIndInv, UnionTypeOK
<1>5. \A z \in Objects \ {x} : e_union'[z] = e_union[z] \/ (z \in e_exists /\ ExpectedGood(e_union'[z], e_has_value[z]))
  BY <1>1, <1>2, <1>3
<1> QED
  BY <1>3, <1>4, <1>5, ExpectedStep DEF Expected!SetFrom

\* An assignment leaves what it should, whichever of the four cases it is.
LEMMA ReplacedGood ==
    ASSUME ExpectedIndInv, NEW x \in Expected!Usable, NEW y \in Expected!Usable
    PROVE  Expected!Replaced(x, y) \in Union /\ ExpectedGood(Expected!Replaced(x, y), e_has_value[y])
<1> DEFINE b == e_has_value[y]
           c == e_union[y][Expected!Held(b)]
<1>1. b \in BOOLEAN /\ c \in Expected!Alive \cup {Null} /\ (e_kind[Expected!Held(b)] # "void" => c # Null)
  BY UsableGood DEF Expected!Holds
<1>2. e_union[x] \in Union /\ e_has_value[x] \in BOOLEAN /\ ExpectedGood(e_union[x], e_has_value[x])
  BY UsableGood
<1>3. CASE Expected!Holds(x) = Expected!Holds(y)
  <2>1. Expected!Replaced(x, y) = Expected!Constructed(e_union[x], Expected!Held(b), c)
    BY <1>3 DEF Expected!Replaced, Expected!Holds
  <2>2. \A m \in Expected!Members : m # Expected!Held(b) \/ e_kind[m] = "void" => e_union[x][m] = Null
    BY <1>2, <1>3 DEF ExpectedGood, Expected!Holds
  <2> QED
    BY <1>1, <1>2, <2>1, <2>2, ConstructedGood
<1>4. CASE Expected!Holds(x) # Expected!Holds(y)
  <2>1. Expected!Destroyed(e_union[x], Expected!Holds(x)) = Expected!Empty
    BY <1>2, DestroyedEmpty DEF Expected!Holds
  <2>2. Expected!Replaced(x, y) = Expected!Constructed(Expected!Empty, Expected!Held(b), c)
    BY <1>4, <2>1 DEF Expected!Replaced, Expected!Holds
  <2> QED
    BY <1>1, <2>2, EmptyGood, ConstructedGood
<1> QED
  BY <1>3, <1>4

LEMMA ExpectedInitInv == ASSUME Expected!Init PROVE ExpectedIndInv
<1>1. \A x \in Objects : e_union[x] = Expected!Empty
  BY DEF Expected!Init
<1>2. UnionTypeOK
  BY EmptyGood DEF Expected!Init, UnionTypeOK, Union
<1>3. Expected!HoldsOneOfTwo
  BY <1>1, EmptyGood DEF Expected!Init, Expected!HoldsOneOfTwo, Expected!Truthful
<1> QED
  BY <1>2, <1>3 DEF ExpectedIndInv

\* One step per group of functions.
LEMMA ConstructInv ==
    ASSUME Null \notin Expected!Alive, ExpectedIndInv, NEW x \in Objects,
           \/ \E c \in Values : Expected!ConstructValue(x, c) \/ Expected!ConstructError(x, c)
           \/ \E y \in Objects : Expected!ConstructMove(x, y) \/ Expected!ConstructCopy(x, y)
    PROVE  ExpectedIndInv'
<1>1. ASSUME NEW c \in Values, NEW b \in BOOLEAN, Expected!New(x), Expected!Set(x, Expected!Constructed(Expected!Empty, Expected!Held(b), c), b)
      PROVE  ExpectedIndInv'
  <2>1. c \in Expected!Alive \cup {Null} /\ c # Null
    BY DEF Expected!Alive
  <2> QED
    BY <1>1, <2>1, EmptyGood, ConstructedGood, SetStep
<1>2. Expected!Held(TRUE) = "value" /\ Expected!Held(FALSE) = "error"
  BY DEF Expected!Held
<1>3. ASSUME NEW y \in Expected!Usable
      PROVE  LET u == Expected!Constructed(Expected!Empty, Expected!Holds(y), e_union[y][Expected!Holds(y)]) IN
             u \in Union /\ ExpectedGood(u, e_has_value[y]) /\ e_has_value[y] \in BOOLEAN
  BY UsableGood, EmptyGood, ConstructedGood DEF Expected!Holds
<1>4. ASSUME NEW y \in Objects, Expected!ConstructMove(x, y)
      PROVE  ExpectedIndInv'
  <2>1. y \in Expected!Usable /\ x # y
    BY <1>4, UsableGood DEF Expected!ConstructMove, Expected!New
  <2> QED
    BY <1>3, <1>4, <2>1, SetFromStep DEF Expected!ConstructMove
<1>5. ASSUME NEW y \in Objects, Expected!ConstructCopy(x, y)
      PROVE  ExpectedIndInv'
  BY <1>3, <1>5, SetStep DEF Expected!ConstructCopy
<1> QED
  BY <1>1, <1>2, <1>4, <1>5 DEF Expected!ConstructValue, Expected!ConstructError

LEMMA AssignInv ==
    ASSUME Null \notin Expected!Alive, ExpectedIndInv, NEW x \in Objects, NEW y \in Objects,
           Expected!AssignMove(x, y) \/ Expected!AssignCopy(x, y) \/ Expected!AssignCopyThrows(x, y)
    PROVE  ExpectedIndInv'
<1>1. CASE Expected!AssignMove(x, y)
  <2>1. x \in Expected!Usable /\ y \in Expected!Usable /\ x # y
    BY <1>1 DEF Expected!AssignMove, Expected!Stays
  <2> QED
    BY <1>1, <2>1, ReplacedGood, SetFromStep DEF Expected!AssignMove
<1>2. CASE Expected!AssignCopy(x, y)
  <2>1. x \in Expected!Usable /\ y \in Expected!Usable
    BY <1>2 DEF Expected!AssignCopy, Expected!Stays
  <2> QED
    BY <1>2, <2>1, ReplacedGood, UsableGood, SetStep DEF Expected!AssignCopy
<1>3. CASE Expected!AssignCopyThrows(x, y)
  <2>1. x \in Expected!Usable /\ ExpectedGood(e_union[x], e_has_value[x]) /\ e_union[x] \in Union
    BY <1>3, UsableGood DEF Expected!AssignCopyThrows, Expected!Abandons
  <2>2. \A m \in Expected!Members : e_union[x][m] = Null
    BY <1>3, <2>1 DEF Expected!AssignCopyThrows, ExpectedGood, Expected!Held
  <2>3. e_union[x] = Expected!Empty
    BY <2>1, <2>2 DEF Union, Expected!Empty
  <2> QED
    BY <1>3, <2>1, <2>3, SetStep DEF Expected!AssignCopyThrows
<1> QED
  BY <1>1, <1>2, <1>3

LEMMA ReplaceInv ==
    ASSUME Null \notin Expected!Alive, ExpectedIndInv, NEW x \in Objects,
           Expected!Destroy(x) \/ Expected!clear(x) \/ Expected!EmplaceThrows(x) \/ \E c \in Values : Expected!emplace(x, c)
    PROVE  ExpectedIndInv'
<1>1. x \in Expected!Usable /\ x \notin e_abandoned
  BY DEF Expected!Destroy, Expected!clear, Expected!EmplaceThrows, Expected!emplace,
     Expected!Stays, Expected!Abandons, Expected!Usable
<1>2. Expected!Destroyed(e_union[x], Expected!Holds(x)) = Expected!Empty /\ e_has_value[x] \in BOOLEAN
  BY <1>1, UsableGood, DestroyedEmpty DEF Expected!Holds
<1>3. e_kind["error"] = "void" => ExpectedGood(Expected!Empty, FALSE)
  BY EmptyGood DEF ExpectedGood, Expected!Held
<1>4. CASE Expected!Destroy(x)
  BY <1>1, <1>2, <1>4, EmptyGood, SetStep DEF Expected!Destroy
<1>5. CASE Expected!clear(x)
  BY <1>1, <1>2, <1>3, <1>5, EmptyGood, SetStep DEF Expected!clear
<1>6. CASE Expected!EmplaceThrows(x)
  <2>1. CASE e_kind["error"] = "void"
    BY <1>1, <1>2, <1>3, <1>6, <2>1, EmptyGood, SetStep DEF Expected!EmplaceThrows
  <2>2. CASE e_kind["error"] # "void"
    BY <1>1, <1>2, <1>6, <2>2, EmptyGood, SetStep DEF Expected!EmplaceThrows
  <2> QED
    BY <2>1, <2>2
<1>7. ASSUME NEW c \in Values, Expected!emplace(x, c)
      PROVE  ExpectedIndInv'
  <2>1. c \in Expected!Alive \cup {Null} /\ c # Null /\ Expected!Held(TRUE) = "value"
    BY DEF Expected!Alive, Expected!Held
  <2>2. Expected!Constructed(Expected!Empty, "value", c) \in Union /\ ExpectedGood(Expected!Constructed(Expected!Empty, "value", c), TRUE)
    BY <2>1, EmptyGood, ConstructedGood
  <2> QED
    BY <1>2, <1>7, <2>2, SetStep DEF Expected!emplace
<1> QED
  BY <1>4, <1>5, <1>6, <1>7

LEMMA AccessInv ==
    ASSUME Null \notin Expected!Alive, ExpectedIndInv, NEW x \in Objects,
           Expected!take(x) \/ Expected!value_or(x) \/ \E c \in Values : Expected!value(x, c) \/ Expected!error(x, c)
    PROVE  ExpectedIndInv'
<1>1. x \in Expected!Usable
  BY DEF Expected!take, Expected!value_or, Expected!value, Expected!error, Expected!Stays
<1>2. /\ e_union[x] \in Union /\ e_has_value[x] \in BOOLEAN /\ ExpectedGood(e_union[x], e_has_value[x])
      /\ Expected!Held(TRUE) = "value" /\ Expected!Held(FALSE) = "error"
  BY <1>1, UsableGood DEF Expected!Held
<1>3. \A m \in Expected!Members : m # Expected!Held(e_has_value[x]) \/ e_kind[m] = "void" => e_union[x][m] = Null
  BY <1>2 DEF ExpectedGood
<1>4. ASSUME NEW c \in Values, Expected!value(x, c) \/ Expected!error(x, c)
      PROVE  ExpectedIndInv'
  <2>1. c \in Expected!Alive \cup {Null} /\ c # Null
    BY DEF Expected!Alive
  <2>2. LET u == Expected!Constructed(e_union[x], Expected!Held(e_has_value[x]), c)
        IN  u \in Union /\ ExpectedGood(u, e_has_value[x])
    BY <1>2, <1>3, <2>1, ConstructedGood
  <2>3. CASE Expected!value(x, c)
    BY <1>2, <2>2, <2>3, SetStep DEF Expected!value
  <2>4. CASE Expected!error(x, c)
    BY <1>2, <2>2, <2>4, SetStep DEF Expected!error
  <2> QED
    BY <1>4, <2>3, <2>4
<1>5. CASE Expected!take(x)
  <2>1. LET u == Expected!MovedFrom(e_union[x], Expected!Holds(x))
        IN  u \in Union /\ ExpectedGood(u, e_has_value[x])
    BY <1>2, MovedFromGood DEF Expected!Holds
  <2> QED
    BY <1>2, <1>5, <2>1, SetStep DEF Expected!take
<1>6. CASE Expected!value_or(x)
  <2>1. CASE ~e_has_value[x]
    BY <1>2, <1>6, <2>1, SetStep DEF Expected!value_or
  <2> QED
    BY <1>5, <1>6, <2>1 DEF Expected!value_or
<1> QED
  BY <1>4, <1>5, <1>6

LEMMA ExpectedNextInv ==
    ASSUME Null \notin Expected!Alive, ExpectedIndInv, [Expected!Next]_(Expected!vars)
    PROVE  ExpectedIndInv'
<1>1. CASE UNCHANGED Expected!vars
  BY <1>1 DEF Expected!vars, ExpectedIndInv, UnionTypeOK, Expected!HoldsOneOfTwo,
     Expected!Truthful, Expected!Holds
<1>2. CASE Expected!Next
  <2>1. PICK x \in Objects :
            \/ \E c \in Values :
                  \/ Expected!ConstructValue(x, c) \/ Expected!ConstructError(x, c) \/ Expected!emplace(x, c)
                  \/ Expected!value(x, c) \/ Expected!error(x, c)
            \/ \E y \in Objects :
                  \/ Expected!ConstructMove(x, y) \/ Expected!ConstructCopy(x, y)
                  \/ Expected!AssignMove(x, y) \/ Expected!AssignCopy(x, y) \/ Expected!AssignCopyThrows(x, y)
            \/ Expected!Destroy(x) \/ Expected!clear(x) \/ Expected!EmplaceThrows(x) \/ Expected!take(x) \/ Expected!value_or(x)
    BY <1>2 DEF Expected!Next
  <2> QED
    BY <2>1, ConstructInv, AssignInv, ReplaceInv, AccessInv
<1> QED
  BY <1>1, <1>2

-----------------------------------------------------------------------------
(* What the objects were given.                                            *)

GivenTypes == [member : Expected!Members, contents : Expected!Alive \cup {Null}]
GivenMatches(u, b, g) ==
    /\ Expected!Held(b) = g.member
    /\ e_kind[Expected!Held(b)] # "void" => u[Expected!Held(b)] = g.contents

GivenInv ==
    /\ e_given \in [Objects -> GivenTypes]
    /\ \A x \in Expected!Usable : GivenMatches(e_union[x], e_has_value[x], e_given[x])

\* One object is given something,
LEMMA SetGives ==
    ASSUME ExpectedIndInv, GivenInv, NEW x \in Objects, NEW u, NEW b, NEW g \in GivenTypes,
           Expected!Set(x, u, b), e_given' = [e_given EXCEPT ![x] = g],
           Expected!New(x) \/ Expected!Stays(x), GivenMatches(u, b, g)
    PROVE  GivenInv'
<1>1. /\ e_union'[x] = u /\ e_has_value'[x] = b /\ e_given'[x] = g /\ e_kind' = e_kind
      /\ \A y \in Objects \ {x} : e_union'[y] = e_union[y] /\ e_has_value'[y] = e_has_value[y] /\ e_given'[y] = e_given[y]
      /\ e_given' \in [Objects -> GivenTypes]
  BY DEF Expected!Set, ExpectedIndInv, UnionTypeOK, GivenInv
<1>2. \A y \in Expected!Usable' : y \in Objects /\ (y # x => y \in Expected!Usable)
  BY DEF Expected!New, Expected!Stays, Expected!Usable, ExpectedIndInv, UnionTypeOK
<1>3. ASSUME NEW y \in Expected!Usable'
      PROVE  GivenMatches(e_union[y], e_has_value[y], e_given[y])'
  BY <1>1, <1>2 DEF GivenInv, GivenMatches, Expected!Held
<1>4. (GivenTypes)' = GivenTypes
  BY DEF GivenTypes, Expected!Alive, Expected!Members
<1> QED
  BY <1>1, <1>3, <1>4 DEF GivenInv

\* or can no longer be used,
LEMMA SetLoses ==
    ASSUME ExpectedIndInv, GivenInv, NEW x \in Objects, NEW u, NEW b,
           Expected!Set(x, u, b), UNCHANGED e_given, Expected!Usable' \subseteq Expected!Usable \ {x}
    PROVE  GivenInv'
<1>1. /\ e_kind' = e_kind
      /\ \A y \in Objects \ {x} : e_union'[y] = e_union[y] /\ e_has_value'[y] = e_has_value[y]
  BY DEF Expected!Set, ExpectedIndInv, UnionTypeOK
<1>2. \A y \in Expected!Usable' : y \in Objects \ {x} /\ y \in Expected!Usable
  BY DEF Expected!Usable, ExpectedIndInv, UnionTypeOK
<1>3. ASSUME NEW y \in Expected!Usable'
      PROVE  GivenMatches(e_union[y], e_has_value[y], e_given[y])'
  BY <1>1, <1>2 DEF GivenInv, GivenMatches, Expected!Held
<1>4. (GivenTypes)' = GivenTypes
  BY DEF GivenTypes, Expected!Alive, Expected!Members
<1> QED
  BY <1>3, <1>4 DEF GivenInv

\* or takes what another was given.
LEMMA SetFromGives ==
    ASSUME ExpectedIndInv, GivenInv, NEW x \in Objects, NEW y \in Expected!Usable, x # y, NEW u,
           Expected!SetFrom(x, u, e_has_value[y], y), Expected!GivenFrom(x, y),
           Expected!New(x) \/ Expected!Stays(x), GivenMatches(u, e_has_value[y], e_given[y])
    PROVE  GivenInv'
<1>1. /\ y \in Objects /\ e_union[y] \in Union /\ e_given[y] \in GivenTypes
      /\ GivenMatches(e_union[y], e_has_value[y], e_given[y])
      /\ Expected!Holds(y) \in Expected!Members
  BY UsableGood, HeldMember DEF GivenInv, Expected!Holds
<1>2. /\ e_union'[x] = u /\ e_has_value'[x] = e_has_value[y] /\ e_given'[x] = e_given[y] /\ e_kind' = e_kind
      /\ e_union'[y] = Expected!MovedFrom(e_union[y], Expected!Holds(y))
      /\ e_has_value'[y] = e_has_value[y] /\ e_given'[y] = Expected!Left(e_given[y])
      /\ \A z \in Objects \ {x, y} :
            e_union'[z] = e_union[z] /\ e_has_value'[z] = e_has_value[z] /\ e_given'[z] = e_given[z]
  BY <1>1 DEF Expected!SetFrom, Expected!GivenFrom, ExpectedIndInv, UnionTypeOK, GivenInv
<1>3. \A z \in Expected!Usable' : z \in Objects /\ (z # x => z \in Expected!Usable)
  BY DEF Expected!New, Expected!Stays, Expected!Usable, ExpectedIndInv, UnionTypeOK
<1>4. Expected!Left(e_given[y]) \in GivenTypes
  BY <1>1 DEF Expected!Left, GivenTypes, Expected!Alive
<1>5. GivenMatches(Expected!MovedFrom(e_union[y], Expected!Holds(y)), e_has_value[y], Expected!Left(e_given[y]))
  <2>1. CASE e_kind[Expected!Holds(y)] = "object"
    <3>1. Expected!MovedFrom(e_union[y], Expected!Holds(y))[Expected!Holds(y)] = Moved
      BY <1>1, <2>1 DEF Expected!MovedFrom, Union
    <3>2. Expected!Left(e_given[y]).member = e_given[y].member /\ Expected!Left(e_given[y]).contents = Moved
      BY <1>1, <2>1 DEF Expected!Left, GivenTypes, GivenMatches, Expected!Holds
    <3> QED
      BY <1>1, <3>1, <3>2 DEF GivenMatches, Expected!Holds
  <2>2. CASE e_kind[Expected!Holds(y)] # "object"
    <3>1. Expected!MovedFrom(e_union[y], Expected!Holds(y)) = e_union[y] /\ Expected!Left(e_given[y]) = e_given[y]
      BY <1>1, <2>2 DEF Expected!MovedFrom, Expected!Left, GivenMatches, Expected!Holds
    <3> QED
      BY <1>1, <3>1
  <2> QED
    BY <2>1, <2>2
<1>6. ASSUME NEW z \in Expected!Usable'
      PROVE  GivenMatches(e_union[z], e_has_value[z], e_given[z])'
  <2>1. CASE z = x
    BY <1>2, <2>1 DEF GivenMatches, Expected!Held
  <2>2. CASE z = y
    BY <1>2, <1>5, <2>2 DEF GivenMatches, Expected!Held
  <2>3. CASE z \notin {x, y}
    BY <1>2, <1>3, <2>3 DEF GivenInv, GivenMatches, Expected!Held
  <2> QED
    BY <2>1, <2>2, <2>3
<1>7. e_given' \in [Objects -> GivenTypes]
  BY <1>1, <1>4 DEF Expected!GivenFrom, GivenInv
<1>8. (GivenTypes)' = GivenTypes
  BY DEF GivenTypes, Expected!Alive, Expected!Members
<1> QED
  BY <1>6, <1>7, <1>8 DEF GivenInv

\* What is constructed is what was given.
LEMMA ConstructedMatches ==
    ASSUME NEW u \in Union, NEW b \in BOOLEAN, NEW c,
           NEW g, g.member = Expected!Held(b), e_kind[Expected!Held(b)] # "void" => g.contents = c
    PROVE  GivenMatches(Expected!Constructed(u, Expected!Held(b), c), b, g)
<1>1. Expected!Held(b) \in Expected!Members
  BY HeldMember
<1> QED
  BY <1>1 DEF GivenMatches, Expected!Constructed, Union

LEMMA ReplacedMatches ==
    ASSUME ExpectedIndInv, GivenInv, NEW x \in Expected!Usable, NEW y \in Expected!Usable
    PROVE  GivenMatches(Expected!Replaced(x, y), e_has_value[y], e_given[y])
<1> DEFINE c == e_union[y][Expected!Held(e_has_value[y])]
<1>1. /\ e_union[x] \in Union /\ e_has_value[y] \in BOOLEAN /\ e_has_value[x] \in BOOLEAN
      /\ ExpectedGood(e_union[x], e_has_value[x])
      /\ GivenMatches(e_union[y], e_has_value[y], e_given[y])
  BY UsableGood DEF GivenInv
<1>2. /\ e_given[y].member = Expected!Held(e_has_value[y])
      /\ e_kind[Expected!Held(e_has_value[y])] # "void" => e_given[y].contents = c
  BY <1>1 DEF GivenMatches
<1>3. \E u \in Union : Expected!Replaced(x, y) = Expected!Constructed(u, Expected!Held(e_has_value[y]), c)
  <2>1. CASE Expected!Holds(x) = Expected!Holds(y)
    BY <1>1, <2>1 DEF Expected!Replaced, Expected!Holds
  <2>2. CASE Expected!Holds(x) # Expected!Holds(y)
    <3>1. Expected!Destroyed(e_union[x], Expected!Holds(x)) \in Union
      BY <1>1, DestroyedEmpty, EmptyGood DEF Expected!Holds
    <3> QED
      BY <2>2, <3>1 DEF Expected!Replaced, Expected!Holds
  <2> QED
    BY <2>1, <2>2
<1> QED
  BY <1>1, <1>2, <1>3, ConstructedMatches

LEMMA ConstructGives ==
    ASSUME ExpectedIndInv, GivenInv, NEW x \in Objects,
           \/ \E c \in Values : Expected!ConstructValue(x, c) \/ Expected!ConstructError(x, c)
           \/ \E y \in Objects : Expected!ConstructMove(x, y) \/ Expected!ConstructCopy(x, y)
    PROVE  GivenInv'
<1>1. ASSUME NEW c \in Values, NEW b \in BOOLEAN, Expected!New(x),
             Expected!Set(x, Expected!Constructed(Expected!Empty, Expected!Held(b), c), b),
             Expected!Given(x, Expected!Held(b), c)
      PROVE  GivenInv'
  <2> DEFINE g == [member |-> Expected!Held(b), contents |-> c]
  <2>1. g \in GivenTypes
    BY HeldMember DEF GivenTypes, Expected!Alive
  <2>2. GivenMatches(Expected!Constructed(Expected!Empty, Expected!Held(b), c), b, g)
    BY EmptyGood, ConstructedMatches
  <2>3. e_given' = [e_given EXCEPT ![x] = g]
    BY <1>1 DEF Expected!Given
  <2> HIDE DEF g
  <2> QED
    BY <1>1, <2>1, <2>2, <2>3, SetGives
<1>2. Expected!Held(TRUE) = "value" /\ Expected!Held(FALSE) = "error"
  BY DEF Expected!Held
<1>3. ASSUME NEW y \in Expected!Usable
      PROVE  /\ GivenMatches(Expected!Constructed(Expected!Empty, Expected!Holds(y), e_union[y][Expected!Holds(y)]),
                             e_has_value[y], e_given[y])
             /\ e_given[y] \in GivenTypes
  <2>1. GivenMatches(e_union[y], e_has_value[y], e_given[y]) /\ e_has_value[y] \in BOOLEAN /\ y \in Objects
    BY UsableGood DEF GivenInv
  <2> QED
    BY <2>1, EmptyGood, ConstructedMatches DEF GivenMatches, Expected!Holds, GivenInv
<1>4. ASSUME NEW y \in Objects, Expected!ConstructMove(x, y)
      PROVE  GivenInv'
  <2>1. y \in Expected!Usable /\ x # y
    BY <1>4, UsableGood DEF Expected!ConstructMove, Expected!New
  <2> QED
    BY <1>3, <1>4, <2>1, SetFromGives DEF Expected!ConstructMove
<1>5. ASSUME NEW y \in Objects, Expected!ConstructCopy(x, y)
      PROVE  GivenInv'
  BY <1>3, <1>5, SetGives DEF Expected!ConstructCopy
<1> QED
  BY <1>1, <1>2, <1>4, <1>5 DEF Expected!ConstructValue, Expected!ConstructError

LEMMA AssignGives ==
    ASSUME ExpectedIndInv, GivenInv, NEW x \in Objects, NEW y \in Objects,
           Expected!AssignMove(x, y) \/ Expected!AssignCopy(x, y) \/ Expected!AssignCopyThrows(x, y)
    PROVE  GivenInv'
<1>1. CASE Expected!AssignMove(x, y)
  <2>1. x \in Expected!Usable /\ y \in Expected!Usable /\ x # y
    BY <1>1 DEF Expected!AssignMove, Expected!Stays
  <2> QED
    BY <1>1, <2>1, ReplacedMatches, SetFromGives DEF Expected!AssignMove
<1>2. CASE Expected!AssignCopy(x, y)
  <2>1. x \in Expected!Usable /\ y \in Expected!Usable
    BY <1>2 DEF Expected!AssignCopy, Expected!Stays
  <2>2. e_given[y] \in GivenTypes
    BY DEF GivenInv
  <2> QED
    BY <1>2, <2>1, <2>2, ReplacedMatches, SetGives DEF Expected!AssignCopy
<1>3. CASE Expected!AssignCopyThrows(x, y)
  <2>1. Expected!Usable' \subseteq Expected!Usable \ {x}
    BY <1>3 DEF Expected!AssignCopyThrows, Expected!Abandons, Expected!Usable
  <2> QED
    BY <1>3, <2>1, SetLoses DEF Expected!AssignCopyThrows
<1> QED
  BY <1>1, <1>2, <1>3

LEMMA ReplaceGives ==
    ASSUME ExpectedIndInv, GivenInv, NEW x \in Objects,
           Expected!Destroy(x) \/ Expected!clear(x) \/ Expected!EmplaceThrows(x) \/ \E c \in Values : Expected!emplace(x, c)
    PROVE  GivenInv'
<1>1. x \in Expected!Usable
  BY DEF Expected!Destroy, Expected!clear, Expected!EmplaceThrows, Expected!emplace,
     Expected!Stays, Expected!Abandons, Expected!Usable
<1>2. Expected!Destroyed(e_union[x], Expected!Holds(x)) \in Union
  BY <1>1, UsableGood, DestroyedEmpty, EmptyGood DEF Expected!Holds
<1>3. Expected!Held(TRUE) = "value" /\ Expected!Held(FALSE) = "error"
  BY DEF Expected!Held
<1>4. ASSUME e_kind["error"] = "void", Expected!Stays(x), Expected!Given(x, "error", Null), NEW u, Expected!Set(x, u, FALSE)
      PROVE  GivenInv'
  <2> DEFINE g == [member |-> "error", contents |-> Null]
  <2>1. g \in GivenTypes /\ GivenMatches(u, FALSE, g)
    BY <1>3, <1>4 DEF GivenTypes, GivenMatches, Expected!Members
  <2>2. e_given' = [e_given EXCEPT ![x] = g]
    BY <1>4 DEF Expected!Given
  <2> HIDE DEF g
  <2> QED
    BY <1>4, <2>1, <2>2, SetGives
<1>5. CASE Expected!Destroy(x)
  <2>1. Expected!Usable' \subseteq Expected!Usable \ {x}
    BY <1>5 DEF Expected!Destroy, Expected!Usable
  <2> QED
    BY <1>5, <2>1, SetLoses DEF Expected!Destroy
<1>6. CASE Expected!clear(x)
  BY <1>4, <1>6 DEF Expected!clear
<1>7. CASE Expected!EmplaceThrows(x)
  <2>1. CASE e_kind["error"] = "void"
    BY <1>4, <1>7, <2>1 DEF Expected!EmplaceThrows
  <2>2. CASE e_kind["error"] # "void"
    <3>1. Expected!Usable' \subseteq Expected!Usable \ {x}
      BY <1>7, <2>2 DEF Expected!EmplaceThrows, Expected!Abandons, Expected!Usable
    <3> QED
      BY <1>7, <2>2, <3>1, SetLoses DEF Expected!EmplaceThrows
  <2> QED
    BY <2>1, <2>2
<1>8. ASSUME NEW c \in Values, Expected!emplace(x, c)
      PROVE  GivenInv'
  <2> DEFINE g == [member |-> Expected!Held(TRUE), contents |-> c]
             u == Expected!Constructed(Expected!Destroyed(e_union[x], Expected!Holds(x)), Expected!Held(TRUE), c)
  <2>1. g \in GivenTypes
    BY HeldMember DEF GivenTypes, Expected!Alive
  <2>2. GivenMatches(u, TRUE, g)
    BY <1>2, ConstructedMatches
  <2>3. e_given' = [e_given EXCEPT ![x] = g] /\ Expected!Set(x, u, TRUE) /\ Expected!Stays(x)
    BY <1>3, <1>8 DEF Expected!emplace, Expected!Given
  <2> HIDE DEF g, u
  <2> QED
    BY <2>1, <2>2, <2>3, SetGives
<1> QED
  BY <1>5, <1>6, <1>7, <1>8

LEMMA AccessGives ==
    ASSUME ExpectedIndInv, GivenInv, NEW x \in Objects,
           \/ \E c \in Values : Expected!value(x, c) \/ Expected!error(x, c)
           \/ Expected!take(x) \/ Expected!value_or(x)
    PROVE  GivenInv'
<1>1. /\ x \in Expected!Usable /\ Expected!Stays(x)
      /\ e_union[x] \in Union /\ e_has_value[x] \in BOOLEAN /\ e_given[x] \in GivenTypes
      /\ GivenMatches(e_union[x], e_has_value[x], e_given[x])
  BY UsableGood DEF Expected!value, Expected!error, Expected!take, Expected!value_or,
     Expected!Stays, GivenInv
<1>2. Expected!Held(TRUE) = "value" /\ Expected!Held(FALSE) = "error"
  BY DEF Expected!Held
<1>3. ASSUME NEW c \in Values, NEW b \in BOOLEAN,
             Expected!Set(x, Expected!Constructed(e_union[x], Expected!Held(b), c), b),
             Expected!Given(x, Expected!Held(b), c)
      PROVE  GivenInv'
  <2> DEFINE g == [member |-> Expected!Held(b), contents |-> c]
  <2>1. g \in GivenTypes
    BY HeldMember DEF GivenTypes, Expected!Alive
  <2>2. GivenMatches(Expected!Constructed(e_union[x], Expected!Held(b), c), b, g)
    BY <1>1, ConstructedMatches
  <2>3. e_given' = [e_given EXCEPT ![x] = g]
    BY <1>3 DEF Expected!Given
  <2> HIDE DEF g
  <2> QED
    BY <1>1, <1>3, <2>1, <2>2, <2>3, SetGives
<1>4. CASE \E c \in Values : Expected!value(x, c) \/ Expected!error(x, c)
  BY <1>2, <1>3, <1>4 DEF Expected!value, Expected!error
<1>5. CASE Expected!take(x)
  <2> DEFINE g == Expected!Left(e_given[x])
             u == Expected!MovedFrom(e_union[x], Expected!Holds(x))
  <2>1. g \in GivenTypes
    BY <1>1 DEF Expected!Left, GivenTypes, Expected!Alive
  <2>2. GivenMatches(u, e_has_value[x], g)
    <3>1. Expected!Held(e_has_value[x]) \in Expected!Members
      BY <1>1, HeldMember
    <3> QED
      BY <1>1, <3>1 DEF GivenMatches, GivenTypes, Expected!Left, Expected!MovedFrom, Expected!Holds, Union
  <2>3. e_given' = [e_given EXCEPT ![x] = g] /\ Expected!Set(x, u, e_has_value[x])
    BY <1>5 DEF Expected!take
  <2> HIDE DEF g, u
  <2> QED
    BY <1>1, <2>1, <2>2, <2>3, SetGives
<1>6. CASE Expected!value_or(x) /\ ~e_has_value[x]
  <2>1. Expected!Set(x, e_union[x], FALSE) /\ e_given' = [e_given EXCEPT ![x] = e_given[x]] /\ e_has_value[x] = FALSE
    BY <1>1, <1>6 DEF Expected!value_or, GivenInv
  <2> QED
    BY <1>1, <2>1, SetGives
<1> QED
  BY <1>4, <1>5, <1>6 DEF Expected!value_or

LEMMA GivenNextInv ==
    ASSUME ExpectedIndInv, GivenInv, [Expected!Next]_(Expected!vars)
    PROVE  GivenInv'
<1>1. CASE UNCHANGED Expected!vars
  BY <1>1 DEF Expected!vars, GivenInv, GivenTypes, GivenMatches, Expected!Usable, Expected!Held
<1>2. CASE Expected!Next
  <2>1. PICK x \in Objects :
            \/ \E c \in Values :
                  \/ Expected!ConstructValue(x, c) \/ Expected!ConstructError(x, c) \/ Expected!emplace(x, c)
                  \/ Expected!value(x, c) \/ Expected!error(x, c)
            \/ \E y \in Objects :
                  \/ Expected!ConstructMove(x, y) \/ Expected!ConstructCopy(x, y)
                  \/ Expected!AssignMove(x, y) \/ Expected!AssignCopy(x, y) \/ Expected!AssignCopyThrows(x, y)
            \/ Expected!Destroy(x) \/ Expected!clear(x) \/ Expected!EmplaceThrows(x) \/ Expected!take(x) \/ Expected!value_or(x)
    BY <1>2 DEF Expected!Next
  <2> QED
    BY <2>1, ConstructGives, AssignGives, ReplaceGives, AccessGives
<1> QED
  BY <1>1, <1>2

-----------------------------------------------------------------------------
(* The theorems.                                                           *)

LEMMA NullNotAlive == Null \notin Expected!Alive
  BY NullAssumption DEF Expected!Alive

LEMMA ExpectedInvariance == Expected!Spec => []ExpectedIndInv
<1>1. Expected!Init => ExpectedIndInv
  BY ExpectedInitInv
<1>2. ExpectedIndInv /\ [Expected!Next]_(Expected!vars) => ExpectedIndInv'
  BY NullNotAlive, ExpectedNextInv
<1> QED
  BY <1>1, <1>2, PTL DEF Expected!Spec

\* The flag of every expected says what is alive in it, in all specializations
\* and whatever throws, but for those that a throwing constructor leaves to be
\* abandoned: they hold nothing.
THEOREM ExpectedHoldsOne == Expected!Spec => []Expected!HoldsOneOfTwo
<1>1. ExpectedIndInv => Expected!HoldsOneOfTwo
  BY DEF ExpectedIndInv
<1> QED
  BY <1>1, ExpectedInvariance, PTL

\* Every expected that can be used holds the member and the contents that it was
\* given last, in all specializations and through moves in both directions.
THEOREM ExpectedHoldsGiven == Expected!Spec => []Expected!HoldsWhatItWasGiven
<1>1. Expected!Init => GivenInv
  BY DEF Expected!Init, GivenInv, GivenTypes, Expected!Usable, Expected!Members
<1>2. ExpectedIndInv /\ GivenInv /\ [Expected!Next]_(Expected!vars) => GivenInv'
  BY GivenNextInv
<1>3. GivenInv => Expected!HoldsWhatItWasGiven
  BY DEF GivenInv, GivenMatches, Expected!HoldsWhatItWasGiven, Expected!Holds
<1> QED
  BY <1>1, <1>2, <1>3, ExpectedInvariance, PTL DEF Expected!Spec

-----------------------------------------------------------------------------
(***************************************************************************)
(* any: blocks have one owner, which frees them as they were allocated.    *)
(***************************************************************************)
\* Null is no allocator, no type and no block.
AnyAssumptions ==
    /\ Null \notin Allocators /\ Null \notin Values /\ Null \notin Blocks
    /\ Copyable \subseteq Values

(***************************************************************************)
(* TypeOK and BlocksOwned of anys with the allocators al and the blocks    *)
(* mb, in the memory r, so that the halves of an operation can be taken    *)
(* one after the other.                                                    *)
(***************************************************************************)
Cell == [by : Allocators \cup {Null}, for : Values \cup {Null}]

MemoryType ==
    [block : [Blocks -> Cell],
     size : [Blocks -> Values \cup {Null}],
     object : [Blocks -> Values \cup {Null}],
     crossed : SUBSET Blocks]

Typed(al, mb) ==
    /\ al \in [Objects -> Allocators \cup {Null}]
    /\ mb \in [Objects -> Blocks \cup {Null}]

OneOwner(al, mb, r) ==
    /\ \A x \in Objects : mb[x] # Null => al[x] # Null /\ r.block[mb[x]] # AnyObject!Free
    /\ \A x, y \in Objects : mb[x] = mb[y] /\ x # y => mb[x] = Null
    /\ \A b \in Blocks : r.block[b] # AnyObject!Free => \E x \in Objects : mb[x] = b

AsAllocated(al, mb, r) ==
    /\ \A b \in Blocks : r.object[b] = r.block[b].for
    /\ \A x \in Objects : mb[x] # Null =>
          /\ r.size[mb[x]] = r.block[mb[x]].for
          /\ r.block[mb[x]].by = al[x] \/ mb[x] \in r.crossed

AnyGood(al, mb, r) ==
    /\ Typed(al, mb) /\ r \in MemoryType
    /\ OneOwner(al, mb, r) /\ AsAllocated(al, mb, r)

AnyNow == [block |-> a_blocks, size |-> a_size, object |-> a_object, crossed |-> a_crossed]

AnyIndInv == AnyGood(a_allocator, a_block, AnyNow)

-----------------------------------------------------------------------------
(* Releasing and storing.                                                  *)

LEMMA FreeTyped ==
    /\ AnyObject!Free \in Cell
    /\ AnyObject!Free.for = Null
  BY DEF AnyObject!Free, Cell

LEMMA NowFields ==
    /\ AnyNow.block = a_blocks /\ AnyNow.size = a_size /\ AnyNow.object = a_object /\ AnyNow.crossed = a_crossed
  BY DEF AnyNow

LEMMA ReleasedFields ==
    ASSUME NEW x \in Objects
    PROVE  /\ AnyObject!Released(x).block = AnyObject!Release(a_blocks, x, AnyObject!Free)
           /\ AnyObject!Released(x).size = AnyObject!Release(a_size, x, Null)
           /\ AnyObject!Released(x).object = AnyObject!Release(a_object, x, Null)
           /\ AnyObject!Released(x).crossed = a_crossed \ {a_block[x]}
  BY DEF AnyObject!Released

\* x without its block, and the memory after it was released.
LEMMA ReleasedGood ==
    ASSUME AnyAssumptions, AnyIndInv, NEW x \in Objects
    PROVE  AnyGood(a_allocator, [a_block EXCEPT ![x] = Null], AnyObject!Released(x))
<1> DEFINE mb == [a_block EXCEPT ![x] = Null]
           r == AnyObject!Released(x)
<1>1. /\ Typed(a_allocator, a_block) /\ AnyNow \in MemoryType
      /\ OneOwner(a_allocator, a_block, AnyNow) /\ AsAllocated(a_allocator, a_block, AnyNow)
  BY DEF AnyIndInv, AnyGood
<1>2. Typed(a_allocator, mb)
  BY <1>1 DEF Typed
<1>3. /\ a_blocks \in [Blocks -> Cell]
      /\ a_size \in [Blocks -> Values \cup {Null}] /\ a_object \in [Blocks -> Values \cup {Null}]
      /\ a_crossed \subseteq Blocks
  BY <1>1 DEF MemoryType, AnyNow
<1>4. r \in MemoryType
  <2>1. /\ AnyObject!Release(a_blocks, x, AnyObject!Free) \in
              [Blocks -> Cell]
    BY <1>3, FreeTyped DEF AnyObject!Release
  <2>2. /\ AnyObject!Release(a_size, x, Null) \in [Blocks -> Values \cup {Null}]
        /\ AnyObject!Release(a_object, x, Null) \in [Blocks -> Values \cup {Null}]
        /\ a_crossed \ {a_block[x]} \in SUBSET Blocks
    BY <1>3 DEF AnyObject!Release
  <2> QED
    BY <2>1, <2>2 DEF MemoryType, AnyObject!Released
<1>5. /\ mb[x] = Null
      /\ \A y \in Objects : y # x => mb[y] = a_block[y]
  BY <1>1 DEF Typed
<1>6. \A b \in Blocks :
          /\ b = a_block[x] => r.block[b] = AnyObject!Free /\ r.object[b] = Null
          /\ b # a_block[x] => /\ r.block[b] = a_blocks[b] /\ r.object[b] = a_object[b]
                               /\ r.size[b] = a_size[b] /\ (b \in r.crossed <=> b \in a_crossed)
  <2>1. CASE a_block[x] = Null
    BY <1>3, <2>1, ReleasedFields DEF AnyObject!Release, AnyAssumptions
  <2>2. CASE a_block[x] # Null
    <3>1. /\ r.block = [a_blocks EXCEPT ![a_block[x]] = AnyObject!Free]
          /\ r.size = [a_size EXCEPT ![a_block[x]] = Null]
          /\ r.object = [a_object EXCEPT ![a_block[x]] = Null]
          /\ r.crossed = a_crossed \ {a_block[x]}
      BY <2>2, ReleasedFields DEF AnyObject!Release
    <3> HIDE DEF r
    <3> QED
      BY <1>3, <3>1
  <2> QED
    BY <2>1, <2>2
<1> HIDE DEF mb, r
<1>7. OneOwner(a_allocator, mb, r)
  BY <1>1, <1>5, <1>6, NowFields DEF OneOwner, Typed, AnyAssumptions
<1>8. AsAllocated(a_allocator, mb, r)
  BY <1>1, <1>5, <1>6, FreeTyped, NowFields DEF AsAllocated, OneOwner, Typed, AnyAssumptions
<1> QED
  BY <1>2, <1>4, <1>7, <1>8 DEF AnyGood, mb, r

\* x had no block, and has b now.
LEMMA StoredGood ==
    ASSUME AnyAssumptions, NEW al, NEW mb, NEW r, AnyGood(al, mb, r),
           NEW x \in Objects, mb[x] = Null, NEW a \in Allocators, al[x] = a,
           NEW t \in Values, NEW b \in Blocks, r.block[b] = AnyObject!Free
    PROVE  AnyGood(al, [mb EXCEPT ![x] = b], AnyObject!Stored(r, b, a, t))
<1> DEFINE mb2 == [mb EXCEPT ![x] = b]
           s == AnyObject!Stored(r, b, a, t)
           given == [by |-> a, for |-> t]
<1>1. Typed(al, mb) /\ r \in MemoryType /\ OneOwner(al, mb, r) /\ AsAllocated(al, mb, r)
  BY DEF AnyGood
<1>2. Typed(al, mb2)
  BY <1>1 DEF Typed
<1>3. /\ s.block = [r.block EXCEPT ![b] = given]
      /\ s.object = [r.object EXCEPT ![b] = t] /\ s.size = [r.size EXCEPT ![b] = t]
      /\ s.crossed = r.crossed
      /\ s = [block |-> s.block, size |-> s.size, object |-> s.object, crossed |-> s.crossed]
  BY DEF AnyObject!Stored
<1>4. /\ given \in Cell
      /\ given.by = a /\ given.for = t /\ given # AnyObject!Free
  BY DEF AnyObject!Free, Cell, AnyAssumptions
<1> HIDE DEF s, given
<1>5. s \in MemoryType
  <2>1. /\ r.block \in [Blocks -> Cell]
        /\ r.size \in [Blocks -> Values \cup {Null}] /\ r.object \in [Blocks -> Values \cup {Null}]
        /\ r.crossed \in SUBSET Blocks
    BY <1>1 DEF MemoryType
  <2>2. /\ s.block \in [Blocks -> Cell]
        /\ s.size \in [Blocks -> Values \cup {Null}] /\ s.object \in [Blocks -> Values \cup {Null}]
        /\ s.crossed \in SUBSET Blocks
    BY <1>3, <1>4, <2>1
  <2> QED
    BY <1>3, <2>2 DEF MemoryType
<1>6. /\ mb2[x] = b /\ \A y \in Objects : y # x => mb2[y] = mb[y]
      /\ \A y \in Objects : mb[y] # b
  BY <1>1 DEF Typed, OneOwner, AnyAssumptions
<1>7. \A c \in Blocks :
          /\ c = b => s.block[c] = given /\ s.object[c] = t /\ s.size[c] = t
          /\ c # b => s.block[c] = r.block[c] /\ s.object[c] = r.object[c] /\ s.size[c] = r.size[c]
  BY <1>1, <1>3 DEF MemoryType
<1> HIDE DEF mb2
<1>8. OneOwner(al, mb2, s)
  BY <1>1, <1>4, <1>6, <1>7 DEF OneOwner, Typed, AnyAssumptions
<1>9. AsAllocated(al, mb2, s)
  BY <1>1, <1>3, <1>4, <1>6, <1>7 DEF AsAllocated, Typed, AnyAssumptions
<1> QED
  BY <1>2, <1>5, <1>8, <1>9 DEF AnyGood, mb2, s

\* An any without a block can have any allocator.
LEMMA AllocatorGood ==
    ASSUME NEW al, NEW mb, NEW r, AnyGood(al, mb, r),
           NEW x \in Objects, mb[x] = Null, NEW a \in Allocators \cup {Null}
    PROVE  AnyGood([al EXCEPT ![x] = a], mb, r)
  BY DEF AnyGood, Typed, OneOwner, AsAllocated

\* The memory after a step.
LEMMA MemoryNow == ASSUME NEW r \in MemoryType, AnyObject!Memory(r) PROVE AnyNow' = r
<1>1. r = [block |-> r.block, size |-> r.size, object |-> r.object, crossed |-> r.crossed]
  BY DEF MemoryType
<1>2. AnyNow' = [block |-> a_blocks', size |-> a_size', object |-> a_object', crossed |-> a_crossed']
  BY DEF AnyNow
<1> QED
  BY <1>1, <1>2 DEF AnyObject!Memory

\* x, which has no block in the memory r, has one or is empty afterwards.
LEMMA PlaceStep ==
    ASSUME AnyAssumptions, NEW x \in Objects, NEW t \in Values, NEW a \in Allocators,
           AnyGood(a_allocator, [a_block EXCEPT ![x] = Null], AnyObject!Released(x)),
           a_block \in [Objects -> Blocks \cup {Null}],
           a_allocator \in [Objects -> Allocators \cup {Null}],
           AnyObject!Place(AnyObject!Released(x), x, a, t),
           a_allocator' = [a_allocator EXCEPT ![x] = IF a_block'[x] = Null THEN a_allocator'[x] ELSE a],
           a_allocator'[x] \in Allocators \cup {Null}
    PROVE  AnyIndInv'
<1> DEFINE mb == [a_block EXCEPT ![x] = Null]
           al(c) == [a_allocator EXCEPT ![x] = c]
           r == AnyObject!Released(x)
<1>1. mb[x] = Null
  OBVIOUS
<1>2. ASSUME NEW c \in Allocators \cup {Null}
      PROVE  AnyGood(al(c), mb, r)
  BY <1>1, AllocatorGood
<1>3. r \in MemoryType
  BY DEF AnyGood
<1>4. CASE AnyObject!Memory(r) /\ AnyObject!Owns(x, Null)
  <2>1. a_block' = mb /\ AnyNow' = r
    BY <1>3, <1>4, MemoryNow DEF AnyObject!Owns
  <2>2. a_allocator' = al(a_allocator'[x])
    BY <1>1, <2>1
  <2>3. AnyGood(al(a_allocator'[x]), mb, r)
    BY <1>2
  <2> QED
    BY <2>1, <2>2, <2>3 DEF AnyIndInv
<1>5. ASSUME NEW b \in {c \in Blocks : r.block[c] = AnyObject!Free},
             AnyObject!Memory(AnyObject!Stored(r, b, a, t)), AnyObject!Owns(x, b)
      PROVE  AnyIndInv'
  <2>1. a_block' = [a_block EXCEPT ![x] = b] /\ a_block' = [mb EXCEPT ![x] = b] /\ a_block'[x] = b
    BY <1>5 DEF AnyObject!Owns
  <2>2. a_allocator' = al(a) /\ al(a)[x] = a
    BY <2>1 DEF AnyAssumptions
  <2>3. AnyGood(al(a), mb, r)
    BY <1>2
  <2> HIDE DEF mb, al, r
  <2>4. AnyGood(al(a), [mb EXCEPT ![x] = b], AnyObject!Stored(r, b, a, t))
    BY <1>1, <2>2, <2>3, StoredGood
  <2>5. AnyNow' = AnyObject!Stored(r, b, a, t)
    BY <1>5, <2>4, MemoryNow DEF AnyGood
  <2> QED
    BY <2>1, <2>2, <2>4, <2>5 DEF AnyIndInv
<1> QED
  BY <1>4, <1>5 DEF AnyObject!Place

\* x is empty afterwards.
LEMMA EmptyStep ==
    ASSUME AnyAssumptions, AnyIndInv, NEW x \in Objects, NEW a \in Allocators \cup {Null},
           AnyObject!Memory(AnyObject!Released(x)), AnyObject!Owns(x, Null), a_allocator' = [a_allocator EXCEPT ![x] = a]
    PROVE  AnyIndInv'
<1> DEFINE mb == [a_block EXCEPT ![x] = Null]
<1>1. AnyGood(a_allocator, mb, AnyObject!Released(x)) /\ mb[x] = Null /\ a_block' = mb
  BY ReleasedGood DEF AnyObject!Owns, AnyIndInv, AnyGood, Typed
<1>2. AnyGood(a_allocator', mb, AnyObject!Released(x))
  <2> HIDE DEF mb
  <2> QED
    BY <1>1, AllocatorGood
<1>3. AnyNow' = AnyObject!Released(x)
  BY <1>1, MemoryNow DEF AnyGood
<1> QED
  BY <1>1, <1>2, <1>3 DEF AnyIndInv

\* The block of y, which may have none, becomes that of x, which had none.  The
\* allocator of x is one that the block may come from, or the block is crossed.
LEMMA MoveGood ==
    ASSUME AnyAssumptions, NEW al, NEW mb, NEW r, AnyGood(al, mb, r),
           NEW x \in Objects, NEW y \in Objects, x # y, mb[x] = Null,
           NEW al2 \in [Objects -> Allocators \cup {Null}], \A z \in Objects \ {x} : al2[z] = al[z],
           NEW C \in SUBSET Blocks, r.crossed \subseteq C,
           mb[y] # Null => al2[x] # Null /\ (al2[x] = al[y] \/ mb[y] \in C)
    PROVE  AnyGood(al2, [mb EXCEPT ![x] = mb[y], ![y] = Null], [r EXCEPT !.crossed = C])
<1> DEFINE mb2 == [mb EXCEPT ![x] = mb[y], ![y] = Null]
           s == [r EXCEPT !.crossed = C]
<1>1. Typed(al, mb) /\ r \in MemoryType /\ OneOwner(al, mb, r) /\ AsAllocated(al, mb, r)
  BY DEF AnyGood
<1>2. Typed(al2, mb2)
  BY <1>1 DEF Typed
<1>3. /\ s \in MemoryType /\ s.block = r.block /\ s.size = r.size /\ s.object = r.object
      /\ s.crossed = C
  BY <1>1 DEF MemoryType
<1>4. /\ mb2[x] = mb[y] /\ mb2[y] = Null
      /\ \A z \in Objects \ {x, y} : mb2[z] = mb[z]
  BY <1>1 DEF Typed
<1> HIDE DEF mb2, s
<1>5. OneOwner(al2, mb2, s)
  BY <1>1, <1>3, <1>4 DEF OneOwner, Typed
<1>6. AsAllocated(al2, mb2, s)
  <2>1. \A b \in Blocks : s.object[b] = s.block[b].for
    BY <1>1, <1>3 DEF AsAllocated
  <2>2. ASSUME NEW z \in Objects, mb2[z] # Null
        PROVE  /\ s.size[mb2[z]] = s.block[mb2[z]].for
               /\ s.block[mb2[z]].by = al2[z] \/ mb2[z] \in s.crossed
    BY <1>1, <1>3, <1>4, <2>2 DEF AsAllocated
  <2> QED
    BY <2>1, <2>2 DEF AsAllocated
<1> QED
  BY <1>2, <1>3, <1>5, <1>6 DEF AnyGood, mb2, s

LEMMA Facts ==
    ASSUME AnyIndInv
    PROVE  /\ a_allocator \in [Objects -> Allocators \cup {Null}]
           /\ a_block \in [Objects -> Blocks \cup {Null}]
           /\ AnyNow \in MemoryType /\ a_crossed \subseteq Blocks
           /\ \A x \in Objects : ~AnyObject!exists(x) => a_block[x] = Null
<1>1. AnyNow \in MemoryType /\ a_crossed \in SUBSET Blocks
  BY DEF AnyIndInv, AnyGood, MemoryType, AnyNow
<1> QED
  BY <1>1 DEF AnyIndInv, AnyGood, Typed, OneOwner, AnyObject!exists

LEMMA ConstructMoveStep ==
    ASSUME AnyAssumptions, AnyIndInv, NEW x \in Objects, NEW y \in Objects, AnyObject!ConstructMove(x, y)
    PROVE  AnyIndInv'
<1>1. /\ x # y /\ a_block[x] = Null /\ a_allocator[y] \in Allocators
      /\ a_allocator' = [a_allocator EXCEPT ![x] = a_allocator[y]]
      /\ a_block' = [a_block EXCEPT ![x] = a_block[y], ![y] = Null]
      /\ AnyNow' = AnyNow
  BY Facts DEF AnyObject!ConstructMove, AnyObject!exists, AnyObject!Exists, AnyNow
<1>2. /\ a_allocator' \in [Objects -> Allocators \cup {Null}] /\ a_allocator'[x] = a_allocator[y]
      /\ \A z \in Objects \ {x} : a_allocator'[z] = a_allocator[z]
  BY <1>1, Facts
<1>3. a_crossed \in SUBSET Blocks /\ AnyNow.crossed = a_crossed /\ AnyNow = [AnyNow EXCEPT !.crossed = a_crossed]
  BY Facts DEF AnyNow
<1>4. a_allocator'[x] # Null
  BY <1>1, <1>2 DEF AnyAssumptions
<1>5. AnyGood(a_allocator, a_block, AnyNow)
  BY DEF AnyIndInv
<1>6. AnyGood(a_allocator', a_block', [AnyNow EXCEPT !.crossed = a_crossed])
  BY <1>1, <1>2, <1>3, <1>4, <1>5, MoveGood
<1> QED
  BY <1>1, <1>3, <1>6 DEF AnyIndInv

LEMMA AssignMoveStep ==
    ASSUME AnyAssumptions, AnyIndInv, NEW x \in Objects, NEW y \in Objects, AnyObject!AssignMove(x, y)
    PROVE  AnyIndInv'
<1> DEFINE mb == [a_block EXCEPT ![x] = Null]
           r == AnyObject!Released(x)
           C == IF a_allocator[x] = a_allocator[y] THEN r.crossed
                ELSE r.crossed \cup ({a_block[y]} \ {Null})
<1>1. /\ x # y /\ AnyObject!exists(x) /\ AnyObject!exists(y) /\ a_allocator' = a_allocator
      /\ AnyObject!Memory([r EXCEPT !.crossed = C])
      /\ a_block' = [a_block EXCEPT ![x] = a_block[y], ![y] = Null]
  BY DEF AnyObject!AssignMove
<1>2. AnyGood(a_allocator, mb, r)
  BY ReleasedGood
<1>3. mb[x] = Null /\ mb[y] = a_block[y] /\ a_block' = [mb EXCEPT ![x] = mb[y], ![y] = Null]
  BY <1>1, Facts
<1>4. r.crossed \subseteq Blocks /\ r \in MemoryType
  BY <1>2 DEF AnyGood, MemoryType
<1>5. C \in SUBSET Blocks /\ r.crossed \subseteq C
  BY <1>4, Facts DEF AnyAssumptions
<1>6. mb[y] # Null => a_allocator[x] # Null /\ (a_allocator[x] = a_allocator[y] \/ mb[y] \in C)
  BY <1>1, <1>3 DEF AnyObject!exists
<1> HIDE DEF mb, r, C
<1>7. AnyGood(a_allocator, [mb EXCEPT ![x] = mb[y], ![y] = Null], [r EXCEPT !.crossed = C])
  BY <1>1, <1>2, <1>3, <1>5, <1>6, Facts, MoveGood
<1>8. AnyNow' = [r EXCEPT !.crossed = C]
  BY <1>1, <1>7, MemoryNow DEF AnyGood
<1> QED
  BY <1>1, <1>3, <1>7, <1>8 DEF AnyIndInv

\* emplace, and the constructors from an object.
LEMMA EmplaceStep ==
    ASSUME AnyAssumptions, AnyIndInv, NEW x \in Objects, NEW t \in Values,
           AnyObject!emplace(x, t) \/ \E a \in Allocators : AnyObject!ConstructFrom(x, a, t)
    PROVE  AnyIndInv'
<1>1. AnyGood(a_allocator, [a_block EXCEPT ![x] = Null], AnyObject!Released(x))
  BY ReleasedGood
<1>2. CASE AnyObject!emplace(x, t)
  <2>1. /\ AnyObject!Place(AnyObject!Released(x), x, a_allocator[x], t) /\ a_allocator' = a_allocator
        /\ a_allocator[x] \in Allocators
    BY <1>2, Facts DEF AnyObject!emplace, AnyObject!exists
  <2>2. /\ a_allocator'[x] \in Allocators \cup {Null}
        /\ a_allocator' = [a_allocator EXCEPT ![x] = IF a_block'[x] = Null THEN a_allocator'[x]
                                                 ELSE a_allocator[x]]
    BY <2>1, Facts
  <2>3. PICK a \in Allocators : a = a_allocator[x]
    BY <2>1
  <2> QED
    BY <1>1, <2>1, <2>2, <2>3, Facts, PlaceStep
<1>3. ASSUME NEW a \in Allocators, AnyObject!ConstructFrom(x, a, t)
      PROVE  AnyIndInv'
  <2>1. /\ AnyObject!Place(AnyObject!Released(x), x, a, t)
        /\ a_allocator' = [a_allocator EXCEPT ![x] = IF a_block'[x] = Null THEN Null ELSE a]
    BY <1>3 DEF AnyObject!ConstructFrom, AnyObject!Exists
  <2>2. /\ a_allocator'[x] \in Allocators \cup {Null}
        /\ a_allocator' = [a_allocator EXCEPT ![x] = IF a_block'[x] = Null THEN a_allocator'[x] ELSE a]
    BY <2>1, Facts
  <2> QED
    BY <1>1, <2>1, <2>2, Facts, PlaceStep
<1> QED
  BY <1>2, <1>3

\* The copies.
LEMMA CopyStep ==
    ASSUME AnyAssumptions, AnyIndInv, NEW x \in Objects, NEW y \in Objects,
           AnyObject!AssignCopy(x, y) \/ \E a \in Allocators : AnyObject!ConstructCopy(x, y, a)
    PROVE  AnyIndInv'
<1>1. AnyGood(a_allocator, [a_block EXCEPT ![x] = Null], AnyObject!Released(x))
  BY ReleasedGood
<1>2. ASSUME NEW a \in Allocators, AnyObject!copy_from(x, y, a),
             a_allocator' = [a_allocator EXCEPT ![x] = IF a_block'[x] = Null THEN a_allocator'[x] ELSE a],
             a_allocator'[x] \in Allocators \cup {Null}
      PROVE  AnyIndInv'
  <2>1. CASE AnyObject!Memory(AnyObject!Released(x)) /\ AnyObject!Owns(x, Null)
    <3>1. a_block'[x] = Null
      BY <2>1, Facts DEF AnyObject!Owns
    <3>2. PICK c \in Allocators \cup {Null} : c = a_allocator'[x]
      BY <1>2
    <3>3. a_allocator' = [a_allocator EXCEPT ![x] = c]
      BY <1>2, <3>1, <3>2
    <3> QED
      BY <2>1, <3>3, EmptyStep
  <2>2. ASSUME NEW t \in Copyable, AnyObject!Place(AnyObject!Released(x), x, a, t)
        PROVE  AnyIndInv'
    <3>1. t \in Values
      BY <2>2 DEF AnyAssumptions
    <3> QED
      BY <1>1, <1>2, <2>2, <3>1, Facts, PlaceStep
  <2> QED
    BY <1>2, <2>1, <2>2 DEF AnyObject!copy_from
<1>3. CASE AnyObject!AssignCopy(x, y)
  <2>1. PICK a \in Allocators : a = a_allocator[x]
    BY <1>3, Facts DEF AnyObject!AssignCopy, AnyObject!exists
  <2>2. /\ AnyObject!copy_from(x, y, a) /\ a_allocator' = a_allocator
        /\ a_allocator' = [a_allocator EXCEPT ![x] = IF a_block'[x] = Null THEN a_allocator'[x] ELSE a]
    BY <1>3, <2>1, Facts DEF AnyObject!AssignCopy
  <2> QED
    BY <1>2, <2>1, <2>2
<1>4. ASSUME NEW a \in Allocators, AnyObject!ConstructCopy(x, y, a)
      PROVE  AnyIndInv'
  <2> DEFINE failed == AnyObject!Held(y) # Null /\ a_block'[x] = Null
  <2>1. /\ AnyObject!copy_from(x, y, a)
        /\ a_allocator' = [a_allocator EXCEPT ![x] = IF failed THEN Null ELSE a]
    BY <1>4 DEF AnyObject!ConstructCopy, AnyObject!Exists
  <2>2. a_allocator'[x] = IF failed THEN Null ELSE a
    BY <2>1, Facts
  <2>3. /\ a_allocator'[x] \in Allocators \cup {Null}
        /\ a_allocator' = [a_allocator EXCEPT ![x] = IF a_block'[x] = Null THEN a_allocator'[x] ELSE a]
    BY <2>1, <2>2
  <2> QED
    BY <1>2, <2>1, <2>3
<1> QED
  BY <1>3, <1>4

\* What empties x, or constructs it empty.
LEMMA EmptyingStep ==
    ASSUME AnyAssumptions, AnyIndInv, NEW x \in Objects,
           AnyObject!reset(x) \/ AnyObject!Destroy(x) \/ \E a \in Allocators : AnyObject!Construct(x, a)
    PROVE  AnyIndInv'
<1>1. CASE AnyObject!reset(x)
  <2>1. PICK a \in Allocators \cup {Null} : a = a_allocator[x]
    BY Facts
  <2>2. a_allocator' = [a_allocator EXCEPT ![x] = a]
    BY <1>1, <2>1, Facts DEF AnyObject!reset
  <2> QED
    BY <1>1, <2>2, EmptyStep DEF AnyObject!reset
<1>2. CASE AnyObject!Destroy(x)
  BY <1>2, EmptyStep DEF AnyObject!Destroy, AnyObject!Exists
<1>3. ASSUME NEW a \in Allocators, AnyObject!Construct(x, a)
      PROVE  AnyIndInv'
  <2>1. /\ a_block' = a_block /\ AnyNow' = AnyNow /\ a_block[x] = Null
        /\ a_allocator' = [a_allocator EXCEPT ![x] = a]
    BY <1>3, Facts DEF AnyObject!Construct, AnyObject!Exists, AnyNow
  <2>2. AnyGood(a_allocator, a_block, AnyNow)
    BY DEF AnyIndInv
  <2> QED
    BY <2>1, <2>2, AllocatorGood DEF AnyIndInv
<1> QED
  BY <1>1, <1>2, <1>3

-----------------------------------------------------------------------------
(* The theorem.                                                            *)

LEMMA AnyInitInv == ASSUME AnyAssumptions, AnyObject!Init PROVE AnyIndInv
<1>1. Typed(a_allocator, a_block) /\ \A x \in Objects : a_block[x] = Null
  BY DEF AnyObject!Init, Typed
<1>2. AnyNow \in MemoryType
  BY FreeTyped DEF AnyObject!Init, AnyNow, MemoryType
<1>3. \A b \in Blocks : AnyNow.block[b] = AnyObject!Free /\ AnyNow.object[b] = Null
  BY DEF AnyObject!Init, AnyNow
<1> QED
  BY <1>1, <1>2, <1>3, FreeTyped DEF AnyIndInv, AnyGood, OneOwner, AsAllocated

LEMMA AnyNextInv ==
    ASSUME AnyAssumptions, AnyIndInv, [AnyObject!Next]_(AnyObject!vars)
    PROVE  AnyIndInv'
<1>1. CASE UNCHANGED AnyObject!vars
  <2>1. a_allocator' = a_allocator /\ a_block' = a_block /\ AnyNow' = AnyNow
    BY <1>1 DEF AnyObject!vars, AnyNow
  <2> QED
    BY <2>1 DEF AnyIndInv
<1>2. CASE AnyObject!Next
  BY <1>2, EmplaceStep, EmptyingStep, ConstructMoveStep, AssignMoveStep, CopyStep DEF AnyObject!Next
<1> QED
  BY <1>1, <1>2

LEMMA AnyAssumed == AnyAssumptions
  BY NullAssumption, AllocatorsAssumption DEF AnyAssumptions

\* Whatever is moved, copied, replaced and thrown, of any types and between any
\* allocators: no block leaks, has two owners or loses its object, and all are
\* freed as they were allocated but for the blocks that a move assignment took to
\* another allocator (emplace, reset, copy_from, operator=(any&&)).
THEOREM AnyBlocksOwned == AnyObject!Spec => [](AnyObject!TypeOK /\ AnyObject!BlocksOwned)
<1>1. AnyObject!Spec => []AnyIndInv
  BY AnyInitInv, AnyNextInv, AnyAssumed, PTL DEF AnyObject!Spec
<1>2. ASSUME AnyIndInv PROVE AnyObject!TypeOK /\ AnyObject!BlocksOwned
  <2>1. /\ Typed(a_allocator, a_block) /\ AnyNow \in MemoryType
        /\ OneOwner(a_allocator, a_block, AnyNow) /\ AsAllocated(a_allocator, a_block, AnyNow)
    BY <1>2 DEF AnyIndInv, AnyGood
  <2>2. AnyObject!TypeOK
    <3>1. /\ a_blocks \in [Blocks -> Cell] /\ a_size \in [Blocks -> Values \cup {Null}]
          /\ a_object \in [Blocks -> Values \cup {Null}] /\ a_crossed \in SUBSET Blocks
      BY <2>1 DEF MemoryType, AnyNow
    <3> QED
      BY <2>1, <3>1 DEF AnyObject!TypeOK, Typed, Cell
  <2>3. AnyObject!BlocksOwned
    BY <2>1, NowFields DEF AnyObject!BlocksOwned, OneOwner, AsAllocated, AnyObject!exists
  <2> QED
    BY <2>2, <2>3
<1>3. AnyIndInv => AnyObject!TypeOK /\ AnyObject!BlocksOwned
  BY <1>2
<1> QED
  BY <1>1, <1>3, PTL

-----------------------------------------------------------------------------
(***************************************************************************)
(* generator: frames have one owner, and every value gets to the consumer. *)
(***************************************************************************)
\* Null is no frame, and neither it nor an emptied optional is a value.
GeneratorAssumptions ==
    /\ MaxYields \in Nat
    /\ Null \notin Frames /\ Null \notin Generator!Yields /\ Moved \notin Generator!Yields

GeneratorU(f) == IF Generator!Unread(f) THEN 1 ELSE 0
Increasing(s) == \A i, j \in DOMAIN s : i < j => s[i] < s[j]

\* Delivered for one coroutine, and why: a value in the promise is the one that
\* was yielded last, and the consumer has seen no later one.
FrameInv(f) ==
    /\ g_yielded[f] <= g_plan[f].yields
    /\ \A i \in DOMAIN g_seen[f] : g_seen[f][i] \in 1..g_yielded[f]
    /\ g_yval[f] \in Generator!Yields => g_yval[f] = g_yielded[f]
    /\ Increasing(g_seen[f])
    /\ Len(g_seen[f]) + g_skipped[f] + GeneratorU(f) = g_yielded[f]
    /\ g_final[f] => g_yielded[f] = g_plan[f].yields /\ g_yval[f] = Null
    /\ g_final[f] => (g_ret[f] \/ g_exception[f])
    /\ g_caught[f] = IF g_final[f] /\ g_plan[f].ending = "throw" THEN 1 ELSE 0

GeneratorIndInv == Generator!TypeOK /\ Generator!FramesOwned /\ \A f \in Frames : FrameInv(f)

-----------------------------------------------------------------------------
(* Owners.                                                                 *)

LEMMA Ownership ==
    ASSUME GeneratorAssumptions, Generator!TypeOK, Generator!FramesOwned,
           \E g \in Objects :
               \/ \E f \in Frames : Generator!Create(g, f)
               \/ \E h \in Objects : Generator!AssignMove(g, h)
               \/ Generator!reset(g)
    PROVE  Generator!FramesOwned'
<1>1. ASSUME NEW g \in Objects, NEW f \in Frames, Generator!Create(g, f)
      PROVE  Generator!FramesOwned'
  <2>1. /\ g_handle' = [g_handle EXCEPT ![g] = f] /\ g_alive' = g_alive \cup {f}
        /\ g_abandoned' = g_abandoned /\ g \notin g_abandoned
        /\ \A h \in Objects : g_handle[h] # f
        /\ g_handle[g] = Null
    BY <1>1 DEF Generator!Create
  <2> QED
    BY <2>1 DEF GeneratorAssumptions, Generator!TypeOK, Generator!FramesOwned
<1>2. ASSUME NEW g \in Objects, Generator!reset(g)
      PROVE  Generator!FramesOwned'
  <2>1. /\ g_handle' = [g_handle EXCEPT ![g] = Null] /\ g_alive' = g_alive \ {g_handle[g]}
        /\ g_abandoned' = g_abandoned /\ g \notin g_abandoned
    BY <1>2 DEF Generator!reset, Generator!Owned
  <2> QED
    BY <2>1 DEF GeneratorAssumptions, Generator!TypeOK, Generator!FramesOwned
<1>3. ASSUME NEW g \in Objects, Generator!AssignMove(g, g)
      PROVE  Generator!FramesOwned'
  <2>1. /\ g_handle' = g_handle /\ g_alive' = g_alive \ {g_handle[g]}
        /\ g_abandoned' = IF g_handle[g] # Null THEN g_abandoned \cup {g} ELSE g_abandoned
    BY <1>3 DEF Generator!AssignMove
  <2> QED
    BY <2>1 DEF GeneratorAssumptions, Generator!TypeOK, Generator!FramesOwned
<1>4. ASSUME NEW g \in Objects, NEW h \in Objects, g # h, Generator!AssignMove(g, h)
      PROVE  Generator!FramesOwned'
  <2>1. /\ g_handle' = [g_handle EXCEPT ![g] = g_handle[h], ![h] = Null]
        /\ g_alive' = g_alive \ {g_handle[g]}
        /\ g_abandoned' = g_abandoned /\ g \notin g_abandoned /\ h \notin g_abandoned
    BY <1>4 DEF Generator!AssignMove
  <2>2. /\ g_handle'[g] = g_handle[h] /\ g_handle'[h] = Null
        /\ \A k \in Objects \ {g, h} : g_handle'[k] = g_handle[k]
    BY <1>4, <2>1 DEF Generator!TypeOK
  <2>3. \A f \in g_alive' : \E k \in Objects \ g_abandoned' : g_handle'[k] = f
    BY <1>4, <2>1, <2>2 DEF GeneratorAssumptions, Generator!TypeOK, Generator!FramesOwned
  <2>4. \A k \in Objects \ g_abandoned' : g_handle'[k] # Null => g_handle'[k] \in g_alive'
    BY <1>4, <2>1, <2>2 DEF GeneratorAssumptions, Generator!TypeOK, Generator!FramesOwned
  <2>5. \A k, l \in Objects : g_handle'[k] = g_handle'[l] /\ k # l => g_handle'[k] = Null
    BY <1>4, <2>2 DEF Generator!FramesOwned
  <2> QED
    BY <2>3, <2>4, <2>5 DEF Generator!FramesOwned
<1> QED
  BY <1>1, <1>2, <1>3, <1>4

\* The steps of owners keep the types, and touch no coroutine and no consumer.
LEMMA OwnerStep ==
    ASSUME GeneratorAssumptions, GeneratorIndInv,
           \E g \in Objects :
               \/ \E f \in Frames : Generator!Create(g, f)
               \/ \E h \in Objects : Generator!AssignMove(g, h)
               \/ Generator!reset(g)
    PROVE  GeneratorIndInv'
<1>1. UNCHANGED <<Generator!coroutine, Generator!consumer>>
  BY DEF Generator!Create, Generator!AssignMove, Generator!reset
<1>2. /\ g_alive' \subseteq Frames /\ g_abandoned' \subseteq Objects
      /\ g_handle' \in [Objects -> Frames \cup {Null}]
  <2>1. ASSUME NEW g \in Objects, NEW f \in Frames, Generator!Create(g, f)
        PROVE  <1>2!:
    BY <2>1 DEF GeneratorIndInv, Generator!TypeOK, Generator!Create
  <2>2. ASSUME NEW g \in Objects, NEW h \in Objects, Generator!AssignMove(g, h)
        PROVE  <1>2!:
    BY <2>2 DEF GeneratorIndInv, Generator!TypeOK, Generator!AssignMove
  <2>3. ASSUME NEW g \in Objects, Generator!reset(g)
        PROVE  <1>2!:
    BY <2>3 DEF GeneratorIndInv, Generator!TypeOK, Generator!reset
  <2> QED
    BY <2>1, <2>2, <2>3
<1>3. Generator!TypeOK'
  BY <1>1, <1>2 DEF GeneratorIndInv, Generator!TypeOK, Generator!coroutine, Generator!consumer
<1>4. \A f \in Frames : FrameInv(f)'
  BY <1>1 DEF GeneratorIndInv, FrameInv, GeneratorU, Generator!Unread, Generator!coroutine,
     Generator!consumer
<1> QED
  BY <1>3, <1>4, Ownership DEF GeneratorIndInv

-----------------------------------------------------------------------------
(* Values.                                                                 *)

\* What the consumer has seen with one value more, later than the others.
LEMMA OneMore ==
    ASSUME NEW s \in Seq(Generator!Yields \cup {Moved}), NEW n \in Nat, NEW k \in Nat, n <= k,
           \A i \in DOMAIN s : s[i] \in 1..n /\ s[i] < k,
           Increasing(s), k \in Generator!Yields
    PROVE  LET t == Append(s, k) IN
           /\ t \in Seq(Generator!Yields \cup {Moved}) /\ Len(t) = Len(s) + 1
           /\ \A i \in DOMAIN t : t[i] \in 1..k
           /\ Increasing(t)
           /\ \E i \in DOMAIN t : t[i] = k
<1> DEFINE t == Append(s, k)
<1>1. /\ t \in Seq(Generator!Yields \cup {Moved}) /\ Len(t) = Len(s) + 1 /\ Len(s) \in Nat
      /\ DOMAIN t = 1..(Len(s) + 1) /\ DOMAIN s = 1..Len(s)
      /\ t[Len(s) + 1] = k
      /\ \A i \in 1..Len(s) : t[i] = s[i]
  OBVIOUS
<1> HIDE DEF t
<1>2. \A i \in DOMAIN t : t[i] \in 1..k
  <2> SUFFICES ASSUME NEW i \in DOMAIN t
               PROVE  t[i] \in 1..k
    OBVIOUS
  <2>1. CASE i = Len(s) + 1
    <3>1. k \in 1..MaxYields
      BY DEF Generator!Yields
    <3>2. k >= 1
      BY <3>1
    <3> QED
      BY <1>1, <2>1, <3>2
  <2>2. CASE i \in 1..Len(s)
    <3>1. t[i] = s[i] /\ s[i] \in 1..n
      BY <1>1, <2>2
    <3> QED
      BY <3>1
  <2> QED
    BY <1>1, <2>1, <2>2
<1>3. Increasing(t)
  BY <1>1 DEF Increasing
<1> QED
  BY <1>1, <1>2, <1>3 DEF t

-----------------------------------------------------------------------------
(* Resuming.                                                               *)

\* A resume of f, as its promise, its counters and the consumer's see it.
LEMMA Resumed ==
    ASSUME GeneratorAssumptions, GeneratorIndInv, NEW f \in Frames, Generator!safe_resume(f)
    PROVE  /\ g_yielded'[f] \in 0..MaxYields /\ g_yielded[f] \in Nat
           /\ g_yielded'[f] = IF Generator!AtEnd(f) THEN g_yielded[f] ELSE g_yielded[f] + 1
           /\ g_yielded'[f] <= g_plan[f].yields
           /\ g_final'[f] = Generator!AtEnd(f)
           /\ Generator!AtEnd(f) <=> Generator!NextValue(f) = Null
           /\ ~Generator!AtEnd(f) => Generator!NextValue(f) = g_yielded'[f] /\ Generator!NextValue(f) \in Generator!Yields
           /\ Generator!AtEnd(f) => g_yielded'[f] = g_plan[f].yields /\ (g_ret'[f] \/ g_exception'[f])
           /\ g_caught'[f] = IF Generator!AtEnd(f) /\ g_plan[f].ending = "throw" THEN 1 ELSE 0
           /\ g_skipped'[f] = g_skipped[f] + GeneratorU(f)
<1>1. /\ g_plan[f] \in Generator!Plan /\ g_plan[f].yields \in 0..MaxYields
      /\ g_yielded[f] \in 0..MaxYields /\ g_yielded[f] <= g_plan[f].yields
      /\ g_skipped[f] \in Nat /\ g_caught[f] = 0 /\ MaxYields \in Nat
  BY DEF GeneratorAssumptions, GeneratorIndInv, Generator!TypeOK, Generator!Plan, FrameInv,
     Generator!safe_resume
<1>2. /\ g_yielded'[f] = IF Generator!AtEnd(f) THEN g_yielded[f] ELSE g_yielded[f] + 1
      /\ g_caught'[f] = IF g_exception'[f] THEN g_caught[f] + 1 ELSE g_caught[f]
      /\ g_skipped'[f] = IF Generator!Unread(f) THEN g_skipped[f] + 1 ELSE g_skipped[f]
  BY DEF GeneratorIndInv, Generator!TypeOK, Generator!safe_resume
<1>3. /\ g_final'[f] = Generator!AtEnd(f) /\ g_exception'[f] = Generator!Throws(f)
      /\ g_ret'[f] = (Generator!AtEnd(f) /\ ~Generator!Throws(f))
  BY Zenon DEF GeneratorIndInv, Generator!TypeOK, Generator!safe_resume
<1>4. /\ g_exception'[f] <=> Generator!AtEnd(f) /\ g_plan[f].ending = "throw"
      /\ Generator!AtEnd(f) => g_ret'[f] \/ g_exception'[f]
  BY <1>3, Zenon DEF Generator!Throws
<1>5. g_caught'[f] = IF Generator!AtEnd(f) /\ g_plan[f].ending = "throw" THEN 1 ELSE 0
  BY <1>1, <1>2, <1>4
<1>6. g_skipped'[f] = g_skipped[f] + GeneratorU(f)
  BY <1>1, <1>2 DEF GeneratorU
<1>7. CASE Generator!AtEnd(f)
  <2>1. Generator!NextValue(f) = Null
    BY <1>1, <1>7 DEF Generator!AtEnd, Generator!NextValue
  <2>2. g_yielded'[f] = g_plan[f].yields
    BY <1>2, <1>7 DEF Generator!AtEnd
  <2> QED
    BY <1>1, <1>2, <1>3, <1>4, <1>5, <1>6, <1>7, <2>1, <2>2
<1>8. CASE ~Generator!AtEnd(f)
  <2>1. g_yielded[f] < g_plan[f].yields
    BY <1>1, <1>8 DEF Generator!AtEnd
  <2>2. Generator!NextValue(f) = g_yielded[f] + 1 /\ Generator!NextValue(f) \in Generator!Yields
    BY <1>1, <2>1 DEF Generator!NextValue, Generator!Yields
  <2>3. Generator!NextValue(f) # Null
    BY <2>2 DEF GeneratorAssumptions
  <2> QED
    BY <1>1, <1>2, <1>3, <1>5, <1>6, <1>8, <2>1, <2>2, <2>3
<1> QED
  BY <1>7, <1>8

\* A resume of f keeps the types, if what follows it does, and no other
\* coroutine sees it.
LEMMA ResumeStep ==
    ASSUME GeneratorAssumptions, GeneratorIndInv, NEW f \in Frames, Generator!safe_resume(f),
           NEW v \in Generator!Yields \cup {Null, Moved}, g_yval' = [g_yval EXCEPT ![f] = v],
           NEW s \in Seq(Generator!Yields \cup {Moved}), g_seen' = [g_seen EXCEPT ![f] = s],
           FrameInv(f)'
    PROVE  GeneratorIndInv'
<1>1. /\ g_yielded'[f] \in 0..MaxYields /\ g_skipped'[f] \in Nat /\ g_caught'[f] \in Nat
  <2>1. g_skipped[f] \in Nat /\ GeneratorU(f) \in {0, 1}
    BY DEF GeneratorIndInv, Generator!TypeOK, GeneratorU
  <2>2. /\ g_yielded'[f] \in 0..MaxYields /\ g_skipped'[f] = g_skipped[f] + GeneratorU(f)
        /\ g_caught'[f] \in {0, 1}
    BY Resumed
  <2> QED
    BY <2>1, <2>2
<1>2. /\ g_alive' = g_alive /\ g_plan' = g_plan /\ g_handle' = g_handle /\ g_abandoned' = g_abandoned
  BY DEF Generator!safe_resume
<1>3. g_yielded' = [g_yielded EXCEPT ![f] = g_yielded'[f]]
  BY DEF Generator!safe_resume, GeneratorIndInv, Generator!TypeOK
<1>4. g_caught' = [g_caught EXCEPT ![f] = g_caught'[f]]
  BY DEF Generator!safe_resume, GeneratorIndInv, Generator!TypeOK
<1>5. g_skipped' = [g_skipped EXCEPT ![f] = g_skipped'[f]]
  BY DEF Generator!safe_resume, GeneratorIndInv, Generator!TypeOK
<1>6. /\ g_final' = [g_final EXCEPT ![f] = Generator!AtEnd(f)]
      /\ g_exception' = [g_exception EXCEPT ![f] = Generator!Throws(f)]
      /\ g_ret' = [g_ret EXCEPT ![f] = Generator!AtEnd(f) /\ ~Generator!Throws(f)]
  BY DEF Generator!safe_resume
<1>7. Generator!AtEnd(f) \in BOOLEAN /\ Generator!Throws(f) \in BOOLEAN
  BY DEF Generator!AtEnd, Generator!Throws
<1>8. /\ g_yielded' \in [Frames -> 0..MaxYields]
      /\ g_skipped' \in [Frames -> Nat] /\ g_caught' \in [Frames -> Nat]
  BY <1>1, <1>3, <1>4, <1>5 DEF GeneratorIndInv, Generator!TypeOK
<1>9. /\ g_final' \in [Frames -> BOOLEAN] /\ g_exception' \in [Frames -> BOOLEAN]
      /\ g_ret' \in [Frames -> BOOLEAN]
  BY <1>6, <1>7, Zenon DEF GeneratorIndInv, Generator!TypeOK
<1>10. /\ g_yval' \in [Frames -> Generator!Yields \cup {Null, Moved}]
       /\ g_seen' \in [Frames -> Seq(Generator!Yields \cup {Moved})]
  BY DEF GeneratorIndInv, Generator!TypeOK
<1>11. Generator!TypeOK'
  BY <1>2, <1>8, <1>9, <1>10 DEF GeneratorIndInv, Generator!TypeOK
<1>12. Generator!FramesOwned'
  BY <1>2 DEF GeneratorIndInv, Generator!FramesOwned
<1>13. ASSUME NEW e \in Frames, e # f
       PROVE  FrameInv(e)'
  <2>1. /\ g_yielded'[e] = g_yielded[e] /\ g_skipped'[e] = g_skipped[e] /\ g_caught'[e] = g_caught[e]
        /\ g_yval'[e] = g_yval[e] /\ g_seen'[e] = g_seen[e] /\ g_plan'[e] = g_plan[e]
    BY <1>2, <1>3, <1>4, <1>5, <1>13 DEF GeneratorIndInv, Generator!TypeOK
  <2>2. /\ g_final'[e] = g_final[e] /\ g_exception'[e] = g_exception[e] /\ g_ret'[e] = g_ret[e]
    BY <1>6, <1>13 DEF GeneratorIndInv, Generator!TypeOK
  <2> QED
    BY <2>1, <2>2 DEF GeneratorIndInv, FrameInv, GeneratorU, Generator!Unread
<1> QED
  BY <1>11, <1>12, <1>13 DEF GeneratorIndInv

\* A resume that runs the coroutine to its end.
LEMMA ResumeToEnd ==
    ASSUME GeneratorAssumptions, GeneratorIndInv, NEW f \in Frames, Generator!safe_resume(f), Generator!AtEnd(f),
           g_yval' = [g_yval EXCEPT ![f] = Null], g_seen' = g_seen
    PROVE  GeneratorIndInv'
<1>1. /\ g_yval'[f] = Null /\ g_plan' = g_plan
      /\ g_seen[f] \in Seq(Generator!Yields \cup {Moved}) /\ g_seen' = [g_seen EXCEPT ![f] = g_seen[f]]
      /\ g_yval \in [Frames -> Generator!Yields \cup {Null, Moved}]
  BY DEF GeneratorIndInv, Generator!TypeOK, Generator!safe_resume
<1>2. /\ g_yielded'[f] = g_yielded[f] /\ g_yielded'[f] = g_plan[f].yields /\ g_yielded[f] \in Nat
      /\ g_yielded'[f] <= g_plan[f].yields
      /\ g_final'[f] = TRUE /\ (g_ret'[f] \/ g_exception'[f])
      /\ g_caught'[f] = IF g_plan[f].ending = "throw" THEN 1 ELSE 0
      /\ g_skipped'[f] = g_skipped[f] + GeneratorU(f)
  BY Resumed
<1>3. GeneratorU(f)' = 0
  BY <1>1 DEF GeneratorU, Generator!Unread, GeneratorAssumptions
<1>4. /\ Len(g_seen[f]) \in Nat /\ g_skipped[f] \in Nat /\ GeneratorU(f) \in {0, 1}
      /\ Len(g_seen[f]) + g_skipped[f] + GeneratorU(f) = g_yielded[f]
  BY <1>1 DEF GeneratorIndInv, Generator!TypeOK, FrameInv, GeneratorU
<1>5. Len(g_seen'[f]) + g_skipped'[f] + GeneratorU(f)' = g_yielded'[f]
  BY <1>2, <1>3, <1>4
<1>6. (\A i \in DOMAIN g_seen[f] : g_seen[f][i] \in 1..g_yielded[f]) /\ Increasing(g_seen[f])
  BY DEF GeneratorIndInv, FrameInv
<1>7. FrameInv(f)'
  BY <1>1, <1>2, <1>5, <1>6 DEF FrameInv, GeneratorAssumptions
<1> QED
  BY <1>1, <1>7, ResumeStep

-----------------------------------------------------------------------------
(* The consumer's steps.                                                   *)

LEMMA NextStep ==
    ASSUME GeneratorAssumptions, GeneratorIndInv, NEW g \in Objects, Generator!next(g)
    PROVE  GeneratorIndInv'
<1>0. PICK f \in Frames : f = g_handle[g]
  BY DEF Generator!next, Generator!Owned, GeneratorIndInv, Generator!TypeOK
<1> DEFINE k == Generator!NextValue(f)
           v == IF k = Null \/ g_plan[f].ref THEN k ELSE Moved
<1>1. /\ Generator!safe_resume(f)
      /\ g_yval' = [g_yval EXCEPT ![f] = v]
      /\ g_seen' = [g_seen EXCEPT ![f] = IF k = Null THEN @ ELSE Append(@, k)]
  BY <1>0 DEF Generator!next
<1>2. CASE Generator!AtEnd(f)
  <2>1. k = Null
    BY <1>1, <1>2, Resumed
  <2>2. g_yval' = [g_yval EXCEPT ![f] = Null] /\ g_seen' = g_seen
    BY <1>1, <2>1 DEF GeneratorIndInv, Generator!TypeOK
  <2> QED
    BY <1>1, <1>2, <2>2, ResumeToEnd
<1>3. CASE ~Generator!AtEnd(f)
  <2> DEFINE s == g_seen[f]
             t == Append(s, k)
  <2>1. /\ k = g_yielded'[f] /\ k \in Generator!Yields /\ k # Null
        /\ g_yielded'[f] = g_yielded[f] + 1 /\ g_yielded[f] \in Nat /\ g_yielded'[f] <= g_plan[f].yields
        /\ g_final'[f] = FALSE /\ g_caught'[f] = 0
        /\ g_skipped'[f] = g_skipped[f] + GeneratorU(f)
    BY <1>1, <1>3, Resumed
  <2>2. /\ s \in Seq(Generator!Yields \cup {Moved}) /\ g_skipped[f] \in Nat /\ GeneratorU(f) \in {0, 1}
        /\ Len(s) + g_skipped[f] + GeneratorU(f) = g_yielded[f]
        /\ (\A i \in DOMAIN s : s[i] \in 1..g_yielded[f]) /\ Increasing(s)
    BY <1>1 DEF GeneratorIndInv, Generator!TypeOK, FrameInv, GeneratorU
  <2>3. /\ t \in Seq(Generator!Yields \cup {Moved}) /\ Len(t) = Len(s) + 1
        /\ (\A i \in DOMAIN t : t[i] \in 1..k) /\ Increasing(t)
        /\ \E i \in DOMAIN t : t[i] = k
    <3> HIDE DEF s, k
    <3>1. \A i \in DOMAIN s : s[i] \in 1..g_yielded[f] /\ s[i] < k
      BY <2>1, <2>2
    <3>2. k \in Nat /\ k \in Generator!Yields /\ g_yielded[f] \in Nat /\ g_yielded[f] <= k
      BY <2>1
    <3>3. s \in Seq(Generator!Yields \cup {Moved}) /\ Increasing(s)
      BY <2>2
    <3> QED
      BY <3>1, <3>2, <3>3, OneMore
  <2>4. /\ g_yval'[f] = v /\ g_seen' = [g_seen EXCEPT ![f] = t] /\ g_seen'[f] = t /\ g_plan' = g_plan
    BY <1>1, <2>1 DEF GeneratorIndInv, Generator!TypeOK, Generator!safe_resume
  <2>5. v \in {k, Moved} /\ Moved \notin Generator!Yields
    BY DEF GeneratorAssumptions
  <2> HIDE DEF t, s, k, v
  <2>6. GeneratorU(f)' = 0
    BY <2>3, <2>4, <2>5 DEF GeneratorU, Generator!Unread
  <2>7. Len(g_seen'[f]) + g_skipped'[f] + GeneratorU(f)' = g_yielded'[f]
    <3>1. Len(s) \in Nat /\ Len(g_seen'[f]) = Len(s) + 1
      BY <2>2, <2>3, <2>4
    <3>2. /\ g_yielded'[f] = g_yielded[f] + 1 /\ g_yielded[f] \in Nat
          /\ g_skipped'[f] = g_skipped[f] + GeneratorU(f)
          /\ g_skipped[f] \in Nat /\ GeneratorU(f) \in {0, 1} /\ Len(s) + g_skipped[f] + GeneratorU(f) = g_yielded[f]
      BY <2>1, <2>2
    <3>3. (Len(s) + 1) + (g_skipped[f] + GeneratorU(f)) + 0 = g_yielded[f] + 1
      BY <3>1, <3>2
    <3> QED
      BY <2>6, <3>1, <3>2, <3>3
  <2>8. FrameInv(f)'
    BY <2>1, <2>3, <2>4, <2>5, <2>7 DEF FrameInv
  <2> QED
    BY <1>1, <2>1, <2>3, <2>4, <2>5, <2>8, ResumeStep
<1> QED
  BY <1>2, <1>3

LEMMA AdvanceStep ==
    ASSUME GeneratorAssumptions, GeneratorIndInv, NEW f \in Frames, Generator!Advance(f)
    PROVE  GeneratorIndInv'
<1> DEFINE k == Generator!NextValue(f)
<1>1. Generator!safe_resume(f) /\ g_yval' = [g_yval EXCEPT ![f] = k] /\ g_seen' = g_seen
  BY DEF Generator!Advance
<1>2. CASE Generator!AtEnd(f)
  <2>1. k = Null
    BY <1>1, <1>2, Resumed
  <2> QED
    BY <1>1, <1>2, <2>1, ResumeToEnd
<1>3. CASE ~Generator!AtEnd(f)
  <2>1. /\ k = g_yielded'[f] /\ k \in Generator!Yields
        /\ g_yielded'[f] = g_yielded[f] + 1 /\ g_yielded[f] \in Nat /\ g_yielded'[f] <= g_plan[f].yields
        /\ g_final'[f] = FALSE /\ g_caught'[f] = 0
        /\ g_skipped'[f] = g_skipped[f] + GeneratorU(f)
    BY <1>1, <1>3, Resumed
  <2>2. /\ g_seen[f] \in Seq(Generator!Yields \cup {Moved}) /\ g_skipped[f] \in Nat /\ GeneratorU(f) \in {0, 1}
        /\ Len(g_seen[f]) + g_skipped[f] + GeneratorU(f) = g_yielded[f]
        /\ (\A i \in DOMAIN g_seen[f] : g_seen[f][i] \in 1..g_yielded[f]) /\ Increasing(g_seen[f])
    BY DEF GeneratorIndInv, Generator!TypeOK, FrameInv, GeneratorU
  <2>3. /\ g_yval'[f] = k /\ g_seen' = [g_seen EXCEPT ![f] = g_seen[f]] /\ g_plan' = g_plan
    BY <1>1 DEF GeneratorIndInv, Generator!TypeOK, Generator!safe_resume
  <2> HIDE DEF k
  <2>4. \A i \in DOMAIN g_seen[f] : g_seen[f][i] # k /\ g_seen[f][i] \in 1..g_yielded'[f]
    BY <2>1, <2>2
  <2>5. GeneratorU(f)' = 1
    BY <1>1, <2>1, <2>3, <2>4 DEF GeneratorU, Generator!Unread
  <2>6. Len(g_seen'[f]) + g_skipped'[f] + GeneratorU(f)' = g_yielded'[f]
    <3>1. Len(g_seen[f]) \in Nat
      BY <2>2
    <3> QED
      BY <1>1, <2>1, <2>2, <2>5, <3>1
  <2>7. FrameInv(f)'
    BY <1>1, <2>1, <2>2, <2>3, <2>4, <2>6 DEF FrameInv
  <2> QED
    BY <1>1, <2>1, <2>2, <2>3, <2>7, ResumeStep
<1> QED
  BY <1>2, <1>3

LEMMA DerefStep ==
    ASSUME GeneratorAssumptions, GeneratorIndInv, NEW f \in Frames, Generator!Deref(f)
    PROVE  GeneratorIndInv'
<1>1. /\ UNCHANGED <<g_alive, g_plan, g_yielded, g_final, g_yval, g_exception, g_ret,
                     g_handle, g_abandoned, g_skipped, g_caught>>
      /\ g_yval[f] \in Generator!Yields
  BY DEF Generator!Deref, Generator!coroutine
<1>2. CASE ~Generator!Unread(f)
  <2>1. g_seen' = g_seen
    BY <1>2 DEF Generator!Deref, GeneratorIndInv, Generator!TypeOK
  <2> QED
    BY <1>1, <2>1 DEF GeneratorIndInv, Generator!TypeOK, Generator!FramesOwned, FrameInv,
       GeneratorU, Generator!Unread
<1>3. CASE Generator!Unread(f)
  <2> DEFINE s == g_seen[f]
             k == g_yval[f]
             t == Append(s, k)
  <2>1. /\ s \in Seq(Generator!Yields \cup {Moved}) /\ g_skipped[f] \in Nat /\ GeneratorU(f) = 1
        /\ Len(s) + g_skipped[f] + 1 = g_yielded[f] /\ g_yielded[f] \in Nat
        /\ (\A i \in DOMAIN s : s[i] \in 1..g_yielded[f] /\ s[i] # k) /\ Increasing(s)
        /\ k = g_yielded[f] /\ k \in Generator!Yields
    <3>1. s \in Seq(Generator!Yields \cup {Moved}) /\ g_skipped[f] \in Nat /\ g_yielded[f] \in Nat
      BY DEF GeneratorIndInv, Generator!TypeOK
    <3>2. /\ Len(s) + g_skipped[f] + GeneratorU(f) = g_yielded[f]
          /\ (\A i \in DOMAIN s : s[i] \in 1..g_yielded[f]) /\ Increasing(s)
          /\ k \in Generator!Yields => k = g_yielded[f]
      BY DEF GeneratorIndInv, FrameInv
    <3>3. GeneratorU(f) = 1 /\ \A i \in DOMAIN s : s[i] # k
      BY <1>3 DEF GeneratorU, Generator!Unread
    <3> QED
      BY <1>1, <3>1, <3>2, <3>3
  <2>2. /\ t \in Seq(Generator!Yields \cup {Moved}) /\ Len(t) = Len(s) + 1
        /\ (\A i \in DOMAIN t : t[i] \in 1..k) /\ Increasing(t)
        /\ \E i \in DOMAIN t : t[i] = k
    <3> HIDE DEF s, k
    <3>1. \A i \in DOMAIN s : s[i] \in 1..g_yielded[f] /\ s[i] < k
      BY <2>1
    <3> QED
      BY <2>1, <3>1, OneMore
  <2>3. g_seen' = [g_seen EXCEPT ![f] = t] /\ g_seen'[f] = t
    BY <1>3 DEF Generator!Deref, GeneratorIndInv, Generator!TypeOK
  <2> HIDE DEF t, s
  <2>4. GeneratorU(f)' = 0
    BY <1>1, <2>2, <2>3 DEF GeneratorU, Generator!Unread
  <2>5. Len(g_seen'[f]) + g_skipped'[f] + GeneratorU(f)' = g_yielded'[f]
    <3>1. Len(s) \in Nat
      BY <2>1
    <3> QED
      BY <1>1, <2>1, <2>2, <2>3, <2>4, <3>1
  <2>6. FrameInv(f)'
    <3>1. FrameInv(f)
      BY DEF GeneratorIndInv
    <3> QED
      BY <1>1, <2>1, <2>2, <2>3, <2>5, <3>1 DEF FrameInv
  <2>7. ASSUME NEW e \in Frames, e # f
        PROVE  FrameInv(e)'
    <3>1. g_seen'[e] = g_seen[e]
      BY <2>3, <2>7 DEF GeneratorIndInv, Generator!TypeOK
    <3> QED
      BY <1>1, <3>1 DEF GeneratorIndInv, FrameInv, GeneratorU, Generator!Unread
  <2>8. Generator!TypeOK' /\ Generator!FramesOwned'
    BY <1>1, <2>2, <2>3 DEF GeneratorIndInv, Generator!TypeOK, Generator!FramesOwned
  <2> QED
    BY <2>6, <2>7, <2>8 DEF GeneratorIndInv
<1> QED
  BY <1>2, <1>3

-----------------------------------------------------------------------------
(* The theorems.                                                           *)

LEMMA GeneratorInitInv == ASSUME GeneratorAssumptions, Generator!Init PROVE GeneratorIndInv
<1>1. Generator!TypeOK
  BY DEF Generator!Init, Generator!TypeOK, GeneratorAssumptions
<1>2. Generator!FramesOwned
  BY DEF Generator!Init, Generator!FramesOwned
<1>3. ASSUME NEW f \in Frames
      PROVE  FrameInv(f)
  <2>1. /\ g_seen[f] = <<>> /\ g_yielded[f] = 0 /\ g_skipped[f] = 0 /\ g_yval[f] = Null
        /\ g_final[f] = FALSE /\ g_caught[f] = 0
    BY <1>3 DEF Generator!Init
  <2>2. GeneratorU(f) = 0
    BY <2>1 DEF GeneratorU, Generator!Unread, GeneratorAssumptions
  <2>3. g_plan[f].yields \in 0..MaxYields /\ MaxYields \in Nat
    BY <1>1, <1>3 DEF Generator!TypeOK, Generator!Plan, GeneratorAssumptions
  <2> QED
    BY <2>1, <2>2, <2>3 DEF FrameInv, Increasing, GeneratorAssumptions
<1> QED
  BY <1>1, <1>2, <1>3 DEF GeneratorIndInv

LEMMA GeneratorNextInv ==
    ASSUME GeneratorAssumptions, GeneratorIndInv, [Generator!Next]_(Generator!vars)
    PROVE  GeneratorIndInv'
<1>1. ASSUME NEW g \in Objects, Generator!next(g)
      PROVE  GeneratorIndInv'
  BY <1>1, NextStep
<1>2. ASSUME NEW f \in Frames, Generator!Advance(f) \/ Generator!Deref(f)
      PROVE  GeneratorIndInv'
  BY <1>2, AdvanceStep, DerefStep
<1>3. CASE UNCHANGED Generator!vars
  BY <1>3 DEF Generator!vars, Generator!coroutine, Generator!consumer, GeneratorIndInv,
     Generator!TypeOK, Generator!FramesOwned, FrameInv, GeneratorU, Generator!Unread
<1> QED
  BY <1>1, <1>2, <1>3, OwnerStep DEF Generator!Next, Generator!NextAfterEnd

LEMMA GeneratorAssumed == GeneratorAssumptions
  BY FramesAssumption, YieldsAssumption DEF GeneratorAssumptions, Generator!Yields

\* Whatever is created, moved, reset and resumed: a frame has one owner until it
\* is destroyed, and only a self-assignment leaves an owner without its frame
\* (operator=(generator&&), reset).
THEOREM GeneratorFramesOwned == Generator!Spec => []Generator!FramesOwned
<1>1. Generator!Spec => []GeneratorIndInv
  BY GeneratorInitInv, GeneratorNextInv, GeneratorAssumed, PTL DEF Generator!Spec
<1>2. GeneratorIndInv => Generator!FramesOwned
  BY DEF GeneratorIndInv
<1> QED
  BY <1>1, <1>2, PTL

\* However the consumer mixes next() with iterators: it gets every value that it
\* does not resume past, in order and once, and is told how the coroutine ended
\* (next, safe_resume, pseudo_iterator).
THEOREM GeneratorDelivers == Generator!Spec => []Generator!Delivered
<1>1. Generator!Spec => []GeneratorIndInv
  BY GeneratorInitInv, GeneratorNextInv, GeneratorAssumed, PTL DEF Generator!Spec
<1>2. GeneratorIndInv => Generator!Delivered
  BY DEF GeneratorIndInv, FrameInv, Increasing, GeneratorU, Generator!Delivered,
     Generator!EachValueOnce, Generator!EndIsTold
<1> QED
  BY <1>1, <1>2, PTL

-----------------------------------------------------------------------------
(***************************************************************************)
(* ref_ptr: counts are exact, and a pointer that is unique stays so.       *)
(***************************************************************************)
\* UseCounts, and that there is a number of pointers to an object.
Counted ==
    \A o \in Blocks : IsFiniteSet(RefPtr!Owners(o)) /\ r_uses[o] = Cardinality(RefPtr!Owners(o))

\* StillUnique, pointer by pointer; and a thread writes through a pointer to
\* something.
Alone ==
    \A t \in Threads : ~RefPtr!Idle(t) =>
        LET i == r_writing[t].slot IN
        /\ r_ptr[t][i] # Null
        /\ r_writing[t].unique =>
              \A u \in Threads, j \in Objects : r_ptr[u][j] = r_ptr[t][i] => u = t /\ j = i

RefPtrIndInv == RefPtr!TypeOK /\ Counted /\ Alone /\ RefPtr!Detached

-----------------------------------------------------------------------------
(* Counting pointers.                                                      *)

\* An object whose counter is 0 has no pointers to it, and one whose counter
\* is 1 has no other pointers to it than the one that is known.
LEMMA CountsTell ==
    ASSUME RefPtr!TypeOK, Counted, NEW t \in Threads, NEW i \in Objects, NEW o \in Blocks, r_ptr[t][i] = o
    PROVE  /\ r_uses[o] # 0
           /\ r_uses[o] = 1 => \A u \in Threads, j \in Objects : r_ptr[u][j] = o => u = t /\ j = i
<1>1. IsFiniteSet(RefPtr!Owners(o)) /\ r_uses[o] = Cardinality(RefPtr!Owners(o))
  BY DEF Counted
<1>2. <<t, i>> \in RefPtr!Owners(o)
  BY DEF RefPtr!Owners
<1>3. r_uses[o] # 0
  BY <1>1, <1>2, FS_EmptySet
<1>4. ASSUME r_uses[o] = 1, NEW u \in Threads, NEW j \in Objects, r_ptr[u][j] = o
      PROVE  u = t /\ j = i
  <2>1. PICK p : RefPtr!Owners(o) = {p}
    BY <1>1, <1>4, FS_Singleton
  <2>2. <<u, j>> \in RefPtr!Owners(o)
    BY <1>4 DEF RefPtr!Owners
  <2> QED
    BY <1>2, <2>1, <2>2
<1> QED
  BY <1>3, <1>4

\* When one pointer changes, the counters follow.
LEMMA PointsCounts ==
    ASSUME RefPtr!TypeOK, Counted, NEW t \in Threads, NEW i \in Objects, NEW p \in Blocks \cup {Null},
           RefPtr!Points(t, i, p)
    PROVE  Counted'
<1> SUFFICES ASSUME NEW o \in Blocks
             PROVE  IsFiniteSet(RefPtr!Owners(o)') /\ r_uses'[o] = Cardinality(RefPtr!Owners(o)')
  BY DEF Counted
<1> DEFINE x == <<t, i>>
<1>1. IsFiniteSet(RefPtr!Owners(o)) /\ r_uses[o] = Cardinality(RefPtr!Owners(o)) /\ Cardinality(RefPtr!Owners(o)) \in Nat
  BY FS_CardinalityType DEF Counted
<1>2. x \in RefPtr!Owners(o) <=> r_ptr[t][i] = o
  BY DEF RefPtr!Owners
<1>3. RefPtr!Owners(o)' = IF p = o THEN RefPtr!Owners(o) \cup {x} ELSE RefPtr!Owners(o) \ {x}
  BY DEF RefPtr!Owners, RefPtr!Points, RefPtr!TypeOK
<1>4. r_uses'[o] = IF r_ptr[t][i] = p THEN r_uses[o]
                 ELSE IF o = p THEN r_uses[o] + 1
                 ELSE IF o = r_ptr[t][i] THEN r_uses[o] - 1 ELSE r_uses[o]
  BY DEF RefPtr!Points, RefPtr!Recounted
<1> HIDE DEF x
<1>5. CASE p = o
  <2>1. /\ IsFiniteSet(RefPtr!Owners(o) \cup {x})
        /\ Cardinality(RefPtr!Owners(o) \cup {x}) =
              IF x \in RefPtr!Owners(o) THEN Cardinality(RefPtr!Owners(o)) ELSE Cardinality(RefPtr!Owners(o)) + 1
    BY <1>1, FS_AddElement
  <2> QED
    BY <1>1, <1>2, <1>3, <1>4, <1>5, <2>1
<1>6. CASE p # o
  <2>1. /\ IsFiniteSet(RefPtr!Owners(o) \ {x})
        /\ Cardinality(RefPtr!Owners(o) \ {x}) =
              IF x \in RefPtr!Owners(o) THEN Cardinality(RefPtr!Owners(o)) - 1 ELSE Cardinality(RefPtr!Owners(o))
    BY <1>1, FS_RemoveElement
  <2> QED
    BY <1>1, <1>2, <1>3, <1>4, <1>6, <2>1
<1> QED
  BY <1>5, <1>6

\* Likewise when a pointer is moved to another one.
LEMMA MoveCounts ==
    ASSUME Null \notin Blocks, RefPtr!TypeOK, Counted,
           NEW t \in Threads, NEW i \in Objects, NEW j \in Objects, RefPtr!Move(t, i, j)
    PROVE  Counted'
<1> SUFFICES ASSUME NEW o \in Blocks
             PROVE  IsFiniteSet(RefPtr!Owners(o)') /\ r_uses'[o] = Cardinality(RefPtr!Owners(o)')
  BY DEF Counted
<1> DEFINE x == <<t, i>>
           y == <<t, j>>
           S == RefPtr!Owners(o)
<1>1. IsFiniteSet(S) /\ r_uses[o] = Cardinality(S) /\ Cardinality(S) \in Nat
  BY FS_CardinalityType DEF Counted
<1>2. (x \in S <=> r_ptr[t][i] = o) /\ (y \in S <=> r_ptr[t][j] = o) /\ x # y
  BY DEF RefPtr!Owners, RefPtr!Move
<1>3. RefPtr!Owners(o)' = IF r_ptr[t][i] = o THEN (S \cup {y}) \ {x} ELSE S \ {y}
  BY DEF RefPtr!Owners, RefPtr!Move, RefPtr!TypeOK
<1>4. r_uses'[o] = IF r_ptr[t][j] = o THEN r_uses[o] - 1 ELSE r_uses[o]
  BY DEF RefPtr!Move, RefPtr!Recounted
<1> HIDE DEF x, y, S
<1>5. CASE r_ptr[t][i] = o
  <2>1. /\ IsFiniteSet(S \cup {y})
        /\ Cardinality(S \cup {y}) = IF y \in S THEN Cardinality(S) ELSE Cardinality(S) + 1
    BY <1>1, FS_AddElement
  <2>2. /\ IsFiniteSet((S \cup {y}) \ {x})
        /\ Cardinality((S \cup {y}) \ {x}) = Cardinality(S \cup {y}) - 1
    BY <1>2, <1>5, <2>1, FS_RemoveElement
  <2> QED
    BY <1>1, <1>2, <1>3, <1>4, <1>5, <2>1, <2>2
<1>6. CASE r_ptr[t][i] # o
  <2>1. /\ IsFiniteSet(S \ {y})
        /\ Cardinality(S \ {y}) = IF y \in S THEN Cardinality(S) - 1 ELSE Cardinality(S)
    BY <1>1, FS_RemoveElement
  <2> QED
    BY <1>1, <1>2, <1>3, <1>4, <1>6, <2>1
<1> QED
  BY <1>5, <1>6

\* Counters are natural numbers because they count.
LEMMA UsesTyped ==
    ASSUME Counted', NEW o, NEW p, r_uses' = RefPtr!Recounted(o, p)
    PROVE  r_uses' \in [Blocks -> Nat]
<1>1. \A q \in Blocks : r_uses'[q] \in Nat
  BY FS_CardinalityType DEF Counted
<1> QED
  BY <1>1 DEF RefPtr!Recounted

-----------------------------------------------------------------------------
(* The steps.                                                              *)

\* A new object is at an address that nobody points to.
LEMMA MakeStep ==
    ASSUME Null \notin Blocks, RefPtrIndInv, NEW t \in Threads, NEW i \in Objects, NEW v \in Values,
           RefPtr!make(t, i, v)
    PROVE  /\ Counted' /\ RefPtr!Detached'
           /\ \A u \in Threads, j \in Objects : <<u, j>> # <<t, i>> => r_ptr'[u][j] = r_ptr[u][j]
           /\ \A u \in Threads, j \in Objects : r_ptr'[t][i] # r_ptr[u][j]
           /\ r_ptr' \in [Threads -> [Objects -> Blocks \cup {Null}]]
           /\ r_uses' \in [Blocks -> Nat]
           /\ r_content' \in [Blocks -> Values \cup {Null}]
           /\ r_seen' \in [Threads -> [Objects -> Values \cup {Null}]]
<1>1. PICK o \in Blocks :
          /\ r_uses[o] = 0
          /\ RefPtr!Points(t, i, o)
          /\ r_content' = [r_content EXCEPT ![o] = v]
          /\ r_seen' = [r_seen EXCEPT ![t][i] = v]
  BY DEF RefPtr!make
<1>2. Counted'
  BY <1>1, PointsCounts DEF RefPtrIndInv
<1>3. \A u \in Threads, j \in Objects : r_ptr[u][j] # o
  BY <1>1, CountsTell DEF RefPtrIndInv
<1>4. r_ptr' = [r_ptr EXCEPT ![t][i] = o]
  BY <1>1 DEF RefPtr!Points
<1>5. \A u \in Threads, j \in Objects : <<u, j>> # <<t, i>> => r_ptr'[u][j] = r_ptr[u][j]
  BY <1>4 DEF RefPtrIndInv, RefPtr!TypeOK
<1>6. r_ptr'[t][i] = o
  BY <1>4 DEF RefPtrIndInv, RefPtr!TypeOK
<1>7. /\ r_ptr' \in [Threads -> [Objects -> Blocks \cup {Null}]]
      /\ r_content' \in [Blocks -> Values \cup {Null}]
      /\ r_seen' \in [Threads -> [Objects -> Values \cup {Null}]]
  BY <1>1, <1>4 DEF RefPtrIndInv, RefPtr!TypeOK
<1>8. ASSUME NEW u \in Threads, NEW j \in Objects, r_ptr'[u][j] # Null
      PROVE  r_content'[r_ptr'[u][j]] = r_seen'[u][j]
  <2>1. CASE <<u, j>> = <<t, i>>
    BY <1>1, <1>6, <2>1 DEF RefPtrIndInv, RefPtr!TypeOK
  <2>2. CASE <<u, j>> # <<t, i>>
    <3>1. r_ptr[u][j] # Null /\ r_ptr[u][j] # o /\ r_ptr[u][j] \in Blocks
      BY <1>3, <1>5, <1>8, <2>2 DEF RefPtrIndInv, RefPtr!TypeOK
    <3>2. r_seen'[u][j] = r_seen[u][j]
      BY <1>1, <2>2 DEF RefPtrIndInv, RefPtr!TypeOK
    <3>3. r_content'[r_ptr[u][j]] = r_content[r_ptr[u][j]]
      BY <1>1, <3>1 DEF RefPtrIndInv, RefPtr!TypeOK
    <3> QED
      BY <1>5, <2>2, <3>1, <3>2, <3>3 DEF RefPtrIndInv, RefPtr!Detached
  <2> QED
    BY <2>1, <2>2
<1>9. r_uses' \in [Blocks -> Nat]
  BY <1>1, <1>2, UsesTyped DEF RefPtr!Points, RefPtr!Recounted
<1> QED
  BY <1>2, <1>3, <1>5, <1>6, <1>7, <1>8, <1>9 DEF RefPtr!Detached

\* A copy of a pointer knows of its object what the pointer knows.
LEMMA PointsDetached ==
    ASSUME RefPtrIndInv, NEW t \in Threads, NEW i \in Objects, NEW u \in Threads, NEW j \in Objects,
           RefPtr!Points(u, j, r_ptr[t][i]), r_seen' = [r_seen EXCEPT ![u][j] = r_seen[t][i]],
           r_content' = r_content
    PROVE  RefPtr!Detached'
<1> SUFFICES ASSUME NEW w \in Threads, NEW k \in Objects, r_ptr'[w][k] # Null
             PROVE  r_content[r_ptr'[w][k]] = r_seen'[w][k]
  BY DEF RefPtr!Detached
<1>1. \/ r_ptr'[w][k] = r_ptr[w][k] /\ r_seen'[w][k] = r_seen[w][k]
      \/ r_ptr'[w][k] = r_ptr[t][i] /\ r_seen'[w][k] = r_seen[t][i]
  BY DEF RefPtr!Points, RefPtrIndInv, RefPtr!TypeOK
<1> QED
  BY <1>1 DEF RefPtrIndInv, RefPtr!Detached

\* A pointer of an idle thread does not point to what another thread is to
\* write to in place.
LEMMA IdleElsewhere ==
    ASSUME RefPtrIndInv, NEW t \in Threads, NEW i \in Objects, RefPtr!Idle(t),
           NEW u \in Threads, ~RefPtr!Idle(u), r_writing[u].unique
    PROVE  r_ptr[t][i] # r_ptr[u][r_writing[u].slot]
  BY DEF RefPtrIndInv, Alone

\* If only the pointers of idle threads change, to null, to what nobody pointed
\* to or to what an idle thread did, then the writing threads stay alone.
LEMMA AloneStep ==
    ASSUME RefPtrIndInv, \A u \in Threads : r_writing'[u] \in {r_writing[u], Null},
           \A u \in Threads, j \in Objects :
               \/ r_ptr'[u][j] = r_ptr[u][j]
               \/ /\ RefPtr!Idle(u)'
                  /\ \/ r_ptr'[u][j] = Null
                     \/ \E w \in Threads, k \in Objects : RefPtr!Idle(w) /\ r_ptr'[u][j] = r_ptr[w][k]
                     \/ \A w \in Threads, k \in Objects : r_ptr'[u][j] # r_ptr[w][k]
    PROVE  Alone'
<1> SUFFICES ASSUME NEW u \in Threads, ~RefPtr!Idle(u)'
             PROVE  /\ r_ptr'[u][r_writing'[u].slot] # Null
                    /\ r_writing'[u].unique =>
                          \A w \in Threads, k \in Objects :
                              r_ptr'[w][k] = r_ptr'[u][r_writing'[u].slot] => w = u /\ k = r_writing'[u].slot
  BY DEF Alone
<1>0. r_writing'[u] = r_writing[u] /\ ~RefPtr!Idle(u)
  BY DEF RefPtr!Idle
<1> DEFINE i == r_writing[u].slot
<1>1. i \in Objects
  BY <1>0 DEF RefPtrIndInv, RefPtr!TypeOK, RefPtr!Idle
<1>2. r_ptr'[u][i] = r_ptr[u][i] /\ r_ptr[u][i] # Null
  BY <1>0, <1>1 DEF RefPtrIndInv, Alone
<1> HIDE DEF i
<1>3. ASSUME r_writing[u].unique, NEW w \in Threads, NEW k \in Objects, r_ptr'[w][k] = r_ptr[u][i]
      PROVE  w = u /\ k = i
  <2>1. CASE r_ptr'[w][k] = r_ptr[w][k]
    <3>1. r_ptr[w][k] = r_ptr[u][r_writing[u].slot] => w = u /\ k = r_writing[u].slot
      BY <1>0, <1>3 DEF RefPtrIndInv, Alone
    <3> QED
      BY <1>3, <2>1, <3>1 DEF i
  <2>2. CASE r_ptr'[w][k] # r_ptr[w][k]
    <3>1. \A x \in Threads, y \in Objects : RefPtr!Idle(x) => r_ptr[x][y] # r_ptr[u][i]
      BY <1>0, <1>3, IdleElsewhere DEF i
    <3> QED
      BY <1>1, <1>2, <1>3, <2>2, <3>1
  <2> QED
    BY <2>1, <2>2
<1> QED
  BY <1>0, <1>2, <1>3 DEF i

LEMMA RefPtrInitInv == ASSUME Null \notin Blocks, RefPtr!Init PROVE RefPtrIndInv
<1>1. \A o \in Blocks : RefPtr!Owners(o) = {}
  BY DEF RefPtr!Init, RefPtr!Owners
<1>2. Counted
  BY <1>1, FS_EmptySet DEF Counted, RefPtr!Init
<1>3. RefPtr!TypeOK /\ Alone /\ RefPtr!Detached
  BY DEF RefPtr!Init, RefPtr!TypeOK, Alone, RefPtr!Detached, RefPtr!Idle
<1> QED
  BY <1>2, <1>3 DEF RefPtrIndInv

\* A copy, to a pointer of another thread or of the same.
LEMMA CopyInv ==
    ASSUME Null \notin Blocks, RefPtrIndInv, NEW t \in Threads, NEW i \in Objects,
           NEW u \in Threads, NEW j \in Objects, RefPtr!Copy(t, i, u, j)
    PROVE  RefPtrIndInv'
<1>1. r_ptr[t][i] \in Blocks \cup {Null}
  BY DEF RefPtrIndInv, RefPtr!TypeOK
<1>2. Counted'
  BY <1>1, PointsCounts DEF RefPtr!Copy, RefPtrIndInv
<1>3. r_uses' \in [Blocks -> Nat]
  BY <1>2, UsesTyped DEF RefPtr!Copy, RefPtr!Points
<1>4. RefPtr!Detached'
  BY PointsDetached DEF RefPtr!Copy
<1>5. \A w \in Threads, k \in Objects :
          \/ r_ptr'[w][k] = r_ptr[w][k]
          \/ RefPtr!Idle(w)' /\ RefPtr!Idle(t) /\ r_ptr'[w][k] = r_ptr[t][i]
  BY DEF RefPtr!Copy, RefPtr!Points, RefPtrIndInv, RefPtr!TypeOK, RefPtr!Idle
<1>6. Alone'
  BY <1>5, AloneStep DEF RefPtr!Copy
<1>7. RefPtr!TypeOK'
  BY <1>1, <1>3 DEF RefPtr!Copy, RefPtr!Points, RefPtrIndInv, RefPtr!TypeOK
<1> QED
  BY <1>2, <1>4, <1>6, <1>7 DEF RefPtrIndInv

LEMMA MakeInv ==
    ASSUME Null \notin Blocks, RefPtrIndInv, NEW t \in Threads, NEW i \in Objects, NEW v \in Values,
           RefPtr!Make(t, i, v)
    PROVE  RefPtrIndInv'
<1>1. Counted' /\ RefPtr!Detached'
  BY MakeStep DEF RefPtr!Make
<1>2. \A w \in Threads, k \in Objects :
          \/ r_ptr'[w][k] = r_ptr[w][k]
          \/ RefPtr!Idle(w)' /\ \A x \in Threads, y \in Objects : r_ptr'[w][k] # r_ptr[x][y]
  BY MakeStep DEF RefPtr!Make, RefPtr!Idle
<1>3. Alone'
  BY <1>2, AloneStep DEF RefPtr!Make
<1>4. RefPtr!TypeOK'
  BY MakeStep DEF RefPtr!Make, RefPtrIndInv, RefPtr!TypeOK
<1> QED
  BY <1>1, <1>3, <1>4 DEF RefPtrIndInv

LEMMA ResetInv ==
    ASSUME Null \notin Blocks, RefPtrIndInv, NEW t \in Threads, NEW i \in Objects, RefPtr!reset(t, i)
    PROVE  RefPtrIndInv'
<1>1. Counted'
  BY PointsCounts DEF RefPtr!reset, RefPtrIndInv
<1>2. r_uses' \in [Blocks -> Nat]
  BY <1>1, UsesTyped DEF RefPtr!reset, RefPtr!Points
<1>3. \A w \in Threads, k \in Objects :
          \/ r_ptr'[w][k] = r_ptr[w][k] /\ r_seen'[w][k] = r_seen[w][k]
          \/ RefPtr!Idle(w)' /\ r_ptr'[w][k] = Null
  BY DEF RefPtr!reset, RefPtr!Points, RefPtrIndInv, RefPtr!TypeOK, RefPtr!Idle
<1>4. RefPtr!Detached'
  BY <1>3 DEF RefPtr!reset, RefPtrIndInv, RefPtr!Detached
<1>5. Alone'
  BY <1>3, AloneStep DEF RefPtr!reset
<1>6. RefPtr!TypeOK'
  BY <1>2 DEF RefPtr!reset, RefPtr!Points, RefPtrIndInv, RefPtr!TypeOK
<1> QED
  BY <1>1, <1>4, <1>5, <1>6 DEF RefPtrIndInv

LEMMA MoveInv ==
    ASSUME Null \notin Blocks, RefPtrIndInv, NEW t \in Threads, NEW i \in Objects, NEW j \in Objects,
           RefPtr!Move(t, i, j)
    PROVE  RefPtrIndInv'
<1>1. Counted'
  BY MoveCounts DEF RefPtrIndInv
<1>2. r_uses' \in [Blocks -> Nat]
  BY <1>1, UsesTyped DEF RefPtr!Move
<1>3. \A w \in Threads, k \in Objects :
          \/ r_ptr'[w][k] = r_ptr[w][k] /\ r_seen'[w][k] = r_seen[w][k]
          \/ RefPtr!Idle(w)' /\ r_ptr'[w][k] = Null
          \/ RefPtr!Idle(w)' /\ RefPtr!Idle(t) /\ r_ptr'[w][k] = r_ptr[t][i] /\ r_seen'[w][k] = r_seen[t][i]
  BY DEF RefPtr!Move, RefPtrIndInv, RefPtr!TypeOK, RefPtr!Idle
<1>4. RefPtr!Detached'
  <2> SUFFICES ASSUME NEW w \in Threads, NEW k \in Objects, r_ptr'[w][k] # Null
               PROVE  r_content[r_ptr'[w][k]] = r_seen'[w][k]
    BY DEF RefPtr!Detached, RefPtr!Move
  <2>1. \/ r_ptr'[w][k] = r_ptr[w][k] /\ r_seen'[w][k] = r_seen[w][k]
        \/ r_ptr'[w][k] = r_ptr[t][i] /\ r_seen'[w][k] = r_seen[t][i]
    BY <1>3
  <2> QED
    BY <2>1 DEF RefPtrIndInv, RefPtr!Detached
<1>5. Alone'
  BY <1>3, AloneStep DEF RefPtr!Move
<1>6. RefPtr!TypeOK'
  BY <1>2 DEF RefPtr!Move, RefPtrIndInv, RefPtr!TypeOK
<1> QED
  BY <1>1, <1>4, <1>5, <1>6 DEF RefPtrIndInv

\* Only here does a thread begin to rely on being alone: its counter is 1.
LEMMA UniqueInv ==
    ASSUME Null \notin Blocks, RefPtrIndInv, NEW t \in Threads, NEW i \in Objects, RefPtr!unique(t, i)
    PROVE  RefPtrIndInv'
<1>1. \A o : RefPtr!Owners(o)' = RefPtr!Owners(o)
  BY DEF RefPtr!unique, RefPtr!Owners
<1>2. Counted' /\ RefPtr!Detached'
  BY <1>1 DEF RefPtr!unique, RefPtrIndInv, Counted, RefPtr!Detached
<1>3. RefPtr!TypeOK'
  BY DEF RefPtr!unique, RefPtrIndInv, RefPtr!TypeOK
<1>4. ASSUME r_uses[r_ptr[t][i]] = 1, NEW u \in Threads, NEW j \in Objects, r_ptr[u][j] = r_ptr[t][i]
      PROVE  u = t /\ j = i
  <2>1. r_ptr[t][i] \in Blocks
    BY DEF RefPtr!unique, RefPtrIndInv, RefPtr!TypeOK
  <2> QED
    BY <1>4, <2>1, CountsTell DEF RefPtrIndInv
<1>5. /\ r_writing'[t] = [slot |-> i, unique |-> r_uses[r_ptr[t][i]] = 1]
      /\ \A u \in Threads \ {t} : r_writing'[u] = r_writing[u]
  BY DEF RefPtr!unique, RefPtr!use_count, RefPtrIndInv, RefPtr!TypeOK
<1>6. r_writing'[t].slot = i /\ (r_writing'[t].unique => r_uses[r_ptr[t][i]] = 1)
  <2>1. ASSUME NEW b PROVE [slot |-> i, unique |-> b].slot = i /\ [slot |-> i, unique |-> b].unique = b
    OBVIOUS
  <2> QED
    BY <1>5, <2>1, Zenon
<1>7. Alone'
  <2> SUFFICES ASSUME NEW u \in Threads, ~RefPtr!Idle(u)'
               PROVE  /\ r_ptr[u][r_writing'[u].slot] # Null
                      /\ r_writing'[u].unique =>
                            \A w \in Threads, k \in Objects :
                                r_ptr[w][k] = r_ptr[u][r_writing'[u].slot] => w = u /\ k = r_writing'[u].slot
    BY DEF Alone, RefPtr!unique
  <2>1. CASE u = t
    BY <1>4, <1>6, <2>1 DEF RefPtr!unique
  <2>2. CASE u # t
    <3>1. r_writing'[u] = r_writing[u] /\ ~RefPtr!Idle(u)
      BY <1>5, <2>2 DEF RefPtr!Idle
    <3> QED
      BY <3>1 DEF RefPtrIndInv, Alone
  <2> QED
    BY <2>1, <2>2
<1> QED
  BY <1>2, <1>3, <1>7 DEF RefPtrIndInv

LEMMA WriteInPlaceInv ==
    ASSUME Null \notin Blocks, RefPtrIndInv, NEW t \in Threads, NEW v \in Values, RefPtr!WriteInPlace(t, v)
    PROVE  RefPtrIndInv'
<1> DEFINE i == r_writing[t].slot
           o == r_ptr[t][i]
<1>1. i \in Objects /\ o \in Blocks
  BY DEF RefPtr!WriteInPlace, RefPtrIndInv, RefPtr!TypeOK, Alone, RefPtr!Idle
<1>2. \A u \in Threads, j \in Objects : r_ptr[u][j] = o => u = t /\ j = i
  BY DEF RefPtr!WriteInPlace, RefPtrIndInv, Alone
<1>3. /\ r_content' = [r_content EXCEPT ![o] = v]
      /\ r_seen' = [r_seen EXCEPT ![t][i] = v]
      /\ r_writing' = [r_writing EXCEPT ![t] = Null]
      /\ r_ptr' = r_ptr /\ r_uses' = r_uses
  BY DEF RefPtr!WriteInPlace
<1> HIDE DEF i, o
<1>4. \A p : RefPtr!Owners(p)' = RefPtr!Owners(p)
  BY <1>3 DEF RefPtr!Owners
<1>5. Counted'
  BY <1>3, <1>4 DEF RefPtrIndInv, Counted
<1>6. RefPtr!TypeOK'
  BY <1>1, <1>3 DEF RefPtrIndInv, RefPtr!TypeOK
<1>7. ASSUME NEW u \in Threads, NEW j \in Objects, r_ptr[u][j] # Null
      PROVE  r_content'[r_ptr[u][j]] = r_seen'[u][j]
  <2>1. CASE u = t /\ j = i
    BY <1>1, <1>3, <2>1 DEF RefPtrIndInv, RefPtr!TypeOK, o
  <2>2. CASE ~(u = t /\ j = i)
    <3>1. r_ptr[u][j] # o /\ r_ptr[u][j] \in Blocks
      BY <1>2, <1>7, <2>2 DEF RefPtrIndInv, RefPtr!TypeOK
    <3>2. r_seen'[u][j] = r_seen[u][j] /\ r_content'[r_ptr[u][j]] = r_content[r_ptr[u][j]]
      BY <1>3, <2>2, <3>1 DEF RefPtrIndInv, RefPtr!TypeOK
    <3> QED
      BY <1>7, <3>2 DEF RefPtrIndInv, RefPtr!Detached
  <2> QED
    BY <2>1, <2>2
<1>8. RefPtr!Detached'
  BY <1>3, <1>7 DEF RefPtr!Detached
<1>9. \A u \in Threads : r_writing'[u] \in {r_writing[u], Null}
  BY <1>3 DEF RefPtrIndInv, RefPtr!TypeOK
<1>10. Alone'
  BY <1>3, <1>9, AloneStep
<1> QED
  BY <1>5, <1>6, <1>8, <1>10 DEF RefPtrIndInv

LEMMA WriteCopyInv ==
    ASSUME Null \notin Blocks, RefPtrIndInv, NEW t \in Threads, NEW v \in Values, RefPtr!WriteCopy(t, v)
    PROVE  RefPtrIndInv'
<1> DEFINE i == r_writing[t].slot
<1>1. i \in Objects
  BY DEF RefPtr!WriteCopy, RefPtrIndInv, RefPtr!TypeOK, RefPtr!Idle
<1>2. RefPtr!make(t, i, v) /\ r_writing' = [r_writing EXCEPT ![t] = Null]
  BY DEF RefPtr!WriteCopy
<1> HIDE DEF i
<1>3. Counted' /\ RefPtr!Detached'
  BY <1>1, <1>2, MakeStep
<1>4. RefPtr!Idle(t)' /\ \A u \in Threads : r_writing'[u] \in {r_writing[u], Null}
  BY <1>2 DEF RefPtrIndInv, RefPtr!TypeOK, RefPtr!Idle
<1>5. \A w \in Threads, k \in Objects :
          \/ r_ptr'[w][k] = r_ptr[w][k]
          \/ RefPtr!Idle(w)' /\ \A x \in Threads, y \in Objects : r_ptr'[w][k] # r_ptr[x][y]
  BY <1>1, <1>2, <1>4, MakeStep
<1>6. Alone'
  BY <1>4, <1>5, AloneStep
<1>7. RefPtr!TypeOK'
  <2>1. r_writing' \in [Threads -> [slot : Objects, unique : BOOLEAN] \cup {Null}]
    BY <1>2 DEF RefPtrIndInv, RefPtr!TypeOK
  <2> QED
    BY <1>1, <1>2, <2>1, MakeStep DEF RefPtr!TypeOK
<1> QED
  BY <1>3, <1>6, <1>7 DEF RefPtrIndInv

LEMMA RefPtrNextInv ==
    ASSUME Null \notin Blocks, RefPtrIndInv, [RefPtr!Next]_(RefPtr!vars)
    PROVE  RefPtrIndInv'
<1>1. CASE UNCHANGED RefPtr!vars
  <2>1. \A o \in Blocks : RefPtr!Owners(o)' = RefPtr!Owners(o)
    BY <1>1 DEF RefPtr!vars, RefPtr!Owners
  <2>2. Counted'
    BY <1>1, <2>1 DEF RefPtr!vars, RefPtrIndInv, Counted
  <2> QED
    BY <1>1, <2>2 DEF RefPtr!vars, RefPtrIndInv, RefPtr!TypeOK, Alone, RefPtr!Idle, RefPtr!Detached
<1>2. ASSUME NEW t \in Threads, NEW v \in Values, RefPtr!WriteInPlace(t, v) \/ RefPtr!WriteCopy(t, v)
      PROVE  RefPtrIndInv'
  BY <1>2, WriteInPlaceInv, WriteCopyInv
<1>3. ASSUME NEW t \in Threads, NEW i \in Objects, NEW v \in Values, RefPtr!Make(t, i, v)
      PROVE  RefPtrIndInv'
  BY <1>3, MakeInv
<1>4. ASSUME NEW t \in Threads, NEW i \in Objects, NEW u \in Threads, NEW j \in Objects,
             RefPtr!Copy(t, i, u, j)
      PROVE  RefPtrIndInv'
  BY <1>4, CopyInv
<1>5. ASSUME NEW t \in Threads, NEW i \in Objects, NEW j \in Objects,
             RefPtr!Move(t, i, j) \/ RefPtr!MoveConverting(t, i, j)
      PROVE  RefPtrIndInv'
  BY <1>4, <1>5, MoveInv DEF RefPtr!MoveConverting
<1>6. ASSUME NEW t \in Threads, NEW i \in Objects, RefPtr!reset(t, i) \/ RefPtr!unique(t, i)
      PROVE  RefPtrIndInv'
  BY <1>6, ResetInv, UniqueInv
<1> QED
  BY <1>1, <1>2, <1>3, <1>4, <1>5, <1>6 DEF RefPtr!Next

-----------------------------------------------------------------------------
(* The theorems.                                                           *)

LEMMA RefPtrInvariance == RefPtr!Spec => []RefPtrIndInv
<1>1. RefPtr!Init => RefPtrIndInv
  BY RefPtrInitInv, NullAssumption
<1>2. RefPtrIndInv /\ [RefPtr!Next]_(RefPtr!vars) => RefPtrIndInv'
  BY RefPtrNextInv, NullAssumption
<1> QED
  BY <1>1, <1>2, PTL DEF RefPtr!Spec

\* Every counter is the number of pointers, of all the threads, to the object.
THEOREM ExactCounts == RefPtr!Spec => []RefPtr!UseCounts
<1>1. \A o \in Blocks : RefPtr!Cardinality(RefPtr!Owners(o)) = Cardinality(RefPtr!Owners(o))
  BY DEF RefPtr!Cardinality, Cardinality
<1>2. RefPtrIndInv => RefPtr!UseCounts
  BY <1>1 DEF RefPtrIndInv, Counted, RefPtr!UseCounts
<1> QED
  BY <1>2, RefPtrInvariance, PTL

\* What unique() said is so until the write: the thread owns the only pointer,
\* and nobody else can make another.
THEOREM RefPtrStillUnique == RefPtr!Spec => []RefPtr!StillUnique
<1>1. RefPtrIndInv => RefPtr!StillUnique
  <2> SUFFICES ASSUME RefPtrIndInv, NEW t \in Threads, ~RefPtr!Idle(t), r_writing[t].unique
               PROVE  RefPtr!Owners(r_ptr[t][r_writing[t].slot]) = {<<t, r_writing[t].slot>>}
    BY DEF RefPtr!StillUnique
  <2>1. r_writing[t].slot \in Objects
    BY DEF RefPtrIndInv, RefPtr!TypeOK, RefPtr!Idle
  <2>2. \A u \in Threads, j \in Objects :
            r_ptr[u][j] = r_ptr[t][r_writing[t].slot] => u = t /\ j = r_writing[t].slot
    BY DEF RefPtrIndInv, Alone
  <2> QED
    BY <2>1, <2>2 DEF RefPtr!Owners
<1> QED
  BY <1>1, RefPtrInvariance, PTL

\* A write through one pointer is never seen through another.
THEOREM RefPtrDetached == RefPtr!Spec => []RefPtr!Detached
<1>1. RefPtrIndInv => RefPtr!Detached
  BY DEF RefPtrIndInv
<1> QED
  BY <1>1, RefPtrInvariance, PTL

-----------------------------------------------------------------------------
(***************************************************************************)
(* opt_ref_buffer: a span is where the bytes are that its buffer owns.     *)
(***************************************************************************)
Container == [is : OptRef!Owners, in : Regions \cup {Null}, bytes : OptRef!Sizes]
SpanOf == [at : OptRef!Places, size : Nat]

\* A vector of bytes keeps none of them in itself.
VectorsInBlocks == \A x \in Buffers : o_own[x] # Null /\ o_own[x].is = "vector" => o_own[x].in # Null

OptRefIndInv == OptRef!TypeOK /\ OptRef!SpanOfOwned /\ VectorsInBlocks

LEMMA DivNat == ASSUME NEW b \in Nat, NEW w \in Nat \ {0} PROVE b \div w \in Nat
  OBVIOUS

LEMMA DivExact == ASSUME NEW b \in Nat, NEW w \in Nat \ {0}, b % w = 0 PROVE (b \div w) * w = b
  OBVIOUS

LEMMA MulMod == ASSUME NEW s \in Nat, NEW w \in Nat \ {0} PROVE s * w \in Nat /\ (s * w) % w = 0
  OBVIOUS

LEMMA SizesNat == OptRef!Sizes \subseteq Nat
  BY WidthAssumption DEF OptRef!Sizes

\* What own is where it says, and the span of x covers it.
Covers(x, own, span, bounced) ==
    own # Null =>
        /\ span # Null /\ span.size * Width[x] = own.bytes
        /\ span.at = OptRef!At(x, own) \/ (own.is = "any" /\ own.in = Null /\ bounced)

\* s is not a span of the block that own is in.
Apart(own, s) == own # Null /\ own.in # Null /\ s # Null => s.at # [block |-> own.in]

\* SpanOfOwned, one buffer at a time.
LEMMA SpanByBuffer ==
    OptRef!SpanOfOwned <=>
        /\ \A x \in Buffers : Covers(x, o_own[x], o_span[x], x \in o_moved)
        /\ \A x, y \in Buffers : x # y => Apart(o_own[x], o_span[y])
  BY DEF OptRef!SpanOfOwned, Covers, Apart, OptRef!size_bytes

\* A span that is made of bytes that fit.
LEMMA SpanMade ==
    ASSUME NEW x \in Buffers, NEW p \in OptRef!Places, NEW n \in Nat, OptRef!Fits(x, n)
    PROVE  /\ OptRef!make_span(x, p, n) \in SpanOf
           /\ OptRef!make_span(x, p, n) # Null
           /\ OptRef!make_span(x, p, n).at = p
           /\ OptRef!make_span(x, p, n).size * Width[x] = n
<1>1. Width[x] \in Nat \ {0}
  BY WidthAssumption
<1>2. n \div Width[x] \in Nat /\ (n \div Width[x]) * Width[x] = n
  BY <1>1, DivNat, DivExact DEF OptRef!Fits
<1>3. OptRef!make_span(x, p, n) = [at |-> p, size |-> n \div Width[x]]
  BY DEF OptRef!make_span
<1>4. OptRef!make_span(x, p, n) \in SpanOf
  BY <1>2, <1>3 DEF SpanOf
<1> QED
  BY <1>2, <1>3, <1>4, SpanAssumption DEF SpanOf

LEMMA OptRefTyped ==
    OptRef!TypeOK <=>
        /\ o_exists \subseteq Buffers /\ o_moved \subseteq Buffers
        /\ o_own \in [Buffers -> Container \cup {Null}]
        /\ o_span \in [Buffers -> SpanOf \cup {Null}]
  BY DEF OptRef!TypeOK, OptRef!Own, OptRef!Span, Container, SpanOf

\* One buffer gets a container and a span: what it says is there, and nobody
\* else's is.
LEMMA BecomesKeeps ==
    ASSUME OptRefIndInv, NEW x \in Buffers, NEW own \in Container \cup {Null}, NEW span \in SpanOf \cup {Null},
           o_own' = [o_own EXCEPT ![x] = own], o_span' = [o_span EXCEPT ![x] = span],
           o_exists' \subseteq Buffers, o_moved' \subseteq Buffers,
           \A z \in Buffers \ {x} : z \in o_moved' <=> z \in o_moved,
           Covers(x, own, span, FALSE),
           own # Null /\ own.is = "vector" => own.in # Null,
           \A z \in Buffers \ {x} : Apart(own, o_span[z]) /\ Apart(o_own[z], span)
    PROVE  OptRefIndInv'
<1>1. OptRef!TypeOK'
  <2>1. /\ o_own' \in [Buffers -> Container \cup {Null}]
        /\ o_span' \in [Buffers -> SpanOf \cup {Null}]
    BY OptRefTyped DEF OptRefIndInv
  <2> QED
    BY <2>1 DEF OptRef!TypeOK, OptRef!Own, OptRef!Span, Container, SpanOf
<1>2. /\ o_own'[x] = own /\ o_span'[x] = span
      /\ \A z \in Buffers \ {x} : o_own'[z] = o_own[z] /\ o_span'[z] = o_span[z]
  BY OptRefTyped DEF OptRefIndInv
<1>3. \A z \in Buffers : Covers(z, o_own'[z], o_span'[z], z \in o_moved')
  BY <1>2, SpanByBuffer DEF OptRefIndInv, Covers
<1>4. \A y, z \in Buffers : y # z => Apart(o_own'[y], o_span'[z])
  BY <1>2, SpanByBuffer DEF OptRefIndInv
<1>5. OptRef!SpanOfOwned'
  BY <1>3, <1>4 DEF OptRef!SpanOfOwned, Covers, Apart, OptRef!size_bytes
<1>6. VectorsInBlocks'
  BY <1>2 DEF OptRefIndInv, VectorsInBlocks
<1> QED
  BY <1>1, <1>5, <1>6 DEF OptRefIndInv

LEMMA OptRefStutter ==
    ASSUME OptRefIndInv, UNCHANGED <<o_own, o_span, o_moved>>, o_exists' \subseteq Buffers
    PROVE  OptRefIndInv'
  BY DEF OptRefIndInv, OptRef!TypeOK, OptRef!SpanOfOwned, OptRef!size_bytes, VectorsInBlocks

\* A buffer with nothing.
LEMMA NothingOwned ==
    ASSUME OptRefIndInv, NEW x \in Buffers, OptRef!Becomes(x, Null, Null),
           o_exists' \subseteq Buffers, o_moved' = o_moved \ {x}
    PROVE  OptRefIndInv'
<1>1. Covers(x, Null, Null, FALSE) /\ \A z \in Buffers : Apart(Null, o_span[z]) /\ Apart(o_own[z], Null)
  BY DEF Covers, Apart
<1>2. o_moved' \subseteq Buffers /\ \A z \in Buffers \ {x} : z \in o_moved' <=> z \in o_moved
  BY DEF OptRefIndInv, OptRef!TypeOK
<1> QED
  BY <1>1, <1>2, BecomesKeeps DEF OptRef!Becomes

\* A buffer with a span of bytes in a block that nobody uses.
LEMMA UnusedKeeps ==
    ASSUME OptRefIndInv, NEW x \in Buffers, NEW b \in Regions, OptRef!Unused(b), OptRef!Fits(x, SizeOf[b]),
           NEW own \in Container \cup {Null},
           own # Null => own.in = b /\ own.bytes = SizeOf[b],
           OptRef!Becomes(x, own, OptRef!make_span(x, [block |-> b], SizeOf[b])),
           o_exists' \subseteq Buffers, UNCHANGED o_moved
    PROVE  OptRefIndInv'
<1> DEFINE span == OptRef!make_span(x, [block |-> b], SizeOf[b])
<1>1. [block |-> b] \in OptRef!Places /\ SizeOf[b] \in Nat /\ b # Null
  BY WidthAssumption DEF OptRef!Places
<1>2. /\ span \in SpanOf /\ span # Null
      /\ span.at = [block |-> b] /\ span.size * Width[x] = SizeOf[b]
  BY <1>1, SpanMade
<1> HIDE DEF span
<1>3. Covers(x, own, span, FALSE)
  BY <1>1, <1>2 DEF Covers, OptRef!At
<1>4. ASSUME NEW z \in Buffers \ {x} PROVE Apart(own, o_span[z]) /\ Apart(o_own[z], span)
  <2>1. Apart(own, o_span[z])
    BY <1>4 DEF Apart, OptRef!Unused
  <2>2. ASSUME o_own[z] # Null, span.at = [block |-> o_own[z].in] PROVE FALSE
    <3>1. [block |-> b] = [block |-> o_own[z].in]
      BY <1>2, <2>2
    <3>2. [block |-> b].block = [block |-> o_own[z].in].block
      BY <3>1
    <3>3. b = o_own[z].in
      BY <3>2
    <3> QED
      BY <3>3, <2>2, <1>4 DEF OptRef!Unused
  <2> QED
    BY <2>1, <2>2 DEF Apart
<1>5. o_moved' \subseteq Buffers
  BY DEF OptRefIndInv, OptRef!TypeOK
<1>6. o_own' = [o_own EXCEPT ![x] = own] /\ o_span' = [o_span EXCEPT ![x] = span]
  BY DEF OptRef!Becomes, span
<1> QED
  BY <1>1, <1>2, <1>3, <1>4, <1>5, <1>6, BecomesKeeps

LEMMA SmallKeeps ==
    ASSUME OptRefIndInv, NEW x \in Buffers, NEW w \in OptRef!Owners, NEW n \in 1..Small, OptRef!TakeSmall(x, w, n)
    PROVE  OptRefIndInv'
<1> DEFINE own == [is |-> w, in |-> Null, bytes |-> n]
           span == OptRef!make_span(x, [inside |-> x], n)
<1>1. n \in OptRef!Sizes /\ n \in Nat /\ [inside |-> x] \in OptRef!Places
  BY WidthAssumption DEF OptRef!Sizes, OptRef!Places
<1>2. own \in Container /\ own.in = Null /\ own.is = w /\ own.bytes = n
  BY <1>1 DEF Container
<1>3. OptRef!At(x, own) = [inside |-> x]
  BY <1>2 DEF OptRef!At
<1>4. /\ OptRef!Fits(x, n) /\ w # "vector" /\ x \notin o_exists
      /\ OptRef!Becomes(x, own, OptRef!make_span(x, OptRef!At(x, own), n))
      /\ o_exists' = o_exists \cup {x} /\ UNCHANGED o_moved
  BY DEF OptRef!TakeSmall, OptRef!New
<1>5. /\ span \in SpanOf /\ span # Null
      /\ span.at = [inside |-> x] /\ span.size * Width[x] = n
  BY <1>1, <1>4, SpanMade
<1>6. o_own' = [o_own EXCEPT ![x] = own] /\ o_span' = [o_span EXCEPT ![x] = span]
  BY <1>3, <1>4 DEF OptRef!Becomes
<1> HIDE DEF own, span
<1>7. Covers(x, own, span, FALSE)
  BY <1>2, <1>3, <1>5 DEF Covers
<1>8. \A z \in Buffers \ {x} : Apart(own, o_span[z]) /\ Apart(o_own[z], span)
  <2>1. \A a : [inside |-> x] # [block |-> a]
    OBVIOUS
  <2> QED
    BY <1>2, <1>5, <2>1 DEF Apart
<1>9. o_moved' \subseteq Buffers /\ o_exists' \subseteq Buffers
  BY <1>4 DEF OptRefIndInv, OptRef!TypeOK
<1> QED
  BY <1>2, <1>4, <1>5, <1>6, <1>7, <1>8, <1>9, BecomesKeeps

\* A move: x gets what y owns, and y is left with nothing.
LEMMA TakeKeeps ==
    ASSUME OptRefIndInv, NEW x \in Buffers, NEW y \in Buffers, x # y,
           NEW span \in SpanOf \cup {Null}, OptRef!take_data(x, y, span),
           o_exists' \subseteq Buffers,
           o_span[y] = Null => span = Null,
           o_span[y] # Null => /\ span # Null /\ span.at = o_span[y].at
                               /\ span.size * Width[x] = OptRef!size_bytes(y)
    PROVE  OptRefIndInv'
<1>1. /\ o_own \in [Buffers -> Container \cup {Null}]
      /\ o_span \in [Buffers -> SpanOf \cup {Null}]
      /\ o_moved \subseteq Buffers
  BY OptRefTyped DEF OptRefIndInv
<1>2. /\ \A z \in Buffers : Covers(z, o_own[z], o_span[z], z \in o_moved)
      /\ \A u, z \in Buffers : u # z => Apart(o_own[u], o_span[z])
  BY SpanByBuffer DEF OptRefIndInv
<1>3. PICK s :
         /\ s = IF o_own[y] # Null /\ o_own[y].is = "string"
                THEN OptRef!make_span(x, OptRef!At(x, o_own[y]), o_own[y].bytes) ELSE span
         /\ o_span' = [o_span EXCEPT ![x] = s, ![y] = Null]
  BY DEF OptRef!take_data
<1>4. /\ o_own' = [o_own EXCEPT ![x] = o_own[y], ![y] = Null]
      /\ o_moved' = (o_moved \ {x, y}) \cup (IF o_own[y] = Null THEN {} ELSE {x})
  BY DEF OptRef!take_data
<1>5. /\ s \in SpanOf \cup {Null}
      /\ Covers(x, o_own[y], s, x \in o_moved')
      /\ \A z \in Buffers : o_own[z] # Null /\ o_own[z].in # Null /\ z # y => Apart(o_own[z], s)
  <2>1. CASE o_own[y] # Null /\ o_own[y].is = "string"
    <3>1. /\ o_own[y] \in Container /\ o_own[y].bytes \in Nat
          /\ o_own[y].in \in Regions \cup {Null}
      BY <1>1, <2>1, SizesNat DEF Container
    <3>2. OptRef!At(x, o_own[y]) \in OptRef!Places
      BY <3>1 DEF OptRef!At, OptRef!Places
    <3>3. o_span[y] # Null /\ OptRef!size_bytes(y) = o_own[y].bytes
      BY <1>2, <2>1 DEF Covers, OptRef!size_bytes
    <3>4. span.size \in Nat /\ Width[x] \in Nat \ {0} /\ span.size * Width[x] = o_own[y].bytes
      BY <3>3, WidthAssumption DEF SpanOf
    <3>5. OptRef!Fits(x, o_own[y].bytes)
      BY <3>4, MulMod DEF OptRef!Fits
    <3>6. /\ s \in SpanOf /\ s # Null /\ s.at = OptRef!At(x, o_own[y])
          /\ s.size * Width[x] = o_own[y].bytes
      BY <1>3, <2>1, <3>1, <3>2, <3>5, SpanMade
    <3>7. Covers(x, o_own[y], s, x \in o_moved')
      BY <3>6 DEF Covers
    <3>8. ASSUME NEW z \in Buffers, o_own[z] # Null, o_own[z].in # Null, z # y, s.at = [block |-> o_own[z].in]
          PROVE  FALSE
      <4>1. o_own[y].in # Null
        BY <3>6, <3>8 DEF OptRef!At
      <4>2. o_span[y].at = OptRef!At(y, o_own[y]) /\ OptRef!At(y, o_own[y]) = OptRef!At(x, o_own[y])
        BY <1>2, <2>1, <4>1 DEF Covers, OptRef!At
      <4> QED
        BY <1>2, <3>3, <3>6, <3>8, <4>2 DEF Apart
    <3> QED
      BY <3>6, <3>7, <3>8 DEF Apart
  <2>2. CASE o_own[y] # Null /\ o_own[y].is # "string"
    <3>1. /\ o_own[y] \in Container /\ o_own[y].is \in {"vector", "any"}
      BY <1>1, <2>2 DEF Container, OptRef!Owners
    <3>2. s = span
      BY <1>3, <2>2
    <3>3. o_span[y] # Null /\ OptRef!size_bytes(y) = o_own[y].bytes
      BY <1>2, <2>2 DEF Covers, OptRef!size_bytes
    <3>4. /\ s # Null /\ s.at = o_span[y].at /\ s.size * Width[x] = o_own[y].bytes
      BY <3>2, <3>3
    <3>5. CASE o_own[y].in # Null
      <4>1. o_span[y].at = OptRef!At(x, o_own[y])
        BY <1>2, <2>2, <3>5 DEF Covers, OptRef!At
      <4> QED
        BY <1>2, <3>2, <3>3, <3>4, <4>1 DEF Covers, Apart
    <3>6. CASE o_own[y].in = Null
      <4>1. o_own[y].is = "any"
        BY <3>1, <3>6, <2>2 DEF OptRefIndInv, VectorsInBlocks
      <4>2. x \in o_moved'
        BY <1>4, <2>2
      <4> QED
        BY <1>2, <3>2, <3>3, <3>4, <3>6, <4>1, <4>2 DEF Covers, Apart
    <3> QED
      BY <3>5, <3>6
  <2>3. CASE o_own[y] = Null
    <3>1. s = span
      BY <1>3, <2>3
    <3> QED
      BY <1>2, <3>1, <2>3 DEF Covers, Apart
  <2> QED
    BY <2>1, <2>2, <2>3
<1>6. /\ o_own'[x] = o_own[y] /\ o_span'[x] = s
      /\ o_own'[y] = Null /\ o_span'[y] = Null
      /\ \A z \in Buffers \ {x, y} : o_own'[z] = o_own[z] /\ o_span'[z] = o_span[z]
  BY <1>1, <1>3, <1>4
<1>7. OptRef!TypeOK'
  <2>1. /\ o_own' \in [Buffers -> Container \cup {Null}]
        /\ o_span' \in [Buffers -> SpanOf \cup {Null}]
    BY <1>1, <1>3, <1>4, <1>5
  <2>2. o_moved' \subseteq Buffers
    BY <1>1, <1>4
  <2> QED
    BY <2>1, <2>2 DEF OptRef!TypeOK, OptRef!Own, OptRef!Span, Container, SpanOf
<1>8. \A z \in Buffers : Covers(z, o_own'[z], o_span'[z], z \in o_moved')
  <2>1. Covers(y, Null, Null, y \in o_moved')
    BY DEF Covers
  <2>2. \A z \in Buffers \ {x, y} : z \in o_moved' <=> z \in o_moved
    BY <1>4
  <2>3. ASSUME NEW z \in Buffers \ {x, y} PROVE Covers(z, o_own[z], o_span[z], z \in o_moved')
    BY <1>2, <2>2 DEF Covers
  <2> QED
    BY <1>5, <1>6, <2>1, <2>3
<1>9. \A u, z \in Buffers : u # z => Apart(o_own'[u], o_span'[z])
  BY <1>2, <1>5, <1>6 DEF Apart
<1>10. OptRef!SpanOfOwned'
  BY <1>8, <1>9 DEF OptRef!SpanOfOwned, Covers, Apart, OptRef!size_bytes
<1>11. VectorsInBlocks'
  BY <1>6 DEF OptRefIndInv, VectorsInBlocks
<1> QED
  BY <1>7, <1>10, <1>11 DEF OptRefIndInv

LEMMA OptRefInit == OptRef!Init => OptRefIndInv
<1> SUFFICES ASSUME OptRef!Init PROVE OptRefIndInv
  OBVIOUS
<1>1. \A x \in Buffers : o_own[x] = Null /\ o_span[x] = Null
  BY DEF OptRef!Init
<1>2. OptRef!TypeOK
  BY DEF OptRef!Init, OptRef!TypeOK, OptRef!Own, OptRef!Span
<1> QED
  BY <1>1, <1>2 DEF OptRefIndInv, OptRef!SpanOfOwned, VectorsInBlocks

LEMMA OptRefNext == ASSUME OptRefIndInv, OptRef!Next PROVE OptRefIndInv'
<1>0. o_exists \subseteq Buffers /\ o_span \in [Buffers -> SpanOf \cup {Null}]
  BY OptRefTyped DEF OptRefIndInv
<1>1. PICK x \in Buffers :
        \/ OptRef!Construct(x) \/ OptRef!Destroy(x)
        \/ \E b \in Regions : OptRef!ref(x, b) \/ \E w \in OptRef!Owners : OptRef!take(x, w, b)
        \/ \E w \in OptRef!Owners, n \in 1..Small : OptRef!TakeSmall(x, w, n)
        \/ \E y \in Buffers : OptRef!ConstructMove(x, y) \/ OptRef!AssignMove(x, y)
  BY DEF OptRef!Next
<1>2. CASE OptRef!Construct(x)
  BY <1>0, <1>2, OptRefStutter DEF OptRef!Construct, OptRef!New
<1>3. CASE OptRef!Destroy(x)
  BY <1>0, <1>3, NothingOwned DEF OptRef!Destroy
<1>4. ASSUME NEW b \in Regions, OptRef!ref(x, b) PROVE OptRefIndInv'
  BY <1>0, <1>4, UnusedKeeps DEF OptRef!ref, OptRef!New
<1>5. ASSUME NEW b \in Regions, NEW w \in OptRef!Owners, OptRef!take(x, w, b) PROVE OptRefIndInv'
  <2>1. PICK o : /\ o = [is |-> w, in |-> b, bytes |-> SizeOf[b]]
                 /\ OptRef!New(x) /\ OptRef!Unused(b) /\ OptRef!Fits(x, SizeOf[b])
                 /\ OptRef!Becomes(x, o, OptRef!make_span(x, OptRef!At(x, o), SizeOf[b]))
                 /\ UNCHANGED o_moved
    BY <1>5 DEF OptRef!take
  <2>2. o \in Container /\ o.in = b /\ o.bytes = SizeOf[b]
    BY <2>1 DEF Container, OptRef!Sizes
  <2>3. OptRef!At(x, o) = [block |-> b]
    BY <2>2, WidthAssumption DEF OptRef!At
  <2> QED
    BY <1>0, <2>1, <2>2, <2>3, UnusedKeeps DEF OptRef!New
<1>6. ASSUME NEW w \in OptRef!Owners, NEW n \in 1..Small, OptRef!TakeSmall(x, w, n) PROVE OptRefIndInv'
  BY <1>6, SmallKeeps
<1>7. ASSUME NEW y \in Buffers, OptRef!ConstructMove(x, y) PROVE OptRefIndInv'
  <2>1. x # y /\ o_exists' \subseteq Buffers
    BY <1>0, <1>7 DEF OptRef!ConstructMove, OptRef!New
  <2>2. CASE Width[x] = Width[y] \/ o_span[y] = Null
    <3>1. OptRef!take_data(x, y, o_span[y])
      BY <1>7, <2>2 DEF OptRef!ConstructMove
    <3>2. o_span[y] # Null => o_span[y].size * Width[x] = OptRef!size_bytes(y)
      BY <2>2 DEF OptRef!size_bytes
    <3> QED
      BY <1>0, <2>1, <3>1, <3>2, TakeKeeps
  <2>3. CASE ~(Width[x] = Width[y] \/ o_span[y] = Null)
    <3>1. PICK s : /\ s = OptRef!make_span(x, o_span[y].at, OptRef!size_bytes(y))
                   /\ OptRef!take_data(x, y, s) /\ OptRef!Fits(x, OptRef!size_bytes(y))
      BY <1>7, <2>3 DEF OptRef!ConstructMove
    <3>2. o_span[y].at \in OptRef!Places /\ o_span[y].size \in Nat
      BY <1>0, <2>3 DEF SpanOf
    <3>3. OptRef!size_bytes(y) \in Nat
      BY <3>2, WidthAssumption, MulMod DEF OptRef!size_bytes
    <3>4. /\ s \in SpanOf /\ s # Null /\ s.at = o_span[y].at
          /\ s.size * Width[x] = OptRef!size_bytes(y)
      BY <3>1, <3>2, <3>3, SpanMade
    <3> QED
      BY <2>1, <2>3, <3>1, <3>4, TakeKeeps
  <2> QED
    BY <2>2, <2>3
<1>8. ASSUME NEW y \in Buffers, OptRef!AssignMove(x, y) PROVE OptRefIndInv'
  <2>1. x # y /\ o_exists' \subseteq Buffers /\ OptRef!take_data(x, y, o_span[y])
    BY <1>0, <1>8 DEF OptRef!AssignMove
  <2>2. o_span[y] # Null => o_span[y].size * Width[x] = OptRef!size_bytes(y)
    BY <1>8 DEF OptRef!size_bytes, OptRef!AssignMove
  <2> QED
    BY <1>0, <2>1, <2>2, TakeKeeps
<1> QED
  BY <1>1, <1>2, <1>3, <1>4, <1>5, <1>6, <1>7, <1>8

\* A span is where the bytes are that its buffer owns, whatever moved where,
\* but in an any that has moved with its container inside.
THEOREM OptRefSpans == OptRef!Spec => []OptRef!SpanOfOwned
<1>1. ASSUME OptRefIndInv, [OptRef!Next]_(OptRef!vars) PROVE OptRefIndInv'
  <2>1. CASE UNCHANGED OptRef!vars
    <3>1. UNCHANGED <<o_own, o_span, o_moved>> /\ o_exists' \subseteq Buffers
      BY <1>1, <2>1 DEF OptRef!vars, OptRefIndInv, OptRef!TypeOK
    <3> QED
      BY <1>1, <3>1, OptRefStutter
  <2> QED
    BY <1>1, <2>1, OptRefNext
<1>2. OptRefIndInv => OptRef!SpanOfOwned
  BY DEF OptRefIndInv
<1> QED
  BY OptRefInit, <1>1, <1>2, PTL DEF OptRef!Spec

-----------------------------------------------------------------------------
(***************************************************************************)
(* mem_streambuf: what is read is what was written.                        *)
(***************************************************************************)
StreamByte == Values \cup {Null}

\* d holds f, and zeros after it.
Padded(d, f) == Len(f) <= Len(d) /\ \A i \in 1..Len(d) : d[i] = IF i <= Len(f) THEN f[i] ELSE Null

\* The put area ends where the memory does.
PutArea ==
    /\ s_pptr \in Nat \cup {Null}
    /\ IF s_pptr = Null THEN s_data = <<>> ELSE s_epptr = Len(s_data)

AnswersHanded ==
    /\ s_answer.from \in Nat /\ s_answer.got \in Seq(StreamByte)
    /\ \A i \in 1..Len(s_answer.got) :
          s_answer.from + i <= Len(s_handed) /\ s_answer.got[i] = s_handed[s_answer.from + i]

StreamIndInv ==
    /\ s_data \in Seq(StreamByte) /\ s_file \in Seq(StreamByte) /\ s_source \in Seq(StreamByte)
    /\ s_gptr \in Nat
    /\ s_fault \in BOOLEAN
    /\ PutArea
    /\ Padded(s_data, s_file)
    /\ s_handed = s_source
    /\ AnswersHanded
    /\ Stream!AccessesInside

LEMMA ResizedIs ==
    ASSUME NEW s \in Seq(StreamByte), NEW n \in Nat
    PROVE  /\ Stream!Resized(s, n) \in Seq(StreamByte) /\ Len(Stream!Resized(s, n)) = n
           /\ \A i \in 1..n : Stream!Resized(s, n)[i] = IF i <= Len(s) THEN s[i] ELSE Null
<1>1. CASE n <= Len(s)
  <2>1. Stream!Resized(s, n) = SubSeq(s, 1, n)
    BY <1>1 DEF Stream!Resized
  <2>2. /\ SubSeq(s, 1, n) \in Seq(StreamByte) /\ Len(SubSeq(s, 1, n)) = n
        /\ \A i \in 1..n : SubSeq(s, 1, n)[i] = s[i]
    BY <1>1
  <2> QED
    BY <1>1, <2>1, <2>2
<1>2. CASE ~(n <= Len(s))
  <2>1. PICK z : z = Stream!Zeros(n - Len(s))
    OBVIOUS
  <2>2. /\ n - Len(s) \in Nat
        /\ z = [i \in 1..n - Len(s) |-> Null]
    BY <1>2, <2>1 DEF Stream!Zeros
  <2>3. z \in Seq(StreamByte) /\ Len(z) = n - Len(s) /\ \A i \in 1..n - Len(s) : z[i] = Null
    BY <2>2 DEF StreamByte
  <2>4. Stream!Resized(s, n) = s \o z
    BY <1>2, <2>1 DEF Stream!Resized
  <2>5. /\ s \o z \in Seq(StreamByte) /\ Len(s \o z) = n
        /\ \A i \in 1..n : (s \o z)[i] = IF i <= Len(s) THEN s[i] ELSE z[i - Len(s)]
    BY <1>2, <2>3
  <2> QED
    BY <1>2, <2>3, <2>4, <2>5
<1> QED
  BY <1>1, <1>2

\* o is s with t over it from p on, and zeros between them if they do not meet.
IsOverwritten(o, s, p, t) ==
    /\ o \in Seq(StreamByte)
    /\ p + Len(t) > Len(s) => Len(o) = p + Len(t)
    /\ p + Len(t) <= Len(s) => Len(o) = Len(s)
    /\ \A i \in 1..Len(o) :
          o[i] = IF i > p /\ i <= p + Len(t) THEN t[i - p] ELSE IF i <= Len(s) THEN s[i] ELSE Null

LEMMA OverwrittenIs ==
    ASSUME NEW s \in Seq(StreamByte), NEW p \in Nat, NEW t \in Seq(StreamByte)
    PROVE  IsOverwritten(Stream!Overwritten(s, p, t), s, p, t)
<1>0. PICK n \in Nat : n = IF p + Len(t) > Len(s) THEN p + Len(t) ELSE Len(s)
  OBVIOUS
<1>1. PICK r : r = Stream!Resized(s, n)
  OBVIOUS
<1>2. /\ r \in Seq(StreamByte) /\ Len(r) = n
      /\ \A i \in 1..n : r[i] = IF i <= Len(s) THEN s[i] ELSE Null
  BY <1>1, ResizedIs
<1>3. PICK o : o = [i \in 1..n |-> IF i > p /\ i <= p + Len(t) THEN t[i - p] ELSE r[i]]
  OBVIOUS
<1>4. Stream!Overwritten(s, p, t) = o
  BY <1>0, <1>1, <1>2, <1>3 DEF Stream!Overwritten
<1>5. \A i \in 1..n : o[i] \in StreamByte
  BY <1>2, <1>3
<1>6. o \in [1..n -> StreamByte]
  BY <1>3, <1>5
<1>7. o \in Seq(StreamByte) /\ Len(o) = n
  BY <1>6
<1> QED
  <2>1. \A i \in 1..n : o[i] = IF i > p /\ i <= p + Len(t) THEN t[i - p] ELSE IF i <= Len(s) THEN s[i] ELSE Null
    BY <1>2, <1>3
  <2>2. (p + Len(t) > Len(s) => n = p + Len(t)) /\ (p + Len(t) <= Len(s) => n = Len(s))
    BY <1>0
  <2> QED
    BY <1>4, <1>7, <2>1, <2>2 DEF IsOverwritten

\* Bytes that are written to both, the first of which is as long as it takes,
\* leave it the other one with zeros after it.
LEMMA WrittenToBoth ==
    ASSUME NEW d \in Seq(StreamByte), NEW f \in Seq(StreamByte), Padded(d, f),
           NEW cap \in Nat, Len(d) <= cap, NEW p \in Nat, NEW t \in Seq(StreamByte), p + Len(t) <= cap,
           NEW e, e = Stream!Overwritten(Stream!Resized(d, cap), p, t),
           NEW g, g = Stream!Overwritten(f, p, t)
    PROVE  e \in Seq(StreamByte) /\ g \in Seq(StreamByte) /\ Len(e) = cap /\ Padded(e, g)
<1>1. PICK r \in Seq(StreamByte) : r = Stream!Resized(d, cap)
  BY ResizedIs
<1>2. Len(r) = cap /\ \A i \in 1..cap : r[i] = IF i <= Len(d) THEN d[i] ELSE Null
  BY <1>1, ResizedIs
<1>4. /\ e \in Seq(StreamByte) /\ Len(e) = cap
      /\ \A i \in 1..cap : e[i] =
            IF i > p /\ i <= p + Len(t) THEN t[i - p] ELSE IF i <= Len(r) THEN r[i] ELSE Null
  <2>1. IsOverwritten(e, r, p, t)
    BY <1>1, OverwrittenIs
  <2>2. Len(t) \in Nat /\ p + Len(t) <= Len(r)
    BY <1>2
  <2>3. Len(e) = cap
    BY <1>2, <2>1, <2>2 DEF IsOverwritten
  <2> QED
    BY <2>1, <2>3 DEF IsOverwritten
<1>5. PICK n \in Nat : n = IF p + Len(t) > Len(f) THEN p + Len(t) ELSE Len(f)
  OBVIOUS
<1>6. /\ g \in Seq(StreamByte) /\ Len(g) = n
      /\ \A i \in 1..n : g[i] =
            IF i > p /\ i <= p + Len(t) THEN t[i - p] ELSE IF i <= Len(f) THEN f[i] ELSE Null
  <2>1. IsOverwritten(g, f, p, t)
    BY OverwrittenIs
  <2>2. Len(g) = n
    BY <1>5, <2>1 DEF IsOverwritten
  <2> QED
    BY <2>1, <2>2 DEF IsOverwritten
<1>7. Len(f) <= Len(d) /\ \A i \in 1..Len(d) : d[i] = IF i <= Len(f) THEN f[i] ELSE Null
  BY DEF Padded
<1>8. n <= cap
  BY <1>5, <1>7
<1>9. ASSUME NEW i \in 1..cap PROVE e[i] = IF i <= n THEN g[i] ELSE Null
  <2>0. Len(t) \in Nat /\ Len(f) \in Nat /\ Len(d) \in Nat
    OBVIOUS
  <2>1. CASE i > p /\ i <= p + Len(t)
    <3>1. i \in 1..n
      BY <1>5, <2>0, <2>1
    <3> QED
      BY <1>4, <1>6, <2>1, <3>1
  <2>2. CASE ~(i > p /\ i <= p + Len(t)) /\ i <= Len(f)
    BY <1>2, <1>4, <1>5, <1>6, <1>7, <2>2
  <2>3. CASE ~(i > p /\ i <= p + Len(t)) /\ i > Len(f)
    <3>1. e[i] = Null
      BY <1>2, <1>4, <1>7, <2>0, <2>3
    <3>2. i <= n => i \in 1..n
      BY <2>0
    <3> QED
      BY <1>6, <2>0, <2>3, <3>1, <3>2
  <2> QED
    BY <2>1, <2>2, <2>3
<1> QED
  BY <1>4, <1>6, <1>8, <1>9 DEF Padded

\* Resized to the same length they are the same.
LEMMA ResizedBoth ==
    ASSUME NEW d \in Seq(StreamByte), NEW f \in Seq(StreamByte), Padded(d, f), NEW n \in Nat
    PROVE  Stream!Resized(d, n) = Stream!Resized(f, n)
<1>1. PICK r, s : r = Stream!Resized(d, n) /\ s = Stream!Resized(f, n)
  OBVIOUS
<1>2. /\ r \in Seq(StreamByte) /\ Len(r) = n
      /\ \A i \in 1..n : r[i] = IF i <= Len(d) THEN d[i] ELSE Null
  BY <1>1, ResizedIs
<1>3. /\ s \in Seq(StreamByte) /\ Len(s) = n
      /\ \A i \in 1..n : s[i] = IF i <= Len(f) THEN f[i] ELSE Null
  BY <1>1, ResizedIs
<1>4. \A i \in 1..n : r[i] = s[i]
  BY <1>2, <1>3 DEF Padded
<1>5. r = s
  BY <1>2, <1>3, <1>4
<1> QED
  BY <1>1, <1>5

LEMMA StreamFault ==
    ASSUME StreamIndInv, ~s_fault, Stream!Fault,
           \/ s_pptr = Null /\ ~s_null_data
           \/ s_pptr # Null /\ s_pptr > Len(s_data)
           \/ s_gptr > Len(s_source)
    PROVE  StreamIndInv'
<1>1. /\ UNCHANGED <<s_data, s_pptr, s_epptr, s_source, s_gptr, s_file, s_handed, s_answer, s_null_data>>
      /\ s_fault' = TRUE
  BY DEF Stream!Fault, Stream!out, Stream!in
<1> QED
  BY <1>1 DEF StreamIndInv, PutArea, AnswersHanded, Stream!AccessesInside, Stream!size

\* A write at the offset, of t to memory that grows by `by' or more: it is
\* inside of it unless the offset was not.
LEMMA StreamGrows ==
    ASSUME StreamIndInv, ~s_fault, NEW by \in Nat, NEW t \in Seq(Values), Stream!cap_resize_by(by, t),
           by = 0 \/ Stream!HasOffset,
           \/ Stream!poff + Len(t) <= Len(s_data) + by
           \/ s_pptr # Null /\ s_pptr > Len(s_data),
           s_pptr = Null => by = Len(t)
    PROVE  StreamIndInv'
<1>1. PICK p : p = Stream!poff
  OBVIOUS
<1>2. /\ p \in Nat
      /\ s_pptr = Null => p = 0 /\ s_data = <<>>
      /\ s_pptr # Null => p = s_pptr /\ s_epptr = Len(s_data)
  BY <1>1, OffsetAssumption DEF Stream!poff, StreamIndInv, PutArea
<1>3. PICK cap \in IF by = 0 THEN {Len(s_data)} ELSE Len(s_data) + by..StreamSize :
        IF p + Len(t) > cap THEN Stream!Fault
        ELSE /\ s_data' = Stream!Overwritten(Stream!Resized(s_data, cap), p, t)
             /\ s_epptr' = IF by = 0 THEN s_epptr ELSE cap
             /\ s_pptr' = IF by = 0 /\ t = <<>> THEN s_pptr ELSE p + Len(t)
             /\ s_file' = Stream!Overwritten(s_file, p, t)
             /\ UNCHANGED <<s_null_data, s_source, s_gptr, s_handed, s_answer, s_fault>>
  BY <1>1 DEF Stream!cap_resize_by, Stream!in
<1>4. cap \in Nat /\ cap >= Len(s_data) + by /\ (by = 0 => cap = Len(s_data))
  BY <1>3, OffsetAssumption DEF StreamIndInv
<1>5. t \in Seq(StreamByte) /\ Len(t) \in Nat
  BY DEF StreamByte
<1>6. CASE p + Len(t) > cap
  <2>1. s_pptr # Null /\ s_pptr > Len(s_data)
    <3>1. Len(s_data) \in Nat
      BY DEF StreamIndInv
    <3> QED
      BY <1>1, <1>2, <1>4, <1>5, <1>6, <3>1
  <2> QED
    BY <1>3, <1>6, <2>1, StreamFault
<1>7. CASE ~(p + Len(t) > cap)
  <2>1. p + Len(t) <= cap /\ Len(s_data) <= cap
    BY <1>2, <1>4, <1>5, <1>7 DEF StreamIndInv
  <2>2. s_data' \in Seq(StreamByte) /\ s_file' \in Seq(StreamByte) /\ Len(s_data') = cap /\ Padded(s_data', s_file')
    BY <1>2, <1>3, <1>4, <1>5, <1>7, <2>1, WrittenToBoth DEF StreamIndInv
  <2>3. PutArea'
    <3>1. CASE by = 0 /\ t = <<>>
      <4>1. s_pptr' = s_pptr /\ s_epptr' = s_epptr /\ Len(s_data') = Len(s_data)
        BY <1>3, <1>4, <1>7, <2>2, <3>1
      <4>2. ASSUME s_pptr = Null PROVE s_data' = <<>>
        <5>1. Len(s_data') = 0
          BY <1>2, <4>1, <4>2
        <5> QED
          BY <2>2, <5>1
      <4> QED
        BY <4>1, <4>2 DEF PutArea, StreamIndInv
    <3>2. CASE ~(by = 0 /\ t = <<>>)
      <4>1. s_pptr' = p + Len(t) /\ s_pptr' \in Nat
        BY <1>2, <1>3, <1>5, <1>7, <3>2
      <4>2. by = 0 => s_pptr # Null
        BY <1>5, <3>2
      <4>3. s_epptr' = Len(s_data')
        BY <1>2, <1>3, <1>4, <1>7, <2>2, <4>2
      <4> QED
        BY <4>1, <4>3, OffsetAssumption DEF PutArea
    <3> QED
      BY <3>1, <3>2
  <2>4. UNCHANGED <<s_null_data, s_source, s_gptr, s_handed, s_answer, s_fault>>
    BY <1>3, <1>7
  <2> QED
    BY <2>2, <2>3, <2>4 DEF StreamIndInv, AnswersHanded, Stream!AccessesInside
<1> QED
  BY <1>6, <1>7, <1>2, <1>4, <1>5

LEMMA StreamPuts ==
    ASSUME StreamIndInv, ~s_fault, NEW t \in Seq(Values), Stream!xsputn(t)
    PROVE  StreamIndInv'
<1>1. PICK rem : rem = Stream!remaining_buf_size
  OBVIOUS
<1>2. /\ Len(t) \in Nat /\ Len(s_data) \in Nat
      /\ s_pptr = Null => rem = 0 /\ s_data = <<>> /\ Stream!poff = 0
      /\ s_pptr # Null => /\ s_pptr \in Nat /\ rem = Len(s_data) - s_pptr /\ Stream!poff = s_pptr
  BY <1>1 DEF Stream!remaining_buf_size, Stream!poff, StreamIndInv, PutArea
<1>3. rem \in Int
  BY <1>2
<1>4. CASE rem >= Len(t) /\ Stream!cap_resize_by(0, t)
  <2>1. Stream!poff + Len(t) <= Len(s_data) + 0 /\ (s_pptr = Null => 0 = Len(t))
    BY <1>2, <1>3, <1>4
  <2> QED
    BY <1>4, <2>1, StreamGrows
<1>5. CASE rem < Len(t) /\ Stream!HasOffset /\ Stream!cap_resize_by(Len(t) - rem, t)
  <2>1. /\ Len(t) - rem \in Nat
        /\ Stream!poff + Len(t) <= Len(s_data) + (Len(t) - rem)
        /\ s_pptr = Null => Len(t) - rem = Len(t)
    BY <1>2, <1>3, <1>5
  <2> QED
    BY <1>5, <2>1, StreamGrows
<1>6. CASE ~Stream!HasOffset /\ Stream!Fault
  BY <1>6, StreamFault DEF Stream!HasOffset
<1> QED
  BY <1>1, <1>4, <1>5, <1>6 DEF Stream!xsputn

LEMMA StreamPut ==
    ASSUME StreamIndInv, ~s_fault, NEW c \in Values, Stream!sputc(c)
    PROVE  StreamIndInv'
<1>1. <<c>> \in Seq(Values) /\ Len(<<c>>) = 1
  OBVIOUS
<1>2. /\ Len(s_data) \in Nat
      /\ s_pptr = Null => Stream!remaining_buf_size = 0 /\ s_data = <<>> /\ Stream!poff = 0
      /\ s_pptr # Null => /\ s_pptr \in Nat /\ Stream!remaining_buf_size = Len(s_data) - s_pptr
                          /\ Stream!poff = s_pptr
  BY DEF Stream!remaining_buf_size, Stream!poff, StreamIndInv, PutArea
<1>3. CASE Stream!remaining_buf_size > 0 /\ Stream!cap_resize_by(0, <<c>>)
  <2>1. s_pptr # Null /\ Stream!poff + Len(<<c>>) <= Len(s_data) + 0
    BY <1>1, <1>2, <1>3
  <2> QED
    BY <1>1, <1>3, <2>1, StreamGrows
<1>4. CASE Stream!HasOffset /\ Stream!cap_resize_by(1, <<c>>)
  <2>1. \/ Stream!poff + Len(<<c>>) <= Len(s_data) + 1
        \/ s_pptr # Null /\ s_pptr > Len(s_data)
    BY <1>1, <1>2
  <2> QED
    BY <1>1, <1>4, <2>1, StreamGrows
<1>5. CASE ~Stream!HasOffset /\ Stream!Fault
  BY <1>5, StreamFault DEF Stream!HasOffset
<1> QED
  BY <1>3, <1>4, <1>5 DEF Stream!sputc

LEMMA StreamSeeks ==
    ASSUME StreamIndInv, ~s_fault, NEW off \in Int, Stream!seekoff_out(off)
    PROVE  StreamIndInv'
<1>1. CASE ~Stream!HasOffset /\ Stream!Fault
  BY <1>1, StreamFault DEF Stream!HasOffset
<1>2. ASSUME NEW sp, Stream!seekpos(sp) PROVE StreamIndInv'
  <2>1. /\ s_pptr' \in Nat /\ s_epptr' = Len(s_data')
        /\ UNCHANGED <<s_null_data, s_data, s_source, s_gptr, s_file, s_handed, s_answer, s_fault>>
    BY <1>2 DEF Stream!seekpos, Stream!Within, Stream!in, StreamIndInv
  <2>2. PutArea'
    BY <2>1, OffsetAssumption DEF PutArea
  <2>3. Stream!AccessesInside'
    BY <2>1 DEF Stream!AccessesInside, StreamIndInv
  <2> QED
    BY <2>1, <2>2, <2>3 DEF StreamIndInv, AnswersHanded
<1> QED
  BY <1>1, <1>2 DEF Stream!seekoff_out

\* The caller gets what was written.
LEMMA StreamHands ==
    ASSUME StreamIndInv, ~s_fault, Stream!get_container
    PROVE  StreamIndInv'
<1>1. CASE ~Stream!HasOffset /\ Stream!Fault
  BY <1>1, StreamFault DEF Stream!HasOffset
<1>2. CASE ~(~Stream!HasOffset /\ Stream!Fault)
  <2>1. PICK p : p = Stream!poff
    OBVIOUS
  <2>2. p \in Nat
    BY <2>1 DEF Stream!poff, StreamIndInv, PutArea
  <2>3. /\ s_source' = Stream!Resized(s_data, p) /\ s_gptr' = 0
        /\ s_handed' = Stream!Resized(s_file, p)
        /\ s_data' = <<>> /\ s_pptr' = Null /\ s_epptr' = Null
        /\ s_file' = <<>> /\ s_answer' = Stream!Nothing
        /\ UNCHANGED <<s_null_data, s_fault>>
    BY <1>2, <2>1 DEF Stream!get_container
  <2>4. s_source' \in Seq(StreamByte) /\ s_handed' = s_source'
    BY <2>2, <2>3, ResizedIs, ResizedBoth DEF StreamIndInv
  <2>5. PutArea' /\ Padded(s_data', s_file') /\ s_data' \in Seq(StreamByte) /\ s_file' \in Seq(StreamByte)
    BY <2>3 DEF PutArea, Padded
  <2>6. AnswersHanded'
    <3>1. s_answer'.from = 0 /\ s_answer'.got = <<>>
      BY <2>3 DEF Stream!Nothing
    <3> QED
      BY <3>1 DEF AnswersHanded
  <2>7. Stream!AccessesInside' /\ s_fault' \in BOOLEAN /\ s_gptr' \in Nat
    BY <2>3 DEF Stream!AccessesInside, StreamIndInv
  <2> QED
    BY <2>4, <2>5, <2>6, <2>7 DEF StreamIndInv
<1> QED
  BY <1>1, <1>2

LEMMA StreamClears ==
    ASSUME StreamIndInv, ~s_fault, Stream!clear
    PROVE  StreamIndInv'
<1>1. /\ s_data' = <<>> /\ s_pptr' = 0 /\ s_epptr' = 0 /\ s_file' = <<>>
      /\ UNCHANGED <<s_null_data, s_source, s_gptr, s_handed, s_answer, s_fault>>
  BY DEF Stream!clear, Stream!in
<1>2. PutArea' /\ Padded(s_data', s_file') /\ s_data' \in Seq(StreamByte) /\ s_file' \in Seq(StreamByte)
  BY <1>1, OffsetAssumption DEF PutArea, Padded
<1>3. Stream!AccessesInside'
  BY <1>1 DEF Stream!AccessesInside, StreamIndInv
<1> QED
  BY <1>1, <1>2, <1>3 DEF StreamIndInv, AnswersHanded

\* The reader gets the bytes of what was handed over.
LEMMA StreamGets ==
    ASSUME StreamIndInv, ~s_fault, NEW n \in Nat, s_gptr + n <= Len(s_source), Stream!Got(n)
    PROVE  StreamIndInv'
<1>1. /\ s_answer' = [from |-> s_gptr, got |-> SubSeq(s_source, s_gptr + 1, s_gptr + n)]
      /\ s_gptr' = s_gptr + n
      /\ UNCHANGED <<s_null_data, s_data, s_pptr, s_epptr, s_source, s_file, s_handed, s_fault>>
  BY DEF Stream!Got, Stream!out
<1>2. PICK a : a = SubSeq(s_source, s_gptr + 1, s_gptr + n)
  OBVIOUS
<1>3. s_source \in Seq(StreamByte) /\ s_gptr \in Nat
  BY DEF StreamIndInv
<1>4. /\ a \in Seq(StreamByte) /\ Len(a) = n
      /\ \A i \in 1..n : a[i] = s_source[s_gptr + i]
  BY <1>2, <1>3
<1>5. s_answer'.from = s_gptr /\ s_answer'.got = a
  BY <1>1, <1>2
<1>6. s_handed' = s_source
  BY <1>1 DEF StreamIndInv
<1>7. AnswersHanded'
  BY <1>3, <1>4, <1>5, <1>6 DEF AnswersHanded
<1>8. s_gptr' \in Nat
  BY <1>1, <1>3
<1>9. Stream!AccessesInside'
  BY <1>1 DEF Stream!AccessesInside, StreamIndInv
<1>10. PutArea' /\ Padded(s_data', s_file')
  BY <1>1 DEF PutArea, StreamIndInv
<1> QED
  BY <1>1, <1>7, <1>8, <1>9, <1>10 DEF StreamIndInv

LEMMA StreamReads ==
    ASSUME StreamIndInv, ~s_fault, NEW n \in 1..2, Stream!xsgetn(n)
    PROVE  StreamIndInv'
<1>1. Len(s_source) \in Nat /\ s_gptr \in Nat /\ Stream!size = Len(s_source)
  BY DEF StreamIndInv, Stream!size
<1>2. CASE s_gptr > Len(s_source)
  BY <1>1, <1>2, StreamFault DEF Stream!xsgetn
<1>3. CASE ~(s_gptr > Len(s_source))
  <2>1. PICK k : k = IF s_gptr + n > Len(s_source) THEN Len(s_source) - s_gptr ELSE n
    OBVIOUS
  <2>2. k \in Nat /\ s_gptr + k <= Len(s_source)
    BY <1>1, <1>3, <2>1
  <2>3. Stream!Got(k)
    BY <1>1, <1>3, <2>1 DEF Stream!xsgetn
  <2> QED
    BY <2>2, <2>3, StreamGets
<1> QED
  BY <1>2, <1>3

LEMMA StreamSeeksIn ==
    ASSUME StreamIndInv, ~s_fault, NEW off \in Int, Stream!seekoff_in(off)
    PROVE  StreamIndInv'
<1>1. /\ s_gptr' \in Nat
      /\ UNCHANGED <<s_null_data, s_data, s_pptr, s_epptr, s_source, s_file, s_handed, s_answer, s_fault>>
  BY DEF Stream!seekoff_in, Stream!Within, Stream!size, Stream!out, StreamIndInv
<1>2. Stream!AccessesInside'
  BY <1>1 DEF Stream!AccessesInside, StreamIndInv
<1>3. PutArea' /\ Padded(s_data', s_file')
  BY <1>1 DEF PutArea, StreamIndInv
<1> QED
  BY <1>1, <1>2, <1>3 DEF StreamIndInv, AnswersHanded

LEMMA StreamNext == ASSUME StreamIndInv, Stream!Next PROVE StreamIndInv'
<1>1. ~s_fault
  BY DEF Stream!Next
<1>2. ASSUME NEW n \in 0..2, NEW t \in [1..n -> Values], Stream!xsputn(t) PROVE StreamIndInv'
  <2>1. t \in Seq(Values)
    OBVIOUS
  <2> QED
    BY <1>1, <1>2, <2>1, StreamPuts
<1>3. CASE Stream!sbumpc
  <2>1. s_gptr + 1 <= Len(s_source) /\ Stream!Got(1)
    BY <1>3 DEF Stream!sbumpc, Stream!size, StreamIndInv
  <2> QED
    BY <1>1, <2>1, StreamGets
<1>4. ASSUME NEW off \in -2..2, Stream!seekoff_out(off) \/ Stream!seekoff_in(off) PROVE StreamIndInv'
  BY <1>1, <1>4, StreamSeeks, StreamSeeksIn
<1> QED
  BY <1>1, <1>2, <1>3, <1>4, StreamPut, StreamHands, StreamClears, StreamReads DEF Stream!Next

LEMMA StreamInit == Stream!Init => StreamIndInv
<1> SUFFICES ASSUME Stream!Init PROVE StreamIndInv
  OBVIOUS
<1>1. /\ s_source = <<>> /\ s_gptr = 0
      /\ s_file = <<>> /\ s_handed = <<>> /\ s_answer = Stream!Nothing /\ s_fault = FALSE
  BY DEF Stream!Init
<1>a. PICK cap \in 0..StreamSize : s_data = Stream!Zeros(cap) /\ s_pptr = 0 /\ s_epptr = cap
  BY DEF Stream!Init
<1>b. s_data \in Seq(StreamByte) /\ Len(s_data) = cap /\ \A i \in 1..cap : s_data[i] = Null
  <2>1. cap \in Nat
    BY OffsetAssumption
  <2>2. s_data = [i \in 1..cap |-> Null]
    BY <1>a DEF Stream!Zeros
  <2> QED
    BY <2>1, <2>2 DEF StreamByte
<1>2. s_answer.from = 0 /\ s_answer.got = <<>>
  BY <1>1 DEF Stream!Nothing
<1>3. AnswersHanded
  BY <1>2 DEF AnswersHanded
<1>4. PutArea /\ Padded(s_data, s_file) /\ Stream!AccessesInside
  BY <1>1, <1>a, <1>b, OffsetAssumption DEF PutArea, Padded, Stream!AccessesInside
<1>5. <<>> \in Seq(StreamByte)
  OBVIOUS
<1> QED
  BY <1>1, <1>b, <1>3, <1>4, <1>5 DEF StreamIndInv

LEMMA StreamInvariance == Stream!Spec => []StreamIndInv
<1>1. ASSUME StreamIndInv, [Stream!Next]_(Stream!vars) PROVE StreamIndInv'
  <2>1. CASE UNCHANGED Stream!vars
    BY <1>1, <2>1
    DEF Stream!vars, Stream!out, Stream!in, Stream!history, StreamIndInv, PutArea, AnswersHanded, Padded,
        Stream!AccessesInside, Stream!size
  <2> QED
    BY <1>1, <2>1, StreamNext
<1> QED
  BY StreamInit, <1>1, PTL DEF Stream!Spec

\* The memory is accessed inside, unless the caller left it.
THEOREM StreamInside == Stream!Spec => []Stream!AccessesInside
<1>1. StreamIndInv => Stream!AccessesInside
  BY DEF StreamIndInv
<1> QED
  BY <1>1, StreamInvariance, PTL

\* What is read is what was written, where it was written.
THEOREM StreamReadsWritten == Stream!Spec => []Stream!ReadsWhatWasWritten
<1>1. ASSUME StreamIndInv PROVE Stream!ReadsWhatWasWritten
  <2>1. Stream!WrittenIsThere
    <3>1. ASSUME NEW i \in DOMAIN s_file PROVE i <= Len(s_data) /\ s_data[i] = s_file[i]
      BY <1>1 DEF StreamIndInv, Padded
    <3> QED
      BY <1>1, <3>1 DEF StreamIndInv, PutArea, Stream!WrittenIsThere
  <2> QED
    <3>1. DOMAIN s_answer.got = 1..Len(s_answer.got)
      BY <1>1 DEF StreamIndInv, AnswersHanded
    <3> QED
      BY <1>1, <2>1, <3>1 DEF StreamIndInv, AnswersHanded, Stream!ReadsWhatWasWritten
<1> QED
  BY <1>1, StreamInvariance, PTL

-----------------------------------------------------------------------------
(* Induction up to n, from the least number that it does not reach.        *)
LEMMA Climbs ==
    ASSUME NEW n \in Nat, NEW S, 0 \in S, \A k \in 0..(n - 1) : k \in S => k + 1 \in S
    PROVE  n \in S
<1> SUFFICES ASSUME n \notin S PROVE FALSE
  OBVIOUS
<1> DEFINE P == {i \in 1..n : i \notin S}
           T == {1..i : i \in P}
<1>1. P \in SUBSET (Nat \ {0}) /\ n \in P
  OBVIOUS
<1> HIDE DEF P
<1>2. T \subseteq FiniteSubsetsOf(Nat) /\ T # {}
  <2>1. \A i \in P : 1..i \in SUBSET Nat /\ IsFiniteSet(1..i)
    BY <1>1, FS_Interval
  <2> QED  BY <1>1, <2>1 DEF FiniteSubsetsOf
<1>3. PICK U \in T : \A V \in T : <<V, U>> \notin StrictSubsetOrdering(Nat)
  <2> HIDE DEF T
  <2> QED  BY <1>2, FS_StrictSubsetOrderingWellFounded, WFMin
<1>4. PICK i \in P : U = 1..i
  OBVIOUS
<1>5. ASSUME NEW j \in P, j < i
      PROVE  FALSE
  <2>1. 1..j \in T /\ 1..j \subseteq 1..i /\ i \in 1..i /\ i \notin 1..j
    BY <1>1, <1>5
  <2>2. <<1..j, U>> \in StrictSubsetOrdering(Nat)
    BY <1>1, <1>4, <2>1 DEF StrictSubsetOrdering
  <2> QED  BY <1>3, <2>1, <2>2
<1>6. i \in 1..n /\ i \notin S
  BY DEF P
<1>7. i - 1 \in 0..(n - 1) /\ (i - 1) + 1 = i /\ i - 1 < i
  BY <1>6
<1>8. i - 1 \notin S
  BY <1>6, <1>7
<1>9. i - 1 \in P
  <2>1. i - 1 # 0
    BY <1>8
  <2> QED  BY <1>6, <1>7, <1>8, <2>1 DEF P
<1> QED  BY <1>5, <1>7, <1>9

-----------------------------------------------------------------------------
(* static_vector: the steps of a function.                                 *)

\* The memory, as one value.
Mem(o, z) == [object |-> o, m_size |-> z, ok |-> TRUE]

\* A call of v: the memory in which it is made, and whether v is torn if a copy throws.
Call(v, tears) == [object |-> v_object, m_size |-> v_size, v |-> v, tears |-> tears]

IsCall(B) ==
    /\ B.v \in Objects /\ B.tears \in BOOLEAN
    /\ B.object = [v \in Objects |-> B.object[v]] /\ B.m_size = [v \in Objects |-> B.m_size[v]]

\* The memory when the function has made v what row and n say.
One(B, row, n) == Mem([B.object EXCEPT ![B.v] = row], [B.m_size EXCEPT ![B.v] = n])

\* v has n elements.
Fills(row, n) == n \in 0..Capacity /\ row = [i \in 0..n - 1 |-> row[i]]

\* A copy may throw where v keeps what it has, or is torn.
MayThrow(m, B) == \E row, n : m = One(B, row, n) /\ (Fills(row, n) \/ (B.tears /\ n \in Nat))

\* A step that misuses nothing.
Goes(m, s, e, B) ==
    /\ m = Mem(m.object, m.m_size) /\ ~Static!Misuses(m.object, s)
    /\ e = Static!Step(m, s)
    /\ s.do = "copy" => MayThrow(m, B)

\* One that does.
Stops(m, s, B) ==
    /\ m = Mem(m.object, m.m_size) /\ Static!Misuses(m.object, s)
    /\ s.do = "copy" => MayThrow(m, B)

IsSequence(s) == \E S : s \in Seq(S)

\* The memories f that the first k steps of s go through.
Path(f, m, s, k, B) ==
    /\ f[0] = m
    /\ \A i \in 1..k : Goes(f[i - 1], s[i], f[i], B)

\* s leads from m to e.
Runs(m, s, e, B) == IsSequence(s) /\ \E f : Path(f, m, s, Len(s), B) /\ f[Len(s)] = e

\* s leads from m to a step that misuses the memory.
Halts(m, s, B) ==
    IsSequence(s) /\ \E k \in 0..(Len(s) - 1) : \E f : Path(f, m, s, k, B) /\ Stops(f[k], s[k + 1], B)

LEMMA SequenceIs ==
    ASSUME NEW n \in Nat, NEW s, s = [i \in 1..n |-> s[i]]
    PROVE  IsSequence(s) /\ Len(s) = n
<1> DEFINE S == {s[i] : i \in 1..n}
<1>1. s \in [1..n -> S]
  OBVIOUS
<1>2. s \in Seq(S)
  BY <1>1
<1>3. Len(s) = n
  OBVIOUS
<1>4. \E T : s \in Seq(T)
  <2> HIDE DEF S
  <2> QED  BY <1>2
<1> QED  BY <1>3, <1>4 DEF IsSequence

LEMMA ConcatIs ==
    ASSUME NEW s, NEW t, IsSequence(s), IsSequence(t)
    PROVE  /\ IsSequence(s \o t)
           /\ Len(s) \in Nat /\ Len(t) \in Nat /\ Len(s \o t) = Len(s) + Len(t)
           /\ \A i \in 1..Len(s) : (s \o t)[i] = s[i]
           /\ \A i \in 1..Len(t) : (s \o t)[Len(s) + i] = t[i]
<1>1. PICK S : s \in Seq(S)
  BY DEF IsSequence
<1>2. PICK T : t \in Seq(T)
  BY DEF IsSequence
<1>3. s \in Seq(S \cup T) /\ t \in Seq(S \cup T)
  BY <1>1, <1>2
<1>4. s \o t \in Seq(S \cup T)
  BY <1>3
<1>5. IsSequence(s \o t)
  BY <1>4 DEF IsSequence
<1>6. Len(s) \in Nat /\ Len(t) \in Nat /\ Len(s \o t) = Len(s) + Len(t)
  BY <1>3
<1>7. ASSUME NEW i \in 1..Len(s) PROVE (s \o t)[i] = s[i]
  BY <1>3, <1>6
<1>8. ASSUME NEW i \in 1..Len(t) PROVE (s \o t)[Len(s) + i] = t[i]
  BY <1>3, <1>6
<1> QED  BY <1>5, <1>6, <1>7, <1>8

\* One path after another.
LEMMA PathConcat ==
    ASSUME NEW m, NEW s, NEW t, NEW e, NEW B, IsSequence(t), Runs(m, s, e, B),
           NEW g, NEW k \in 0..Len(t), Path(g, e, t, k, B)
    PROVE  \E f : Path(f, m, s \o t, Len(s) + k, B) /\ f[Len(s) + k] = g[k]
<1>1. PICK h : Path(h, m, s, Len(s), B) /\ h[Len(s)] = e
  BY DEF Runs
<1>2. IsSequence(s)
  BY DEF Runs
<1> DEFINE n == Len(s)
           f == [i \in 0..(n + k) |-> IF i <= n THEN h[i] ELSE g[i - n]]
<1>3. /\ n \in Nat /\ Len(t) \in Nat /\ k \in Nat
      /\ \A i \in 1..n : (s \o t)[i] = s[i]
      /\ \A i \in 1..k : (s \o t)[n + i] = t[i]
  BY <1>2, ConcatIs
<1>4. /\ \A i \in 0..n : f[i] = h[i]
      /\ \A i \in 0..k : f[n + i] = g[i]
  <2>1. g[0] = h[n]
    BY <1>1 DEF Path
  <2>2. \A i \in 0..n : f[i] = h[i]
    BY <1>3
  <2>3. ASSUME NEW i \in 0..k
        PROVE  f[n + i] = g[i]
    <3>1. n + i \in 0..(n + k) /\ (n + i) - n = i /\ (n + i <= n => i = 0)
      BY <1>3
    <3> QED  BY <2>1, <3>1
  <2> QED  BY <2>2, <2>3
<1> HIDE DEF f
<1>5. ASSUME NEW i \in 1..(n + k)
      PROVE  Goes(f[i - 1], (s \o t)[i], f[i], B)
  <2>1. CASE i <= n
    <3>1. i \in 1..n /\ i - 1 \in 0..n
      BY <1>3, <2>1
    <3>2. Goes(h[i - 1], s[i], h[i], B)
      BY <1>1, <3>1 DEF Path
    <3> QED  BY <1>3, <1>4, <3>1, <3>2
  <2>2. CASE ~(i <= n)
    <3> DEFINE j == i - n
    <3>1. j \in 1..k /\ j - 1 \in 0..k /\ i = n + j /\ i - 1 = n + (j - 1)
      BY <1>3, <2>2
    <3>2. Goes(g[j - 1], t[j], g[j], B)
      BY <3>1 DEF Path
    <3>3. f[i] = g[j] /\ f[i - 1] = g[j - 1] /\ (s \o t)[i] = t[j]
      BY <1>3, <1>4, <3>1
    <3> QED  BY <3>2, <3>3
  <2> QED  BY <2>1, <2>2
<1>6. f[0] = m /\ f[n + k] = g[k]
  <2>1. 0 \in 0..n /\ k \in 0..k
    BY <1>3
  <2>2. f[0] = h[0] /\ h[0] = m
    BY <1>1, <1>4, <2>1 DEF Path
  <2> QED  BY <1>4, <2>1, <2>2
<1> QED  BY <1>5, <1>6 DEF Path

LEMMA RunsConcat ==
    ASSUME NEW m, NEW s, NEW t, NEW e, NEW d, NEW B, Runs(m, s, e, B), Runs(e, t, d, B)
    PROVE  Runs(m, s \o t, d, B)
<1>1. IsSequence(s) /\ IsSequence(t)
  BY DEF Runs
<1>2. PICK g : Path(g, e, t, Len(t), B) /\ g[Len(t)] = d
  BY DEF Runs
<1>3. Len(t) \in 0..Len(t) /\ Len(s \o t) = Len(s) + Len(t) /\ IsSequence(s \o t)
  BY <1>1, ConcatIs
<1>4. PICK f : Path(f, m, s \o t, Len(s) + Len(t), B) /\ f[Len(s) + Len(t)] = g[Len(t)]
  BY <1>1, <1>2, <1>3, PathConcat
<1> QED  BY <1>2, <1>3, <1>4 DEF Runs

LEMMA HaltsConcat ==
    ASSUME NEW m, NEW s, NEW t, NEW e, NEW B, Runs(m, s, e, B), Halts(e, t, B)
    PROVE  Halts(m, s \o t, B)
<1>1. IsSequence(s) /\ IsSequence(t)
  BY DEF Runs, Halts
<1>2. PICK k, g : k \in 0..(Len(t) - 1) /\ Path(g, e, t, k, B) /\ Stops(g[k], t[k + 1], B)
  BY DEF Halts
<1>3. /\ Len(s) \in Nat /\ Len(t) \in Nat /\ Len(s \o t) = Len(s) + Len(t) /\ IsSequence(s \o t)
      /\ \A i \in 1..Len(t) : (s \o t)[Len(s) + i] = t[i]
  BY <1>1, ConcatIs
<1>4. k \in 0..Len(t) /\ k + 1 \in 1..Len(t) /\ Len(s) + (k + 1) = (Len(s) + k) + 1
  BY <1>2, <1>3
<1>5. PICK f : Path(f, m, s \o t, Len(s) + k, B) /\ f[Len(s) + k] = g[k]
  BY <1>1, <1>2, <1>4, PathConcat
<1>6. (s \o t)[(Len(s) + k) + 1] = t[k + 1]
  BY <1>3, <1>4
<1>7. Len(s) + k \in 0..(Len(s \o t) - 1)
  BY <1>3, <1>4
<1> QED  BY <1>2, <1>3, <1>5, <1>6, <1>7 DEF Halts

LEMMA HaltsEarlier ==
    ASSUME NEW m, NEW s, NEW t, NEW B, Halts(m, s, B), IsSequence(t)
    PROVE  Halts(m, s \o t, B)
<1>1. IsSequence(s)
  BY DEF Halts
<1>2. PICK k, f : k \in 0..(Len(s) - 1) /\ Path(f, m, s, k, B) /\ Stops(f[k], s[k + 1], B)
  BY DEF Halts
<1>3. /\ Len(s) \in Nat /\ Len(t) \in Nat /\ Len(s \o t) = Len(s) + Len(t) /\ IsSequence(s \o t)
      /\ \A i \in 1..Len(s) : (s \o t)[i] = s[i]
  BY <1>1, ConcatIs
<1>4. Path(f, m, s \o t, k, B)
  BY <1>2, <1>3 DEF Path
<1>5. k \in 0..(Len(s \o t) - 1) /\ (s \o t)[k + 1] = s[k + 1]
  BY <1>2, <1>3
<1> QED  BY <1>2, <1>3, <1>4, <1>5 DEF Halts

LEMMA RunsNone ==
    ASSUME NEW m, NEW B
    PROVE  Runs(m, <<>>, m, B)
<1> DEFINE f == [i \in {0} |-> m]
<1>1. IsSequence(<<>>) /\ Len(<<>>) = 0
  BY DEF IsSequence
<1>2. Path(f, m, <<>>, 0, B) /\ f[0] = m
  BY DEF Path
<1> QED  BY <1>1, <1>2 DEF Runs

LEMMA RunsOne ==
    ASSUME NEW m, NEW s, NEW e, NEW B, Goes(m, s, e, B)
    PROVE  Runs(m, <<s>>, e, B)
<1> DEFINE f == [i \in 0..1 |-> IF i = 0 THEN m ELSE e]
<1>1. <<s>> \in Seq({s}) /\ Len(<<s>>) = 1 /\ <<s>>[1] = s
  OBVIOUS
<1>2. f[0] = m /\ f[1] = e
  OBVIOUS
<1>3. Path(f, m, <<s>>, 1, B) /\ f[1] = e
  <2> HIDE DEF f
  <2> QED  BY <1>1, <1>2 DEF Path
<1>4. IsSequence(<<s>>)
  BY <1>1 DEF IsSequence
<1> QED  BY <1>1, <1>3, <1>4 DEF Runs

LEMMA HaltsNow ==
    ASSUME NEW m, NEW s, NEW B, IsSequence(s), Len(s) > 0, Stops(m, s[1], B)
    PROVE  Halts(m, s, B)
<1> DEFINE f == [i \in {0} |-> m]
<1>0. Len(s) \in Nat
  BY DEF IsSequence
<1>1. Path(f, m, s, 0, B) /\ f[0] = m
  BY DEF Path
<1>2. 0 \in 0..(Len(s) - 1) /\ 0 + 1 = 1
  BY <1>0
<1> QED  BY <1>1, <1>2 DEF Halts

LEMMA RunsTwo ==
    ASSUME NEW m, NEW a, NEW d, NEW b, NEW e, NEW B, Goes(m, a, d, B), Goes(d, b, e, B)
    PROVE  Runs(m, <<a, b>>, e, B)
<1> DEFINE f == [i \in 0..2 |-> IF i = 0 THEN m ELSE IF i = 1 THEN d ELSE e]
           s == <<a, b>>
<1>1. s \in Seq({a, b}) /\ Len(s) = 2 /\ s[1] = a /\ s[2] = b
  OBVIOUS
<1>2. f[0] = m /\ f[1] = d /\ f[2] = e
  OBVIOUS
<1> HIDE DEF f, s
<1>3. ASSUME NEW i \in 1..2 PROVE Goes(f[i - 1], s[i], f[i], B)
  <2>1. i = 1 \/ i = 2
    OBVIOUS
  <2> QED  BY <1>1, <1>2, <2>1
<1>4. Runs(m, s, e, B)
  BY <1>1, <1>2, <1>3 DEF Runs, Path, IsSequence
<1> QED  BY <1>4 DEF s

LEMMA RunsThree ==
    ASSUME NEW m, NEW a, NEW d, NEW b, NEW e, NEW c, NEW g, NEW B,
           Goes(m, a, d, B), Goes(d, b, e, B), Goes(e, c, g, B)
    PROVE  Runs(m, <<a, b, c>>, g, B)
<1> DEFINE f == [i \in 0..3 |-> IF i = 0 THEN m ELSE IF i = 1 THEN d ELSE IF i = 2 THEN e ELSE g]
           s == <<a, b, c>>
<1>1. s \in Seq({a, b, c}) /\ Len(s) = 3 /\ s[1] = a /\ s[2] = b /\ s[3] = c
  OBVIOUS
<1>2. f[0] = m /\ f[1] = d /\ f[2] = e /\ f[3] = g
  OBVIOUS
<1> HIDE DEF f, s
<1>3. ASSUME NEW i \in 1..3 PROVE Goes(f[i - 1], s[i], f[i], B)
  <2>1. i = 1 \/ i = 2 \/ i = 3
    OBVIOUS
  <2> QED  BY <1>1, <1>2, <2>1
<1>4. Runs(m, s, g, B)
  BY <1>1, <1>2, <1>3 DEF Runs, Path, IsSequence
<1> QED  BY <1>4 DEF s

\* One step after another.
LEMMA RunsEach ==
    ASSUME NEW n \in Nat, NEW s, s = [i \in 1..n |-> s[i]], NEW g, NEW B,
           \A i \in 1..n : Goes(g[i - 1], s[i], g[i], B)
    PROVE  Runs(g[0], s, g[n], B)
<1>1. IsSequence(s) /\ Len(s) = n
  BY SequenceIs
<1> QED  BY <1>1 DEF Runs, Path

\* What a recursive definition of a sequence of memories defines.
LEMMA AfterIs ==
    ASSUME NEW k \in Nat, NEW s, NEW f, f[0] = Mem(v_object, v_size),
           \A i \in 1..k : f[i] = Static!Step(f[i - 1], s[i])
    PROVE  Static!After(s, k) = f[k]
<1> DEFINE Is(a) == a = [i \in 0..k |-> IF i = 0 THEN [object |-> v_object, m_size |-> v_size, ok |-> TRUE]
                                        ELSE Static!Step(a[i - 1], s[i])]
           h == [i \in 0..k |-> f[i]]
           c == CHOOSE a : Is(a)
<1>1. Is(h)
  <2>1. ASSUME NEW i \in 0..k
        PROVE  h[i] = IF i = 0 THEN [object |-> v_object, m_size |-> v_size, ok |-> TRUE]
                      ELSE Static!Step(h[i - 1], s[i])
    <3>1. CASE i = 0
      BY <3>1 DEF Mem
    <3>2. CASE i # 0
      <4>1. i \in 1..k /\ i - 1 \in 0..k
        BY <3>2
      <4>2. h[i] = f[i] /\ h[i - 1] = f[i - 1] /\ f[i] = Static!Step(f[i - 1], s[i])
        BY <4>1
      <4> QED  BY <3>2, <4>2
    <3> QED  BY <3>1, <3>2
  <2>2. h = [i \in 0..k |-> h[i]]
    OBVIOUS
  <2> HIDE DEF h
  <2> QED  BY <2>1, <2>2
<1>2. Is(c)
  <2> HIDE DEF Is
  <2> QED  BY <1>1
<1>3. /\ c[0] = f[0]
      /\ \A i \in 1..k : c[i] = Static!Step(c[i - 1], s[i])
  <2> HIDE DEF c
  <2>1. c[0] = [object |-> v_object, m_size |-> v_size, ok |-> TRUE]
    <3>1. 0 \in 0..k
      OBVIOUS
    <3> QED  BY <1>2, <3>1
  <2>2. ASSUME NEW i \in 1..k PROVE c[i] = Static!Step(c[i - 1], s[i])
    <3>1. i \in 0..k /\ i # 0
      OBVIOUS
    <3> QED  BY <1>2, <3>1
  <2> QED  BY <2>1, <2>2 DEF Mem
<1>4. c[k] = f[k]
  <2> HIDE DEF c
  <2> DEFINE S == {i \in 0..k : c[i] = f[i]}
  <2>1. 0 \in S
    BY <1>3
  <2>2. ASSUME NEW i \in 0..(k - 1), i \in S PROVE i + 1 \in S
    <3>1. i + 1 \in 1..k /\ (i + 1) - 1 = i /\ i + 1 \in 0..k
      OBVIOUS
    <3>2. c[i + 1] = Static!Step(c[i], s[i + 1]) /\ f[i + 1] = Static!Step(f[i], s[i + 1])
      BY <1>3, <3>1
    <3> QED  BY <2>2, <3>1, <3>2
  <2>3. k \in S
    <3> HIDE DEF S
    <3> QED  BY <2>1, <2>2, Climbs
  <2> QED  BY <2>3
<1>5. Static!After(s, k) = c[k]
  BY DEF Static!After
<1> QED  BY <1>4, <1>5

\* c[k] is the first k sequences of body in a row.
Flattens(c, body, n) ==
    /\ Static!FlattenSeq(body) = c[n] /\ c[1] = body[1]
    /\ \A k \in 1..(n - 1) : c[k + 1] = c[k] \o body[k + 1]

LEMMA FlattenIs ==
    ASSUME NEW n \in Nat, n # 0, NEW body, body = [i \in 1..n |-> body[i]]
    PROVE  \E c : Flattens(c, body, n)
<1>1. IsSequence(body) /\ Len(body) = n
  BY SequenceIs
<1> DEFINE Is(a) == a = [i \in 1..n |-> IF i = 1 THEN body[i] ELSE a[i - 1] \o body[i]]
           Upto(a, k) == \A i \in 1..k : a[i] = IF i = 1 THEN body[i] ELSE a[i - 1] \o body[i]
           c == CHOOSE a : Is(a)
<1>2. \E a : a = [i \in 1..n |-> a[i]] /\ Upto(a, n)
  <2> DEFINE S == {k \in 0..n : \E a : a = [i \in 1..n |-> a[i]] /\ Upto(a, k)}
  <2>1. 0 \in S
    <3>1. 0 \in 0..n
      OBVIOUS
    <3>2. Upto(body, 0)
      <4>1. \A i \in 1..0 : FALSE
        OBVIOUS
      <4> QED  BY <4>1
    <3> HIDE DEF Upto
    <3> QED  BY <3>1, <3>2
  <2>2. ASSUME NEW k \in 0..(n - 1), k \in S PROVE k + 1 \in S
    <3>1. PICK a : a = [i \in 1..n |-> a[i]] /\ Upto(a, k)
      BY <2>2
    <3>0. PICK x : x = IF k + 1 = 1 THEN body[k + 1] ELSE a[k] \o body[k + 1]
      OBVIOUS
    <3> DEFINE b == [i \in 1..n |-> IF i = k + 1 THEN x ELSE a[i]]
    <3>a. k \in Nat /\ k + 1 \in 1..n /\ \A i \in 1..k : i \in 1..n /\ i # k + 1
      OBVIOUS
    <3>2. b[k + 1] = x /\ \A i \in 1..k : b[i] = a[i]
      BY <3>a
    <3>3. b = [i \in 1..n |-> b[i]]
      OBVIOUS
    <3> HIDE DEF b
    <3>4. ASSUME NEW i \in 1..k + 1
          PROVE  b[i] = IF i = 1 THEN body[i] ELSE b[i - 1] \o body[i]
      <4>1. CASE i = k + 1
        <5>1. i # 1 => i - 1 = k /\ k \in 1..k
          BY <3>a, <4>1
        <5>2. i # 1 => b[i - 1] = a[k]
          BY <3>2, <5>1
        <5> QED  BY <3>0, <3>2, <4>1, <5>2
      <4>2. CASE i # k + 1
        <5>1. i \in 1..k /\ (i # 1 => i - 1 \in 1..k)
          BY <3>a, <4>2
        <5> QED  BY <3>1, <3>2, <5>1
      <4> QED  BY <4>1, <4>2
    <3>5. Upto(b, k + 1)
      BY <3>4
    <3>6. k + 1 \in 0..n
      OBVIOUS
    <3> HIDE DEF Upto
    <3> QED  BY <3>3, <3>5, <3>6
  <2>3. n \in S
    <3> HIDE DEF S
    <3> QED  BY <2>1, <2>2, Climbs
  <2> QED  BY <2>3
<1>3. Is(c)
  <2>1. PICK a : a = [i \in 1..n |-> a[i]] /\ Upto(a, n)
    BY <1>2
  <2>2. Is(a)
    BY <2>1
  <2> HIDE DEF Is
  <2> QED  BY <2>2
<1>4. Static!FlattenSeq(body) = c[n]
  BY <1>1 DEF Static!FlattenSeq
<1>5. \A i \in 1..n : c[i] = IF i = 1 THEN body[i] ELSE c[i - 1] \o body[i]
  <2> HIDE DEF c
  <2> QED  BY <1>3
<1> HIDE DEF c
<1>6. c[1] = body[1]
  BY <1>5
<1>7. ASSUME NEW k \in 1..(n - 1) PROVE c[k + 1] = c[k] \o body[k + 1]
  <2>1. k + 1 \in 1..n /\ (k + 1) - 1 = k /\ k + 1 # 1
    OBVIOUS
  <2>2. c[k + 1] = IF k + 1 = 1 THEN body[k + 1] ELSE c[(k + 1) - 1] \o body[k + 1]
    BY <1>5, <2>1
  <2> QED  BY <2>1, <2>2
<1>8. Flattens(c, body, n)
  BY <1>4, <1>6, <1>7 DEF Flattens
<1> QED  BY <1>8

\* One part of a loop after another.
LEMMA RunsLoop ==
    ASSUME NEW n \in Nat, NEW body, body = [i \in 1..n |-> body[i]], NEW g, NEW B,
           \A i \in 1..n : Runs(g[i - 1], body[i], g[i], B)
    PROVE  Runs(g[0], Static!FlattenSeq(body), g[n], B)
<1>1. CASE n = 0
  <2>1. IsSequence(body) /\ Len(body) = n
    BY SequenceIs
  <2>2. Static!FlattenSeq(body) = body
    BY <1>1, <2>1 DEF Static!FlattenSeq
  <2>3. Runs(g[0], body, g[0], B)
    <3>1. \A i \in 1..n : Goes(g[i - 1], body[i], g[i], B)
      BY <1>1
    <3> QED  BY <1>1, <3>1, RunsEach
  <2> QED  BY <1>1, <2>2, <2>3
<1>2. CASE n # 0
  <2>0. PICK c : Flattens(c, body, n)
    BY <1>2, FlattenIs
  <2>1. /\ Static!FlattenSeq(body) = c[n] /\ c[1] = body[1]
        /\ \A k \in 1..(n - 1) : c[k + 1] = c[k] \o body[k + 1]
    BY <2>0 DEF Flattens
  <2> DEFINE S == {k \in 0..n : k # 0 => Runs(g[0], c[k], g[k], B)}
  <2>2. 0 \in S
    OBVIOUS
  <2>3. ASSUME NEW k \in 0..(n - 1), k \in S PROVE k + 1 \in S
    <3>1. k + 1 \in 1..n /\ (k + 1) - 1 = k /\ k \in Nat
      OBVIOUS
    <3>2. Runs(g[k], body[k + 1], g[k + 1], B)
      BY <3>1
    <3>3. CASE k = 0
      BY <2>1, <3>1, <3>2, <3>3
    <3>4. CASE k # 0
      <4>1. c[k + 1] = c[k] \o body[k + 1]
        <5>1. k \in 1..(n - 1)
          BY <3>4
        <5> QED  BY <2>1, <5>1
      <4>2. Runs(g[0], c[k], g[k], B)
        BY <2>3, <3>4
      <4>3. Runs(g[0], c[k + 1], g[k + 1], B)
        BY <3>2, <4>1, <4>2, RunsConcat
      <4> QED  BY <3>1, <4>3
    <3> QED  BY <3>3, <3>4
  <2>4. n \in S
    <3> HIDE DEF S
    <3> QED  BY <2>2, <2>3, Climbs
  <2> QED  BY <1>2, <2>1, <2>4
<1> QED  BY <1>1, <1>2

\* The first part misuses something.
LEMMA HaltsLoop ==
    ASSUME NEW n \in Nat \ {0}, NEW body, body = [i \in 1..n |-> body[i]],
           \A i \in 1..n : IsSequence(body[i]), NEW m, NEW B, Halts(m, body[1], B)
    PROVE  Halts(m, Static!FlattenSeq(body), B)
<1>0. PICK c : Flattens(c, body, n)
  BY FlattenIs
<1>1. /\ Static!FlattenSeq(body) = c[n] /\ c[1] = body[1]
      /\ \A k \in 1..(n - 1) : c[k + 1] = c[k] \o body[k + 1]
  BY <1>0 DEF Flattens
<1> DEFINE S == {k \in 0..n : k # 0 => Halts(m, c[k], B)}
<1>2. 0 \in S
  OBVIOUS
<1>3. ASSUME NEW k \in 0..(n - 1), k \in S PROVE k + 1 \in S
  <2>1. k + 1 \in 1..n /\ k \in Nat
    OBVIOUS
  <2>2. CASE k = 0
    BY <1>1, <2>1, <2>2
  <2>3. CASE k # 0
    <3>1. c[k + 1] = c[k] \o body[k + 1]
      <4>1. k \in 1..(n - 1)
        BY <2>3
      <4> QED  BY <1>1, <4>1
    <3>2. Halts(m, c[k], B) /\ IsSequence(body[k + 1])
      BY <1>3, <2>1, <2>3
    <3>3. Halts(m, c[k + 1], B)
      BY <3>1, <3>2, HaltsEarlier
    <3> QED  BY <2>1, <3>3
  <2> QED  BY <2>2, <2>3
<1>4. n \in S
  <2> HIDE DEF S
  <2> QED  BY <1>2, <1>3, Climbs
<1> QED  BY <1>1, <1>4

-----------------------------------------------------------------------------
(* static_vector: what a function leaves.                                  *)

\* A vector has the elements that a std::vector would.
Holds(v) ==
    /\ Fills(v_object[v], v_size[v])
    /\ v_contents[v] = [i \in 1..v_size[v] |-> v_object[v][i - 1]]

StaticInv ==
    /\ v_fault \in {"none", "erase none", "assign own", "insert own", "torn"}
    /\ v_fault = "none" =>
          /\ v_object = [v \in Objects |-> v_object[v]] /\ v_size = [v \in Objects |-> v_size[v]]
          /\ v_contents = [v \in Objects |-> v_contents[v]]
          /\ \A v \in Objects \ v_torn : Holds(v)
          /\ \A v \in Objects : v \in v_torn => v_size[v] \in Nat

LEMMA CallIs ==
    ASSUME StaticInv, v_fault = "none", NEW v \in Objects, NEW tears \in BOOLEAN
    PROVE  /\ IsCall(Call(v, tears))
           /\ Mem(v_object, v_size) = One(Call(v, tears), v_object[v], v_size[v])
  BY DEF StaticInv, IsCall, Call, One

Tears(name) == name \in {"construct", "insert", "insert own"}
MayFail(name) == name \in {"erase none", "assign own", "insert own"}

\* v has n elements, and nothing else has changed.
LEMMA HoldsOne ==
    ASSUME StaticInv, v_fault = "none", NEW v \in Objects \ v_torn, NEW row, NEW n, Fills(row, n),
           v_object' = [v_object EXCEPT ![v] = row], v_size' = [v_size EXCEPT ![v] = n],
           v_contents' = [v_contents EXCEPT ![v] = [i \in 1..n |-> row[i - 1]]],
           v_fault' = "none", v_torn' = v_torn
    PROVE  StaticInv'
<1>1. v_object'[v] = row /\ v_size'[v] = n /\ v_contents'[v] = [i \in 1..n |-> row[i - 1]]
  BY DEF StaticInv
<1>2. ASSUME NEW w \in Objects \ {v}
      PROVE  v_object'[w] = v_object[w] /\ v_size'[w] = v_size[w] /\ v_contents'[w] = v_contents[w]
  BY DEF StaticInv
<1>3. ASSUME NEW w \in Objects \ v_torn PROVE Holds(w)'
  <2>1. CASE w = v
    BY <1>1, <2>1 DEF Holds, Fills
  <2>2. CASE w # v
    <3>1. Holds(w)
      BY DEF StaticInv
    <3> QED  BY <1>2, <2>2, <3>1 DEF Holds, Fills
  <2> QED  BY <2>1, <2>2
<1>4. /\ v_object' = [w \in Objects |-> v_object'[w]] /\ v_size' = [w \in Objects |-> v_size'[w]]
      /\ v_contents' = [w \in Objects |-> v_contents'[w]]
  BY DEF StaticInv
<1>5. ASSUME NEW w \in Objects, w \in v_torn PROVE v_size'[w] \in Nat
  <2>1. v_size[w] \in Nat
    BY <1>5 DEF StaticInv
  <2> QED  BY <1>2, <1>5, <2>1
<1>6. \A w \in Objects : w \in v_torn' => v_size'[w] \in Nat
  BY <1>5
<1>7. \A w \in Objects \ v_torn' : Holds(w)'
  BY <1>3
<1>8. v_fault' = "none"
  OBVIOUS
<1> QED  BY <1>4, <1>6, <1>7, <1>8 DEF StaticInv

\* v is torn.
LEMMA HoldsTorn ==
    ASSUME StaticInv, v_fault = "none", NEW v \in Objects, NEW row, NEW n \in Nat,
           v_object' = [v_object EXCEPT ![v] = row], v_size' = [v_size EXCEPT ![v] = n],
           v_contents' = v_contents, v_fault' = "none", v_torn' = v_torn \cup {v}
    PROVE  StaticInv'
<1>1. ASSUME NEW w \in Objects \ {v}
      PROVE  v_object'[w] = v_object[w] /\ v_size'[w] = v_size[w] /\ v_contents'[w] = v_contents[w]
  BY DEF StaticInv
<1>2. ASSUME NEW w \in Objects \ v_torn' PROVE Holds(w)'
  <2>1. Holds(w)
    BY DEF StaticInv
  <2> QED  BY <1>1, <2>1 DEF Holds, Fills
<1>3. /\ v_object' = [w \in Objects |-> v_object'[w]] /\ v_size' = [w \in Objects |-> v_size'[w]]
      /\ v_contents' = [w \in Objects |-> v_contents'[w]]
  BY DEF StaticInv
<1>4. ASSUME NEW w \in Objects, w \in v_torn' PROVE v_size'[w] \in Nat
  <2>1. v_size'[v] = n
    BY DEF StaticInv
  <2>2. w # v => v_size[w] \in Nat
    BY <1>4 DEF StaticInv
  <2> QED  BY <1>1, <2>1, <2>2
<1>5. v_fault' = "none"
  OBVIOUS
<1>6. \A w \in Objects : w \in v_torn' => v_size'[w] \in Nat
  BY <1>4
<1> QED  BY <1>2, <1>3, <1>5, <1>6 DEF StaticInv

\* Where a copy may throw, it does no harm.
LEMMA HoldsThrown ==
    ASSUME StaticInv, v_fault = "none", NEW v \in Objects \ v_torn, NEW name, NEW m,
           MayThrow(m, Call(v, Tears(name))),
           v_object' = m.object, v_size' = m.m_size, v_fault' = "none",
           v_torn' = (IF Tears(name) THEN v_torn \cup {v} ELSE v_torn),
           v_contents' = (IF Tears(name) THEN v_contents
                          ELSE [v_contents EXCEPT ![v] = Static!Elements(m, v)])
    PROVE  StaticInv'
<1>1. PICK row, n : /\ m = One(Call(v, Tears(name)), row, n)
                    /\ Fills(row, n) \/ (Tears(name) /\ n \in Nat)
  BY DEF MayThrow, Call
<1>2. m.object = [v_object EXCEPT ![v] = row] /\ m.m_size = [v_size EXCEPT ![v] = n]
  BY <1>1 DEF One, Mem, Call
<1>3. CASE Tears(name)
  <2>1. n \in Nat
    BY <1>1, CapacityAssumption DEF Fills
  <2> QED  BY <1>2, <1>3, <2>1, HoldsTorn
<1>4. CASE ~Tears(name)
  <2>1. m.object[v] = row /\ m.m_size[v] = n
    BY <1>2 DEF StaticInv
  <2>2. Static!Elements(m, v) = [i \in 1..n |-> row[i - 1]]
    BY <2>1 DEF Static!Elements
  <2> QED  BY <1>1, <1>2, <1>4, <2>2, HoldsOne
<1> QED  BY <1>3, <1>4

\* A function whose steps misuse nothing makes them, or throws.
LEMMA StaticRuns ==
    ASSUME StaticInv, NEW v \in Objects \ v_torn, NEW name, NEW steps, NEW result, NEW o, NEW z,
           Runs(Mem(v_object, v_size), steps, Mem(o, z), Call(v, Tears(name))),
           Static!Do(v, name, steps, result)
    PROVE  \/ StaticInv'
           \/ /\ v_object' = o /\ v_size' = z /\ v_contents' = result
              /\ v_fault = "none" /\ v_fault' = "none" /\ v_torn' = v_torn
<1>1. PICK f : Path(f, Mem(v_object, v_size), steps, Len(steps), Call(v, Tears(name))) /\ f[Len(steps)] = Mem(o, z)
  BY DEF Runs
<1>2. Len(steps) \in Nat
  BY DEF Runs, IsSequence
<1>3. v_fault = "none" /\ v \notin v_torn
  BY DEF Static!Do
<1>4. PICK k \in 0..Len(steps) :
         LET m == Static!After(steps, k)
             throws == k < Len(steps)
             tears == throws /\ Tears(name)
         IN /\ throws => steps[k + 1].do = "copy" /\ m.ok
            /\ v_size' = m.m_size
            /\ v_object' = m.object
            /\ v_fault' = IF m.ok THEN v_fault ELSE IF v \in v_torn THEN "torn" ELSE name
            /\ v_torn' = IF tears THEN v_torn \cup {v} ELSE v_torn
            /\ v_contents' = IF ~throws THEN result
                             ELSE IF tears THEN v_contents
                             ELSE [v_contents EXCEPT ![v] = Static!Elements(m, v)]
  BY DEF Static!Do, Tears
<1>5. Static!After(steps, k) = f[k]
  <2>1. f[0] = Mem(v_object, v_size)
    BY <1>1 DEF Path
  <2>2. ASSUME NEW i \in 1..k PROVE f[i] = Static!Step(f[i - 1], steps[i])
    <3>1. i \in 1..Len(steps)
      BY <1>2
    <3> QED  BY <1>1, <3>1 DEF Path, Goes
  <2> QED  BY <1>2, <2>1, <2>2, AfterIs
<1>6. CASE k < Len(steps)
  <2>1. Goes(f[k], steps[k + 1], f[k + 1], Call(v, Tears(name)))
    <3>1. k + 1 \in 1..Len(steps) /\ (k + 1) - 1 = k
      BY <1>2, <1>6
    <3> QED  BY <1>1, <3>1 DEF Path
  <2>2. f[k].ok /\ MayThrow(f[k], Call(v, Tears(name)))
    BY <1>4, <1>6, <2>1 DEF Goes, Mem
  <2> QED  BY <1>3, <1>4, <1>5, <1>6, <2>2, HoldsThrown
<1>7. CASE k = Len(steps)
  BY <1>1, <1>2, <1>3, <1>4, <1>5, <1>7 DEF Mem
<1> QED  BY <1>2, <1>6, <1>7

\* A step that misuses something is not made, and neither is any after it.
LEMMA AfterHalts ==
    ASSUME NEW steps, NEW B, NEW f, NEW h \in Nat, NEW k \in Nat,
           Path(f, Mem(v_object, v_size), steps, h, B), Stops(f[h], steps[h + 1], B)
    PROVE  /\ k <= h => Static!After(steps, k) = f[k]
           /\ k > h => ~Static!After(steps, k).ok
<1> DEFINE bad == [object |-> f[h].object, m_size |-> f[h].m_size, ok |-> FALSE]
           g == [i \in 0..k |-> IF i <= h THEN f[i] ELSE bad]
<1>5. Static!Step(f[h], steps[h + 1]) = bad /\ \A s : Static!Step(bad, s) = bad
  <2>1. f[h] = [object |-> f[h].object, m_size |-> f[h].m_size, ok |-> TRUE]
        /\ Static!Misuses(f[h].object, steps[h + 1])
    BY DEF Stops, Mem
  <2>2. PICK o, z : o = f[h].object /\ z = f[h].m_size
    OBVIOUS
  <2>3. f[h] = [object |-> o, m_size |-> z, ok |-> TRUE] /\ Static!Misuses(o, steps[h + 1])
    BY <2>1, <2>2
  <2>4. /\ Static!Step([object |-> o, m_size |-> z, ok |-> TRUE], steps[h + 1])
           = [object |-> o, m_size |-> z, ok |-> FALSE]
        /\ \A s : Static!Step([object |-> o, m_size |-> z, ok |-> FALSE], s)
                  = [object |-> o, m_size |-> z, ok |-> FALSE]
    BY <2>3 DEF Static!Step
  <2> QED  BY <2>2, <2>3, <2>4
<1>6. Static!After(steps, k) = g[k]
  <2>0. h \in Nat /\ k \in Nat
    OBVIOUS
  <2>1. g[0] = Mem(v_object, v_size)
    <3>1. 0 \in 0..k /\ 0 <= h
      BY <2>0
    <3> QED  BY <3>1 DEF Path
  <2>2. ASSUME NEW i \in 1..k PROVE g[i] = Static!Step(g[i - 1], steps[i])
    <3>1. i \in 0..k /\ i - 1 \in 0..k /\ (i - 1) + 1 = i
      BY <2>0
    <3>2. CASE i <= h
      <4>1. i \in 1..h /\ i - 1 <= h
        BY <2>0, <3>2
      <4>2. f[i] = Static!Step(f[i - 1], steps[i])
        BY <4>1 DEF Path, Goes
      <4> QED  BY <3>1, <3>2, <4>1, <4>2
    <3>3. CASE i = h + 1
      <4>1. i - 1 = h /\ ~(i <= h) /\ i - 1 <= h
        BY <2>0, <3>3
      <4>2. g[i] = bad /\ g[i - 1] = f[h]
        BY <3>1, <4>1
      <4> QED  BY <1>5, <3>3, <4>2
    <3>4. CASE i > h + 1
      <4>1. ~(i - 1 <= h) /\ ~(i <= h)
        BY <2>0, <3>4
      <4>2. g[i] = bad /\ g[i - 1] = bad
        BY <3>1, <4>1
      <4> QED  BY <1>5, <4>2
    <3> QED  BY <2>0, <3>2, <3>3, <3>4
  <2> HIDE DEF g
  <2> QED  BY <2>0, <2>1, <2>2, AfterIs
<1>7. k \in 0..k /\ (k <= h => g[k] = f[k]) /\ (k > h => g[k] = bad)
  OBVIOUS
<1> HIDE DEF g
<1> QED  BY <1>6, <1>7

\* One whose steps misuse something makes the fault, or throws before.
LEMMA StaticHalts ==
    ASSUME StaticInv, NEW v \in Objects \ v_torn, NEW name, MayFail(name),
           NEW steps, NEW result,
           Halts(Mem(v_object, v_size), steps, Call(v, Tears(name))),
           Static!Do(v, name, steps, result)
    PROVE  StaticInv'
<1>a. PICK h \in 0..(Len(steps) - 1) : \E f :
         /\ Path(f, Mem(v_object, v_size), steps, h, Call(v, Tears(name)))
         /\ Stops(f[h], steps[h + 1], Call(v, Tears(name)))
  BY DEF Halts
<1>1. PICK f :
         /\ Path(f, Mem(v_object, v_size), steps, h, Call(v, Tears(name)))
         /\ Stops(f[h], steps[h + 1], Call(v, Tears(name)))
  BY <1>a
<1>0. IsSequence(steps)
  BY DEF Halts
<1>2. Len(steps) \in Nat
  BY <1>0 DEF IsSequence
<1>n. h \in Nat /\ h < Len(steps)
  BY <1>a, <1>2
<1>3. v_fault = "none" /\ v \notin v_torn
  BY DEF Static!Do
<1>4. PICK k \in 0..Len(steps) :
         LET m == Static!After(steps, k)
             throws == k < Len(steps)
             tears == throws /\ Tears(name)
         IN /\ throws => steps[k + 1].do = "copy" /\ m.ok
            /\ v_size' = m.m_size
            /\ v_object' = m.object
            /\ v_fault' = IF m.ok THEN v_fault ELSE IF v \in v_torn THEN "torn" ELSE name
            /\ v_torn' = IF tears THEN v_torn \cup {v} ELSE v_torn
            /\ v_contents' = IF ~throws THEN result
                             ELSE IF tears THEN v_contents
                             ELSE [v_contents EXCEPT ![v] = Static!Elements(m, v)]
  BY DEF Static!Do, Tears
<1>k. k \in Nat /\ k <= Len(steps)
  BY <1>2, <1>4
<1>6. /\ k <= h => Static!After(steps, k) = f[k]
      /\ k > h => ~Static!After(steps, k).ok
  BY <1>1, <1>k, <1>n, AfterHalts
<1>7. CASE k <= h
  <2>1. k < Len(steps) /\ k \in 0..h
    BY <1>2, <1>n, <1>k, <1>7
  <2>2. f[k].ok /\ (steps[k + 1].do = "copy" => MayThrow(f[k], Call(v, Tears(name))))
    <3>1. CASE k = h
      BY <1>1, <3>1 DEF Stops, Mem
    <3>2. CASE k # h
      <4>1. k + 1 \in 1..h /\ (k + 1) - 1 = k
        BY <1>2, <1>n, <1>k, <1>7, <3>2
      <4>2. Goes(f[k], steps[k + 1], f[k + 1], Call(v, Tears(name)))
        BY <1>1, <4>1 DEF Path
      <4> QED  BY <4>2 DEF Goes, Mem
    <3> QED  BY <3>1, <3>2
  <2>3. /\ v_size' = f[k].m_size /\ v_object' = f[k].object /\ v_fault' = "none"
        /\ v_torn' = (IF Tears(name) THEN v_torn \cup {v} ELSE v_torn)
        /\ v_contents' = (IF Tears(name) THEN v_contents
                          ELSE [v_contents EXCEPT ![v] = Static!Elements(f[k], v)])
        /\ MayThrow(f[k], Call(v, Tears(name)))
    BY <1>3, <1>4, <1>6, <1>7, <2>1, <2>2
  <2> QED  BY <1>3, <2>3, HoldsThrown
<1>8. CASE k > h
  <2>2. v_fault' = name
    BY <1>3, <1>4, <1>6, <1>8
  <2> QED  BY <2>2 DEF StaticInv, MayFail
<1> QED  BY <1>2, <1>n, <1>k, <1>7, <1>8

-----------------------------------------------------------------------------
(* static_vector: the steps one by one.                                    *)

\* o says something of each vector.
OnObjects(o) == o = [u \in Objects |-> o[u]]

LEMMA SlotHas ==
    ASSUME NEW v, NEW i
    PROVE  Static!Slot(v, i)[1] = v /\ Static!Slot(v, i)[2] = i
  BY DEF Static!Slot

LEMMA SlotIs ==
    ASSUME NEW v \in Objects, NEW i \in 0..Capacity
    PROVE  /\ Static!Slot(v, i) \notin Values
           /\ Static!Slot(v, i)[1] = v /\ Static!Slot(v, i)[2] = i
  BY StaticAssumption DEF Static!Slot

\* s misuses nothing, and makes o and z into e.
Becomes(o, z, s, e) == ~Static!Misuses(o, s) /\ Static!Step(Mem(o, z), s) = e

LEMMA RowCopies ==
    ASSUME NEW o, OnObjects(o), NEW z, NEW v \in Objects, NEW row, row = o[v],
           NEW i \in 0..Capacity - 1, i \notin DOMAIN row,
           NEW a, a \in Values \/ Static!Alive(o, a), NEW x, x = Static!Read(o, a)
    PROVE  Becomes(o, z, Static!Copy(Static!Slot(v, i), a), Mem([o EXCEPT ![v] = Static!With(row, i, x)], z))
<1>1. PICK at : at = Static!Slot(v, i) /\ at[1] = v /\ at[2] = i
  BY SlotHas
<1>2. PICK s : s = Static!Copy(at, a)
  OBVIOUS
<1>3. s.do = "copy" /\ s.at = at /\ s.from = a
  BY <1>2 DEF Static!Copy
<1>4. ~Static!Misuses(o, s)
  BY <1>1, <1>3 DEF Static!Misuses, Static!Alive
<1>5. Static!Executed(o, s) = [o EXCEPT ![v] = Static!With(row, i, x)]
  <2>1. Static!Executed(o, s) = Static!Put(o, at, x)
    BY <1>3 DEF Static!Executed
  <2>2. Static!Put(o, at, x) = [o EXCEPT ![v] = Static!With(row, i, x)]
    BY <1>1 DEF Static!Put, OnObjects
  <2> QED  BY <2>1, <2>2
<1>6. Static!Step(Mem(o, z), s) = Mem(Static!Executed(o, s), z)
  BY <1>3, <1>4 DEF Static!Step, Mem
<1> QED  BY <1>1, <1>2, <1>4, <1>5, <1>6 DEF Becomes

\* A move within a vector.
LEMMA RowMoves ==
    ASSUME NEW o, OnObjects(o), NEW z, NEW v \in Objects, NEW row, row = o[v],
           NEW i \in 0..Capacity - 1, i \notin DOMAIN row, NEW j \in 0..Capacity, j \in DOMAIN row,
           NEW x, x = row[j], NEW r, r = Static!With(Static!With(row, j, Moved), i, x)
    PROVE  Becomes(o, z, Static!Move(Static!Slot(v, i), Static!Slot(v, j)), Mem([o EXCEPT ![v] = r], z))
<1>1. PICK at, from : /\ at = Static!Slot(v, i) /\ at[1] = v /\ at[2] = i
                      /\ from = Static!Slot(v, j) /\ from[1] = v /\ from[2] = j
  BY SlotHas
<1>2. PICK s : s = Static!Move(at, from)
  OBVIOUS
<1>3. s.do = "move" /\ s.at = at /\ s.from = from
  BY <1>2 DEF Static!Move
<1>4. ~Static!Misuses(o, s)
  BY <1>1, <1>3 DEF Static!Misuses, Static!Alive
<1>5. Static!Read(o, from) = x
  <2>1. from \notin Values
    BY <1>1, SlotIs
  <2> QED  BY <1>1, <2>1 DEF Static!Read
<1>6. Static!Step(Mem(o, z), s) = Mem(Static!Put(Static!Put(o, from, Moved), at, x), z)
  <2>1. Static!Executed(o, s) = Static!Put(Static!Put(o, from, Moved), at, x)
    BY <1>3, <1>5 DEF Static!Executed
  <2> QED  BY <1>3, <1>4, <2>1 DEF Static!Step, Mem
<1>7. PICK q : q = Static!With(row, j, Moved)
  OBVIOUS
<1>8. Static!Put(o, from, Moved) = [o EXCEPT ![v] = q]
  BY <1>1, <1>7 DEF Static!Put, OnObjects
<1>9. Static!Put([o EXCEPT ![v] = q], at, x) = [o EXCEPT ![v] = r]
  BY <1>1, <1>7 DEF Static!Put, OnObjects
<1> QED  BY <1>1, <1>2, <1>4, <1>6, <1>8, <1>9 DEF Becomes

\* A move to another vector.
LEMMA RowGives ==
    ASSUME NEW o, OnObjects(o), NEW z, NEW v \in Objects, NEW w \in Objects, v # w,
           NEW row, row = o[v], NEW rowW, rowW = o[w],
           NEW i \in 0..Capacity - 1, i \notin DOMAIN row, NEW j \in 0..Capacity, j \in DOMAIN rowW,
           NEW r, r = Static!With(row, i, rowW[j]), NEW rW, rW = Static!With(rowW, j, Moved)
    PROVE  Becomes(o, z, Static!Move(Static!Slot(v, i), Static!Slot(w, j)), Mem([o EXCEPT ![v] = r, ![w] = rW], z))
<1>1. PICK at, from : /\ at = Static!Slot(v, i) /\ at[1] = v /\ at[2] = i
                      /\ from = Static!Slot(w, j) /\ from[1] = w /\ from[2] = j
  BY SlotHas
<1>2. PICK s, x : s = Static!Move(at, from) /\ x = rowW[j]
  OBVIOUS
<1>3. s.do = "move" /\ s.at = at /\ s.from = from
  BY <1>2 DEF Static!Move
<1>4. ~Static!Misuses(o, s)
  BY <1>1, <1>3 DEF Static!Misuses, Static!Alive
<1>5. Static!Read(o, from) = x
  <2>1. from \notin Values
    BY <1>1, SlotIs
  <2> QED  BY <1>1, <1>2, <2>1 DEF Static!Read
<1>6. Static!Step(Mem(o, z), s) = Mem(Static!Put(Static!Put(o, from, Moved), at, x), z)
  <2>1. Static!Executed(o, s) = Static!Put(Static!Put(o, from, Moved), at, x)
    BY <1>3, <1>5 DEF Static!Executed
  <2> QED  BY <1>3, <1>4, <2>1 DEF Static!Step, Mem
<1>7. Static!Put(o, from, Moved) = [o EXCEPT ![w] = rW]
  BY <1>1 DEF Static!Put, OnObjects
<1>8. r = Static!With(row, i, x)
  BY <1>2
<1>9. Static!Put([o EXCEPT ![w] = rW], at, x) = [o EXCEPT ![v] = r, ![w] = rW]
  BY <1>1, <1>8 DEF Static!Put, OnObjects
<1> QED  BY <1>1, <1>2, <1>4, <1>6, <1>7, <1>9 DEF Becomes

\* An exchange of what two vectors have in a slot.
LEMMA RowExchanges ==
    ASSUME NEW o, OnObjects(o), NEW z, NEW v \in Objects, NEW w \in Objects, v # w,
           NEW row, row = o[v], NEW rowW, rowW = o[w],
           NEW i \in 0..Capacity, i \in DOMAIN row, i \in DOMAIN rowW,
           NEW r, r = Static!With(row, i, rowW[i]), NEW rW, rW = Static!With(rowW, i, row[i])
    PROVE  Becomes(o, z, Static!Exchange(Static!Slot(v, i), Static!Slot(w, i)), Mem([o EXCEPT ![v] = r, ![w] = rW], z))
<1>1. PICK at, from : /\ at = Static!Slot(v, i) /\ at[1] = v /\ at[2] = i
                      /\ from = Static!Slot(w, i) /\ from[1] = w /\ from[2] = i
  BY SlotHas
<1>2. PICK s, x, y : s = Static!Exchange(at, from) /\ x = rowW[i] /\ y = row[i]
  OBVIOUS
<1>3. s.do = "exchange" /\ s.at = at /\ s.from = from
  BY <1>2 DEF Static!Exchange
<1>4. ~Static!Misuses(o, s)
  BY <1>1, <1>3 DEF Static!Misuses, Static!Alive
<1>5. Static!Read(o, from) = x /\ Static!Read(o, at) = y
  <2>1. from \notin Values /\ at \notin Values
    BY <1>1, SlotIs
  <2> QED  BY <1>1, <1>2, <2>1 DEF Static!Read
<1>6. Static!Step(Mem(o, z), s) = Mem(Static!Put(Static!Put(o, from, y), at, x), z)
  <2>1. Static!Executed(o, s) = Static!Put(Static!Put(o, from, y), at, x)
    BY <1>3, <1>5 DEF Static!Executed
  <2> QED  BY <1>3, <1>4, <2>1 DEF Static!Step, Mem
<1>7. Static!Put(o, from, y) = [o EXCEPT ![w] = rW]
  BY <1>1, <1>2 DEF Static!Put, OnObjects
<1>8. Static!Put([o EXCEPT ![w] = rW], at, x) = [o EXCEPT ![v] = r, ![w] = rW]
  BY <1>1, <1>2 DEF Static!Put, OnObjects
<1> QED  BY <1>1, <1>2, <1>4, <1>6, <1>7, <1>8 DEF Becomes

\* Of what the vector itself has.
LEMMA RowKeeps ==
    ASSUME NEW o, OnObjects(o), NEW z, NEW v \in Objects, NEW row, row = o[v],
           NEW i \in 0..Capacity, i \in DOMAIN row, row = Static!With(row, i, row[i])
    PROVE  Becomes(o, z, Static!Exchange(Static!Slot(v, i), Static!Slot(v, i)), Mem(o, z))
<1>1. PICK at : at = Static!Slot(v, i) /\ at[1] = v /\ at[2] = i
  BY SlotHas
<1>2. PICK s, x : s = Static!Exchange(at, at) /\ x = row[i]
  OBVIOUS
<1>3. s.do = "exchange" /\ s.at = at /\ s.from = at
  BY <1>2 DEF Static!Exchange
<1>4. ~Static!Misuses(o, s)
  BY <1>1, <1>3 DEF Static!Misuses, Static!Alive
<1>5. Static!Read(o, at) = x
  <2>1. at \notin Values
    BY <1>1, SlotIs
  <2> QED  BY <1>1, <1>2, <2>1 DEF Static!Read
<1>6. Static!Step(Mem(o, z), s) = Mem(Static!Put(Static!Put(o, at, x), at, x), z)
  <2>1. Static!Executed(o, s) = Static!Put(Static!Put(o, at, x), at, x)
    BY <1>3, <1>5 DEF Static!Executed
  <2> QED  BY <1>3, <1>4, <2>1 DEF Static!Step, Mem
<1>7. Static!With(o[v], i, x) = o[v]
  BY <1>2
<1>8. Static!Put(o, at, x) = o
  <2>1. Static!Put(o, at, x) = [o EXCEPT ![v] = o[v]]
    BY <1>1, <1>7 DEF Static!Put, OnObjects
  <2> QED  BY <2>1 DEF OnObjects
<1> QED  BY <1>1, <1>2, <1>4, <1>6, <1>8 DEF Becomes

LEMMA DestroysAs ==
    ASSUME NEW o, OnObjects(o), NEW z, NEW v \in Objects, NEW i, i \in DOMAIN o[v]
    PROVE  /\ ~Static!Misuses(o, Static!Destroy(Static!Slot(v, i)))
           /\ Static!Step(Mem(o, z), Static!Destroy(Static!Slot(v, i)))
                = Mem([o EXCEPT ![v] = Static!Without(o[v], i)], z)
<1>1. PICK at : at = Static!Slot(v, i) /\ at[1] = v /\ at[2] = i
  BY SlotHas
<1>2. PICK s : s = Static!Destroy(at)
  OBVIOUS
<1>3. s.do = "destroy" /\ s.at = at
  BY <1>2 DEF Static!Destroy
<1>4. ~Static!Misuses(o, s)
  BY <1>1, <1>3 DEF Static!Misuses, Static!Alive
<1>5. Static!Executed(o, s) = [o EXCEPT ![v] = Static!Without(o[v], i)]
  BY <1>1, <1>3 DEF Static!Executed, OnObjects
<1>6. Static!Step(Mem(o, z), s) = Mem(Static!Executed(o, s), z)
  BY <1>3, <1>4 DEF Static!Step, Mem
<1> QED  BY <1>1, <1>2, <1>4, <1>5, <1>6

LEMMA SizesAs ==
    ASSUME NEW o, NEW z, NEW v, NEW n
    PROVE  /\ ~Static!Misuses(o, Static!Size(v, n))
           /\ Static!Step(Mem(o, z), Static!Size(v, n)) = Mem(o, [z EXCEPT ![v] = n])
<1>1. PICK s : s = Static!Size(v, n)
  OBVIOUS
<1>2. s.do = "size" /\ s.v = v /\ s.n = n
  BY <1>1 DEF Static!Size
<1>3. ~Static!Misuses(o, s)
  BY <1>2 DEF Static!Misuses
<1>4. Static!Executed(o, s) = o
  BY <1>2 DEF Static!Executed
<1> QED  BY <1>1, <1>2, <1>3, <1>4 DEF Static!Step, Mem

\* a is a value, or an element whose value is x.
Reads(B, row, a, x) ==
    \/ a \in Values /\ x = a
    \/ \E j \in 0..Capacity : a = Static!Slot(B.v, j) /\ j \in DOMAIN row /\ x = row[j]
    \/ \E w \in Objects \ {B.v}, j \in 0..Capacity :
          a = Static!Slot(w, j) /\ j \in DOMAIN B.object[w] /\ x = B.object[w][j]

\* The objects and the sizes that One(B, row, n) has.
OneAs(B, row, n, o, z) ==
    /\ One(B, row, n) = Mem(o, z) /\ One(B, row, n).object = o /\ One(B, row, n).m_size = z
    /\ OnObjects(o) /\ o[B.v] = row
    /\ \A w \in Objects \ {B.v} : o[w] = B.object[w]
    /\ \A r : Mem([o EXCEPT ![B.v] = r], z) = One(B, r, n)
    /\ \A k : Mem(o, [z EXCEPT ![B.v] = k]) = One(B, row, k)

LEMMA OneIs ==
    ASSUME NEW B, IsCall(B), NEW row, NEW n
    PROVE  \E o, z : OneAs(B, row, n, o, z)
<1>1. PICK o, z : o = [B.object EXCEPT ![B.v] = row] /\ z = [B.m_size EXCEPT ![B.v] = n]
  OBVIOUS
<1>2. One(B, row, n) = Mem(o, z)
  BY <1>1 DEF One
<1>3. One(B, row, n).object = o /\ One(B, row, n).m_size = z
  BY <1>2 DEF Mem
<1>4. /\ OnObjects(o) /\ o[B.v] = row
      /\ \A w \in Objects \ {B.v} : o[w] = B.object[w]
  BY <1>1 DEF IsCall, OnObjects
<1>5. ASSUME NEW r PROVE [o EXCEPT ![B.v] = r] = [B.object EXCEPT ![B.v] = r]
  BY <1>1 DEF IsCall, OnObjects
<1>6. ASSUME NEW k PROVE [z EXCEPT ![B.v] = k] = [B.m_size EXCEPT ![B.v] = k]
  BY <1>1 DEF IsCall, OnObjects
<1>7. \A r : Mem([o EXCEPT ![B.v] = r], z) = One(B, r, n)
  BY <1>1, <1>5 DEF One
<1>8. \A k : Mem(o, [z EXCEPT ![B.v] = k]) = One(B, row, k)
  BY <1>1, <1>6 DEF One
<1>9. OneAs(B, row, n, o, z)
  BY <1>2, <1>3, <1>4, <1>7, <1>8 DEF OneAs
<1> QED  BY <1>9

LEMMA OneCopies ==
    ASSUME NEW B, IsCall(B), NEW row, NEW n, NEW i \in 0..Capacity - 1, i \notin DOMAIN row,
           Fills(row, n) \/ (B.tears /\ n \in Nat), NEW a, NEW x, Reads(B, row, a, x)
    PROVE  Goes(One(B, row, n), Static!Copy(Static!Slot(B.v, i), a), One(B, Static!With(row, i, x), n), B)
<1>1. PICK o, z : OneAs(B, row, n, o, z)
  BY OneIs
<1>o. OnObjects(o) /\ o[B.v] = row
  BY <1>1 DEF OneAs
<1>2. B.v \in Objects
  BY DEF IsCall
<1>3. (a \in Values \/ Static!Alive(o, a)) /\ Static!Read(o, a) = x
  <2>1. CASE a \in Values /\ x = a
    BY <2>1 DEF Static!Read
  <2>2. ASSUME NEW j \in 0..Capacity, a = Static!Slot(B.v, j), j \in DOMAIN row, x = row[j]
        PROVE  Static!Alive(o, a) /\ Static!Read(o, a) = x
    <3>1. a \notin Values /\ a[1] = B.v /\ a[2] = j
      BY <1>2, <2>2, SlotIs
    <3> QED  BY <1>o, <2>2, <3>1 DEF Static!Alive, Static!Read
  <2>3. ASSUME NEW w \in Objects \ {B.v}, NEW j \in 0..Capacity,
               a = Static!Slot(w, j), j \in DOMAIN B.object[w], x = B.object[w][j]
        PROVE  Static!Alive(o, a) /\ Static!Read(o, a) = x
    <3>1. a \notin Values /\ a[1] = w /\ a[2] = j
      BY <2>3, SlotIs
    <3> QED  BY <1>1, <2>3, <3>1 DEF OneAs, Static!Alive, Static!Read
  <2> QED  BY <2>1, <2>2, <2>3 DEF Reads
<1>4. Becomes(o, z, Static!Copy(Static!Slot(B.v, i), a), Mem([o EXCEPT ![B.v] = Static!With(row, i, x)], z))
  BY <1>o, <1>2, <1>3, RowCopies
<1>5. MayThrow(One(B, row, n), B)
  BY DEF MayThrow
<1> QED  BY <1>1, <1>4, <1>5 DEF Becomes, Goes, OneAs

LEMMA NoCopies ==
    ASSUME NEW a, NEW b, NEW n
    PROVE  /\ Static!Move(a, b).do # "copy" /\ Static!Exchange(a, b).do # "copy"
           /\ Static!Destroy(a).do # "copy" /\ Static!Size(a, n).do # "copy"
  BY DEF Static!Move, Static!Exchange, Static!Destroy, Static!Size

LEMMA OneMoves ==
    ASSUME NEW B, IsCall(B), NEW row, NEW n, NEW i \in 0..Capacity - 1, i \notin DOMAIN row,
           NEW j \in 0..Capacity, j \in DOMAIN row
    PROVE  Goes(One(B, row, n), Static!Move(Static!Slot(B.v, i), Static!Slot(B.v, j)),
                One(B, Static!With(Static!With(row, j, Moved), i, row[j]), n), B)
<1>1. PICK o, z : OneAs(B, row, n, o, z)
  BY OneIs
<1>o. OnObjects(o) /\ o[B.v] = row
  BY <1>1 DEF OneAs
<1>2. B.v \in Objects
  BY DEF IsCall
<1> DEFINE r == Static!With(Static!With(row, j, Moved), i, row[j])
<1>3. Becomes(o, z, Static!Move(Static!Slot(B.v, i), Static!Slot(B.v, j)), Mem([o EXCEPT ![B.v] = r], z))
  <2> DEFINE x == row[j]
  <2>1. r = Static!With(Static!With(row, j, Moved), i, x)
    OBVIOUS
  <2> HIDE DEF r, x
  <2>2. x = row[j]
    BY DEF x
  <2> QED  BY <1>o, <1>2, <2>1, <2>2, RowMoves
<1> QED  BY <1>1, <1>3, NoCopies DEF Becomes, Goes, OneAs

LEMMA OneDestroys ==
    ASSUME NEW B, IsCall(B), NEW row, NEW n, NEW i, i \in DOMAIN row
    PROVE  Goes(One(B, row, n), Static!Destroy(Static!Slot(B.v, i)), One(B, Static!Without(row, i), n), B)
<1>1. PICK o, z : OneAs(B, row, n, o, z)
  BY OneIs
<1>o. OnObjects(o) /\ o[B.v] = row
  BY <1>1 DEF OneAs
<1>2. B.v \in Objects
  BY DEF IsCall
<1>3. /\ ~Static!Misuses(o, Static!Destroy(Static!Slot(B.v, i)))
      /\ Static!Step(Mem(o, z), Static!Destroy(Static!Slot(B.v, i)))
           = Mem([o EXCEPT ![B.v] = Static!Without(row, i)], z)
  <2>1. PICK v \in Objects : v = B.v
    BY <1>2
  <2>2. /\ ~Static!Misuses(o, Static!Destroy(Static!Slot(v, i)))
        /\ Static!Step(Mem(o, z), Static!Destroy(Static!Slot(v, i)))
             = Mem([o EXCEPT ![v] = Static!Without(o[v], i)], z)
    BY <1>o, <2>1, DestroysAs
  <2> QED  BY <1>o, <2>1, <2>2
<1> QED  BY <1>1, <1>3, NoCopies DEF Goes, OneAs

LEMMA OneSizes ==
    ASSUME NEW B, IsCall(B), NEW row, NEW n, NEW k
    PROVE  Goes(One(B, row, n), Static!Size(B.v, k), One(B, row, k), B)
<1>1. PICK o, z : OneAs(B, row, n, o, z)
  BY OneIs
<1>o. OnObjects(o) /\ o[B.v] = row
  BY <1>1 DEF OneAs
<1>2. /\ ~Static!Misuses(o, Static!Size(B.v, k))
      /\ Static!Step(Mem(o, z), Static!Size(B.v, k)) = Mem(o, [z EXCEPT ![B.v] = k])
  BY SizesAs
<1> QED  BY <1>1, <1>2, NoCopies DEF Goes, OneAs

-----------------------------------------------------------------------------
(* static_vector: the steps of two vectors.                                *)

\* Two vectors, in the memory in which they are called.
IsPair(P) ==
    /\ P.v \in Objects /\ P.w \in Objects /\ P.v # P.w
    /\ P.object = [v \in Objects |-> P.object[v]] /\ P.m_size = [v \in Objects |-> P.m_size[v]]

\* The memory when the function has made v and w what row, n, rowW and k say.
Two(P, row, n, rowW, k) ==
    Mem([P.object EXCEPT ![P.v] = row, ![P.w] = rowW], [P.m_size EXCEPT ![P.v] = n, ![P.w] = k])

\* The objects and the sizes that it has.
TwoAs(P, row, n, rowW, k, o, z) ==
    /\ Two(P, row, n, rowW, k) = Mem(o, z)
    /\ Two(P, row, n, rowW, k).object = o /\ Two(P, row, n, rowW, k).m_size = z
    /\ OnObjects(o) /\ o[P.v] = row /\ o[P.w] = rowW
    /\ \A r, q : Mem([o EXCEPT ![P.v] = r, ![P.w] = q], z) = Two(P, r, n, q, k)
    /\ \A q : Mem([o EXCEPT ![P.w] = q], z) = Two(P, row, n, q, k)
    /\ \A i : Mem(o, [z EXCEPT ![P.v] = i]) = Two(P, row, i, rowW, k)
    /\ \A i : Mem(o, [z EXCEPT ![P.w] = i]) = Two(P, row, n, rowW, i)

LEMMA TwoIs ==
    ASSUME NEW P, IsPair(P), NEW row, NEW n, NEW rowW, NEW k
    PROVE  \E o, z : TwoAs(P, row, n, rowW, k, o, z)
<1>1. PICK o, z : /\ o = [P.object EXCEPT ![P.v] = row, ![P.w] = rowW]
                  /\ z = [P.m_size EXCEPT ![P.v] = n, ![P.w] = k]
  OBVIOUS
<1>2. Two(P, row, n, rowW, k) = Mem(o, z)
  BY <1>1 DEF Two
<1>3. Two(P, row, n, rowW, k).object = o /\ Two(P, row, n, rowW, k).m_size = z
  BY <1>2 DEF Mem
<1>4. OnObjects(o) /\ o[P.v] = row /\ o[P.w] = rowW
  BY <1>1 DEF IsPair, OnObjects
<1>5. ASSUME NEW r, NEW q
      PROVE  [o EXCEPT ![P.v] = r, ![P.w] = q] = [P.object EXCEPT ![P.v] = r, ![P.w] = q]
  BY <1>1 DEF IsPair
<1>6. ASSUME NEW q PROVE [o EXCEPT ![P.w] = q] = [P.object EXCEPT ![P.v] = row, ![P.w] = q]
  BY <1>1 DEF IsPair
<1>7. ASSUME NEW i PROVE [z EXCEPT ![P.v] = i] = [P.m_size EXCEPT ![P.v] = i, ![P.w] = k]
  BY <1>1 DEF IsPair
<1>8. ASSUME NEW i PROVE [z EXCEPT ![P.w] = i] = [P.m_size EXCEPT ![P.v] = n, ![P.w] = i]
  BY <1>1 DEF IsPair
<1>9. /\ \A r, q : Mem([o EXCEPT ![P.v] = r, ![P.w] = q], z) = Two(P, r, n, q, k)
      /\ \A q : Mem([o EXCEPT ![P.w] = q], z) = Two(P, row, n, q, k)
  BY <1>1, <1>5, <1>6 DEF Two
<1>10. /\ \A i : Mem(o, [z EXCEPT ![P.v] = i]) = Two(P, row, i, rowW, k)
       /\ \A i : Mem(o, [z EXCEPT ![P.w] = i]) = Two(P, row, n, rowW, i)
  BY <1>1, <1>7, <1>8 DEF Two
<1>11. TwoAs(P, row, n, rowW, k, o, z)
  BY <1>2, <1>3, <1>4, <1>9, <1>10 DEF TwoAs
<1> QED  BY <1>11

LEMMA TwoGives ==
    ASSUME NEW P, IsPair(P), NEW row, NEW n, NEW rowW, NEW k, NEW B,
           NEW i \in 0..Capacity - 1, i \notin DOMAIN row, NEW j \in 0..Capacity, j \in DOMAIN rowW
    PROVE  Goes(Two(P, row, n, rowW, k), Static!Move(Static!Slot(P.v, i), Static!Slot(P.w, j)),
                Two(P, Static!With(row, i, rowW[j]), n, Static!With(rowW, j, Moved), k), B)
<1>1. PICK o, z : TwoAs(P, row, n, rowW, k, o, z)
  BY TwoIs
<1>o. OnObjects(o) /\ o[P.v] = row /\ o[P.w] = rowW
  BY <1>1 DEF TwoAs
<1>2. P.v \in Objects /\ P.w \in Objects /\ P.v # P.w
  BY DEF IsPair
<1> DEFINE r == Static!With(row, i, rowW[j])
           q == Static!With(rowW, j, Moved)
<1>3. Becomes(o, z, Static!Move(Static!Slot(P.v, i), Static!Slot(P.w, j)),
              Mem([o EXCEPT ![P.v] = r, ![P.w] = q], z))
  <2>1. r = Static!With(row, i, rowW[j]) /\ q = Static!With(rowW, j, Moved)
    OBVIOUS
  <2> HIDE DEF r, q
  <2> QED  BY <1>o, <1>2, <2>1, RowGives
<1> QED  BY <1>1, <1>3, NoCopies DEF Becomes, Goes, TwoAs

LEMMA TwoExchanges ==
    ASSUME NEW P, IsPair(P), NEW row, NEW n, NEW rowW, NEW k, NEW B,
           NEW i \in 0..Capacity, i \in DOMAIN row, i \in DOMAIN rowW
    PROVE  Goes(Two(P, row, n, rowW, k), Static!Exchange(Static!Slot(P.v, i), Static!Slot(P.w, i)),
                Two(P, Static!With(row, i, rowW[i]), n, Static!With(rowW, i, row[i]), k), B)
<1>1. PICK o, z : TwoAs(P, row, n, rowW, k, o, z)
  BY TwoIs
<1>o. OnObjects(o) /\ o[P.v] = row /\ o[P.w] = rowW
  BY <1>1 DEF TwoAs
<1>2. P.v \in Objects /\ P.w \in Objects /\ P.v # P.w
  BY DEF IsPair
<1> DEFINE r == Static!With(row, i, rowW[i])
           q == Static!With(rowW, i, row[i])
<1>3. Becomes(o, z, Static!Exchange(Static!Slot(P.v, i), Static!Slot(P.w, i)),
              Mem([o EXCEPT ![P.v] = r, ![P.w] = q], z))
  <2>1. r = Static!With(row, i, rowW[i]) /\ q = Static!With(rowW, i, row[i])
    OBVIOUS
  <2> HIDE DEF r, q
  <2> QED  BY <1>o, <1>2, <2>1, RowExchanges
<1> QED  BY <1>1, <1>3, NoCopies DEF Becomes, Goes, TwoAs

LEMMA TwoDestroys ==
    ASSUME NEW P, IsPair(P), NEW row, NEW n, NEW rowW, NEW k, NEW B, NEW i, i \in DOMAIN rowW
    PROVE  Goes(Two(P, row, n, rowW, k), Static!Destroy(Static!Slot(P.w, i)),
                Two(P, row, n, Static!Without(rowW, i), k), B)
<1>1. PICK o, z : TwoAs(P, row, n, rowW, k, o, z)
  BY TwoIs
<1>o. OnObjects(o) /\ o[P.w] = rowW
  BY <1>1 DEF TwoAs
<1>2. P.w \in Objects
  BY DEF IsPair
<1>3. /\ ~Static!Misuses(o, Static!Destroy(Static!Slot(P.w, i)))
      /\ Static!Step(Mem(o, z), Static!Destroy(Static!Slot(P.w, i)))
           = Mem([o EXCEPT ![P.w] = Static!Without(rowW, i)], z)
  <2>1. PICK w \in Objects : w = P.w
    BY <1>2
  <2>2. /\ ~Static!Misuses(o, Static!Destroy(Static!Slot(w, i)))
        /\ Static!Step(Mem(o, z), Static!Destroy(Static!Slot(w, i)))
             = Mem([o EXCEPT ![w] = Static!Without(o[w], i)], z)
    BY <1>o, <2>1, DestroysAs
  <2> QED  BY <1>o, <2>1, <2>2
<1> QED  BY <1>1, <1>3, NoCopies DEF Goes, TwoAs

LEMMA TwoSizes ==
    ASSUME NEW P, IsPair(P), NEW row, NEW n, NEW rowW, NEW k, NEW B, NEW i
    PROVE  /\ Goes(Two(P, row, n, rowW, k), Static!Size(P.v, i), Two(P, row, i, rowW, k), B)
           /\ Goes(Two(P, row, n, rowW, k), Static!Size(P.w, i), Two(P, row, n, rowW, i), B)
<1>1. PICK o, z : TwoAs(P, row, n, rowW, k, o, z)
  BY TwoIs
<1>2. /\ ~Static!Misuses(o, Static!Size(P.v, i))
      /\ Static!Step(Mem(o, z), Static!Size(P.v, i)) = Mem(o, [z EXCEPT ![P.v] = i])
  BY SizesAs
<1>3. /\ ~Static!Misuses(o, Static!Size(P.w, i))
      /\ Static!Step(Mem(o, z), Static!Size(P.w, i)) = Mem(o, [z EXCEPT ![P.w] = i])
  BY SizesAs
<1> QED  BY <1>1, <1>2, <1>3, NoCopies DEF Goes, TwoAs

-----------------------------------------------------------------------------
(* static_vector: what is alive in a vector.                               *)

\* The objects of row are alive in the slots S.
Alike(row, S) == row = [i \in S |-> row[i]]

LEMMA FillsIs ==
    ASSUME NEW row, NEW n
    PROVE  Fills(row, n) <=> n \in 0..Capacity /\ Alike(row, 0..n - 1)
  BY DEF Fills, Alike

LEMMA AlikeIs ==
    ASSUME NEW row, NEW S, Alike(row, S)
    PROVE  DOMAIN row = S
  BY DEF Alike

LEMMA WithIs ==
    ASSUME NEW S, NEW T, NEW row, NEW r, Alike(row, S), Alike(r, T), NEW i, T = S \cup {i},
           NEW x, r[i] = x, \A j \in S : j # i => r[j] = row[j]
    PROVE  Static!With(row, i, x) = r
<1>1. DOMAIN row = S /\ DOMAIN r = T
  BY AlikeIs
<1>2. \A j \in T : r[j] = IF j = i THEN x ELSE row[j]
  OBVIOUS
<1>3. r = [j \in T |-> IF j = i THEN x ELSE row[j]]
  BY <1>2 DEF Alike
<1> QED  BY <1>1, <1>3 DEF Static!With

LEMMA WithoutIs ==
    ASSUME NEW S, NEW T, NEW row, NEW r, Alike(row, S), Alike(r, T), NEW i, T = S \ {i},
           \A j \in T : r[j] = row[j]
    PROVE  Static!Without(row, i) = r
<1>1. DOMAIN row = S /\ DOMAIN r = T
  BY AlikeIs
<1>2. r = [j \in T |-> row[j]]
  BY DEF Alike
<1> QED  BY <1>1, <1>2 DEF Static!Without

\* The objects of row that are in the slots S.
Part(row, S) == [i \in S |-> row[i]]

LEMMA PartIs ==
    ASSUME NEW row, NEW S
    PROVE  Alike(Part(row, S), S) /\ \A i \in S : Part(row, S)[i] = row[i]
  BY DEF Alike, Part

LEMMA PartAll ==
    ASSUME NEW row, NEW S, Alike(row, S)
    PROVE  Part(row, S) = row
  BY DEF Alike, Part

LEMMA WithoutPart ==
    ASSUME NEW row, NEW S, NEW T, NEW i, T = S \ {i}
    PROVE  Static!Without(Part(row, S), i) = Part(row, T)
<1>1. /\ Alike(Part(row, S), S) /\ Alike(Part(row, T), T)
      /\ \A j \in T : Part(row, T)[j] = Part(row, S)[j]
  BY PartIs
<1> QED  BY <1>1, WithoutIs

-----------------------------------------------------------------------------
(* static_vector: the loops of the functions.                              *)

\* num objects are destroyed, from the slot first on.
Drops(v, first, num) == [i \in 1..num |-> Static!Destroy(Static!Slot(v, first + i - 1))]

LEMMA DropsIs ==
    ASSUME NEW v, NEW first, NEW num \in Nat
    PROVE  /\ Drops(v, first, num) = [i \in 1..num |-> Drops(v, first, num)[i]]
           /\ \A i \in 1..num : Drops(v, first, num)[i] = Static!Destroy(Static!Slot(v, first + i - 1))
  BY DEF Drops

LEMMA OneDrops ==
    ASSUME NEW B, IsCall(B), NEW row, NEW n, NEW S, Alike(row, S),
           NEW first \in Nat, NEW num \in Nat, first..(first + num - 1) \subseteq S
    PROVE  Runs(One(B, row, n), Drops(B.v, first, num), One(B, Part(row, S \ (first..(first + num - 1))), n), B)
<1> DEFINE Left(k) == S \ (first..(first + k - 1))
           g == [k \in 0..num |-> One(B, Part(row, Left(k)), n)]
           s == Drops(B.v, first, num)
<1>1. ASSUME NEW i \in 1..num PROVE Goes(g[i - 1], s[i], g[i], B)
  <2>1. g[i - 1] = One(B, Part(row, Left(i - 1)), n) /\ g[i] = One(B, Part(row, Left(i)), n)
    OBVIOUS
  <2>2. s[i] = Static!Destroy(Static!Slot(B.v, first + i - 1))
    BY DropsIs
  <2>3. first + i - 1 \in Left(i - 1) /\ Left(i) = Left(i - 1) \ {first + i - 1}
    OBVIOUS
  <2> HIDE DEF g, s, Left
  <2>4. DOMAIN Part(row, Left(i - 1)) = Left(i - 1)
    BY PartIs, AlikeIs
  <2>5. Static!Without(Part(row, Left(i - 1)), first + i - 1) = Part(row, Left(i))
    BY <2>3, WithoutPart
  <2> QED  BY <2>1, <2>2, <2>3, <2>4, <2>5, OneDestroys
<1>2. g[0] = One(B, row, n) /\ g[num] = One(B, Part(row, Left(num)), n)
  <2>1. Left(0) = S /\ 0 \in 0..num /\ num \in 0..num
    OBVIOUS
  <2>2. g[0] = One(B, Part(row, Left(0)), n) /\ g[num] = One(B, Part(row, Left(num)), n)
    BY <2>1
  <2> HIDE DEF g
  <2>3. Part(row, S) = row
    BY PartAll
  <2> QED  BY <2>1, <2>2, <2>3
<1>3. s = [i \in 1..num |-> s[i]]
  BY DropsIs
<1> HIDE DEF g, s
<1>4. Runs(g[0], s, g[num], B)
  BY <1>1, <1>3, RunsEach
<1> QED  BY <1>2, <1>4 DEF s

LEMMA TwoDrops ==
    ASSUME NEW P, IsPair(P), NEW row, NEW n, NEW rowW, NEW k, NEW B, NEW S, Alike(rowW, S),
           NEW first \in Nat, NEW num \in Nat, first..(first + num - 1) \subseteq S
    PROVE  Runs(Two(P, row, n, rowW, k), Drops(P.w, first, num),
                Two(P, row, n, Part(rowW, S \ (first..(first + num - 1))), k), B)
<1> DEFINE Left(h) == S \ (first..(first + h - 1))
           g == [h \in 0..num |-> Two(P, row, n, Part(rowW, Left(h)), k)]
           s == Drops(P.w, first, num)
<1>1. ASSUME NEW i \in 1..num PROVE Goes(g[i - 1], s[i], g[i], B)
  <2>1. g[i - 1] = Two(P, row, n, Part(rowW, Left(i - 1)), k) /\ g[i] = Two(P, row, n, Part(rowW, Left(i)), k)
    OBVIOUS
  <2>2. s[i] = Static!Destroy(Static!Slot(P.w, first + i - 1))
    BY DropsIs
  <2>3. first + i - 1 \in Left(i - 1) /\ Left(i) = Left(i - 1) \ {first + i - 1}
    OBVIOUS
  <2> HIDE DEF g, s, Left
  <2>4. DOMAIN Part(rowW, Left(i - 1)) = Left(i - 1)
    BY PartIs, AlikeIs
  <2>5. Static!Without(Part(rowW, Left(i - 1)), first + i - 1) = Part(rowW, Left(i))
    BY <2>3, WithoutPart
  <2> QED  BY <2>1, <2>2, <2>3, <2>4, <2>5, TwoDestroys
<1>2. g[0] = Two(P, row, n, rowW, k) /\ g[num] = Two(P, row, n, Part(rowW, Left(num)), k)
  <2>1. Left(0) = S /\ 0 \in 0..num /\ num \in 0..num
    OBVIOUS
  <2>2. g[0] = Two(P, row, n, Part(rowW, Left(0)), k) /\ g[num] = Two(P, row, n, Part(rowW, Left(num)), k)
    BY <2>1
  <2> HIDE DEF g
  <2>3. Part(rowW, S) = rowW
    BY PartAll
  <2> QED  BY <2>1, <2>2, <2>3
<1>3. s = [i \in 1..num |-> s[i]]
  BY DropsIs
<1> HIDE DEF g, s
<1>4. Runs(g[0], s, g[num], B)
  BY <1>1, <1>3, RunsEach
<1> QED  BY <1>2, <1>4 DEF s

\* All of n objects are destroyed.
Clearing(v, n) == Append(Drops(v, 0, n), Static!Size(v, 0))

LEMMA ClearsIs ==
    ASSUME NEW v, v_size[v] \in Nat
    PROVE  Static!Clears(v) = Clearing(v, v_size[v])
<1>1. Static!Clears(v) = Append([i \in 1..v_size[v] |-> Static!Destroy(Static!Slot(v, i - 1))], Static!Size(v, 0))
  BY DEF Static!Clears, Static!Steps
<1>2. \A i \in 1..v_size[v] : 0 + i - 1 = i - 1
  OBVIOUS
<1>3. Drops(v, 0, v_size[v]) = [i \in 1..v_size[v] |-> Static!Destroy(Static!Slot(v, i - 1))]
  BY <1>2 DEF Drops
<1> QED  BY <1>1, <1>3 DEF Clearing

LEMMA ClearingIs ==
    ASSUME NEW v, NEW n \in Nat
    PROVE  Clearing(v, n) = Drops(v, 0, n) \o <<Static!Size(v, 0)>>
<1>1. IsSequence(Drops(v, 0, n))
  BY DropsIs, SequenceIs
<1>2. PICK s, S, x : s = Drops(v, 0, n) /\ s \in Seq(S) /\ x = Static!Size(v, 0)
  BY <1>1 DEF IsSequence
<1>3. s \in Seq(S \cup {x}) /\ x \in S \cup {x}
  BY <1>2
<1>4. Append(s, x) = s \o <<x>>
  BY <1>3, AppendIsConcat
<1> QED  BY <1>2, <1>4 DEF Clearing

LEMMA OneClears ==
    ASSUME NEW B, IsCall(B), NEW row, NEW n, Fills(row, n)
    PROVE  \E r : Fills(r, 0) /\ Runs(One(B, row, n), Clearing(B.v, n), One(B, r, 0), B)
<1>0. n \in 0..Capacity /\ n \in Nat /\ Capacity \in Nat /\ Alike(row, 0..n - 1)
  BY CapacityAssumption DEF Fills, Alike
<1>1. PICK r : r = Part(row, (0..n - 1) \ (0..(0 + n - 1)))
  OBVIOUS
<1>2. Runs(One(B, row, n), Drops(B.v, 0, n), One(B, r, n), B)
  <2>1. 0..(0 + n - 1) \subseteq 0..n - 1 /\ 0 \in Nat
    BY <1>0
  <2> QED  BY <1>0, <1>1, <2>1, OneDrops
<1>3. Runs(One(B, r, n), <<Static!Size(B.v, 0)>>, One(B, r, 0), B)
  BY OneSizes, RunsOne
<1>4. Fills(r, 0)
  <2>1. (0..n - 1) \ (0..(0 + n - 1)) = 0..0 - 1
    BY <1>0
  <2>2. Alike(r, 0..0 - 1)
    BY <1>1, <2>1, PartIs
  <2>3. 0 \in 0..Capacity
    BY <1>0
  <2> QED  BY <2>2, <2>3, FillsIs
<1>5. Runs(One(B, row, n), Clearing(B.v, n), One(B, r, 0), B)
  BY <1>0, <1>2, <1>3, ClearingIs, RunsConcat
<1> QED  BY <1>4, <1>5

LEMMA TwoClears ==
    ASSUME NEW P, IsPair(P), NEW row, NEW n, NEW rowW, NEW k, Fills(rowW, k), NEW B
    PROVE  \E r : Fills(r, 0) /\ Runs(Two(P, row, n, rowW, k), Clearing(P.w, k), Two(P, row, n, r, 0), B)
<1>0. k \in 0..Capacity /\ k \in Nat /\ Capacity \in Nat /\ Alike(rowW, 0..k - 1)
  BY CapacityAssumption DEF Fills, Alike
<1>1. PICK r : r = Part(rowW, (0..k - 1) \ (0..(0 + k - 1)))
  OBVIOUS
<1>2. Runs(Two(P, row, n, rowW, k), Drops(P.w, 0, k), Two(P, row, n, r, k), B)
  <2>1. 0..(0 + k - 1) \subseteq 0..k - 1 /\ 0 \in Nat
    BY <1>0
  <2> QED  BY <1>0, <1>1, <2>1, TwoDrops
<1>3. Runs(Two(P, row, n, r, k), <<Static!Size(P.w, 0)>>, Two(P, row, n, r, 0), B)
  BY TwoSizes, RunsOne
<1>4. Fills(r, 0)
  <2>1. (0..k - 1) \ (0..(0 + k - 1)) = 0..0 - 1
    BY <1>0
  <2>2. Alike(r, 0..0 - 1)
    BY <1>1, <2>1, PartIs
  <2>3. 0 \in 0..Capacity
    BY <1>0
  <2> QED  BY <2>2, <2>3, FillsIs
<1>5. Runs(Two(P, row, n, rowW, k), Clearing(P.w, k), Two(P, row, n, r, 0), B)
  BY <1>0, <1>2, <1>3, ClearingIs, RunsConcat
<1> QED  BY <1>4, <1>5

\* After k of the values xs are pushed to the n elements of row.
Pushed(row, n, xs, k) == [j \in 0..(n + k - 1) |-> IF j < n THEN row[j] ELSE xs[j - n + 1]]

PushedAs(row, n, xs, k, r) ==
    /\ Alike(r, 0..(n + k - 1))
    /\ \A j \in 0..n - 1 : r[j] = row[j]
    /\ \A i \in 1..k : r[n + i - 1] = xs[i]

LEMMA PushedIs ==
    ASSUME NEW row, NEW n \in Nat, NEW xs, NEW k \in Nat
    PROVE  PushedAs(row, n, xs, k, Pushed(row, n, xs, k))
<1>1. Alike(Pushed(row, n, xs, k), 0..(n + k - 1))
  BY DEF Alike, Pushed
<1>2. ASSUME NEW j \in 0..n - 1 PROVE Pushed(row, n, xs, k)[j] = row[j]
  <2>1. j \in 0..(n + k - 1) /\ j < n
    OBVIOUS
  <2> QED  BY <2>1 DEF Pushed
<1>3. ASSUME NEW i \in 1..k PROVE Pushed(row, n, xs, k)[n + i - 1] = xs[i]
  <2>1. n + i - 1 \in 0..(n + k - 1) /\ ~(n + i - 1 < n) /\ (n + i - 1) - n + 1 = i
    OBVIOUS
  <2> QED  BY <2>1 DEF Pushed
<1> QED  BY <1>1, <1>2, <1>3 DEF PushedAs

\* What can be read in n elements can be read when more are pushed.
LEMMA ReadsPushed ==
    ASSUME NEW B, NEW row, NEW n \in Nat, Alike(row, 0..n - 1), NEW xs, NEW k \in Nat,
           NEW a, NEW x, Reads(B, row, a, x)
    PROVE  Reads(B, Pushed(row, n, xs, k), a, x)
<1>1. DOMAIN row = 0..n - 1 /\ DOMAIN Pushed(row, n, xs, k) = 0..(n + k - 1)
  BY PushedIs, AlikeIs DEF PushedAs
<1>2. \A j \in DOMAIN row : j \in DOMAIN Pushed(row, n, xs, k) /\ Pushed(row, n, xs, k)[j] = row[j]
  BY <1>1, PushedIs DEF PushedAs
<1> QED  BY <1>2 DEF Reads

LEMMA OnePushes ==
    ASSUME NEW B, IsCall(B), NEW row, NEW n, Fills(row, n), NEW m \in Nat, n + m <= Capacity,
           NEW args, Alike(args, 1..m), Len(args) = m, NEW xs, \A i \in 1..m : Reads(B, row, args[i], xs[i])
    PROVE  /\ Fills(Pushed(row, n, xs, m), n + m)
           /\ Runs(One(B, row, n), Static!Pushes(B.v, n, args), One(B, Pushed(row, n, xs, m), n + m), B)
<1>0. n \in 0..Capacity /\ n \in Nat /\ Capacity \in Nat /\ Alike(row, 0..n - 1)
  BY CapacityAssumption DEF Fills, Alike
<1> DEFINE g == [k \in 0..m |-> One(B, Pushed(row, n, xs, k), n + k)]
           body == [i \in 1..m |-> <<Static!Copy(Static!Slot(B.v, n + i - 1), args[i]), Static!Size(B.v, n + i)>>]
<1>1. ASSUME NEW k \in 0..m PROVE Fills(Pushed(row, n, xs, k), n + k)
  <2>1. n + k \in 0..Capacity /\ k \in Nat
    BY <1>0
  <2>2. Alike(Pushed(row, n, xs, k), 0..(n + k - 1))
    BY <1>0, <2>1, PushedIs DEF PushedAs
  <2> QED  BY <2>1, <2>2, FillsIs
<1>2. ASSUME NEW i \in 1..m PROVE Runs(g[i - 1], body[i], g[i], B)
  <2>0. /\ i \in Nat /\ i - 1 \in Nat /\ i - 1 \in 0..m /\ i \in 0..m /\ n + (i - 1) \in 0..Capacity - 1
        /\ n + (i - 1) = n + i - 1 /\ n + i \in 0..Capacity
    BY <1>0
  <2>1. /\ g[i - 1] = One(B, Pushed(row, n, xs, i - 1), n + i - 1)
        /\ g[i] = One(B, Pushed(row, n, xs, i), n + i)
        /\ body[i] = <<Static!Copy(Static!Slot(B.v, n + i - 1), args[i]), Static!Size(B.v, n + i)>>
    BY <2>0
  <2> HIDE DEF g, body
  <2> DEFINE before == Pushed(row, n, xs, i - 1)
             after == Pushed(row, n, xs, i)
  <2>2. /\ Alike(before, 0..(n + i - 2)) /\ Alike(after, 0..(n + i - 1))
        /\ \A j \in 0..(n + i - 2) : after[j] = before[j]
        /\ after[n + i - 1] = xs[i]
    <3>1. n + (i - 1) - 1 = n + i - 2
      BY <1>0, <2>0
    <3>c. PushedAs(row, n, xs, i - 1, before) /\ PushedAs(row, n, xs, i, after)
      BY <1>0, <2>0, PushedIs
    <3> HIDE DEF before, after
    <3>a. /\ Alike(before, 0..(n + (i - 1) - 1))
          /\ \A j \in 0..n - 1 : before[j] = row[j]
          /\ \A h \in 1..(i - 1) : before[n + h - 1] = xs[h]
      BY <3>c DEF PushedAs
    <3>b. /\ Alike(after, 0..(n + i - 1))
          /\ \A j \in 0..n - 1 : after[j] = row[j]
          /\ \A h \in 1..i : after[n + h - 1] = xs[h]
      BY <3>c DEF PushedAs
    <3>2. ASSUME NEW j \in 0..(n + i - 2) PROVE after[j] = before[j]
      <4>1. CASE j < n
        <5>1. j \in 0..n - 1
          BY <1>0, <2>0, <4>1
        <5> QED  BY <3>a, <3>b, <5>1
      <4>2. CASE ~(j < n)
        <5>1. PICK h \in 1..(i - 1) : n + h - 1 = j
          <6>1. j - n + 1 \in 1..(i - 1) /\ n + (j - n + 1) - 1 = j
            BY <1>0, <2>0, <4>2
          <6> QED  BY <6>1
        <5>2. h \in 1..i
          BY <2>0
        <5>3. before[n + h - 1] = xs[h] /\ after[n + h - 1] = xs[h]
          BY <3>a, <3>b, <5>2
        <5> QED  BY <5>1, <5>3
      <4> QED  BY <4>1, <4>2
    <3>3. i \in 1..i
      BY <2>0
    <3> QED  BY <3>1, <3>a, <3>b, <3>2, <3>3
  <2>3. Reads(B, before, args[i], xs[i])
    BY <1>0, <2>0, ReadsPushed
  <2>4. Fills(before, n + i - 1)
    BY <1>1, <2>0
  <2> HIDE DEF before, after
  <2>5. Static!With(before, n + i - 1, xs[i]) = after
    <3>1. 0..(n + i - 1) = (0..(n + i - 2)) \cup {n + i - 1}
      BY <1>0, <2>0
    <3>2. \A j \in 0..(n + i - 2) : j # n + i - 1 => after[j] = before[j]
      BY <2>2
    <3>3. PICK S, T, h : S = 0..(n + i - 2) /\ T = 0..(n + i - 1) /\ h = n + i - 1
      OBVIOUS
    <3>4. /\ Alike(before, S) /\ Alike(after, T) /\ T = S \cup {h} /\ after[h] = xs[i]
          /\ \A j \in S : j # h => after[j] = before[j]
      BY <2>2, <3>1, <3>2, <3>3
    <3>5. Static!With(before, h, xs[i]) = after
      BY <3>4, WithIs
    <3> QED  BY <3>3, <3>5
  <2>6. n + i - 1 \notin DOMAIN before /\ n + i - 1 \in 0..Capacity - 1
    <3>1. DOMAIN before = 0..(n + i - 2)
      BY <2>2, AlikeIs
    <3> QED  BY <1>0, <2>0, <3>1
  <2>7. Goes(One(B, before, n + i - 1), Static!Copy(Static!Slot(B.v, n + i - 1), args[i]), One(B, after, n + i - 1), B)
    BY <2>3, <2>4, <2>5, <2>6, OneCopies
  <2>8. Goes(One(B, after, n + i - 1), Static!Size(B.v, n + i), One(B, after, n + i), B)
    BY OneSizes
  <2>9. Runs(One(B, before, n + i - 1), body[i], One(B, after, n + i), B)
    BY <2>1, <2>7, <2>8, RunsTwo
  <2> QED  BY <2>1, <2>9 DEF before, after
<1>3. body = [i \in 1..m |-> body[i]]
  OBVIOUS
<1>4. g[0] = One(B, row, n) /\ g[m] = One(B, Pushed(row, n, xs, m), n + m)
  <2>1. 0 \in 0..m /\ m \in 0..m /\ n + 0 = n
    BY <1>0
  <2>2. g[0] = One(B, Pushed(row, n, xs, 0), n) /\ g[m] = One(B, Pushed(row, n, xs, m), n + m)
    BY <2>1
  <2> HIDE DEF g
  <2>3. Pushed(row, n, xs, 0) = row
    <3>1. n + 0 - 1 = n - 1
      BY <1>0
    <3>a. PushedAs(row, n, xs, 0, Pushed(row, n, xs, 0))
      BY <1>0, PushedIs
    <3>2. Alike(Pushed(row, n, xs, 0), 0..n - 1) /\ \A j \in 0..n - 1 : Pushed(row, n, xs, 0)[j] = row[j]
      BY <3>1, <3>a DEF PushedAs
    <3> QED  BY <1>0, <3>2 DEF Alike
  <2> QED  BY <2>2, <2>3
<1>5. Static!Pushes(B.v, n, args) = Static!FlattenSeq(body)
  BY DEF Static!Pushes
<1> HIDE DEF g, body
<1>6. Runs(g[0], Static!FlattenSeq(body), g[m], B)
  BY <1>2, <1>3, RunsLoop
<1> QED  BY <1>0, <1>1, <1>4, <1>5, <1>6

-----------------------------------------------------------------------------
(* static_vector: the sequences that std::vectors contain.                 *)

\* The elements of a vector that has n of them.
Lists(xs, row, n) == xs = [i \in 1..n |-> row[i - 1]]

LEMMA SequenceAlike ==
    ASSUME NEW s, IsSequence(s)
    PROVE  Len(s) \in Nat /\ Alike(s, 1..Len(s))
<1>1. PICK S : s \in Seq(S)
  BY DEF IsSequence
<1>2. Len(s) \in Nat /\ s \in [1..Len(s) -> S]
  BY <1>1
<1> QED  BY <1>2 DEF Alike

LEMMA AlikeSequence ==
    ASSUME NEW s, NEW n \in Nat, Alike(s, 1..n)
    PROVE  IsSequence(s) /\ Len(s) = n
  BY SequenceIs DEF Alike

LEMMA ListsIs ==
    ASSUME NEW xs, NEW row, NEW n \in Nat
    PROVE  Lists(xs, row, n) <=> IsSequence(xs) /\ Len(xs) = n /\ \A i \in 1..n : xs[i] = row[i - 1]
<1>1. ASSUME Lists(xs, row, n)
      PROVE  IsSequence(xs) /\ Len(xs) = n /\ \A i \in 1..n : xs[i] = row[i - 1]
  <2>1. Alike(xs, 1..n) /\ \A i \in 1..n : xs[i] = row[i - 1]
    BY <1>1 DEF Lists, Alike
  <2> QED  BY <2>1, AlikeSequence
<1>2. ASSUME IsSequence(xs), Len(xs) = n, \A i \in 1..n : xs[i] = row[i - 1]
      PROVE  Lists(xs, row, n)
  <2>1. Alike(xs, 1..n)
    BY <1>2, SequenceAlike
  <2> QED  BY <1>2, <2>1 DEF Lists, Alike
<1> QED  BY <1>1, <1>2

LEMMA OneSequence ==
    ASSUME NEW x
    PROVE  IsSequence(<<x>>) /\ Len(<<x>>) = 1 /\ <<x>>[1] = x /\ Alike(<<x>>, 1..1)
<1>1. <<x>> \in Seq({x}) /\ Len(<<x>>) = 1 /\ <<x>>[1] = x
  OBVIOUS
<1>2. IsSequence(<<x>>)
  BY <1>1 DEF IsSequence
<1> QED  BY <1>1, <1>2, SequenceAlike

LEMMA NoSequence == IsSequence(<<>>) /\ Len(<<>>) = 0
  BY DEF IsSequence

LEMMA AppendSequence ==
    ASSUME NEW s, IsSequence(s), NEW x
    PROVE  Append(s, x) = s \o <<x>>
<1>1. PICK S : s \in Seq(S)
  BY DEF IsSequence
<1>2. s \in Seq(S \cup {x}) /\ x \in S \cup {x}
  BY <1>1
<1> QED  BY <1>2, AppendIsConcat

LEMMA SubSequence ==
    ASSUME NEW s, IsSequence(s), NEW m \in Nat, NEW n \in Nat, 1 <= m, m <= n + 1, n <= Len(s)
    PROVE  /\ IsSequence(SubSeq(s, m, n)) /\ Len(SubSeq(s, m, n)) = n - m + 1
           /\ \A i \in 1..(n - m + 1) : SubSeq(s, m, n)[i] = s[m + i - 1]
<1>1. PICK S : s \in Seq(S)
  BY DEF IsSequence
<1>2. m \in Int /\ n \in Int /\ \A i \in m..n : s[i] \in S
  BY <1>1
<1>3. /\ SubSeq(s, m, n) \in Seq(S) /\ Len(SubSeq(s, m, n)) = (IF m <= n THEN n - m + 1 ELSE 0)
      /\ \A i \in 1..(n - m + 1) : SubSeq(s, m, n)[i] = s[m + i - 1]
  BY <1>1, <1>2, SubSeqProperties
<1>4. (IF m <= n THEN n - m + 1 ELSE 0) = n - m + 1
  OBVIOUS
<1> QED  BY <1>3, <1>4 DEF IsSequence

LEMMA PushedLists ==
    ASSUME NEW cs, NEW row, NEW n \in Nat, Lists(cs, row, n),
           NEW xs, NEW k \in Nat, IsSequence(xs), Len(xs) = k
    PROVE  Lists(cs \o xs, Pushed(row, n, xs, k), n + k)
<1>1. IsSequence(cs) /\ Len(cs) = n /\ \A i \in 1..n : cs[i] = row[i - 1]
  BY ListsIs
<1>2. /\ IsSequence(cs \o xs) /\ Len(cs \o xs) = n + k
      /\ \A i \in 1..n : (cs \o xs)[i] = cs[i]
      /\ \A i \in 1..k : (cs \o xs)[n + i] = xs[i]
  <2>1. IsSequence(cs) /\ Len(cs) = n
    BY <1>1
  <2>2. /\ IsSequence(cs \o xs) /\ Len(cs \o xs) = Len(cs) + Len(xs)
        /\ \A i \in 1..Len(cs) : (cs \o xs)[i] = cs[i]
        /\ \A i \in 1..Len(xs) : (cs \o xs)[Len(cs) + i] = xs[i]
    BY <2>1, ConcatIs
  <2> QED  BY <2>1, <2>2
<1>3. PICK r : r = Pushed(row, n, xs, k) /\ PushedAs(row, n, xs, k, r)
  BY PushedIs
<1>4. ASSUME NEW i \in 1..(n + k) PROVE (cs \o xs)[i] = r[i - 1]
  <2>1. CASE i <= n
    <3>1. i \in 1..n /\ i - 1 \in 0..n - 1
      BY <2>1
    <3> QED  BY <1>1, <1>2, <1>3, <3>1 DEF PushedAs
  <2>2. CASE ~(i <= n)
    <3>1. PICK h \in 1..k : i = n + h
      <4>1. i - n \in 1..k /\ i = n + (i - n)
        BY <2>2
      <4> QED  BY <4>1
    <3>2. r[n + h - 1] = xs[h]
      BY <1>3 DEF PushedAs
    <3> QED  BY <1>2, <3>1, <3>2
  <2> QED  BY <2>1, <2>2
<1>5. n + k \in Nat
  OBVIOUS
<1> QED  BY <1>2, <1>3, <1>4, <1>5, ListsIs

LEMMA PushedOnly ==
    ASSUME NEW row, NEW xs, NEW k \in Nat, IsSequence(xs), Len(xs) = k
    PROVE  Lists(xs, Pushed(row, 0, xs, k), k)
<1>1. PICK r : r = Pushed(row, 0, xs, k) /\ PushedAs(row, 0, xs, k, r)
  BY PushedIs
<1>2. ASSUME NEW i \in 1..k PROVE xs[i] = r[i - 1]
  <2>1. r[0 + i - 1] = xs[i] /\ 0 + i - 1 = i - 1
    BY <1>1 DEF PushedAs
  <2> QED  BY <2>1
<1> QED  BY <1>1, <1>2, ListsIs

-----------------------------------------------------------------------------
(* static_vector: the functions.                                           *)

\* Before a function of v, whose name is given.
LEMMA StaticBefore ==
    ASSUME StaticInv, NEW v \in Objects \ v_torn, NEW name, NEW steps, NEW result, Static!Do(v, name, steps, result)
    PROVE  /\ v_fault = "none" /\ v \notin v_torn /\ Fills(v_object[v], v_size[v])
           /\ Lists(v_contents[v], v_object[v], v_size[v])
           /\ IsCall(Call(v, Tears(name))) /\ Call(v, Tears(name)).v = v /\ Call(v, Tears(name)).tears = Tears(name)
           /\ Mem(v_object, v_size) = One(Call(v, Tears(name)), v_object[v], v_size[v])
<1>1. v_fault = "none" /\ v \notin v_torn
  BY DEF Static!Do
<1>2. Holds(v)
  BY <1>1 DEF StaticInv
<1>3. Tears(name) \in BOOLEAN
  BY DEF Tears
<1>4. /\ IsCall(Call(v, Tears(name)))
      /\ Mem(v_object, v_size) = One(Call(v, Tears(name)), v_object[v], v_size[v])
  BY <1>1, <1>3, CallIs
<1>5. Call(v, Tears(name)).v = v /\ Call(v, Tears(name)).tears = Tears(name)
  BY DEF Call
<1> QED  BY <1>1, <1>2, <1>4, <1>5 DEF Holds, Lists

\* A function that makes v what row and n say.
LEMMA StaticDone ==
    ASSUME StaticInv, NEW v \in Objects \ v_torn, NEW name, NEW steps, NEW xs, Static!Run(v, name, steps, xs),
           NEW row, NEW n, Fills(row, n), Lists(xs, row, n),
           Runs(Mem(v_object, v_size), steps, One(Call(v, Tears(name)), row, n), Call(v, Tears(name)))
    PROVE  StaticInv'
<1> DEFINE result == [v_contents EXCEPT ![v] = xs]
           o == [v_object EXCEPT ![v] = row]
           z == [v_size EXCEPT ![v] = n]
<1>1. Static!Do(v, name, steps, result)
  BY DEF Static!Run
<1>2. One(Call(v, Tears(name)), row, n) = Mem(o, z)
  BY DEF One, Call
<1>3. v \notin v_torn
  BY <1>1 DEF Static!Do
<1> HIDE DEF result, o, z
<1>4. \/ StaticInv'
      \/ /\ v_object' = o /\ v_size' = z /\ v_contents' = result
         /\ v_fault = "none" /\ v_fault' = "none" /\ v_torn' = v_torn
  BY <1>1, <1>2, StaticRuns
<1>5. ASSUME v_object' = o, v_size' = z, v_contents' = result,
             v_fault = "none", v_fault' = "none", v_torn' = v_torn
      PROVE  StaticInv'
  BY <1>3, <1>5, HoldsOne DEF result, o, z, Lists
<1> QED  BY <1>4, <1>5

LEMMA clearKeeps ==
    ASSUME StaticInv, NEW v \in Objects \ v_torn, Static!clear(v)
    PROVE  StaticInv'
<1>1. PICK s : s = Static!Clears(v) /\ Static!Run(v, "clear", s, <<>>)
  BY DEF Static!clear
<1>2. PICK B, n, row : B = Call(v, Tears("clear")) /\ n = v_size[v] /\ row = v_object[v]
  OBVIOUS
<1>3. IsCall(B) /\ B.v = v /\ Fills(row, n) /\ Mem(v_object, v_size) = One(B, row, n)
  BY <1>1, <1>2, StaticBefore DEF Static!Run
<1>4. n \in Nat
  BY <1>3 DEF Fills
<1>5. s = Clearing(v, n)
  BY <1>1, <1>2, <1>4, ClearsIs
<1>6. PICK r : Fills(r, 0) /\ Runs(One(B, row, n), s, One(B, r, 0), B)
  BY <1>3, <1>5, OneClears
<1>7. Lists(<<>>, r, 0)
  BY NoSequence, ListsIs
<1> QED  BY <1>1, <1>2, <1>3, <1>6, <1>7, StaticDone

\* A sequence of m values.
AreValues(args, m) == m \in Nat /\ Alike(args, 1..m) /\ \A i \in 1..m : args[i] \in Values

LEMMA RangesAre ==
    ASSUME NEW xs \in Static!Ranges
    PROVE  \E m \in 0..Capacity : AreValues(xs, m)
<1>1. PICK m \in 0..Capacity : xs \in [1..m -> Values]
  BY DEF Static!Ranges
<1>2. AreValues(xs, m)
  BY <1>1 DEF AreValues, Alike
<1> QED  BY <1>2

LEMMA SameIs ==
    ASSUME NEW a, NEW n \in Nat
    PROVE  /\ Alike(Static!Same(a, n), 1..n) /\ IsSequence(Static!Same(a, n)) /\ Len(Static!Same(a, n)) = n
           /\ \A i \in 1..n : Static!Same(a, n)[i] = a
<1>1. Alike(Static!Same(a, n), 1..n) /\ \A i \in 1..n : Static!Same(a, n)[i] = a
  BY DEF Alike, Static!Same
<1> QED  BY <1>1, AlikeSequence

LEMMA ValuesRead ==
    ASSUME NEW B, NEW row, NEW args, NEW m, AreValues(args, m)
    PROVE  /\ m \in Nat /\ Alike(args, 1..m) /\ IsSequence(args) /\ Len(args) = m
           /\ \A i \in 1..m : args[i] \in Values /\ Reads(B, row, args[i], args[i])
<1>1. m \in Nat /\ Alike(args, 1..m) /\ \A i \in 1..m : args[i] \in Values
  BY DEF AreValues
<1> QED  BY <1>1, AlikeSequence DEF Reads

\* What a std::vector has at an element that is passed.
LEMMA ArgumentReads ==
    ASSUME NEW B, NEW v \in Objects, B.v = v, NEW n, Fills(v_object[v], n), n = v_size[v],
           Lists(v_contents[v], v_object[v], n), NEW a \in Static!Arguments(v)
    PROVE  Reads(B, v_object[v], a, Static!ValueOf(v, a))
<1>0. n \in 0..Capacity /\ n \in Nat /\ Capacity \in Nat /\ DOMAIN v_object[v] = 0..n - 1
  BY CapacityAssumption DEF Fills
<1>1. CASE a \in Values
  BY <1>1 DEF Reads, Static!ValueOf
<1>2. CASE a \notin Values
  <2>1. PICK i \in 0..n - 1 : a = Static!Slot(v, i)
    BY <1>2 DEF Static!Arguments
  <2>2. i \in 0..Capacity /\ i + 1 \in 1..n /\ (i + 1) - 1 = i
    BY <1>0
  <2>3. a[2] = i
    BY <2>1, SlotHas
  <2>4. v_contents[v][i + 1] = v_object[v][i]
    BY <2>2 DEF Lists
  <2>5. Static!ValueOf(v, a) = v_object[v][i]
    BY <1>2, <2>3, <2>4 DEF Static!ValueOf
  <2> QED  BY <1>0, <2>1, <2>2, <2>5 DEF Reads
<1> QED  BY <1>1, <1>2

LEMMA ConstructKeeps ==
    ASSUME StaticInv, NEW v \in Objects \ v_torn, NEW xs \in Static!Ranges, Static!Construct(v, xs)
    PROVE  StaticInv'
<1>1. PICK s : s = Static!Pushes(v, 0, xs) /\ Static!Run(v, "construct", s, xs) /\ v_size[v] = 0
  BY DEF Static!Construct
<1>2. PICK B, row : B = Call(v, Tears("construct")) /\ row = v_object[v]
  OBVIOUS
<1>3. IsCall(B) /\ B.v = v /\ Fills(row, 0) /\ Mem(v_object, v_size) = One(B, row, 0)
  BY <1>1, <1>2, StaticBefore DEF Static!Run
<1>4. PICK m \in 0..Capacity : AreValues(xs, m)
  BY RangesAre
<1>5. /\ m \in Nat /\ Alike(xs, 1..m) /\ IsSequence(xs) /\ Len(xs) = m
      /\ \A i \in 1..m : Reads(B, row, xs[i], xs[i])
  BY <1>4, ValuesRead
<1>6. 0 + m <= Capacity /\ 0 + m = m
  BY CapacityAssumption, <1>4
<1>7. PICK r : r = Pushed(row, 0, xs, m)
  OBVIOUS
<1>8. Fills(r, m) /\ Runs(One(B, row, 0), s, One(B, r, m), B)
  BY <1>1, <1>3, <1>5, <1>6, <1>7, OnePushes
<1>9. Lists(xs, r, m)
  BY <1>5, <1>7, PushedOnly
<1> QED  BY <1>1, <1>2, <1>3, <1>8, <1>9, StaticDone

LEMMA push_backKeeps ==
    ASSUME StaticInv, NEW v \in Objects \ v_torn, NEW a \in Static!Arguments(v), Static!push_back(v, a)
    PROVE  StaticInv'
<1>1. PICK B, row, n, cs, x, xs : /\ B = Call(v, Tears("push_back")) /\ row = v_object[v] /\ n = v_size[v]
                                  /\ cs = v_contents[v] /\ x = Static!ValueOf(v, a) /\ xs = <<x>>
  OBVIOUS
<1>2. PICK s : s = Static!Pushes(v, n, <<a>>) /\ Static!Run(v, "push_back", s, Append(cs, x)) /\ n < Capacity
  BY <1>1 DEF Static!push_back
<1>3. IsCall(B) /\ B.v = v /\ Fills(row, n) /\ Mem(v_object, v_size) = One(B, row, n) /\ Lists(cs, row, n)
  BY <1>1, <1>2, StaticBefore DEF Static!Run
<1>4. n \in Nat /\ n + 1 <= Capacity
  BY CapacityAssumption, <1>2, <1>3 DEF Fills
<1>5. /\ Alike(<<a>>, 1..1) /\ Len(<<a>>) = 1 /\ IsSequence(xs) /\ Len(xs) = 1
      /\ \A i \in 1..1 : Reads(B, row, <<a>>[i], xs[i])
  <2>1. Reads(B, row, a, x)
    BY <1>1, <1>3, ArgumentReads
  <2>2. \A i \in 1..1 : i = 1
    OBVIOUS
  <2> QED  BY <1>1, <2>1, <2>2, OneSequence
<1>6. PICK r : r = Pushed(row, n, xs, 1)
  OBVIOUS
<1>7. Fills(r, n + 1) /\ Runs(One(B, row, n), s, One(B, r, n + 1), B)
  BY <1>2, <1>3, <1>4, <1>5, <1>6, OnePushes
<1>8. Lists(Append(cs, x), r, n + 1)
  <2>1. IsSequence(cs)
    BY <1>3, <1>4, ListsIs
  <2>2. Append(cs, x) = cs \o xs
    BY <1>1, <2>1, AppendSequence
  <2> QED  BY <1>3, <1>4, <1>5, <1>6, <2>2, PushedLists
<1> QED  BY <1>1, <1>2, <1>3, <1>7, <1>8, StaticDone

\* The last k of n elements are popped.
Pops(v, n, k) == Static!FlattenSeq(
    [i \in 1..k |-> <<Static!Destroy(Static!Slot(v, n - i)), Static!Size(v, n - i)>>])

LEMMA OnePops ==
    ASSUME NEW B, IsCall(B), NEW row, NEW n, Fills(row, n), NEW k \in 0..n
    PROVE  Runs(One(B, row, n), Pops(B.v, n, k), One(B, Part(row, 0..(n - k - 1)), n - k), B)
<1>0. n \in 0..Capacity /\ n \in Nat /\ Capacity \in Nat /\ k \in Nat /\ Alike(row, 0..n - 1)
  BY CapacityAssumption DEF Fills, Alike
<1> DEFINE g == [i \in 0..k |-> One(B, Part(row, 0..(n - i - 1)), n - i)]
           body == [i \in 1..k |-> <<Static!Destroy(Static!Slot(B.v, n - i)), Static!Size(B.v, n - i)>>]
<1>1. ASSUME NEW i \in 1..k PROVE Runs(g[i - 1], body[i], g[i], B)
  <2>0. PICK h, S, T : h = n - i /\ S = 0..h /\ T = 0..(h - 1)
    OBVIOUS
  <2>1. n - (i - 1) - 1 = h /\ n - (i - 1) = h + 1 /\ h \in S /\ T = S \ {h} /\ i - 1 \in 0..k /\ i \in 0..k
    BY <1>0, <2>0
  <2>2. /\ g[i - 1] = One(B, Part(row, S), h + 1) /\ g[i] = One(B, Part(row, T), h)
        /\ body[i] = <<Static!Destroy(Static!Slot(B.v, h)), Static!Size(B.v, h)>>
    BY <2>0, <2>1
  <2> HIDE DEF g, body
  <2>3. h \in DOMAIN Part(row, S) /\ Static!Without(Part(row, S), h) = Part(row, T)
    BY <2>1, PartIs, AlikeIs, WithoutPart
  <2>4. Goes(One(B, Part(row, S), h + 1), Static!Destroy(Static!Slot(B.v, h)), One(B, Part(row, T), h + 1), B)
    BY <2>3, OneDestroys
  <2>5. Goes(One(B, Part(row, T), h + 1), Static!Size(B.v, h), One(B, Part(row, T), h), B)
    BY OneSizes
  <2> QED  BY <2>2, <2>4, <2>5, RunsTwo
<1>2. g[0] = One(B, row, n) /\ g[k] = One(B, Part(row, 0..(n - k - 1)), n - k)
  <2>1. 0 \in 0..k /\ k \in 0..k /\ n - 0 - 1 = n - 1 /\ n - 0 = n
    BY <1>0
  <2>2. g[0] = One(B, Part(row, 0..n - 1), n) /\ g[k] = One(B, Part(row, 0..(n - k - 1)), n - k)
    BY <2>1
  <2> HIDE DEF g
  <2>3. Part(row, 0..n - 1) = row
    BY <1>0, PartAll
  <2> QED  BY <2>2, <2>3
<1>3. body = [i \in 1..k |-> body[i]]
  OBVIOUS
<1>4. Pops(B.v, n, k) = Static!FlattenSeq(body)
  BY DEF Pops
<1> HIDE DEF g, body
<1>5. Runs(g[0], Static!FlattenSeq(body), g[k], B)
  BY <1>0, <1>1, <1>3, RunsLoop
<1> QED  BY <1>2, <1>4, <1>5

LEMMA resizeKeeps ==
    ASSUME StaticInv, NEW v \in Objects \ v_torn, NEW a \in Static!Arguments(v), NEW n \in 0..Capacity, Static!resize(v, n, a)
    PROVE  StaticInv'
<1>1. PICK B, row, s, cs, x : /\ B = Call(v, Tears("resize")) /\ row = v_object[v] /\ s = v_size[v]
                              /\ cs = v_contents[v] /\ x = Static!ValueOf(v, a)
  OBVIOUS
<1>2. IsCall(B) /\ B.v = v /\ Fills(row, s) /\ Mem(v_object, v_size) = One(B, row, s) /\ Lists(cs, row, s)
  BY <1>1, StaticBefore DEF Static!resize, Static!Run
<1>3. s \in Nat /\ n \in Nat /\ Capacity \in Nat /\ s <= Capacity /\ n <= Capacity
  BY CapacityAssumption, <1>2 DEF Fills
<1>4. CASE n >= s
  <2>1. PICK t, k, xs : t = Static!Pushes(v, s, Static!Same(a, n - s)) /\ k = n - s /\ xs = Static!Same(x, n - s)
    OBVIOUS
  <2>2. Static!Run(v, "resize", t, cs \o xs)
    BY <1>1, <1>4, <2>1 DEF Static!resize
  <2>3. k \in Nat /\ s + k <= Capacity /\ s + k = n
    BY <1>3, <1>4, <2>1
  <2>4. PICK args : /\ args = Static!Same(a, k) /\ Alike(args, 1..k) /\ Len(args) = k /\ \A i \in 1..k : args[i] = a
    BY <2>3, SameIs
  <2>5. IsSequence(xs) /\ Len(xs) = k /\ \A i \in 1..k : xs[i] = x
    BY <2>1, <2>3, SameIs
  <2>6. \A i \in 1..k : Reads(B, row, args[i], xs[i])
    <3>1. Reads(B, row, a, x)
      BY <1>1, <1>2, ArgumentReads
    <3> QED  BY <2>4, <2>5, <3>1
  <2>7. PICK r : r = Pushed(row, s, xs, k)
    OBVIOUS
  <2>8. Fills(r, n) /\ Runs(One(B, row, s), t, One(B, r, n), B)
    BY <1>2, <2>1, <2>3, <2>4, <2>6, <2>7, OnePushes
  <2>9. Lists(cs \o xs, r, n)
    BY <1>2, <1>3, <2>3, <2>5, <2>7, PushedLists
  <2> QED  BY <1>1, <1>2, <2>2, <2>8, <2>9, StaticDone
<1>5. CASE ~(n >= s)
  <2>1. PICK t : t = Pops(v, s, s - n)
    OBVIOUS
  <2>2. Static!Run(v, "resize", t, SubSeq(cs, 1, n))
    <3>1. \A i \in 1..(s - n) : s - 1 - (i - 1) = s - i
      BY <1>3
    <3>2. [i \in 1..(s - n) |-> <<Static!Destroy(Static!Slot(v, s - 1 - (i - 1))), Static!Size(v, s - 1 - (i - 1))>>]
             = [i \in 1..(s - n) |-> <<Static!Destroy(Static!Slot(v, s - i)), Static!Size(v, s - i)>>]
      BY <3>1
    <3>3. Static!Run(v, "resize",
             Static!FlattenSeq([i \in 1..(s - n) |->
                <<Static!Destroy(Static!Slot(v, s - 1 - (i - 1))), Static!Size(v, s - 1 - (i - 1))>>]),
             SubSeq(cs, 1, n))
      BY <1>1, <1>5 DEF Static!resize, Static!Steps
    <3> QED  BY <2>1, <3>2, <3>3 DEF Pops
  <2>3. PICK r : r = Part(row, 0..n - 1)
    OBVIOUS
  <2>4. Runs(One(B, row, s), t, One(B, r, n), B)
    <3>1. s - n \in 0..s /\ s - (s - n) = n /\ s - (s - n) - 1 = n - 1
      BY <1>3, <1>5
    <3>2. PICK k \in 0..s : k = s - n
      BY <3>1
    <3>3. Runs(One(B, row, s), Pops(B.v, s, k), One(B, Part(row, 0..(s - k - 1)), s - k), B)
      BY <1>2, OnePops
    <3> QED  BY <1>2, <2>1, <2>3, <3>1, <3>2, <3>3
  <2>5. Fills(r, n)
    BY <2>3, PartIs, FillsIs
  <2>6. Lists(SubSeq(cs, 1, n), r, n)
    <3>1. IsSequence(cs) /\ Len(cs) = s /\ \A i \in 1..s : cs[i] = row[i - 1]
      BY <1>2, <1>3, ListsIs
    <3>2. 1 <= n + 1 /\ n <= Len(cs) /\ n - 1 + 1 = n
      BY <1>3, <1>5, <3>1
    <3>3. /\ IsSequence(SubSeq(cs, 1, n)) /\ Len(SubSeq(cs, 1, n)) = n
          /\ \A i \in 1..n : SubSeq(cs, 1, n)[i] = cs[1 + i - 1]
      BY <1>3, <3>1, <3>2, SubSequence
    <3>4. ASSUME NEW i \in 1..n PROVE SubSeq(cs, 1, n)[i] = r[i - 1]
      <4>1. 1 + i - 1 = i /\ i \in 1..s /\ i - 1 \in 0..n - 1
        BY <1>3, <1>5
      <4>2. r[i - 1] = row[i - 1]
        BY <2>3, <4>1, PartIs
      <4> QED  BY <3>1, <3>3, <4>1, <4>2
    <3> QED  BY <1>3, <3>3, <3>4, ListsIs
  <2> QED  BY <1>1, <1>2, <2>2, <2>4, <2>5, <2>6, StaticDone
<1> QED  BY <1>4, <1>5

\* A second step that misuses something.
LEMMA HaltsTwo ==
    ASSUME NEW m, NEW a, NEW d, NEW b, NEW B, Goes(m, a, d, B), Stops(d, b, B)
    PROVE  Halts(m, <<a, b>>, B)
<1> DEFINE f == [i \in 0..1 |-> IF i = 0 THEN m ELSE d]
           s == <<a, b>>
<1>1. s \in Seq({a, b}) /\ Len(s) = 2 /\ s[1] = a /\ s[2] = b
  OBVIOUS
<1>2. f[0] = m /\ f[1] = d
  OBVIOUS
<1> HIDE DEF f, s
<1>3. Path(f, m, s, 1, B)
  <2>1. \A i \in 1..1 : i = 1 /\ i - 1 = 0
    OBVIOUS
  <2> QED  BY <1>1, <1>2, <2>1 DEF Path
<1>4. 1 \in 0..(Len(s) - 1) /\ 1 + 1 = 2
  BY <1>1
<1>5. IsSequence(s)
  BY <1>1 DEF IsSequence
<1>6. Halts(m, s, B)
  BY <1>1, <1>2, <1>3, <1>4, <1>5 DEF Halts
<1> QED  BY <1>6 DEF s

LEMMA TwoSequence ==
    ASSUME NEW a, NEW b
    PROVE  IsSequence(<<a, b>>)
<1>1. <<a, b>> \in Seq({a, b})
  OBVIOUS
<1> QED  BY <1>1 DEF IsSequence

\* A copy of an object that is not alive.
LEMMA OneStopsCopy ==
    ASSUME NEW B, IsCall(B), NEW row, NEW n, NEW i,
           Fills(row, n) \/ (B.tears /\ n \in Nat), NEW j \in 0..Capacity, j \notin DOMAIN row
    PROVE  Stops(One(B, row, n), Static!Copy(Static!Slot(B.v, i), Static!Slot(B.v, j)), B)
<1>1. PICK o, z : OneAs(B, row, n, o, z)
  BY OneIs
<1>2. B.v \in Objects
  BY DEF IsCall
<1>3. PICK a, s : a = Static!Slot(B.v, j) /\ s = Static!Copy(Static!Slot(B.v, i), a)
  OBVIOUS
<1>4. a \notin Values /\ a[1] = B.v /\ a[2] = j
  BY <1>2, <1>3, SlotIs
<1>5. s.do = "copy" /\ s.from = a
  BY <1>3 DEF Static!Copy
<1>6. ~Static!Alive(o, a)
  BY <1>1, <1>4 DEF OneAs, Static!Alive
<1>7. Static!Misuses(o, s)
  BY <1>4, <1>5, <1>6 DEF Static!Misuses
<1>8. MayThrow(One(B, row, n), B)
  BY DEF MayThrow
<1> QED  BY <1>1, <1>3, <1>7, <1>8 DEF Stops, OneAs

\* A move of one.
LEMMA OneStopsMove ==
    ASSUME NEW B, IsCall(B), NEW row, NEW n, NEW i, NEW j, j \notin DOMAIN row
    PROVE  Stops(One(B, row, n), Static!Move(Static!Slot(B.v, i), Static!Slot(B.v, j)), B)
<1>1. PICK o, z : OneAs(B, row, n, o, z)
  BY OneIs
<1>3. PICK a, s : a = Static!Slot(B.v, j) /\ s = Static!Move(Static!Slot(B.v, i), a)
  OBVIOUS
<1>4. a[1] = B.v /\ a[2] = j
  BY <1>3, SlotHas
<1>5. s.do = "move" /\ s.from = a
  BY <1>3 DEF Static!Move
<1>6. ~Static!Alive(o, a)
  BY <1>1, <1>4 DEF OneAs, Static!Alive
<1>7. Static!Misuses(o, s)
  BY <1>5, <1>6 DEF Static!Misuses
<1> QED  BY <1>1, <1>3, <1>5, <1>7 DEF Stops, OneAs

\* If the elements do not fit, only what was there is destroyed.
LEMMA assignValues ==
    ASSUME StaticInv, NEW v \in Objects \ v_torn, NEW args, NEW m, AreValues(args, m), NEW own, ~own,
           Static!assign(v, args, own)
    PROVE  StaticInv'
<1>1. PICK B, row, n : B = Call(v, Tears("assign")) /\ row = v_object[v] /\ n = v_size[v]
  OBVIOUS
<1>2. PICK c, t, xs : /\ c = Static!Clears(v) /\ t = Static!Pushes(v, 0, args)
                      /\ xs = [i \in DOMAIN args |-> Static!ValueOf(v, args[i])]
  OBVIOUS
<1>3. /\ Len(args) > Capacity => Static!Run(v, "assign", c \o <<>>, <<>>)
      /\ ~(Len(args) > Capacity) => Static!Run(v, "assign", c \o t, xs)
  BY <1>2 DEF Static!assign
<1>4. IsCall(B) /\ B.v = v /\ Fills(row, n) /\ Mem(v_object, v_size) = One(B, row, n)
  BY <1>1, <1>3, StaticBefore DEF Static!Run
<1>5. n \in Nat /\ Capacity \in Nat
  BY CapacityAssumption, <1>4 DEF Fills
<1>6. PICK r : Fills(r, 0) /\ Runs(One(B, row, n), c, One(B, r, 0), B)
  BY <1>1, <1>2, <1>4, <1>5, ClearsIs, OneClears
<1>7. /\ m \in Nat /\ Alike(args, 1..m) /\ IsSequence(args) /\ Len(args) = m
      /\ \A i \in 1..m : args[i] \in Values /\ Reads(B, r, args[i], args[i])
  BY ValuesRead
<1>8. CASE m > Capacity
  <2>1. Runs(One(B, row, n), c \o <<>>, One(B, r, 0), B)
    BY <1>6, RunsNone, RunsConcat
  <2>2. Lists(<<>>, r, 0)
    BY NoSequence, ListsIs
  <2> QED  BY <1>1, <1>3, <1>4, <1>6, <1>7, <1>8, <2>1, <2>2, StaticDone
<1>9. CASE ~(m > Capacity)
  <2>1. 0 + m <= Capacity /\ 0 + m = m
    BY <1>5, <1>7, <1>9
  <2>2. PICK q : q = Pushed(r, 0, args, m)
    OBVIOUS
  <2>3. Fills(q, m) /\ Runs(One(B, r, 0), t, One(B, q, m), B)
    BY <1>2, <1>4, <1>6, <1>7, <2>1, <2>2, OnePushes
  <2>4. Runs(One(B, row, n), c \o t, One(B, q, m), B)
    BY <1>6, <2>3, RunsConcat
  <2>5. xs = args
    <3>1. DOMAIN args = 1..m
      BY <1>7, AlikeIs
    <3>2. \A i \in 1..m : Static!ValueOf(v, args[i]) = args[i]
      BY <1>7 DEF Static!ValueOf
    <3>3. xs = [i \in 1..m |-> args[i]]
      BY <1>2, <3>1, <3>2
    <3> QED  BY <1>7, <3>3 DEF Alike
  <2>6. Lists(xs, q, m)
    BY <1>7, <2>2, <2>5, PushedOnly
  <2> QED  BY <1>1, <1>3, <1>4, <1>7, <1>9, <2>3, <2>4, <2>6, StaticDone
<1> QED  BY <1>8, <1>9

\* An element of v itself is destroyed before it is copied.
LEMMA assignOwn ==
    ASSUME StaticInv, NEW v \in Objects \ v_torn, NEW a \in Static!Arguments(v), a \notin Values,
           NEW k \in Nat, k # 0, NEW own, own, Static!assign(v, Static!Same(a, k), own)
    PROVE  StaticInv'
<1>1. PICK B, row, n, args : /\ B = Call(v, Tears("assign own")) /\ row = v_object[v] /\ n = v_size[v]
                             /\ args = Static!Same(a, k)
  OBVIOUS
<1>2. PICK c, t, xs : /\ c = Static!Clears(v) /\ t = Static!Pushes(v, 0, args)
                      /\ xs = [i \in DOMAIN args |-> Static!ValueOf(v, args[i])]
  OBVIOUS
<1>3. /\ Len(args) > Capacity => Static!Run(v, "assign own", c \o <<>>, <<>>)
      /\ ~(Len(args) > Capacity) => Static!Run(v, "assign own", c \o t, xs)
  BY <1>1, <1>2 DEF Static!assign
<1>4. IsCall(B) /\ B.v = v /\ Fills(row, n) /\ Mem(v_object, v_size) = One(B, row, n)
  BY <1>1, <1>3, StaticBefore DEF Static!Run
<1>5. n \in Nat /\ Capacity \in Nat /\ n <= Capacity
  BY CapacityAssumption, <1>4 DEF Fills
<1>6. PICK r : Fills(r, 0) /\ Runs(One(B, row, n), c, One(B, r, 0), B)
  <2>1. v_size[v] \in Nat
    BY <1>1, <1>5
  <2>2. Static!Clears(v) = Clearing(v, v_size[v])
    BY <2>1, ClearsIs
  <2>3. c = Clearing(B.v, n)
    BY <1>1, <1>2, <1>4, <2>2
  <2>4. \E r : Fills(r, 0) /\ Runs(One(B, row, n), Clearing(B.v, n), One(B, r, 0), B)
    BY <1>4, OneClears
  <2> QED  BY <2>3, <2>4
<1>7. Alike(args, 1..k) /\ Len(args) = k /\ \A i \in 1..k : args[i] = a
  BY <1>1, SameIs
<1>8. CASE k > Capacity
  <2>1. Runs(One(B, row, n), c \o <<>>, One(B, r, 0), B)
    BY <1>6, RunsNone, RunsConcat
  <2>2. Lists(<<>>, r, 0)
    BY NoSequence, ListsIs
  <2> QED  BY <1>1, <1>3, <1>4, <1>6, <1>7, <1>8, <2>1, <2>2, StaticDone
<1>9. CASE ~(k > Capacity)
  <2> DEFINE body == [i \in 1..k |-> <<Static!Copy(Static!Slot(v, 0 + i - 1), args[i]), Static!Size(v, 0 + i)>>]
  <2>1. t = Static!FlattenSeq(body)
    BY <1>2, <1>7 DEF Static!Pushes
  <2>2. body = [i \in 1..k |-> body[i]] /\ \A i \in 1..k : IsSequence(body[i])
    BY TwoSequence
  <2>3. PICK j \in 0..n - 1 : a = Static!Slot(v, j)
    BY <1>1 DEF Static!Arguments
  <2>4. Stops(One(B, r, 0), Static!Copy(Static!Slot(v, 0 + 1 - 1), a), B)
    <3>1. j \in 0..Capacity
      BY <1>5
    <3>2. j \notin DOMAIN r
      BY <1>6 DEF Fills
    <3> QED  BY <1>4, <1>6, <2>3, <3>1, <3>2, OneStopsCopy
  <2>5. Halts(One(B, r, 0), body[1], B)
    <3>1. 1 \in 1..k
      OBVIOUS
    <3>2. PICK x, y : /\ body[1] = <<x, y>> /\ x = Static!Copy(Static!Slot(v, 0 + 1 - 1), a)
      BY <1>7, <3>1
    <3>3. Len(<<x, y>>) > 0 /\ <<x, y>>[1] = x
      OBVIOUS
    <3>4. Halts(One(B, r, 0), <<x, y>>, B)
      BY <2>4, <3>2, <3>3, TwoSequence, HaltsNow
    <3> QED  BY <3>2, <3>4
  <2> HIDE DEF body
  <2>6. Halts(One(B, r, 0), t, B)
    BY <2>1, <2>2, <2>5, HaltsLoop
  <2>7. Halts(One(B, row, n), c \o t, B)
    BY <1>6, <2>6, HaltsConcat
  <2>8. MayFail("assign own")
    BY DEF MayFail
  <2>9. \E result : Static!Do(v, "assign own", c \o t, result)
    BY <1>3, <1>7, <1>9 DEF Static!Run
  <2> QED  BY <1>1, <1>4, <2>7, <2>8, <2>9, StaticHalts
<1> QED  BY <1>8, <1>9

LEMMA CopyAssignKeeps ==
    ASSUME StaticInv, NEW v \in Objects \ v_torn, NEW w \in Objects, w \notin v_torn, Static!CopyAssign(v, w)
    PROVE  StaticInv'
<1>1. PICK B, row, n, cs, rowW, k : /\ B = Call(v, Tears("assign")) /\ row = v_object[v] /\ n = v_size[v]
                                    /\ cs = v_contents[w] /\ rowW = v_object[w] /\ k = v_size[w]
  OBVIOUS
<1>a. PICK args : args = [i \in 1..k |-> Static!Slot(w, i - 1)]
  OBVIOUS
<1>2. PICK c, t : c = Static!Clears(v) /\ t = Static!Pushes(v, 0, args)
  OBVIOUS
<1>3. Static!Run(v, "assign", c \o t, cs) /\ v # w
  BY <1>1, <1>a, <1>2 DEF Static!CopyAssign, Static!Steps
<1>4. IsCall(B) /\ B.v = v /\ Fills(row, n) /\ Mem(v_object, v_size) = One(B, row, n) /\ v_fault = "none"
  BY <1>1, <1>3, StaticBefore DEF Static!Run
<1>5. Fills(rowW, k) /\ Lists(cs, rowW, k) /\ B.object[w] = rowW
  <2>1. Holds(w)
    BY <1>4 DEF StaticInv
  <2> QED  BY <1>1, <2>1 DEF Holds, Lists, Call
<1>6. n \in Nat /\ Capacity \in Nat /\ k \in Nat /\ k <= Capacity /\ DOMAIN rowW = 0..k - 1
  BY CapacityAssumption, <1>4, <1>5 DEF Fills
<1>7. PICK r : Fills(r, 0) /\ Runs(One(B, row, n), c, One(B, r, 0), B)
  BY <1>1, <1>2, <1>4, <1>6, ClearsIs, OneClears
<1>8. IsSequence(cs) /\ Len(cs) = k /\ \A i \in 1..k : cs[i] = rowW[i - 1]
  BY <1>5, <1>6, ListsIs
<1>9. Alike(args, 1..k) /\ Len(args) = k /\ \A i \in 1..k : args[i] = Static!Slot(w, i - 1)
  <2>1. Alike(args, 1..k) /\ \A i \in 1..k : args[i] = Static!Slot(w, i - 1)
    BY <1>a DEF Alike
  <2> QED  BY <1>6, <2>1, AlikeSequence
<1>10. ASSUME NEW i \in 1..k PROVE Reads(B, r, args[i], cs[i])
  <2>1. PICK j \in 0..Capacity : j = i - 1 /\ j \in DOMAIN rowW
    BY <1>6
  <2>2. args[i] = Static!Slot(w, j) /\ j \in DOMAIN B.object[w] /\ cs[i] = B.object[w][j] /\ w \in Objects \ {B.v}
    BY <1>3, <1>4, <1>5, <1>8, <1>9, <2>1
  <2> QED  BY <2>2 DEF Reads
<1>11. PICK q : q = Pushed(r, 0, cs, k)
  OBVIOUS
<1>12. Fills(q, k) /\ Runs(One(B, r, 0), t, One(B, q, k), B)
  <2>1. 0 + k <= Capacity /\ 0 + k = k
    BY <1>6
  <2> QED  BY <1>2, <1>4, <1>6, <1>7, <1>9, <1>10, <1>11, <2>1, OnePushes
<1>13. Runs(One(B, row, n), c \o t, One(B, q, k), B)
  BY <1>7, <1>12, RunsConcat
<1>14. Lists(cs, q, k)
  BY <1>6, <1>8, <1>11, PushedOnly
<1> QED  BY <1>1, <1>3, <1>4, <1>12, <1>13, <1>14, StaticDone

-----------------------------------------------------------------------------
(* static_vector: erase.                                                   *)

\* What a move from slot j to slot i makes of a vector.
LEMMA MovedIs ==
    ASSUME NEW S, NEW T, NEW row, NEW r, Alike(row, S), Alike(r, T), NEW i, NEW j \in S, i \notin S,
           T = S \cup {i}, r[i] = row[j], r[j] = Moved, \A h \in S : h # j => r[h] = row[h]
    PROVE  Static!With(Static!With(row, j, Moved), i, row[j]) = r
<1>1. PICK q : q = [h \in S |-> r[h]]
  OBVIOUS
<1>2. Alike(q, S) /\ \A h \in S : q[h] = r[h]
  BY <1>1 DEF Alike
<1>3. Static!With(row, j, Moved) = q
  <2>1. S = S \cup {j} /\ q[j] = Moved /\ \A h \in S : h # j => q[h] = row[h]
    BY <1>2
  <2> QED  BY <1>2, <2>1, WithIs
<1>4. PICK x : x = row[j]
  OBVIOUS
<1>5. \A h \in S : h # i => r[h] = q[h]
  BY <1>2
<1>6. Static!With(q, i, x) = r
  BY <1>2, <1>4, <1>5, WithIs
<1> QED  BY <1>3, <1>4, <1>6

\* After k elements are moved num slots down, to p and what follows it.
Shrunk(row, n, p, num, k) ==
    [j \in 0..n - 1 |-> IF j < p THEN row[j] ELSE IF j < p + k THEN row[j + num]
                        ELSE IF j >= p + num /\ j < p + num + k THEN Moved ELSE row[j]]

ShrunkAs(row, n, p, num, k, r) ==
    /\ Alike(r, 0..n - 1)
    /\ \A j \in 0..n - 1 : r[j] = IF j < p THEN row[j] ELSE IF j < p + k THEN row[j + num]
                                  ELSE IF j >= p + num /\ j < p + num + k THEN Moved ELSE row[j]

LEMMA ShrunkIs ==
    ASSUME NEW row, NEW n, NEW p, NEW num, NEW k
    PROVE  ShrunkAs(row, n, p, num, k, Shrunk(row, n, p, num, k))
  BY DEF ShrunkAs, Shrunk, Alike

\* One more.
LEMMA ShrunkNext ==
    ASSUME NEW row, NEW n \in Nat, NEW p \in Nat, NEW num \in Nat, num # 0, NEW k \in Nat, p + k + num < n,
           NEW r, ShrunkAs(row, n, p, num, k, r), NEW q, ShrunkAs(row, n, p, num, k + 1, q)
    PROVE  \E mid : /\ mid = Static!Without(r, p + k) /\ Alike(mid, (0..n - 1) \ {p + k})
                    /\ Static!With(Static!With(mid, p + k + num, Moved), p + k, mid[p + k + num]) = q
<1>1. PICK i, j, S, T : i = p + k /\ j = p + k + num /\ S = (0..n - 1) \ {i} /\ T = 0..n - 1
  OBVIOUS
<1>2. i \in T /\ j \in S /\ i \notin S /\ T = S \cup {i} /\ i \in Nat /\ j = i + num
  BY <1>1
<1>3. PICK mid : mid = Part(r, S)
  OBVIOUS
<1>4. Alike(mid, S) /\ Alike(r, T) /\ \A h \in S : mid[h] = r[h]
  BY <1>1, <1>3, PartIs DEF ShrunkAs
<1>5. Static!Without(r, i) = mid
  <2>1. S = T \ {i}
    BY <1>1
  <2> QED  BY <1>4, <2>1, WithoutIs
<1>6. \A h \in T : r[h] = IF h < p THEN row[h] ELSE IF h < i THEN row[h + num]
                          ELSE IF h >= p + num /\ h < j THEN Moved ELSE row[h]
  <2>1. p + num + k = j
    BY <1>1
  <2> QED  BY <1>1, <2>1 DEF ShrunkAs
<1>7. \A h \in T : q[h] = IF h < p THEN row[h] ELSE IF h < i + 1 THEN row[h + num]
                          ELSE IF h >= p + num /\ h < j + 1 THEN Moved ELSE row[h]
  <2>1. p + num + (k + 1) = j + 1 /\ p + (k + 1) = i + 1
    BY <1>1
  <2> QED  BY <1>1, <2>1 DEF ShrunkAs
<1>8. mid[j] = row[j] /\ q[i] = row[i + num] /\ q[j] = Moved
  <2>1. j \in T /\ ~(j < p) /\ ~(j < i) /\ ~(j < j) /\ ~(j < i + 1) /\ j >= p + num /\ j < j + 1
    BY <1>1, <1>2
  <2>2. r[j] = row[j]
    BY <1>6, <2>1
  <2>3. q[j] = Moved
    BY <1>7, <2>1
  <2>4. i \in T /\ ~(i < p) /\ i < i + 1
    BY <1>1, <1>2
  <2>5. q[i] = row[i + num]
    BY <1>7, <2>4
  <2> QED  BY <1>2, <1>4, <2>2, <2>3, <2>5
<1>9. ASSUME NEW h \in S, h # j PROVE q[h] = mid[h]
  <2>1. h \in T /\ h \in Nat /\ h # i /\ (h < i + 1 <=> h < i) /\ (h < j + 1 <=> h < j)
    BY <1>1, <1>2, <1>9
  <2>2. q[h] = r[h]
    BY <1>6, <1>7, <2>1
  <2> QED  BY <1>4, <2>2
<1>10. Static!With(Static!With(mid, j, Moved), i, mid[j]) = q
  <2>1. q[i] = mid[j] /\ Alike(q, T)
    BY <1>1, <1>2, <1>8 DEF ShrunkAs
  <2>2. \A h \in S : h # j => q[h] = mid[h]
    BY <1>9
  <2>3. /\ Alike(mid, S) /\ Alike(q, T) /\ j \in S /\ i \notin S /\ T = S \cup {i}
        /\ q[i] = mid[j] /\ q[j] = Moved
    BY <1>2, <1>4, <1>8, <2>1
  <2> QED  BY <2>2, <2>3, MovedIs
<1> QED  BY <1>1, <1>4, <1>5, <1>10

\* The elements after the range move down.
MovesDown(v, p, num, k) == Static!FlattenSeq(
    [i \in 1..k |-> <<Static!Destroy(Static!Slot(v, p + (i - 1))),
                      Static!Move(Static!Slot(v, p + (i - 1)), Static!Slot(v, p + (i - 1) + num))>>])

LEMMA OneMovesDown ==
    ASSUME NEW B, IsCall(B), NEW row, NEW n, Fills(row, n), NEW p \in Nat, NEW num \in Nat, p + num <= n,
           num # 0 \/ p = n
    PROVE  Runs(One(B, row, n), MovesDown(B.v, p, num, n - num - p), One(B, Shrunk(row, n, p, num, n - num - p), n), B)
<1>0. n \in 0..Capacity /\ n \in Nat /\ Capacity \in Nat /\ Alike(row, 0..n - 1)
  BY CapacityAssumption DEF Fills, Alike
<1>k. PICK k \in Nat : k = n - num - p
  BY <1>0
<1> DEFINE g == [i \in 0..k |-> One(B, Shrunk(row, n, p, num, i), n)]
           body == [i \in 1..k |-> <<Static!Destroy(Static!Slot(B.v, p + (i - 1))),
                      Static!Move(Static!Slot(B.v, p + (i - 1)), Static!Slot(B.v, p + (i - 1) + num))>>]
<1>1. ASSUME NEW i \in 1..k PROVE Runs(g[i - 1], body[i], g[i], B)
  <2>a. PICK h \in Nat : h = i - 1
    OBVIOUS
  <2>0. PICK r, q : h \in Nat /\ h = i - 1 /\ r = Shrunk(row, n, p, num, i - 1) /\ q = Shrunk(row, n, p, num, i)
    BY <2>a
  <2>1. h + 1 = i /\ i - 1 \in 0..k /\ i \in 0..k /\ p + h + num < n
    BY <1>0, <1>k, <2>0
  <2>2. /\ g[i - 1] = One(B, r, n) /\ g[i] = One(B, q, n)
        /\ body[i] = <<Static!Destroy(Static!Slot(B.v, p + h)),
                       Static!Move(Static!Slot(B.v, p + h), Static!Slot(B.v, p + h + num))>>
    BY <2>0, <2>1
  <2> HIDE DEF g, body
  <2>3. ShrunkAs(row, n, p, num, h, r) /\ ShrunkAs(row, n, p, num, h + 1, q)
    BY <2>0, <2>1, ShrunkIs
  <2>4. num # 0
    BY <1>0, <2>1
  <2>5. PICK mid : /\ mid = Static!Without(r, p + h) /\ Alike(mid, (0..n - 1) \ {p + h})
                   /\ Static!With(Static!With(mid, p + h + num, Moved), p + h, mid[p + h + num]) = q
    BY <1>0, <2>1, <2>3, <2>4, ShrunkNext
  <2>6. PICK d, e : d = p + h /\ e = p + h + num
    OBVIOUS
  <2>7. d \in DOMAIN r /\ d \in 0..Capacity - 1 /\ d \notin DOMAIN mid /\ e \in 0..Capacity /\ e \in DOMAIN mid
    <3>1. DOMAIN r = 0..n - 1 /\ DOMAIN mid = (0..n - 1) \ {p + h}
      BY <2>3, <2>5, AlikeIs DEF ShrunkAs
    <3> QED  BY <1>0, <2>1, <2>4, <2>6, <3>1
  <2>8. Goes(One(B, r, n), Static!Destroy(Static!Slot(B.v, d)), One(B, mid, n), B)
    BY <2>5, <2>6, <2>7, OneDestroys
  <2>9. Goes(One(B, mid, n), Static!Move(Static!Slot(B.v, d), Static!Slot(B.v, e)), One(B, q, n), B)
    <3>1. Goes(One(B, mid, n), Static!Move(Static!Slot(B.v, d), Static!Slot(B.v, e)),
               One(B, Static!With(Static!With(mid, e, Moved), d, mid[e]), n), B)
      BY <2>7, OneMoves
    <3> QED  BY <2>5, <2>6, <3>1
  <2> QED  BY <2>2, <2>6, <2>8, <2>9, RunsTwo
<1>2. g[0] = One(B, row, n) /\ g[k] = One(B, Shrunk(row, n, p, num, k), n)
  <2>1. 0 \in 0..k /\ k \in 0..k
    BY <1>k
  <2>2. g[0] = One(B, Shrunk(row, n, p, num, 0), n) /\ g[k] = One(B, Shrunk(row, n, p, num, k), n)
    BY <2>1
  <2> HIDE DEF g
  <2>3. Shrunk(row, n, p, num, 0) = row
    <3>1. PICK r : r = Shrunk(row, n, p, num, 0) /\ ShrunkAs(row, n, p, num, 0, r)
      BY ShrunkIs
    <3>2. ASSUME NEW j \in 0..n - 1 PROVE r[j] = row[j]
      <4>1. (j < p + 0 => j < p) /\ ~(j >= p + num /\ j < p + num + 0)
        BY <1>0
      <4> QED  BY <3>1, <4>1 DEF ShrunkAs
    <3> QED  BY <1>0, <3>1, <3>2 DEF Alike, ShrunkAs
  <2> QED  BY <2>2, <2>3
<1>3. body = [i \in 1..k |-> body[i]]
  OBVIOUS
<1>4. MovesDown(B.v, p, num, k) = Static!FlattenSeq(body)
  BY DEF MovesDown
<1> HIDE DEF g, body
<1>5. Runs(g[0], Static!FlattenSeq(body), g[k], B)
  BY <1>0, <1>1, <1>3, RunsLoop
<1> QED  BY <1>k, <1>2, <1>4, <1>5

\* What is left of them is destroyed.
LEMMA OneShrinks ==
    ASSUME NEW B, IsCall(B), NEW row, NEW n, Fills(row, n), NEW p \in Nat, NEW num \in Nat, p + num <= n,
           num # 0 \/ p = n
    PROVE  \E r : /\ Fills(r, n - num)
                  /\ \A j \in 0..(n - num - 1) : r[j] = IF j < p THEN row[j] ELSE row[j + num]
                  /\ Runs(One(B, row, n), (MovesDown(B.v, p, num, n - num - p) \o Drops(B.v, n - num, num))
                             \o <<Static!Size(B.v, n - num)>>, One(B, r, n - num), B)
<1>0. n \in 0..Capacity /\ n \in Nat /\ Capacity \in Nat
  BY CapacityAssumption DEF Fills
<1>a. PICK k \in Nat, m \in Nat : k = n - num - p /\ m = n - num
  BY <1>0
<1>1. PICK q : /\ k \in Nat /\ m \in Nat /\ k = n - num - p /\ m = n - num
               /\ q = Shrunk(row, n, p, num, n - num - p)
  BY <1>a
<1>2. Runs(One(B, row, n), MovesDown(B.v, p, num, k), One(B, q, n), B)
  BY <1>1, OneMovesDown
<1>3. ShrunkAs(row, n, p, num, k, q)
  BY <1>1, ShrunkIs
<1>4. PICK r : r = Part(q, (0..n - 1) \ (m..(m + num - 1)))
  OBVIOUS
<1>5. Runs(One(B, q, n), Drops(B.v, m, num), One(B, r, n), B)
  <2>1. m..(m + num - 1) \subseteq 0..n - 1
    BY <1>0, <1>1
  <2>2. Alike(q, 0..n - 1)
    BY <1>3 DEF ShrunkAs
  <2> QED  BY <1>4, <2>1, <2>2, OneDrops
<1>6. Goes(One(B, r, n), Static!Size(B.v, m), One(B, r, m), B)
  BY OneSizes
<1>7. (0..n - 1) \ (m..(m + num - 1)) = 0..m - 1
  BY <1>0, <1>1
<1>8. Fills(r, m)
  <2>1. m \in 0..Capacity
    BY <1>0, <1>1
  <2>2. Alike(r, 0..m - 1)
    BY <1>4, <1>7, PartIs
  <2> QED  BY <2>1, <2>2, FillsIs
<1>9. ASSUME NEW j \in 0..m - 1 PROVE r[j] = IF j < p THEN row[j] ELSE row[j + num]
  <2>1. r[j] = q[j]
    BY <1>4, <1>7, PartIs
  <2>2. j \in 0..n - 1 /\ j < p + k
    BY <1>0, <1>1
  <2> QED  BY <1>3, <2>1, <2>2 DEF ShrunkAs
<1>10. Runs(One(B, row, n), (MovesDown(B.v, p, num, k) \o Drops(B.v, m, num)) \o <<Static!Size(B.v, m)>>,
            One(B, r, m), B)
  BY <1>2, <1>5, <1>6, RunsOne, RunsConcat
<1> QED  BY <1>1, <1>8, <1>9, <1>10

LEMMA ErasedLists ==
    ASSUME NEW cs, NEW row, NEW n \in Nat, Lists(cs, row, n), NEW p \in Nat, NEW num \in Nat, p + num <= n,
           NEW r, \A j \in 0..(n - num - 1) : r[j] = IF j < p THEN row[j] ELSE row[j + num]
    PROVE  Lists(SubSeq(cs, 1, p) \o SubSeq(cs, p + num + 1, n), r, n - num)
<1>1. IsSequence(cs) /\ Len(cs) = n /\ \A i \in 1..n : cs[i] = row[i - 1]
  BY ListsIs
<1>2. PICK a, b, k, m : /\ a = SubSeq(cs, 1, p) /\ b = SubSeq(cs, p + num + 1, n)
                        /\ k = n - (p + num + 1) + 1 /\ m = n - num
  OBVIOUS
<1>3. k \in Nat /\ m \in Nat /\ m = p + k /\ k = n - p - num
  BY <1>2
<1>4. IsSequence(a) /\ Len(a) = p /\ \A i \in 1..p : a[i] = cs[i]
  <2>1. 1 \in Nat /\ 1 <= p + 1 /\ p <= Len(cs) /\ p - 1 + 1 = p
    BY <1>1
  <2>2. IsSequence(a) /\ Len(a) = p - 1 + 1 /\ \A i \in 1..(p - 1 + 1) : a[i] = cs[1 + i - 1]
    BY <1>1, <1>2, <2>1, SubSequence
  <2>3. \A i \in 1..p : 1 + i - 1 = i
    OBVIOUS
  <2> QED  BY <2>1, <2>2, <2>3
<1>5. IsSequence(b) /\ Len(b) = k /\ \A i \in 1..k : b[i] = cs[p + num + i]
  <2>1. PICK h \in Nat : h = p + num + 1
    OBVIOUS
  <2>2. 1 <= h /\ h <= n + 1 /\ n <= Len(cs) /\ k = n - h + 1
    BY <1>1, <1>2, <2>1
  <2>3. IsSequence(b) /\ Len(b) = n - h + 1 /\ \A i \in 1..(n - h + 1) : b[i] = cs[h + i - 1]
    BY <1>1, <1>2, <2>1, <2>2, SubSequence
  <2>4. \A i \in 1..k : h + i - 1 = p + num + i
    BY <1>3, <2>1
  <2> QED  BY <2>2, <2>3, <2>4
<1>6. /\ IsSequence(a \o b) /\ Len(a \o b) = m
      /\ \A i \in 1..p : (a \o b)[i] = a[i]
      /\ \A i \in 1..k : (a \o b)[p + i] = b[i]
  <2>1. IsSequence(a) /\ IsSequence(b)
    BY <1>4, <1>5
  <2>2. /\ IsSequence(a \o b) /\ Len(a \o b) = Len(a) + Len(b)
        /\ \A i \in 1..Len(a) : (a \o b)[i] = a[i]
        /\ \A i \in 1..Len(b) : (a \o b)[Len(a) + i] = b[i]
    BY <2>1, ConcatIs
  <2>3. Len(a) = p /\ Len(b) = k
    BY <1>4, <1>5
  <2> QED  BY <1>3, <2>2, <2>3
<1>7. ASSUME NEW i \in 1..m PROVE (a \o b)[i] = r[i - 1]
  <2>1. CASE i <= p
    <3>1. i \in 1..p /\ i \in 1..n /\ i - 1 \in 0..m - 1 /\ i - 1 < p
      BY <1>2, <1>3, <2>1
    <3>2. (a \o b)[i] = row[i - 1]
      BY <1>1, <1>4, <1>6, <3>1
    <3>3. r[i - 1] = row[i - 1]
      BY <1>2, <3>1
    <3> QED  BY <3>2, <3>3
  <2>2. CASE ~(i <= p)
    <3>1. PICK h \in 1..k : i = p + h
      <4>1. i - p \in 1..k /\ i = p + (i - p)
        BY <1>3, <2>2
      <4> QED  BY <4>1
    <3>2. p + num + h \in 1..n /\ i - 1 \in 0..m - 1 /\ ~(i - 1 < p) /\ (p + num + h) - 1 = (i - 1) + num
      BY <1>2, <1>3, <3>1
    <3>3. (a \o b)[i] = row[(i - 1) + num]
      BY <1>1, <1>5, <1>6, <3>1, <3>2
    <3>4. r[i - 1] = row[(i - 1) + num]
      BY <1>2, <3>2
    <3> QED  BY <3>3, <3>4
  <2> QED  BY <2>1, <2>2
<1>8. PICK ab : ab = a \o b
  OBVIOUS
<1>9. IsSequence(ab) /\ Len(ab) = m /\ \A i \in 1..m : ab[i] = r[i - 1]
  BY <1>6, <1>7, <1>8
<1>10. Lists(ab, r, m)
  BY <1>3, <1>9, ListsIs
<1> QED  BY <1>2, <1>8, <1>10

\* The steps of shrink_at.
LEMMA shrink_atIs ==
    ASSUME NEW v, NEW p \in Nat, NEW num \in Nat, NEW n \in Nat, n = v_size[v], p + num <= n
    PROVE  /\ n = num => Static!shrink_at(v, p, num) = Static!Clears(v)
           /\ n # num => Static!shrink_at(v, p, num) = (MovesDown(v, p, num, n - num - p) \o Drops(v, n - num, num))
                                                          \o <<Static!Size(v, n - num)>>
<1>1. CASE n = num
  BY <1>1 DEF Static!shrink_at
<1>2. CASE n # num
  <2>1. \A i \in 1..num : n - num + (i - 1) = n - num + i - 1
    OBVIOUS
  <2>2. [i \in 1..num |-> Static!Destroy(Static!Slot(v, n - num + (i - 1)))] = Drops(v, n - num, num)
    BY <2>1 DEF Drops
  <2> QED  BY <1>2, <2>2 DEF Static!shrink_at, Static!Steps, MovesDown
<1> QED  BY <1>1, <1>2

\* An erase of no elements destroys the first of them that it moves.
LEMMA OneErasesNone ==
    ASSUME NEW B, IsCall(B), NEW row, NEW n, Fills(row, n), NEW p \in Nat, p < n, NEW tail, IsSequence(tail)
    PROVE  Halts(One(B, row, n), MovesDown(B.v, p, 0, n - 0 - p) \o tail, B)
<1>0. n \in Nat /\ Alike(row, 0..n - 1)
  BY DEF Fills, Alike
<1>1. PICK k \in Nat \ {0} : k = n - 0 - p
  BY <1>0
<1> DEFINE body == [i \in 1..k |-> <<Static!Destroy(Static!Slot(B.v, p + (i - 1))),
                      Static!Move(Static!Slot(B.v, p + (i - 1)), Static!Slot(B.v, p + (i - 1) + 0))>>]
<1>2. body = [i \in 1..k |-> body[i]] /\ \A i \in 1..k : IsSequence(body[i])
  BY TwoSequence
<1>3. MovesDown(B.v, p, 0, k) = Static!FlattenSeq(body)
  BY DEF MovesDown
<1>4. body[1] = <<Static!Destroy(Static!Slot(B.v, p)), Static!Move(Static!Slot(B.v, p), Static!Slot(B.v, p))>>
  <2>1. 1 \in 1..k /\ p + (1 - 1) = p /\ p + (1 - 1) + 0 = p
    OBVIOUS
  <2> QED  BY <2>1
<1> HIDE DEF body
<1>5. PICK r : r = Part(row, (0..n - 1) \ {p})
  OBVIOUS
<1>6. p \in DOMAIN row /\ p \notin DOMAIN r /\ Static!Without(row, p) = r
  <2>1. DOMAIN row = 0..n - 1 /\ DOMAIN r = (0..n - 1) \ {p} /\ Part(row, 0..n - 1) = row
    BY <1>0, <1>5, PartIs, PartAll, AlikeIs
  <2>2. Static!Without(Part(row, 0..n - 1), p) = r
    BY <1>5, WithoutPart
  <2> QED  BY <1>0, <2>1, <2>2
<1>7. Goes(One(B, row, n), Static!Destroy(Static!Slot(B.v, p)), One(B, r, n), B)
  BY <1>6, OneDestroys
<1>8. Stops(One(B, r, n), Static!Move(Static!Slot(B.v, p), Static!Slot(B.v, p)), B)
  BY <1>6, OneStopsMove
<1>9. Halts(One(B, row, n), body[1], B)
  BY <1>4, <1>7, <1>8, HaltsTwo
<1>10. Halts(One(B, row, n), MovesDown(B.v, p, 0, k), B)
  BY <1>2, <1>3, <1>9, HaltsLoop
<1> QED  BY <1>1, <1>10, HaltsEarlier

LEMMA eraseKeeps ==
    ASSUME StaticInv, NEW v \in Objects \ v_torn, NEW p \in 0..v_size[v], NEW num \in 0..v_size[v] - p, Static!erase(v, p, num)
    PROVE  StaticInv'
<1>1. PICK name, n, row, cs : /\ name = (IF num = 0 /\ p < v_size[v] THEN "erase none" ELSE "erase")
                              /\ n = v_size[v] /\ row = v_object[v] /\ cs = v_contents[v]
  OBVIOUS
<1>2. PICK B, s, xs : /\ B = Call(v, Tears(name)) /\ s = Static!shrink_at(v, p, num)
                      /\ xs = SubSeq(cs, 1, p) \o SubSeq(cs, p + num + 1, n)
  OBVIOUS
<1>3. Static!Run(v, name, s, xs)
  BY <1>1, <1>2 DEF Static!erase
<1>4. IsCall(B) /\ B.v = v /\ Fills(row, n) /\ Mem(v_object, v_size) = One(B, row, n) /\ Lists(cs, row, n)
  BY <1>1, <1>2, <1>3, StaticBefore DEF Static!Run
<1>5. n \in Nat /\ p \in Nat /\ num \in Nat /\ p + num <= n
  <2>1. n = v_size[v]
    BY <1>1
  <2>2. n \in Nat
    BY <1>4 DEF Fills
  <2> QED  BY <2>1, <2>2
<1>6. CASE n = num
  <2>0. s = Clearing(v, n)
    <3>1. n = v_size[v] /\ s = Static!shrink_at(v, p, num)
      BY <1>1, <1>2
    <3>2. s = Static!Clears(v)
      BY <1>5, <1>6, <3>1, shrink_atIs
    <3> QED  BY <1>5, <3>1, <3>2, ClearsIs
  <2>1. PICK r : Fills(r, 0) /\ Runs(One(B, row, n), s, One(B, r, 0), B)
    BY <1>4, <2>0, OneClears
  <2>2. Lists(xs, r, 0)
    <3>1. n - num = 0 /\ \A j \in 0..(n - num - 1) : r[j] = IF j < p THEN row[j] ELSE row[j + num]
      BY <1>5, <1>6
    <3>2. Lists(xs, r, n - num)
      BY <1>2, <1>4, <1>5, <3>1, ErasedLists
    <3> QED  BY <3>1, <3>2
  <2> QED  BY <1>2, <1>3, <1>4, <2>1, <2>2, StaticDone
<1>7. CASE n # num /\ num = 0 /\ p < n
  <2>1. PICK d, e : d = Drops(v, n - 0, 0) /\ e = <<Static!Size(v, n - 0)>>
    OBVIOUS
  <2>2. IsSequence(d) /\ IsSequence(e) /\ s = (MovesDown(v, p, 0, n - 0 - p) \o d) \o e
    <3>1. IsSequence(d)
      BY <2>1, DropsIs, SequenceIs
    <3>2. IsSequence(e)
      BY <2>1, OneSequence
    <3>3. n # num /\ n = v_size[v] /\ p + num <= n /\ s = Static!shrink_at(v, p, num)
      BY <1>1, <1>2, <1>5, <1>7
    <3>4. Static!shrink_at(v, p, num) = (MovesDown(v, p, num, n - num - p) \o Drops(v, n - num, num))
                                            \o <<Static!Size(v, n - num)>>
      BY <1>5, <3>3, shrink_atIs
    <3>5. s = (MovesDown(v, p, 0, n - 0 - p) \o d) \o e
      BY <1>7, <2>1, <3>3, <3>4
    <3> QED  BY <3>1, <3>2, <3>5
  <2>3. Halts(One(B, row, n), MovesDown(v, p, 0, n - 0 - p) \o d, B)
    BY <1>4, <1>5, <1>7, <2>2, OneErasesNone
  <2>4. Halts(One(B, row, n), s, B)
    BY <2>2, <2>3, HaltsEarlier
  <2>5. name = "erase none" /\ MayFail(name)
    BY <1>1, <1>7 DEF MayFail
  <2>6. \E result : Static!Do(v, name, s, result)
    BY <1>3 DEF Static!Run
  <2> QED  BY <1>2, <1>4, <2>4, <2>5, <2>6, StaticHalts
<1>8. CASE n # num /\ ~(num = 0 /\ p < n)
  <2>1. num # 0 \/ p = n
    BY <1>5, <1>8
  <2>2. s = (MovesDown(v, p, num, n - num - p) \o Drops(v, n - num, num)) \o <<Static!Size(v, n - num)>>
    BY <1>1, <1>2, <1>5, <1>8, shrink_atIs
  <2>3. PICK r : /\ Fills(r, n - num)
                 /\ \A j \in 0..(n - num - 1) : r[j] = IF j < p THEN row[j] ELSE row[j + num]
                 /\ Runs(One(B, row, n), s, One(B, r, n - num), B)
    BY <1>4, <1>5, <2>1, <2>2, OneShrinks
  <2>4. Lists(xs, r, n - num)
    BY <1>2, <1>4, <1>5, <2>3, ErasedLists
  <2> QED  BY <1>2, <1>3, <1>4, <2>3, <2>4, StaticDone
<1> QED  BY <1>6, <1>7, <1>8

-----------------------------------------------------------------------------
(* static_vector: insert.                                                  *)

\* The slots that are in use when the last k of n elements have moved up.
Parted(n, by, k) == (0..n - k - 1) \cup (n - k + by..n + by - 1)

Grown(row, n, by, k) == [j \in Parted(n, by, k) |-> IF j < n - k THEN row[j] ELSE row[j - by]]

GrownAs(row, n, by, k, r) ==
    /\ Alike(r, Parted(n, by, k))
    /\ \A j \in Parted(n, by, k) : r[j] = IF j < n - k THEN row[j] ELSE row[j - by]

LEMMA GrownIs ==
    ASSUME NEW row, NEW n, NEW by, NEW k
    PROVE  GrownAs(row, n, by, k, Grown(row, n, by, k))
<1>1. PICK S : S = Parted(n, by, k)
  OBVIOUS
<1>2. /\ Alike(Grown(row, n, by, k), S)
      /\ \A j \in S : Grown(row, n, by, k)[j] = IF j < n - k THEN row[j] ELSE row[j - by]
  BY <1>1 DEF Grown, Alike
<1> QED  BY <1>1, <1>2 DEF GrownAs

\* One more.
LEMMA GrownNext ==
    ASSUME NEW row, NEW n \in Nat, NEW by \in Nat, by # 0, NEW k \in Nat, k < n,
           NEW r, GrownAs(row, n, by, k, r), NEW q, GrownAs(row, n, by, k + 1, q)
    PROVE  \E mid : /\ Static!With(Static!With(r, n - k - 1, Moved), n - k - 1 + by, r[n - k - 1]) = mid
                    /\ n - k - 1 \in DOMAIN mid /\ Static!Without(mid, n - k - 1) = q
<1>1. PICK i, j, S, T : i = n - k - 1 /\ j = n - k - 1 + by /\ S = Parted(n, by, k) /\ T = Parted(n, by, k + 1)
  OBVIOUS
<1>2. i \in Nat /\ j = i + by /\ i \in S /\ j \notin S /\ T = (S \cup {j}) \ {i} /\ j # i /\ i + 1 = n - k /\ i = n - (k + 1)
  <2>1. S = (0..i) \cup (j + 1..n + by - 1) /\ i \in Nat
    BY <1>1 DEF Parted
  <2>2. T = (0..i - 1) \cup (j..n + by - 1)
    BY <1>1 DEF Parted
  <2>3. j \in Nat /\ i < j /\ j <= n + by - 1
    BY <1>1
  <2>4. i \in S /\ j \notin S
    BY <2>1, <2>3
  <2>5. T = (S \cup {j}) \ {i}
    BY <2>1, <2>2, <2>3
  <2>6. j = i + by /\ j # i /\ i + 1 = n - k /\ i = n - (k + 1)
    BY <1>1
  <2> QED  BY <2>1, <2>4, <2>5, <2>6
<1>3. Alike(r, S) /\ \A h \in S : r[h] = IF h < n - k THEN row[h] ELSE row[h - by]
  BY <1>1 DEF GrownAs
<1>4. Alike(q, T) /\ \A h \in T : q[h] = IF h < n - (k + 1) THEN row[h] ELSE row[h - by]
  BY <1>1 DEF GrownAs
<1>5. PICK mid : mid = [h \in S \cup {j} |-> IF h = i THEN Moved ELSE IF h = j THEN r[i] ELSE r[h]]
  OBVIOUS
<1>6. Alike(mid, S \cup {j}) /\ mid[i] = Moved /\ mid[j] = r[i] /\ \A h \in S : h # i => mid[h] = r[h]
  BY <1>2, <1>5 DEF Alike
<1>7. Static!With(Static!With(r, i, Moved), j, r[i]) = mid
  <2>1. PICK U : U = S \cup {j}
    OBVIOUS
  <2>2. /\ Alike(r, S) /\ Alike(mid, U) /\ i \in S /\ j \notin S /\ U = S \cup {j}
        /\ mid[j] = r[i] /\ mid[i] = Moved /\ \A h \in S : h # i => mid[h] = r[h]
    BY <1>2, <1>3, <1>6, <2>1
  <2> QED  BY <2>2, MovedIs
<1>8. ASSUME NEW h \in T PROVE q[h] = mid[h]
  <2>1. CASE h = j
    <3>1. q[j] = row[j - by] /\ j - by = i
      <4>1. ~(j < n - (k + 1)) /\ j - by = i
        BY <1>1, <1>2
      <4> QED  BY <1>4, <2>1, <4>1
    <3>2. r[i] = row[i]
      <4>1. i < n - k
        BY <1>2
      <4> QED  BY <1>2, <1>3, <4>1
    <3> QED  BY <1>6, <2>1, <3>1, <3>2
  <2>2. CASE h # j
    <3>1. h \in S /\ h # i
      BY <1>2, <2>2
    <3>2. h \in Nat /\ (h < n - k <=> h < n - (k + 1))
      <4>1. h \in Nat
        BY <1>1, <1>2, <3>1 DEF Parted
      <4> QED  BY <1>2, <3>1, <4>1
    <3>3. q[h] = r[h]
      BY <1>3, <1>4, <3>1, <3>2
    <3> QED  BY <1>6, <3>1, <3>3
  <2> QED  BY <2>1, <2>2
<1>9. i \in DOMAIN mid /\ Static!Without(mid, i) = q
  <2>1. PICK U : U = S \cup {j} /\ T = U \ {i} /\ i \in U
    BY <1>2
  <2>2. Alike(mid, U) /\ \A h \in T : q[h] = mid[h]
    BY <1>6, <1>8, <2>1
  <2>3. Static!Without(mid, i) = q
    BY <1>4, <2>1, <2>2, WithoutIs
  <2> QED  BY <2>1, <2>2, <2>3, AlikeIs
<1> QED  BY <1>1, <1>7, <1>9

\* The last k of n elements move up, the last one first.
MovesUp(v, n, by, k) == Static!FlattenSeq(
    [i \in 1..k |-> <<Static!Move(Static!Slot(v, n - 1 - (i - 1) + by), Static!Slot(v, n - 1 - (i - 1))),
                      Static!Destroy(Static!Slot(v, n - 1 - (i - 1)))>>])

LEMMA OneMovesUp ==
    ASSUME NEW B, IsCall(B), NEW row, NEW n, Fills(row, n), NEW by \in Nat, by # 0, n + by <= Capacity, NEW k \in 0..n
    PROVE  Runs(One(B, row, n), MovesUp(B.v, n, by, k), One(B, Grown(row, n, by, k), n), B)
<1>0. n \in 0..Capacity /\ n \in Nat /\ Capacity \in Nat /\ k \in Nat /\ Alike(row, 0..n - 1)
  BY CapacityAssumption DEF Fills, Alike
<1> DEFINE g == [i \in 0..k |-> One(B, Grown(row, n, by, i), n)]
           body == [i \in 1..k |-> <<Static!Move(Static!Slot(B.v, n - 1 - (i - 1) + by), Static!Slot(B.v, n - 1 - (i - 1))),
                      Static!Destroy(Static!Slot(B.v, n - 1 - (i - 1)))>>]
<1>1. ASSUME NEW i \in 1..k PROVE Runs(g[i - 1], body[i], g[i], B)
  <2>z. PICK h \in Nat : h = i - 1
    OBVIOUS
  <2>0. PICK r, q, d, e : /\ h \in Nat /\ h = i - 1
                          /\ r = Grown(row, n, by, i - 1) /\ q = Grown(row, n, by, i)
                          /\ d = n - 1 - (i - 1) /\ e = n - 1 - (i - 1) + by
    BY <2>z
  <2>1. h + 1 = i /\ i - 1 \in 0..k /\ i \in 0..k /\ h < n /\ d = n - h - 1 /\ e = d + by
    BY <1>0, <2>0
  <2>2. /\ g[i - 1] = One(B, r, n) /\ g[i] = One(B, q, n)
        /\ body[i] = <<Static!Move(Static!Slot(B.v, e), Static!Slot(B.v, d)), Static!Destroy(Static!Slot(B.v, d))>>
    BY <2>0, <2>1
  <2> HIDE DEF g, body
  <2>3. GrownAs(row, n, by, h, r) /\ GrownAs(row, n, by, h + 1, q)
    BY <2>0, <2>1, GrownIs
  <2>4. PICK mid : /\ Static!With(Static!With(r, d, Moved), e, r[d]) = mid
                   /\ d \in DOMAIN mid /\ Static!Without(mid, d) = q
    <3>1. \E mid : /\ Static!With(Static!With(r, n - h - 1, Moved), n - h - 1 + by, r[n - h - 1]) = mid
                   /\ n - h - 1 \in DOMAIN mid /\ Static!Without(mid, n - h - 1) = q
      BY <1>0, <2>1, <2>3, GrownNext
    <3>2. e = n - h - 1 + by
      BY <2>1
    <3> QED  BY <2>1, <3>1, <3>2
  <2>5. e \notin DOMAIN r /\ e \in 0..Capacity - 1 /\ d \in 0..Capacity /\ d \in DOMAIN r
    <3>1. DOMAIN r = (0..n - h - 1) \cup (n - h + by..n + by - 1)
      BY <2>3, AlikeIs DEF GrownAs, Parted
    <3>2. e \in Nat /\ d \in Nat /\ d <= n - h - 1 /\ e > n - h - 1 /\ e < n - h + by /\ e < n + by
      BY <1>0, <2>1
    <3> QED  BY <1>0, <3>1, <3>2
  <2>6. Goes(One(B, r, n), Static!Move(Static!Slot(B.v, e), Static!Slot(B.v, d)), One(B, mid, n), B)
    <3>1. Goes(One(B, r, n), Static!Move(Static!Slot(B.v, e), Static!Slot(B.v, d)),
               One(B, Static!With(Static!With(r, d, Moved), e, r[d]), n), B)
      BY <2>5, OneMoves
    <3> QED  BY <2>1, <2>4, <3>1
  <2>7. Goes(One(B, mid, n), Static!Destroy(Static!Slot(B.v, d)), One(B, q, n), B)
    BY <2>4, OneDestroys
  <2> QED  BY <2>2, <2>6, <2>7, RunsTwo
<1>2. g[0] = One(B, row, n) /\ g[k] = One(B, Grown(row, n, by, k), n)
  <2>1. 0 \in 0..k /\ k \in 0..k
    BY <1>0
  <2>2. g[0] = One(B, Grown(row, n, by, 0), n) /\ g[k] = One(B, Grown(row, n, by, k), n)
    BY <2>1
  <2> HIDE DEF g
  <2>3. Grown(row, n, by, 0) = row
    <3>1. PICK r : r = Grown(row, n, by, 0) /\ GrownAs(row, n, by, 0, r)
      BY GrownIs
    <3>2. Parted(n, by, 0) = 0..n - 1
      BY <1>0 DEF Parted
    <3>3. \A j \in 0..n - 1 : r[j] = row[j]
      <4>1. \A j \in 0..n - 1 : j < n - 0
        BY <1>0
      <4> QED  BY <3>1, <3>2, <4>1 DEF GrownAs
    <3> QED  BY <1>0, <3>1, <3>2, <3>3 DEF Alike, GrownAs
  <2> QED  BY <2>2, <2>3
<1>3. body = [i \in 1..k |-> body[i]]
  OBVIOUS
<1>4. MovesUp(B.v, n, by, k) = Static!FlattenSeq(body)
  BY DEF MovesUp
<1> HIDE DEF g, body
<1>5. Runs(g[0], Static!FlattenSeq(body), g[k], B)
  BY <1>0, <1>1, <1>3, RunsLoop
<1> QED  BY <1>2, <1>4, <1>5

\* The slots that are in use when k of the values xs are copied into the hole.
Patched(n, p, by, k) == (0..p + k - 1) \cup (p + by..n + by - 1)

Hole(row, n, p, by, xs, k) ==
    [j \in Patched(n, p, by, k) |-> IF j < p THEN row[j] ELSE IF j < p + k THEN xs[j - p + 1] ELSE row[j - by]]

HoleAs(row, n, p, by, xs, k, r) ==
    /\ Alike(r, Patched(n, p, by, k))
    /\ \A j \in Patched(n, p, by, k) :
          r[j] = IF j < p THEN row[j] ELSE IF j < p + k THEN xs[j - p + 1] ELSE row[j - by]

LEMMA HoleIs ==
    ASSUME NEW row, NEW n, NEW p, NEW by, NEW xs, NEW k
    PROVE  HoleAs(row, n, p, by, xs, k, Hole(row, n, p, by, xs, k))
<1>1. PICK S : S = Patched(n, p, by, k)
  OBVIOUS
<1>2. /\ Alike(Hole(row, n, p, by, xs, k), S)
      /\ \A j \in S : Hole(row, n, p, by, xs, k)[j]
                         = IF j < p THEN row[j] ELSE IF j < p + k THEN xs[j - p + 1] ELSE row[j - by]
  BY <1>1 DEF Hole, Alike
<1> QED  BY <1>1, <1>2 DEF HoleAs

\* What is alive stays as it is while the hole is filled.
LEMMA HoleGrows ==
    ASSUME NEW row, NEW n \in Nat, NEW p \in 0..n, NEW by \in Nat, NEW xs, NEW k \in 0..by, NEW h \in 0..k,
           NEW r, HoleAs(row, n, p, by, xs, h, r), NEW q, HoleAs(row, n, p, by, xs, k, q)
    PROVE  \A j \in DOMAIN r : j \in DOMAIN q /\ q[j] = r[j]
<1>1. PICK S, T : S = Patched(n, p, by, h) /\ T = Patched(n, p, by, k)
  OBVIOUS
<1>2. DOMAIN r = S /\ DOMAIN q = T
  BY <1>1, AlikeIs DEF HoleAs
<1>3. ASSUME NEW j \in S PROVE j \in T /\ q[j] = r[j]
  <2>1. j \in Nat /\ j \in T /\ (j < p \/ (j < p + h /\ j < p + k) \/ (~(j < p + h) /\ ~(j < p + k)))
    BY <1>1 DEF Patched
  <2>2. r[j] = IF j < p THEN row[j] ELSE IF j < p + h THEN xs[j - p + 1] ELSE row[j - by]
    BY <1>1 DEF HoleAs
  <2>3. q[j] = IF j < p THEN row[j] ELSE IF j < p + k THEN xs[j - p + 1] ELSE row[j - by]
    BY <1>1, <2>1 DEF HoleAs
  <2> QED  BY <2>1, <2>2, <2>3
<1> QED  BY <1>2, <1>3

\* One more.
LEMMA HoleNext ==
    ASSUME NEW row, NEW n \in Nat, NEW p \in 0..n, NEW by \in Nat, NEW xs, NEW k \in 0..by - 1,
           NEW r, HoleAs(row, n, p, by, xs, k, r), NEW q, HoleAs(row, n, p, by, xs, k + 1, q)
    PROVE  p + k \notin DOMAIN r /\ Static!With(r, p + k, xs[k + 1]) = q
<1>1. PICK i, S, T, x : i = p + k /\ S = Patched(n, p, by, k) /\ T = Patched(n, p, by, k + 1) /\ x = xs[k + 1]
  OBVIOUS
<1>2. i \notin S /\ i \in T /\ T = S \cup {i}
  BY <1>1 DEF Patched
<1>3. Alike(r, S) /\ Alike(q, T)
  BY <1>1 DEF HoleAs
<1>4. q[i] = x
  <2>1. ~(i < p) /\ i < p + (k + 1) /\ i - p + 1 = k + 1
    BY <1>1
  <2>2. q[i] = IF i < p THEN row[i] ELSE IF i < p + (k + 1) THEN xs[i - p + 1] ELSE row[i - by]
    BY <1>1, <1>2 DEF HoleAs
  <2> QED  BY <1>1, <2>1, <2>2
<1>5. \A j \in S : j # i => q[j] = r[j]
  <2>1. k \in 0..k + 1 /\ k + 1 \in 0..by
    OBVIOUS
  <2>2. \A j \in DOMAIN r : j \in DOMAIN q /\ q[j] = r[j]
    BY <2>1, HoleGrows
  <2> QED  BY <1>3, <2>2, AlikeIs
<1>6. Static!With(r, i, x) = q
  BY <1>2, <1>3, <1>4, <1>5, WithIs
<1> QED  BY <1>1, <1>2, <1>3, <1>6, AlikeIs

\* by copies, from slot p on.
Copies(v, p, args, by) == [i \in 1..by |-> Static!Copy(Static!Slot(v, p + (i - 1)), args[(i - 1) + 1])]

LEMMA ReadsMore ==
    ASSUME NEW B, NEW r, NEW q, \A j \in DOMAIN r : j \in DOMAIN q /\ q[j] = r[j], NEW a, NEW x, Reads(B, r, a, x)
    PROVE  Reads(B, q, a, x)
  BY DEF Reads

LEMMA OneFills ==
    ASSUME NEW B, IsCall(B), B.tears, NEW row, NEW n \in Nat, NEW p \in 0..n, NEW by \in Nat, n + by <= Capacity,
           NEW m \in Nat, NEW args, NEW xs, \A i \in 1..by : Reads(B, Hole(row, n, p, by, xs, 0), args[i], xs[i])
    PROVE  Runs(One(B, Hole(row, n, p, by, xs, 0), m), Copies(B.v, p, args, by),
                One(B, Hole(row, n, p, by, xs, by), m), B)
<1> DEFINE g == [i \in 0..by |-> One(B, Hole(row, n, p, by, xs, i), m)]
           s == Copies(B.v, p, args, by)
<1>0. Capacity \in Nat
  BY CapacityAssumption
<1>1. ASSUME NEW i \in 1..by PROVE Goes(g[i - 1], s[i], g[i], B)
  <2>0. PICK h, first, r, q, d : /\ h = i - 1 /\ first = Hole(row, n, p, by, xs, 0)
                                 /\ r = Hole(row, n, p, by, xs, i - 1) /\ q = Hole(row, n, p, by, xs, i)
                                 /\ d = p + (i - 1)
    OBVIOUS
  <2>1. h \in 0..by - 1 /\ h \in 0..by /\ 0 \in 0..h /\ h + 1 = i /\ i \in 0..by /\ d = p + h /\ d \in 0..Capacity - 1
    BY <1>0, <2>0
  <2>2. g[i - 1] = One(B, r, m) /\ g[i] = One(B, q, m) /\ s[i] = Static!Copy(Static!Slot(B.v, d), args[i])
    <3>1. (i - 1) + 1 = i /\ i - 1 \in 0..by
      OBVIOUS
    <3> QED  BY <2>0, <2>1, <3>1 DEF Copies
  <2> HIDE DEF g, s
  <2>3. HoleAs(row, n, p, by, xs, h, r) /\ HoleAs(row, n, p, by, xs, h + 1, q) /\ HoleAs(row, n, p, by, xs, 0, first)
    BY <2>0, <2>1, HoleIs
  <2>4. d \notin DOMAIN r /\ Static!With(r, d, xs[i]) = q
    BY <2>1, <2>3, HoleNext
  <2>5. Reads(B, r, args[i], xs[i])
    <3>1. \A j \in DOMAIN first : j \in DOMAIN r /\ r[j] = first[j]
      BY <2>1, <2>3, HoleGrows
    <3>2. Reads(B, first, args[i], xs[i])
      BY <2>0
    <3> QED  BY <3>1, <3>2, ReadsMore
  <2>6. Goes(One(B, r, m), Static!Copy(Static!Slot(B.v, d), args[i]), One(B, Static!With(r, d, xs[i]), m), B)
    BY <2>1, <2>4, <2>5, OneCopies
  <2> QED  BY <2>2, <2>4, <2>6
<1>2. g[0] = One(B, Hole(row, n, p, by, xs, 0), m) /\ g[by] = One(B, Hole(row, n, p, by, xs, by), m)
  <2>1. 0 \in 0..by /\ by \in 0..by
    OBVIOUS
  <2> QED  BY <2>1
<1>3. s = [i \in 1..by |-> s[i]]
  BY DEF Copies
<1> HIDE DEF g, s
<1>4. Runs(g[0], s, g[by], B)
  BY <1>1, <1>3, RunsEach
<1> QED  BY <1>2, <1>4 DEF s

\* The steps of grow_at make the hole.
LEMMA OneGrows ==
    ASSUME NEW B, IsCall(B), NEW row, NEW n, Fills(row, n), n = v_size[B.v], NEW p \in 0..n,
           NEW by \in Nat, n + by <= Capacity, NEW xs
    PROVE  Runs(One(B, row, n), Static!grow_at(B.v, p, by), One(B, Hole(row, n, p, by, xs, 0), n + by), B)
<1>0. n \in 0..Capacity /\ n \in Nat /\ Capacity \in Nat /\ p \in Nat /\ Alike(row, 0..n - 1)
  BY CapacityAssumption DEF Fills, Alike
<1>1. PICK r : r = Hole(row, n, p, by, xs, 0) /\ HoleAs(row, n, p, by, xs, 0, r)
  BY HoleIs
<1>2. CASE by = 0
  <2>1. r = row
    <3>1. Patched(n, p, by, 0) = 0..n - 1
      BY <1>0, <1>2 DEF Patched
    <3>2. ASSUME NEW j \in 0..n - 1 PROVE r[j] = row[j]
      <4>1. j - by = j /\ (j < p + 0 => j < p)
        BY <1>0, <1>2
      <4> QED  BY <1>1, <3>1, <4>1 DEF HoleAs
    <3> QED  BY <1>0, <1>1, <3>1, <3>2 DEF HoleAs, Alike
  <2>2. Static!grow_at(B.v, p, by) = <<>>
    BY <1>2 DEF Static!grow_at
  <2>3. n + by = n
    BY <1>0, <1>2
  <2> QED  BY <1>1, <2>1, <2>2, <2>3, RunsNone
<1>3. CASE by # 0
  <2>1. PICK k, m, q : k = n - p /\ m = n + by /\ q = Grown(row, n, by, n - p)
    OBVIOUS
  <2>2. k \in 0..n /\ n - k = p
    BY <1>0, <2>1
  <2>3. Runs(One(B, row, n), MovesUp(B.v, n, by, k), One(B, q, n), B)
    BY <1>3, <2>1, <2>2, OneMovesUp
  <2>4. Goes(One(B, q, n), Static!Size(B.v, m), One(B, q, m), B)
    BY OneSizes
  <2>5. Runs(One(B, row, n), MovesUp(B.v, n, by, k) \o <<Static!Size(B.v, m)>>, One(B, q, m), B)
    BY <2>3, <2>4, RunsOne, RunsConcat
  <2>6. Static!grow_at(B.v, p, by) = MovesUp(B.v, n, by, k) \o <<Static!Size(B.v, m)>>
    BY <1>3, <2>1 DEF Static!grow_at, Static!Steps, MovesUp
  <2>7. q = r
    <3>1. GrownAs(row, n, by, k, q)
      BY <2>1, GrownIs
    <3>2. Parted(n, by, k) = Patched(n, p, by, 0)
      <4>1. n - k - 1 = p + 0 - 1 /\ n - k + by = p + by
        BY <1>0, <2>2
      <4> QED  BY <4>1 DEF Parted, Patched
    <3>3. PICK S : S = Patched(n, p, by, 0)
      OBVIOUS
    <3>4. ASSUME NEW j \in S PROVE q[j] = r[j]
      <4>1. j < n - k <=> j < p
        BY <2>2
      <4>2. j \in Int
        BY <1>0, <3>3 DEF Patched
      <4>3. j < p + 0 <=> j < p
        BY <1>0, <4>2
      <4>4. q[j] = IF j < p THEN row[j] ELSE row[j - by]
        BY <3>1, <3>2, <3>3, <4>1 DEF GrownAs
      <4>5. r[j] = IF j < p THEN row[j] ELSE row[j - by]
        BY <1>1, <3>3, <4>3 DEF HoleAs
      <4> QED  BY <4>4, <4>5
    <3>5. Alike(q, S) /\ Alike(r, S)
      BY <1>1, <3>1, <3>2, <3>3 DEF GrownAs, HoleAs
    <3> QED  BY <3>4, <3>5 DEF Alike
  <2> QED  BY <1>1, <2>1, <2>5, <2>6, <2>7
<1> QED  BY <1>2, <1>3

LEMMA InsertedLists ==
    ASSUME NEW cs, NEW row, NEW n \in Nat, Lists(cs, row, n), NEW p \in 0..n, NEW by \in Nat,
           NEW xs, IsSequence(xs), Len(xs) = by
    PROVE  Lists((SubSeq(cs, 1, p) \o xs) \o SubSeq(cs, p + 1, n), Hole(row, n, p, by, xs, by), n + by)
<1>1. IsSequence(cs) /\ Len(cs) = n /\ \A i \in 1..n : cs[i] = row[i - 1]
  BY ListsIs
<1>2. PICK a, b, k, m, r : /\ a = SubSeq(cs, 1, p) /\ b = SubSeq(cs, p + 1, n) /\ k = n - p /\ m = n + by
                           /\ r = Hole(row, n, p, by, xs, by)
  OBVIOUS
<1>3. k \in Nat /\ m \in Nat /\ p \in Nat /\ p + by \in Nat /\ m = (p + by) + k
  BY <1>2
<1>4. IsSequence(a) /\ Len(a) = p /\ \A i \in 1..p : a[i] = cs[i]
  <2>1. 1 \in Nat /\ 1 <= p + 1 /\ p <= Len(cs) /\ p - 1 + 1 = p
    BY <1>1, <1>3
  <2>2. IsSequence(a) /\ Len(a) = p - 1 + 1 /\ \A i \in 1..(p - 1 + 1) : a[i] = cs[1 + i - 1]
    BY <1>1, <1>2, <1>3, <2>1, SubSequence
  <2>3. \A i \in 1..p : 1 + i - 1 = i
    BY <1>3
  <2> QED  BY <2>1, <2>2, <2>3
<1>5. IsSequence(b) /\ Len(b) = k /\ \A i \in 1..k : b[i] = cs[p + i]
  <2>1. PICK h \in Nat : h = p + 1
    BY <1>3
  <2>2. 1 <= h /\ h <= n + 1 /\ n <= Len(cs) /\ k = n - h + 1
    BY <1>1, <1>2, <1>3, <2>1
  <2>3. IsSequence(b) /\ Len(b) = n - h + 1 /\ \A i \in 1..(n - h + 1) : b[i] = cs[h + i - 1]
    BY <1>1, <1>2, <2>1, <2>2, SubSequence
  <2>4. \A i \in 1..k : h + i - 1 = p + i
    BY <1>3, <2>1
  <2> QED  BY <2>2, <2>3, <2>4
<1>6. PICK ax : ax = a \o xs
  OBVIOUS
<1>7. /\ IsSequence(ax) /\ Len(ax) = p + by
      /\ \A i \in 1..p : ax[i] = a[i]
      /\ \A i \in 1..by : ax[p + i] = xs[i]
  <2>1. IsSequence(a) /\ Len(a) = p
    BY <1>4
  <2>2. /\ IsSequence(a \o xs) /\ Len(a \o xs) = Len(a) + Len(xs)
        /\ \A i \in 1..Len(a) : (a \o xs)[i] = a[i]
        /\ \A i \in 1..Len(xs) : (a \o xs)[Len(a) + i] = xs[i]
    BY <2>1, ConcatIs
  <2> QED  BY <1>6, <2>1, <2>2
<1>8. PICK axb : axb = ax \o b
  OBVIOUS
<1>9. /\ IsSequence(axb) /\ Len(axb) = m
      /\ \A i \in 1..(p + by) : axb[i] = ax[i]
      /\ \A i \in 1..k : axb[(p + by) + i] = b[i]
  <2>1. IsSequence(ax) /\ IsSequence(b) /\ Len(ax) = p + by /\ Len(b) = k
    BY <1>5, <1>7
  <2>2. /\ IsSequence(ax \o b) /\ Len(ax \o b) = Len(ax) + Len(b)
        /\ \A i \in 1..Len(ax) : (ax \o b)[i] = ax[i]
        /\ \A i \in 1..Len(b) : (ax \o b)[Len(ax) + i] = b[i]
    BY <2>1, ConcatIs
  <2> QED  BY <1>3, <1>8, <2>1, <2>2
<1>10. /\ HoleAs(row, n, p, by, xs, by, r) /\ Patched(n, p, by, by) = 0..m - 1
  <2>1. Patched(n, p, by, by) = 0..m - 1
    BY <1>2, <1>3 DEF Patched
  <2> QED  BY <1>2, <2>1, HoleIs
<1>11. ASSUME NEW j \in 0..m - 1
       PROVE  r[j] = IF j < p THEN row[j] ELSE IF j < p + by THEN xs[j - p + 1] ELSE row[j - by]
  BY <1>10 DEF HoleAs
<1>12. ASSUME NEW i \in 1..m PROVE axb[i] = r[i - 1]
  <2>0. i - 1 \in 0..m - 1
    BY <1>3
  <2>1. CASE i <= p
    <3>1. i \in 1..p /\ i \in 1..(p + by) /\ i \in 1..n /\ i - 1 < p
      BY <1>3, <2>1
    <3>2. axb[i] = row[i - 1]
      BY <1>1, <1>4, <1>7, <1>9, <3>1
    <3>3. r[i - 1] = row[i - 1]
      BY <1>11, <2>0, <3>1
    <3> QED  BY <3>2, <3>3
  <2>2. CASE ~(i <= p) /\ i <= p + by
    <3>1. PICK h \in 1..by : i = p + h
      <4>1. i - p \in 1..by /\ i = p + (i - p)
        BY <1>3, <2>2
      <4> QED  BY <4>1
    <3>2. i \in 1..(p + by) /\ ~(i - 1 < p) /\ i - 1 < p + by /\ (i - 1) - p + 1 = h
      BY <1>3, <2>2, <3>1
    <3>3. axb[i] = xs[h]
      BY <1>7, <1>9, <3>1, <3>2
    <3>4. r[i - 1] = xs[h]
      BY <1>11, <2>0, <3>2
    <3> QED  BY <3>3, <3>4
  <2>3. CASE ~(i <= p + by)
    <3>1. PICK h \in 1..k : i = (p + by) + h
      <4>1. i - (p + by) \in 1..k /\ i = (p + by) + (i - (p + by))
        BY <1>3, <2>3
      <4> QED  BY <4>1
    <3>2. p + h \in 1..n /\ ~(i - 1 < p) /\ ~(i - 1 < p + by) /\ (i - 1) - by = (p + h) - 1
      BY <1>2, <1>3, <3>1
    <3>3. axb[i] = row[(p + h) - 1]
      BY <1>1, <1>5, <1>9, <3>1, <3>2
    <3>4. r[i - 1] = row[(i - 1) - by]
      BY <1>11, <2>0, <3>2
    <3> QED  BY <3>2, <3>3, <3>4
  <2> QED  BY <2>1, <2>2, <2>3
<1>13. IsSequence(axb) /\ Len(axb) = m
  BY <1>9
<1>14. Lists(axb, r, m)
  BY <1>3, <1>12, <1>13, ListsIs
<1> QED  BY <1>2, <1>6, <1>8, <1>14

\* Values, or one argument many times.
ArgumentsAre(v, args, n) ==
    /\ n \in Nat /\ Alike(args, 1..n)
    /\ \A i \in 1..n : args[i] \in Static!Arguments(v) /\ (args[i] \in Values \/ args[i] = args[1])

\* Arguments that are not moved away by an insert at p.
HasMoved(a, p) == a \notin Values /\ a[2] >= p
Seen(v, p, args, n) ==
    [i \in 1..n |-> IF HasMoved(args[i], p) THEN Static!Gone(v) ELSE args[i]]

\* An element that has not moved is read as it was.
LEMMA InsertReads ==
    ASSUME NEW B, NEW v \in Objects, B.v = v, NEW row, row = v_object[v], NEW n, Fills(row, n), n = v_size[v],
           Lists(v_contents[v], row, n), NEW p \in 0..n, NEW by \in Nat, n + by <= Capacity, NEW xs,
           NEW a \in Static!Arguments(v), ~HasMoved(a, p)
    PROVE  Reads(B, Hole(row, n, p, by, xs, 0), a, Static!ValueOf(v, a))
<1>0. n \in 0..Capacity /\ n \in Nat /\ Capacity \in Nat /\ p \in Nat
  BY CapacityAssumption DEF Fills
<1>1. CASE a \in Values
  BY <1>1 DEF Reads, Static!ValueOf
<1>2. CASE a \notin Values
  <2>1. PICK j \in 0..n - 1 : a = Static!Slot(v, j) /\ a[2] = j
    BY <1>2, SlotHas DEF Static!Arguments
  <2>2. PICK r : r = Hole(row, n, p, by, xs, 0) /\ HoleAs(row, n, p, by, xs, 0, r)
    BY HoleIs
  <2>3. DOMAIN r = Patched(n, p, by, 0)
    BY <2>2, AlikeIs DEF HoleAs
  <2>4. j \in Nat /\ j < n /\ j \in 0..Capacity /\ j < p
    BY <1>0, <1>2, <2>1 DEF HasMoved
  <2>5. j \in Patched(n, p, by, 0)
    BY <1>0, <2>4 DEF Patched
  <2>6. r[j] = row[j]
    BY <2>2, <2>4, <2>5 DEF HoleAs
  <2>7. j + 1 \in 1..n /\ (j + 1) - 1 = j
    BY <1>0, <2>4
  <2>8. v_contents[v][j + 1] = row[j]
    BY <2>7 DEF Lists
  <2>9. Static!ValueOf(v, a) = row[j]
    BY <1>2, <2>1, <2>8 DEF Static!ValueOf
  <2> QED  BY <2>1, <2>2, <2>3, <2>4, <2>5, <2>6, <2>9 DEF Reads
<1> QED  BY <1>1, <1>2

\* Where an element was that has moved, there is none.
LEMMA InsertMisreads ==
    ASSUME NEW row, NEW n \in Nat, NEW p \in 0..n, NEW by \in Nat, n + by <= Capacity, NEW xs
    PROVE  Capacity \notin DOMAIN Hole(row, n, p, by, xs, 0)
<1>1. DOMAIN Hole(row, n, p, by, xs, 0) = Patched(n, p, by, 0)
  BY HoleIs, AlikeIs DEF HoleAs
<1>2. Capacity \notin Patched(n, p, by, 0)
  BY CapacityAssumption DEF Patched
<1> QED  BY <1>1, <1>2

LEMMA InsertTears == Tears("insert") /\ Tears("insert own")
  BY DEF Tears

LEMMA insertKeeps ==
    ASSUME StaticInv, NEW v \in Objects \ v_torn, NEW p \in 0..v_size[v], NEW args, NEW by, ArgumentsAre(v, args, by),
           Static!insert(v, p, args)
    PROVE  StaticInv'
<1>0. by \in Nat /\ Alike(args, 1..by) /\ Len(args) = by
  BY AlikeSequence DEF ArgumentsAre
<1> DEFINE own == \E i \in 1..by : HasMoved(args[i], p)
           xs == [i \in 1..by |-> Static!ValueOf(v, args[i])]
           seen == Seen(v, p, args, by)
<1>1. PICK n, row, cs, s, t : /\ n = v_size[v] /\ row = v_object[v] /\ cs = v_contents[v]
                              /\ s = Static!grow_at(v, p, by) /\ t = Copies(v, p, seen, by)
  OBVIOUS
<1>a. t = [i \in 1..by |-> Static!Copy(Static!Slot(v, p + (i - 1)),
                                       IF HasMoved(args[(i - 1) + 1], p) THEN Static!Gone(v) ELSE args[(i - 1) + 1])]
  <2>1. ASSUME NEW i \in 1..by
        PROVE  seen[(i - 1) + 1] = IF HasMoved(args[(i - 1) + 1], p) THEN Static!Gone(v) ELSE args[(i - 1) + 1]
    <3>1. (i - 1) + 1 \in 1..by
      BY <1>0
    <3> QED  BY <3>1 DEF Seen
  <2> HIDE DEF seen
  <2> QED  BY <1>1, <2>1 DEF Copies
<1>2. /\ n + by <= Capacity
      /\ Static!Run(v, IF own THEN "insert own" ELSE "insert", s \o t, (SubSeq(cs, 1, p) \o xs) \o SubSeq(cs, p + 1, n))
  BY <1>0, <1>1, <1>a DEF Static!insert, Static!Steps, HasMoved
<1>f. n + by <= Capacity /\ by \in Nat
  BY <1>0, <1>2
<1>3. PICK name : name = IF own THEN "insert own" ELSE "insert"
  OBVIOUS
<1>4. PICK B, ys : B = Call(v, Tears(name)) /\ ys = xs
  OBVIOUS
<1>5. Static!Run(v, name, s \o t, (SubSeq(cs, 1, p) \o ys) \o SubSeq(cs, p + 1, n))
  BY <1>2, <1>3, <1>4
<1>6. /\ IsCall(B) /\ B.v = v /\ Fills(row, n) /\ Mem(v_object, v_size) = One(B, row, n) /\ Lists(cs, row, n)
      /\ B.tears
  <2>1. Tears(name)
    BY <1>3, InsertTears
  <2> QED  BY <1>1, <1>4, <1>5, <2>1, StaticBefore DEF Static!Run
<1>7. n \in Nat /\ p \in 0..n /\ Capacity \in Nat
  BY CapacityAssumption, <1>1, <1>6 DEF Fills
<1>8. Runs(One(B, row, n), s, One(B, Hole(row, n, p, by, ys, 0), n + by), B)
  BY <1>0, <1>1, <1>2, <1>6, <1>7, OneGrows
<1>9. CASE ~own
  <2>1. \A i \in 1..by : Reads(B, Hole(row, n, p, by, ys, 0), seen[i], ys[i])
    <3>1. ASSUME NEW i \in 1..by
          PROVE  Reads(B, Hole(row, n, p, by, ys, 0), args[i], Static!ValueOf(v, args[i])) /\ seen[i] = args[i]
      <4>1. args[i] \in Static!Arguments(v) /\ ~HasMoved(args[i], p)
        BY <1>9 DEF ArgumentsAre
      <4>2. seen[i] = args[i]
        BY <4>1 DEF Seen
      <4> QED  BY <1>0, <1>1, <1>2, <1>6, <1>7, <4>1, <4>2, InsertReads
    <3> QED  BY <1>4, <3>1
  <2>2. PICK r : r = Hole(row, n, p, by, ys, by)
    OBVIOUS
  <2>3. Runs(One(B, Hole(row, n, p, by, ys, 0), n + by), t, One(B, r, n + by), B)
    <3>1. n + by \in Nat
      BY <1>0, <1>7
    <3> HIDE DEF seen
    <3> QED  BY <1>0, <1>1, <1>2, <1>6, <1>7, <2>1, <2>2, <3>1, OneFills
  <2>4. Runs(One(B, row, n), s \o t, One(B, r, n + by), B)
    BY <1>8, <2>3, RunsConcat
  <2>5. Fills(r, n + by)
    <3>1. HoleAs(row, n, p, by, ys, by, r)
      BY <2>2, HoleIs
    <3>2. Patched(n, p, by, by) = 0..(n + by) - 1
      BY <1>0, <1>7 DEF Patched
    <3>3. n + by \in 0..Capacity
      BY <1>f, <1>7
    <3> QED  BY <3>1, <3>2, <3>3, FillsIs DEF HoleAs
  <2>6. Lists((SubSeq(cs, 1, p) \o ys) \o SubSeq(cs, p + 1, n), r, n + by)
    <3>1. IsSequence(ys) /\ Len(ys) = by
      <4>1. Alike(ys, 1..by)
        BY <1>4 DEF Alike
      <4> QED  BY <1>0, <4>1, AlikeSequence
    <3> QED  BY <1>0, <1>6, <1>7, <2>2, <3>1, InsertedLists
  <2> HIDE DEF own, xs
  <2> QED  BY <1>4, <1>5, <1>6, <2>4, <2>5, <2>6, StaticDone
<1>10. CASE own
  <2>1. by # 0 /\ HasMoved(args[1], p)
    <3>1. PICK i \in 1..by : HasMoved(args[i], p)
      BY <1>10
    <3>2. args[1] = args[i]
      BY <3>1 DEF ArgumentsAre, HasMoved
    <3>3. by # 0
      OBVIOUS
    <3> QED  BY <3>1, <3>2, <3>3
  <2>3. seen[1] = Static!Slot(v, Capacity)
    <3>1. 1 \in 1..by
      BY <1>0, <2>1
    <3> QED  BY <2>1, <3>1 DEF Seen, Static!Gone
  <2> HIDE DEF seen, own, xs
  <2>4. Capacity \in 0..Capacity /\ Capacity \notin DOMAIN Hole(row, n, p, by, ys, 0)
    BY <1>f, <1>7, InsertMisreads
  <2>5. Stops(One(B, Hole(row, n, p, by, ys, 0), n + by), Static!Copy(Static!Slot(v, p + (1 - 1)), Static!Slot(v, Capacity)), B)
    <3>1. n + by \in Nat
      BY <1>0, <1>7
    <3> QED  BY <1>6, <2>4, <3>1, OneStopsCopy
  <2>6. Alike(t, 1..by) /\ t[1] = Static!Copy(Static!Slot(v, p + (1 - 1)), Static!Slot(v, Capacity))
    <3>1. 1 \in 1..by /\ (1 - 1) + 1 = 1
      BY <1>0, <2>1
    <3> QED  BY <1>1, <2>3, <3>1 DEF Copies, Alike
  <2>7. IsSequence(t) /\ Len(t) > 0
    BY <1>0, <2>1, <2>6, AlikeSequence
  <2>8. Halts(One(B, Hole(row, n, p, by, ys, 0), n + by), t, B)
    BY <2>5, <2>6, <2>7, HaltsNow
  <2>9. Halts(One(B, row, n), s \o t, B)
    BY <1>8, <2>8, HaltsConcat
  <2>10. MayFail(name)
    BY <1>3, <1>10 DEF MayFail
  <2>11. \E result : Static!Do(v, name, s \o t, result)
    BY <1>5 DEF Static!Run
  <2> HIDE DEF own, xs
  <2> QED  BY <1>4, <1>6, <2>9, <2>10, <2>11, StaticHalts
<1> QED  BY <1>9, <1>10

-----------------------------------------------------------------------------
(* static_vector: the functions of two vectors.                            *)

\* v and w have become what row, n, rowW and k say.
Pair(v, w) == [object |-> v_object, m_size |-> v_size, v |-> v, w |-> w]
PairResult(c, v, w, xs, ys) == c = [v_contents EXCEPT ![v] = xs, ![w] = ys]
PairMemory(o, z, v, w, row, n, rowW, k) ==
    o = [v_object EXCEPT ![v] = row, ![w] = rowW] /\ z = [v_size EXCEPT ![v] = n, ![w] = k]
Leaves(o, z, c) == v_object' = o /\ v_size' = z /\ v_contents' = c /\ v_fault' = "none" /\ v_torn' = v_torn

LEMMA HoldsTwo ==
    ASSUME StaticInv, v_fault = "none", NEW v \in Objects \ v_torn, NEW w \in Objects \ v_torn, v # w,
           NEW row, NEW n, Fills(row, n), NEW xs, Lists(xs, row, n),
           NEW rowW, NEW k, Fills(rowW, k), NEW ys, Lists(ys, rowW, k),
           NEW o, NEW z, PairMemory(o, z, v, w, row, n, rowW, k), NEW c, PairResult(c, v, w, xs, ys),
           Leaves(o, z, c)
    PROVE  StaticInv'
<1>1. v_object'[v] = row /\ v_size'[v] = n /\ v_contents'[v] = xs
  BY DEF StaticInv, PairMemory, PairResult, Leaves
<1>2. v_object'[w] = rowW /\ v_size'[w] = k /\ v_contents'[w] = ys
  BY DEF StaticInv, PairMemory, PairResult, Leaves
<1>3. ASSUME NEW u \in Objects \ {v, w}
      PROVE  v_object'[u] = v_object[u] /\ v_size'[u] = v_size[u] /\ v_contents'[u] = v_contents[u]
  BY DEF StaticInv, PairMemory, PairResult, Leaves
<1>4. ASSUME NEW u \in Objects \ v_torn PROVE Holds(u)'
  <2>1. CASE u = v
    BY <1>1, <2>1 DEF Holds, Fills, Lists
  <2>2. CASE u = w
    BY <1>2, <2>2 DEF Holds, Fills, Lists
  <2>3. CASE u # v /\ u # w
    <3>1. Holds(u)
      BY DEF StaticInv
    <3> QED  BY <1>3, <2>3, <3>1 DEF Holds, Fills
  <2> QED  BY <2>1, <2>2, <2>3
<1>5. /\ v_object' = [u \in Objects |-> v_object'[u]] /\ v_size' = [u \in Objects |-> v_size'[u]]
      /\ v_contents' = [u \in Objects |-> v_contents'[u]]
  BY DEF StaticInv, PairMemory, PairResult, Leaves
<1>6. v_fault' = "none" /\ v_torn' = v_torn
  BY DEF Leaves
<1>7. ASSUME NEW u \in Objects, u \in v_torn PROVE v_size'[u] \in Nat
  <2>1. v_size[u] \in Nat
    BY <1>7 DEF StaticInv
  <2> QED  BY <1>3, <1>7, <2>1
<1> QED  BY <1>4, <1>5, <1>6, <1>7 DEF StaticInv

\* A function that makes v and w what row, n, rowW and k say.
LEMMA StaticDoneTwo ==
    ASSUME StaticInv, NEW u \in Objects \ v_torn, NEW name, NEW steps, NEW result, Static!Do(u, name, steps, result),
           NEW v \in Objects \ v_torn, NEW w \in Objects \ v_torn, v # w, NEW P, P = Pair(v, w),
           NEW row, NEW n, Fills(row, n), NEW xs, Lists(xs, row, n),
           NEW rowW, NEW k, Fills(rowW, k), NEW ys, Lists(ys, rowW, k),
           PairResult(result, v, w, xs, ys),
           Runs(Mem(v_object, v_size), steps, Two(P, row, n, rowW, k), Call(u, Tears(name)))
    PROVE  StaticInv'
<1>1. PICK o, z : PairMemory(o, z, v, w, row, n, rowW, k) /\ Two(P, row, n, rowW, k) = Mem(o, z)
  BY DEF Two, Pair, PairMemory
<1>2. Runs(Mem(v_object, v_size), steps, Mem(o, z), Call(u, Tears(name)))
  BY <1>1
<1>3. \/ StaticInv'
      \/ /\ v_object' = o /\ v_size' = z /\ v_contents' = result
         /\ v_fault = "none" /\ v_fault' = "none" /\ v_torn' = v_torn
  BY <1>2, StaticRuns
<1>4. StaticInv' \/ (Leaves(o, z, result) /\ v_fault = "none")
  BY <1>3 DEF Leaves
<1> QED  BY <1>1, <1>4, HoldsTwo

LEMMA PairIs ==
    ASSUME StaticInv, v_fault = "none", NEW v \in Objects, NEW w \in Objects, v # w
    PROVE  /\ IsPair(Pair(v, w)) /\ Pair(v, w).v = v /\ Pair(v, w).w = w
           /\ Mem(v_object, v_size) = Two(Pair(v, w), v_object[v], v_size[v], v_object[w], v_size[w])
           /\ \A tears, r, n : One(Call(v, tears), r, n) = Two(Pair(v, w), r, n, v_object[w], v_size[w])
<1>0. PICK P : P = Pair(v, w)
  OBVIOUS
<1>1. P.v = v /\ P.w = w /\ P.object = v_object /\ P.m_size = v_size
  BY <1>0 DEF Pair
<1>2. v_object = [u \in Objects |-> v_object[u]] /\ v_size = [u \in Objects |-> v_size[u]]
  BY DEF StaticInv
<1>3. IsPair(P)
  BY <1>1, <1>2 DEF IsPair
<1>4. ASSUME NEW r, NEW n
      PROVE  /\ [v_object EXCEPT ![v] = r, ![w] = v_object[w]] = [v_object EXCEPT ![v] = r]
             /\ [v_size EXCEPT ![v] = n, ![w] = v_size[w]] = [v_size EXCEPT ![v] = n]
  BY <1>2
<1>5. ASSUME NEW tears, NEW r, NEW n
      PROVE  One(Call(v, tears), r, n) = Two(P, r, n, v_object[w], v_size[w])
  <2>1. PICK B : B = Call(v, tears)
    OBVIOUS
  <2>2. B.v = v /\ B.object = v_object /\ B.m_size = v_size
    BY <2>1 DEF Call
  <2>3. One(B, r, n) = Mem([v_object EXCEPT ![v] = r], [v_size EXCEPT ![v] = n])
    BY <2>2 DEF One
  <2>4. Two(P, r, n, v_object[w], v_size[w])
          = Mem([v_object EXCEPT ![v] = r, ![w] = v_object[w]], [v_size EXCEPT ![v] = n, ![w] = v_size[w]])
    BY <1>1 DEF Two
  <2> QED  BY <1>4, <2>1, <2>3, <2>4
<1>6. Mem(v_object, v_size) = Two(P, v_object[v], v_size[v], v_object[w], v_size[w])
  <2>1. v_object = [v_object EXCEPT ![v] = v_object[v]] /\ v_size = [v_size EXCEPT ![v] = v_size[v]]
    BY <1>2
  <2>2. One(Call(v, TRUE), v_object[v], v_size[v]) = Mem(v_object, v_size)
    BY <2>1 DEF One, Call
  <2> QED  BY <1>5, <2>2
<1> QED  BY <1>0, <1>1, <1>3, <1>5, <1>6

\* After k elements are moved, those of rowW.
Hollow(rowW, n, k) == [j \in 0..n - 1 |-> IF j < k THEN Moved ELSE rowW[j]]

LEMMA HollowIs ==
    ASSUME NEW rowW, NEW n, NEW k
    PROVE  /\ Alike(Hollow(rowW, n, k), 0..n - 1)
           /\ \A j \in 0..n - 1 : Hollow(rowW, n, k)[j] = IF j < k THEN Moved ELSE rowW[j]
  BY DEF Hollow, Alike

LEMMA HollowNext ==
    ASSUME NEW rowW, NEW n \in Nat, NEW k \in 0..n - 1
    PROVE  /\ k \notin DOMAIN Part(rowW, 0..k - 1) /\ k \in DOMAIN Hollow(rowW, n, k)
           /\ Static!With(Part(rowW, 0..k - 1), k, Hollow(rowW, n, k)[k]) = Part(rowW, 0..k)
           /\ Static!With(Hollow(rowW, n, k), k, Moved) = Hollow(rowW, n, k + 1)
<1>1. PICK p, q, e, f, S, T, U, x : /\ p = Part(rowW, 0..k - 1) /\ q = Part(rowW, 0..k) /\ e = Hollow(rowW, n, k)
                                    /\ f = Hollow(rowW, n, k + 1) /\ S = 0..k - 1 /\ T = 0..k /\ U = 0..n - 1
                                    /\ x = e[k]
  OBVIOUS
<1>2. Alike(p, S) /\ Alike(q, T) /\ \A j \in S : p[j] = rowW[j]
  BY <1>1, PartIs
<1>a. \A j \in T : q[j] = rowW[j]
  BY <1>1, PartIs
<1>3. Alike(e, U) /\ Alike(f, U) /\ \A j \in U : e[j] = IF j < k THEN Moved ELSE rowW[j]
  BY <1>1, HollowIs
<1>b. \A j \in U : f[j] = IF j < k + 1 THEN Moved ELSE rowW[j]
  BY <1>1, HollowIs
<1>4. T = S \cup {k} /\ k \notin S /\ k \in T /\ k \in U /\ U = U \cup {k} /\ S \subseteq T
  BY <1>1
<1>5. x = rowW[k] /\ f[k] = Moved
  <2>1. ~(k < k) /\ k < k + 1
    OBVIOUS
  <2> QED  BY <1>1, <1>3, <1>b, <1>4, <2>1
<1>6. Static!With(p, k, x) = q
  <2>1. q[k] = x /\ \A j \in S : j # k => q[j] = p[j]
    BY <1>2, <1>a, <1>4, <1>5
  <2>2. /\ Alike(p, S) /\ Alike(q, T) /\ T = S \cup {k} /\ q[k] = x
        /\ \A j \in S : j # k => q[j] = p[j]
    BY <1>2, <1>4, <2>1
  <2> QED  BY <2>2, WithIs
<1>7. Static!With(e, k, Moved) = f
  <2>1. \A j \in U : j # k => f[j] = e[j]
    <3>1. \A j \in U : j # k => (j < k + 1 <=> j < k)
      BY <1>1
    <3> QED  BY <1>3, <1>b, <3>1
  <2>2. PICK V : V = U
    OBVIOUS
  <2>3. /\ Alike(e, U) /\ Alike(f, V) /\ V = U \cup {k} /\ f[k] = Moved
        /\ \A j \in U : j # k => f[j] = e[j]
    BY <1>3, <1>4, <1>5, <2>1, <2>2
  <2> QED  BY <2>3, WithIs
<1>8. DOMAIN p = S /\ DOMAIN e = U
  BY <1>2, <1>3, AlikeIs
<1> QED  BY <1>1, <1>4, <1>6, <1>7, <1>8

\* The elements of w, all n of them, are moved to v.
Takes(v, w, n) == Static!FlattenSeq(
    [i \in 1..n |-> <<Static!Move(Static!Slot(v, i - 1), Static!Slot(w, i - 1)), Static!Size(v, i - 1 + 1)>>])

LEMMA TwoTakes ==
    ASSUME NEW P, IsPair(P), NEW row, Fills(row, 0), NEW rowW, NEW n, Fills(rowW, n), NEW B
    PROVE  Runs(Two(P, row, 0, rowW, n), Takes(P.v, P.w, n), Two(P, rowW, n, Hollow(rowW, n, n), n), B)
<1>0. n \in 0..Capacity /\ n \in Nat /\ Capacity \in Nat /\ Alike(rowW, 0..n - 1)
  BY CapacityAssumption DEF Fills, Alike
<1> DEFINE g == [i \in 0..n |-> Two(P, Part(rowW, 0..i - 1), i, Hollow(rowW, n, i), n)]
           body == [i \in 1..n |-> <<Static!Move(Static!Slot(P.v, i - 1), Static!Slot(P.w, i - 1)), Static!Size(P.v, i - 1 + 1)>>]
<1>1. ASSUME NEW i \in 1..n PROVE Runs(g[i - 1], body[i], g[i], B)
  <2>a. i - 1 \in 0..n - 1
    BY <1>0
  <2>0. PICK k \in 0..n - 1 : k = i - 1
    BY <2>a
  <2>1. k + 1 = i /\ i - 1 \in 0..n /\ i \in 0..n /\ k \in 0..Capacity - 1 /\ k \in 0..Capacity
    BY <1>0, <2>0
  <2>2. /\ g[i - 1] = Two(P, Part(rowW, 0..k - 1), k, Hollow(rowW, n, k), n)
        /\ g[i] = Two(P, Part(rowW, 0..k), k + 1, Hollow(rowW, n, k + 1), n)
        /\ body[i] = <<Static!Move(Static!Slot(P.v, k), Static!Slot(P.w, k)), Static!Size(P.v, k + 1)>>
    BY <2>0, <2>1
  <2> HIDE DEF g, body
  <2>3. PICK p, q, e, f : /\ p = Part(rowW, 0..k - 1) /\ q = Part(rowW, 0..k)
                          /\ e = Hollow(rowW, n, k) /\ f = Hollow(rowW, n, k + 1)
    OBVIOUS
  <2>4. k \notin DOMAIN p /\ k \in DOMAIN e /\ Static!With(p, k, e[k]) = q /\ Static!With(e, k, Moved) = f
    BY <1>0, <2>3, HollowNext
  <2>5. Goes(Two(P, p, k, e, n), Static!Move(Static!Slot(P.v, k), Static!Slot(P.w, k)), Two(P, q, k, f, n), B)
    <3>1. Goes(Two(P, p, k, e, n), Static!Move(Static!Slot(P.v, k), Static!Slot(P.w, k)),
               Two(P, Static!With(p, k, e[k]), k, Static!With(e, k, Moved), n), B)
      BY <2>1, <2>4, TwoGives
    <3> QED  BY <2>4, <3>1
  <2>6. Goes(Two(P, q, k, f, n), Static!Size(P.v, k + 1), Two(P, q, k + 1, f, n), B)
    BY TwoSizes
  <2> QED  BY <2>2, <2>3, <2>5, <2>6, RunsTwo
<1>2. g[0] = Two(P, row, 0, rowW, n) /\ g[n] = Two(P, rowW, n, Hollow(rowW, n, n), n)
  <2>1. 0 \in 0..n /\ n \in 0..n
    BY <1>0
  <2>2. /\ g[0] = Two(P, Part(rowW, 0..0 - 1), 0, Hollow(rowW, n, 0), n)
        /\ g[n] = Two(P, Part(rowW, 0..n - 1), n, Hollow(rowW, n, n), n)
    BY <2>1
  <2> HIDE DEF g
  <2>3. Part(rowW, 0..n - 1) = rowW
    BY <1>0, PartAll
  <2>4. Part(rowW, 0..0 - 1) = row
    <3>1. Alike(row, 0..0 - 1) /\ Alike(Part(rowW, 0..0 - 1), 0..0 - 1)
      BY FillsIs, PartIs
    <3>2. \A j \in 0..0 - 1 : FALSE
      OBVIOUS
    <3> QED  BY <3>1, <3>2 DEF Alike
  <2>5. Hollow(rowW, n, 0) = rowW
    <3>1. PICK e : e = Hollow(rowW, n, 0)
      OBVIOUS
    <3>2. Alike(e, 0..n - 1) /\ \A j \in 0..n - 1 : e[j] = IF j < 0 THEN Moved ELSE rowW[j]
      BY <3>1, HollowIs
    <3>3. \A j \in 0..n - 1 : ~(j < 0)
      BY <1>0
    <3> QED  BY <1>0, <3>1, <3>2, <3>3 DEF Alike
  <2> QED  BY <2>2, <2>3, <2>4, <2>5
<1>3. body = [i \in 1..n |-> body[i]]
  OBVIOUS
<1>4. Takes(P.v, P.w, n) = Static!FlattenSeq(body)
  BY DEF Takes
<1> HIDE DEF g, body
<1>5. Runs(g[0], Static!FlattenSeq(body), g[n], B)
  BY <1>0, <1>1, <1>3, RunsLoop
<1> QED  BY <1>2, <1>4, <1>5

LEMMA TakesNone ==
    ASSUME NEW v, NEW w, NEW m, NEW B
    PROVE  Runs(m, Takes(v, w, 0), m, B)
<1> DEFINE g == [i \in 0..0 |-> m]
           body == [i \in 1..0 |-> <<Static!Move(Static!Slot(v, i - 1), Static!Slot(w, i - 1)), Static!Size(v, i - 1 + 1)>>]
<1>1. \A i \in 1..0 : Runs(g[i - 1], body[i], g[i], B)
  <2>1. \A i \in 1..0 : FALSE
    OBVIOUS
  <2> QED  BY <2>1
<1>2. g[0] = m /\ body = [i \in 1..0 |-> body[i]] /\ 0 \in Nat
  OBVIOUS
<1>3. Takes(v, w, 0) = Static!FlattenSeq(body)
  BY DEF Takes
<1> HIDE DEF g, body
<1>4. Runs(g[0], Static!FlattenSeq(body), g[0], B)
  BY <1>1, <1>2, RunsLoop
<1> QED  BY <1>2, <1>3, <1>4

\* What a move assignment does, of a vector to itself and of another.
LEMMA MoveAssignIs ==
    ASSUME NEW v \in Objects, NEW w \in Objects, Static!MoveAssign(v, w),
           v_contents = [u \in Objects |-> v_contents[u]]
    PROVE  /\ w \notin v_torn
           /\ v = w => Static!Run(v, "move", (Static!Clears(v) \o Takes(v, v, 0)) \o <<Static!Size(v, 0)>>, <<>>)
           /\ v # w => \E c : /\ PairResult(c, v, w, v_contents[w], <<>>)
                              /\ Static!Do(v, "move", (Static!Clears(v) \o Takes(v, w, v_size[w])) \o Static!Clears(w), c)
<1>1. CASE v = w
  <2>1. [v_contents EXCEPT ![v] = <<>>, ![v] = <<>>] = [v_contents EXCEPT ![v] = <<>>]
    OBVIOUS
  <2> QED  BY <1>1, <2>1 DEF Static!MoveAssign, Static!Steps, Takes, Static!Run
<1>2. CASE v # w
  <2>1. PICK c : c = [v_contents EXCEPT ![v] = v_contents[w], ![w] = <<>>]
    OBVIOUS
  <2>2. /\ w \notin v_torn
        /\ Static!Do(v, "move", (Static!Clears(v) \o Takes(v, w, v_size[w])) \o Static!Clears(w), c)
    BY <1>2, <2>1 DEF Static!MoveAssign, Static!Steps, Takes
  <2> QED  BY <1>2, <2>1, <2>2 DEF PairResult
<1> QED  BY <1>1, <1>2

LEMMA MoveAssignSelf ==
    ASSUME StaticInv, NEW v \in Objects \ v_torn, NEW s,
           s = (Static!Clears(v) \o Takes(v, v, 0)) \o <<Static!Size(v, 0)>>, Static!Run(v, "move", s, <<>>)
    PROVE  StaticInv'
<1>2. PICK B, n, row : B = Call(v, Tears("move")) /\ n = v_size[v] /\ row = v_object[v]
  OBVIOUS
<1>3. IsCall(B) /\ B.v = v /\ Fills(row, n) /\ Mem(v_object, v_size) = One(B, row, n)
  BY <1>2, StaticBefore DEF Static!Run
<1>4. n \in Nat
  BY <1>3 DEF Fills
<1>5. PICK c : c = Static!Clears(v) /\ c = Clearing(v, n)
  BY <1>2, <1>4, ClearsIs
<1>6. PICK r : Fills(r, 0) /\ Runs(One(B, row, n), c, One(B, r, 0), B)
  BY <1>3, <1>5, OneClears
<1>7. Runs(One(B, r, 0), Takes(v, v, 0), One(B, r, 0), B)
  BY TakesNone
<1>8. Goes(One(B, r, 0), Static!Size(v, 0), One(B, r, 0), B)
  BY <1>3, OneSizes
<1>9. Runs(One(B, row, n), s, One(B, r, 0), B)
  <2>1. Runs(One(B, row, n), c \o Takes(v, v, 0), One(B, r, 0), B)
    BY <1>6, <1>7, RunsConcat
  <2>2. Runs(One(B, r, 0), <<Static!Size(v, 0)>>, One(B, r, 0), B)
    BY <1>8, RunsOne
  <2>3. Runs(One(B, row, n), (c \o Takes(v, v, 0)) \o <<Static!Size(v, 0)>>, One(B, r, 0), B)
    BY <2>1, <2>2, RunsConcat
  <2> QED  BY <1>5, <2>3
<1>10. Lists(<<>>, r, 0)
  BY NoSequence, ListsIs
<1> QED  BY <1>2, <1>3, <1>6, <1>9, <1>10, StaticDone

LEMMA MoveAssignOther ==
    ASSUME StaticInv, NEW v \in Objects \ v_torn, NEW w \in Objects, v # w, w \notin v_torn,
           NEW s, s = (Static!Clears(v) \o Takes(v, w, v_size[w])) \o Static!Clears(w),
           NEW res, PairResult(res, v, w, v_contents[w], <<>>), Static!Do(v, "move", s, res)
    PROVE  StaticInv'
<1>1. PICK B, n, row, k, rowW, P, cs : /\ B = Call(v, Tears("move")) /\ n = v_size[v] /\ row = v_object[v]
                                       /\ k = v_size[w] /\ rowW = v_object[w] /\ P = Pair(v, w) /\ cs = v_contents[w]
  OBVIOUS
<1>2. /\ IsCall(B) /\ B.v = v /\ Fills(row, n) /\ Mem(v_object, v_size) = One(B, row, n)
      /\ v_fault = "none" /\ v \notin v_torn
  BY <1>1, StaticBefore
<1>3. Fills(rowW, k) /\ Lists(cs, rowW, k)
  <2>1. Holds(w)
    BY <1>2 DEF StaticInv
  <2> QED  BY <1>1, <2>1 DEF Holds, Lists
<1>4. n \in Nat /\ k \in Nat
  BY <1>2, <1>3 DEF Fills
<1>5. PICK c, t, d : /\ c = Static!Clears(v) /\ c = Clearing(v, n) /\ t = Takes(v, w, k)
                     /\ d = Static!Clears(w) /\ d = Clearing(w, k)
  BY <1>1, <1>4, ClearsIs
<1>6. IsPair(P) /\ P.v = v /\ P.w = w /\ \A r, m : One(B, r, m) = Two(P, r, m, rowW, k)
  BY <1>1, <1>2, PairIs
<1>7. PICK r : Fills(r, 0) /\ Runs(One(B, row, n), c, One(B, r, 0), B)
  BY <1>2, <1>5, OneClears
<1>8. PICK e : e = Hollow(rowW, k, k)
  OBVIOUS
<1>9. Runs(Two(P, r, 0, rowW, k), t, Two(P, rowW, k, e, k), B)
  BY <1>3, <1>5, <1>6, <1>7, <1>8, TwoTakes
<1>10. Fills(e, k)
  BY <1>3, <1>8, HollowIs, FillsIs
<1>11. PICK q : Fills(q, 0) /\ Runs(Two(P, rowW, k, e, k), d, Two(P, rowW, k, q, 0), B)
  BY <1>5, <1>6, <1>10, TwoClears
<1>12. Runs(Mem(v_object, v_size), s, Two(P, rowW, k, q, 0), B)
  <2>1. Runs(Mem(v_object, v_size), c, Two(P, r, 0, rowW, k), B)
    BY <1>2, <1>6, <1>7
  <2>2. Runs(Mem(v_object, v_size), c \o t, Two(P, rowW, k, e, k), B)
    BY <1>9, <2>1, RunsConcat
  <2>3. Runs(Mem(v_object, v_size), (c \o t) \o d, Two(P, rowW, k, q, 0), B)
    BY <1>11, <2>2, RunsConcat
  <2> QED  BY <1>1, <1>5, <2>3
<1>13. Lists(<<>>, q, 0)
  BY NoSequence, ListsIs
<1>14. /\ v \in Objects \ v_torn /\ w \in Objects \ v_torn /\ PairResult(res, v, w, cs, <<>>)
       /\ Runs(Mem(v_object, v_size), s, Two(P, rowW, k, q, 0), Call(v, Tears("move")))
  BY <1>1, <1>2, <1>12
<1> QED  BY <1>1, <1>3, <1>11, <1>13, <1>14, StaticDoneTwo

LEMMA MoveAssignKeeps ==
    ASSUME StaticInv, NEW v \in Objects \ v_torn, NEW w \in Objects, Static!MoveAssign(v, w)
    PROVE  StaticInv'
<1>1. v_contents = [u \in Objects |-> v_contents[u]]
  BY DEF StaticInv, Static!MoveAssign, Static!Do
<1>2. CASE v = w
  BY <1>1, <1>2, MoveAssignIs, MoveAssignSelf
<1>3. CASE v # w
  <2>1. PICK c : /\ PairResult(c, v, w, v_contents[w], <<>>) /\ w \notin v_torn
                 /\ Static!Do(v, "move", (Static!Clears(v) \o Takes(v, w, v_size[w])) \o Static!Clears(w), c)
    BY <1>1, <1>3, MoveAssignIs
  <2> QED  BY <1>3, <2>1, MoveAssignOther
<1> QED  BY <1>2, <1>3

\* The first k of n elements are those of x, the others those of y.
Mixed(x, y, n, k) == [j \in 0..n - 1 |-> IF j < k THEN x[j] ELSE y[j]]

MixedAs(m, x, y, n, k) ==
    /\ Alike(m, 0..n - 1) /\ DOMAIN m = 0..n - 1
    /\ \A j \in 0..k - 1 : m[j] = x[j]
    /\ \A j \in k..n - 1 : m[j] = y[j]

LEMMA MixedIs ==
    ASSUME NEW x, NEW y, NEW n \in Nat, NEW k \in 0..n
    PROVE  MixedAs(Mixed(x, y, n, k), x, y, n, k)
<1>1. PICK m : m = Mixed(x, y, n, k)
  OBVIOUS
<1>2. m = [j \in 0..n - 1 |-> IF j < k THEN x[j] ELSE y[j]]
  BY <1>1 DEF Mixed
<1>3. Alike(m, 0..n - 1) /\ DOMAIN m = 0..n - 1
  BY <1>2 DEF Alike
<1>4. ASSUME NEW j \in 0..k - 1 PROVE m[j] = x[j]
  <2>1. j \in 0..n - 1 /\ j < k
    OBVIOUS
  <2> QED  BY <1>2, <2>1
<1>5. ASSUME NEW j \in k..n - 1 PROVE m[j] = y[j]
  <2>1. j \in 0..n - 1 /\ ~(j < k)
    OBVIOUS
  <2> QED  BY <1>2, <2>1
<1> QED  BY <1>1, <1>3, <1>4, <1>5 DEF MixedAs

MixedStep(p, q, x, y, k) == k \in DOMAIN p /\ p[k] = y[k] /\ Static!With(p, k, x[k]) = q

LEMMA MixedNext ==
    ASSUME NEW x, NEW y, NEW n \in Nat, NEW k \in 0..n - 1
    PROVE  MixedStep(Mixed(x, y, n, k), Mixed(x, y, n, k + 1), x, y, k)
<1>0. k \in 0..n /\ k + 1 \in 0..n /\ k \in 0..n - 1 /\ k \in k..n - 1 /\ k \in 0..(k + 1) - 1
  OBVIOUS
<1>1. PICK p, q, S, e : p = Mixed(x, y, n, k) /\ q = Mixed(x, y, n, k + 1) /\ S = 0..n - 1 /\ e = x[k]
  OBVIOUS
<1>a. MixedAs(p, x, y, n, k) /\ MixedAs(q, x, y, n, k + 1)
  BY <1>0, <1>1, MixedIs
<1>2. /\ Alike(p, S) /\ DOMAIN p = S /\ \A j \in 0..k - 1 : p[j] = x[j]
      /\ \A j \in k..n - 1 : p[j] = y[j]
  BY <1>1, <1>a DEF MixedAs
<1>3. /\ Alike(q, S) /\ \A j \in 0..(k + 1) - 1 : q[j] = x[j]
      /\ \A j \in k + 1..n - 1 : q[j] = y[j]
  BY <1>1, <1>a DEF MixedAs
<1>4. ASSUME NEW j \in S, j # k PROVE q[j] = p[j]
  <2>1. \/ j \in 0..k - 1 /\ j \in 0..(k + 1) - 1
        \/ j \in k..n - 1 /\ j \in k + 1..n - 1
    BY <1>1, <1>4
  <2> QED  BY <1>2, <1>3, <2>1
<1>5. PICK T : T = S
  OBVIOUS
<1>6. /\ Alike(p, S) /\ Alike(q, T) /\ T = S \cup {k} /\ q[k] = e
      /\ \A j \in S : j # k => q[j] = p[j]
  BY <1>0, <1>1, <1>2, <1>3, <1>4, <1>5
<1>7. Static!With(p, k, e) = q
  BY <1>6, WithIs
<1> QED  BY <1>0, <1>1, <1>2, <1>7 DEF MixedStep

\* The first n elements are exchanged.
Exchanges(v, w, n) == [i \in 1..n |-> Static!Exchange(Static!Slot(v, i - 1), Static!Slot(w, i - 1))]

LEMMA TwoExchangesAll ==
    ASSUME NEW P, IsPair(P), NEW a, NEW b, NEW n \in Nat, NEW k \in Nat, n <= k, k <= Capacity, Capacity \in Nat, NEW B
    PROVE  Runs(Two(P, Mixed(b, a, n, 0), n, Mixed(a, b, k, 0), k), Exchanges(P.v, P.w, n),
                Two(P, Mixed(b, a, n, n), n, Mixed(a, b, k, n), k), B)
<1> DEFINE g == [i \in 0..n |-> Two(P, Mixed(b, a, n, i), n, Mixed(a, b, k, i), k)]
           s == Exchanges(P.v, P.w, n)
<1>1. ASSUME NEW i \in 1..n PROVE Goes(g[i - 1], s[i], g[i], B)
  <2>a. i - 1 \in 0..n - 1
    OBVIOUS
  <2>0. PICK h \in 0..n - 1 : h = i - 1
    BY <2>a
  <2>1. h + 1 = i /\ h \in 0..n /\ h + 1 \in 0..n /\ h \in 0..k - 1 /\ h \in 0..Capacity
    BY <2>0
  <2>2. /\ g[i - 1] = Two(P, Mixed(b, a, n, h), n, Mixed(a, b, k, h), k)
        /\ g[i] = Two(P, Mixed(b, a, n, h + 1), n, Mixed(a, b, k, h + 1), k)
    BY <2>0, <2>1
  <2>3. s[i] = Static!Exchange(Static!Slot(P.v, h), Static!Slot(P.w, h))
    BY <2>0 DEF Exchanges
  <2> HIDE DEF g, s
  <2>4. PICK p, q, p1, q1 : /\ p = Mixed(b, a, n, h) /\ q = Mixed(a, b, k, h)
                            /\ p1 = Mixed(b, a, n, h + 1) /\ q1 = Mixed(a, b, k, h + 1)
    OBVIOUS
  <2>b. h \in 0..n - 1 /\ h \in 0..k - 1
    BY <2>0, <2>1
  <2>c. MixedStep(Mixed(b, a, n, h), Mixed(b, a, n, h + 1), b, a, h)
    BY <2>b, MixedNext
  <2>d. MixedStep(Mixed(a, b, k, h), Mixed(a, b, k, h + 1), a, b, h)
    BY <2>b, MixedNext
  <2>5. h \in DOMAIN p /\ p[h] = a[h] /\ Static!With(p, h, b[h]) = p1
    BY <2>4, <2>c DEF MixedStep
  <2>6. h \in DOMAIN q /\ q[h] = b[h] /\ Static!With(q, h, a[h]) = q1
    BY <2>4, <2>d DEF MixedStep
  <2>7. Goes(Two(P, p, n, q, k), Static!Exchange(Static!Slot(P.v, h), Static!Slot(P.w, h)),
             Two(P, Static!With(p, h, q[h]), n, Static!With(q, h, p[h]), k), B)
    BY <2>1, <2>5, <2>6, TwoExchanges
  <2> QED  BY <2>2, <2>3, <2>4, <2>5, <2>6, <2>7
<1>2. /\ g[0] = Two(P, Mixed(b, a, n, 0), n, Mixed(a, b, k, 0), k)
      /\ g[n] = Two(P, Mixed(b, a, n, n), n, Mixed(a, b, k, n), k)
  OBVIOUS
<1>3. s = [i \in 1..n |-> s[i]]
  BY DEF Exchanges
<1> HIDE DEF g, s
<1>4. Runs(g[0], s, g[n], B)
  BY <1>1, <1>3, RunsEach
<1> QED  BY <1>2, <1>4 DEF s

LEMMA WithHas ==
    ASSUME NEW row, NEW S, Alike(row, S), NEW j \in S, NEW x
    PROVE  /\ Alike(Static!With(row, j, x), S)
           /\ Static!Without(Static!With(row, j, x), j) = Part(row, S \ {j})
<1>1. DOMAIN row = S
  BY AlikeIs
<1>2. PICK r : r = Static!With(row, j, x)
  OBVIOUS
<1>3. r = [h \in S |-> IF h = j THEN x ELSE row[h]]
  <2>1. S \cup {j} = S
    OBVIOUS
  <2> QED  BY <1>1, <1>2, <2>1 DEF Static!With
<1>4. Alike(r, S) /\ \A h \in S \ {j} : r[h] = row[h]
  BY <1>3 DEF Alike
<1>5. PICK T, q : T = S \ {j} /\ q = Part(row, T)
  OBVIOUS
<1>6. Alike(q, T) /\ \A h \in T : q[h] = row[h]
  BY <1>5, PartIs
<1>7. Alike(r, S) /\ Alike(q, T) /\ T = S \ {j} /\ \A h \in T : q[h] = r[h]
  BY <1>4, <1>5, <1>6
<1>8. Static!Without(r, j) = q
  BY <1>7, WithoutIs
<1> QED  BY <1>2, <1>4, <1>5, <1>8

\* The m elements of w from n on are moved to the end of v, and destroyed.
Gives(v, w, n, m) == Static!FlattenSeq(
    [i \in 1..m |-> <<Static!Move(Static!Slot(v, n + (i - 1)), Static!Slot(w, n + (i - 1))),
                      Static!Size(v, n + (i - 1) + 1), Static!Destroy(Static!Slot(w, n + (i - 1)))>>])

\* One of them.
LEMMA TwoGivesOne ==
    ASSUME NEW P, IsPair(P), NEW b, NEW c, NEW j \in Nat, j < Capacity, Capacity \in Nat, NEW S, j \in S, c[j] = b[j],
           NEW k, NEW B
    PROVE  Runs(Two(P, Part(b, 0..j - 1), j, Part(c, S), k),
                <<Static!Move(Static!Slot(P.v, j), Static!Slot(P.w, j)), Static!Size(P.v, j + 1),
                  Static!Destroy(Static!Slot(P.w, j))>>,
                Two(P, Part(b, 0..j), j + 1, Part(c, S \ {j}), k), B)
<1>1. PICK p, q, p1, q1, q2, x, U, V : /\ p = Part(b, 0..j - 1) /\ q = Part(c, S) /\ p1 = Part(b, 0..j)
                                       /\ x = q[j] /\ q1 = Static!With(q, j, Moved) /\ q2 = Part(c, S \ {j})
                                       /\ U = 0..j - 1 /\ V = 0..j
  OBVIOUS
<1>2. j \in 0..Capacity - 1 /\ j \in 0..Capacity /\ V = U \cup {j} /\ j \notin U
  BY <1>1
<1>3. Alike(p, U) /\ Alike(p1, V) /\ \A h \in U : p[h] = b[h]
  BY <1>1, PartIs
<1>a. \A h \in V : p1[h] = b[h]
  BY <1>1, PartIs
<1>4. Alike(q, S) /\ x = c[j]
  BY <1>1, PartIs
<1>5. DOMAIN p = U /\ DOMAIN q = S
  BY <1>3, <1>4, AlikeIs
<1>6. Static!With(p, j, x) = p1
  <2>1. /\ Alike(p, U) /\ Alike(p1, V) /\ V = U \cup {j} /\ p1[j] = x
        /\ \A h \in U : h # j => p1[h] = p[h]
    BY <1>2, <1>3, <1>a, <1>4
  <2> QED  BY <2>1, WithIs
<1>7. Alike(q1, S) /\ Static!Without(q1, j) = q2
  <2>1. Alike(q1, S) /\ Static!Without(q1, j) = Part(q, S \ {j})
    BY <1>1, <1>4, WithHas
  <2>2. Part(q, S \ {j}) = q2
    <3>1. \A h \in S : q[h] = c[h]
      BY <1>1, PartIs
    <3> QED  BY <1>1, <3>1 DEF Part
  <2> QED  BY <2>1, <2>2
<1>8. j \in DOMAIN q1
  BY <1>7, AlikeIs
<1>9. Goes(Two(P, p, j, q, k), Static!Move(Static!Slot(P.v, j), Static!Slot(P.w, j)), Two(P, p1, j, q1, k), B)
  <2>1. j \notin DOMAIN p /\ j \in DOMAIN q
    BY <1>2, <1>5
  <2>2. Goes(Two(P, p, j, q, k), Static!Move(Static!Slot(P.v, j), Static!Slot(P.w, j)),
             Two(P, Static!With(p, j, q[j]), j, Static!With(q, j, Moved), k), B)
    BY <1>2, <2>1, TwoGives
  <2> QED  BY <1>1, <1>6, <2>2
<1>10. Goes(Two(P, p1, j, q1, k), Static!Size(P.v, j + 1), Two(P, p1, j + 1, q1, k), B)
  BY TwoSizes
<1>11. Goes(Two(P, p1, j + 1, q1, k), Static!Destroy(Static!Slot(P.w, j)), Two(P, p1, j + 1, q2, k), B)
  <2>1. PICK n : n = j + 1
    OBVIOUS
  <2>2. Goes(Two(P, p1, n, q1, k), Static!Destroy(Static!Slot(P.w, j)), Two(P, p1, n, Static!Without(q1, j), k), B)
    BY <1>8, TwoDestroys
  <2> QED  BY <1>7, <2>1, <2>2
<1> QED  BY <1>1, <1>9, <1>10, <1>11, RunsThree

LEMMA TwoGivesAll ==
    ASSUME NEW P, IsPair(P), NEW b, NEW n \in Nat, NEW k \in Nat, n <= k, k <= Capacity, Capacity \in Nat,
           NEW c, Alike(c, 0..k - 1), \A j \in n..k - 1 : c[j] = b[j], NEW B
    PROVE  Runs(Two(P, Part(b, 0..n - 1), n, c, k), Gives(P.v, P.w, n, k - n),
                Two(P, Part(b, 0..k - 1), k, Part(c, 0..n - 1), k), B)
<1>0. PICK m \in Nat : m = k - n
  OBVIOUS
<1> DEFINE Rest(i) == (0..k - 1) \ (n..(n + i - 1))
           g == [i \in 0..m |-> Two(P, Part(b, 0..(n + i - 1)), n + i, Part(c, Rest(i)), k)]
           body == [i \in 1..m |->
                      <<Static!Move(Static!Slot(P.v, n + (i - 1)), Static!Slot(P.w, n + (i - 1))),
                        Static!Size(P.v, n + (i - 1) + 1), Static!Destroy(Static!Slot(P.w, n + (i - 1)))>>]
<1>1. ASSUME NEW i \in 1..m PROVE Runs(g[i - 1], body[i], g[i], B)
  <2>1. PICK j \in Nat : j = n + (i - 1)
    OBVIOUS
  <2>2. /\ j < Capacity /\ j \in n..k - 1 /\ j \in Rest(i - 1) /\ Rest(i) = Rest(i - 1) \ {j}
        /\ n + (i - 1) = j /\ n + i = j + 1 /\ n + i - 1 = j /\ n + (i - 1) - 1 = j - 1
        /\ i - 1 \in 0..m /\ i \in 0..m
    <3> HIDE DEF g, body
    <3>1. /\ j < Capacity /\ j \in n..k - 1 /\ i - 1 \in 0..m /\ i \in 0..m
          /\ n + (i - 1) = j /\ n + i = j + 1 /\ n + i - 1 = j /\ n + (i - 1) - 1 = j - 1
      BY <1>0, <2>1
    <3>2. Rest(i - 1) = (0..k - 1) \ (n..j - 1) /\ Rest(i) = (0..k - 1) \ (n..j)
      BY <3>1
    <3>3. j \in 0..k - 1 /\ j \notin n..j - 1 /\ n..j = (n..j - 1) \cup {j}
      BY <3>1
    <3> QED  BY <3>1, <3>2, <3>3
  <2>3. /\ g[i - 1] = Two(P, Part(b, 0..j - 1), j, Part(c, Rest(i - 1)), k)
        /\ g[i] = Two(P, Part(b, 0..j), j + 1, Part(c, Rest(i)), k)
        /\ body[i] = <<Static!Move(Static!Slot(P.v, j), Static!Slot(P.w, j)), Static!Size(P.v, j + 1),
                       Static!Destroy(Static!Slot(P.w, j))>>
    BY <2>2
  <2> HIDE DEF g, body, Rest
  <2>4. PICK S : S = Rest(i - 1)
    OBVIOUS
  <2>5. j \in Nat /\ j < Capacity /\ j \in S /\ c[j] = b[j]
    BY <2>1, <2>2, <2>4
  <2>6. Runs(Two(P, Part(b, 0..j - 1), j, Part(c, S), k),
             <<Static!Move(Static!Slot(P.v, j), Static!Slot(P.w, j)), Static!Size(P.v, j + 1),
               Static!Destroy(Static!Slot(P.w, j))>>,
             Two(P, Part(b, 0..j), j + 1, Part(c, S \ {j}), k), B)
    BY <2>5, TwoGivesOne
  <2> QED  BY <2>2, <2>3, <2>4, <2>6
<1>2. /\ g[0] = Two(P, Part(b, 0..n - 1), n, c, k)
      /\ g[m] = Two(P, Part(b, 0..k - 1), k, Part(c, 0..n - 1), k)
  <2>1. /\ Rest(0) = 0..k - 1 /\ Rest(m) = 0..n - 1 /\ n + 0 = n /\ n + m = k /\ n + 0 - 1 = n - 1
        /\ n + m - 1 = k - 1 /\ 0 \in 0..m /\ m \in 0..m
    BY <1>0
  <2>2. /\ g[0] = Two(P, Part(b, 0..n - 1), n, Part(c, Rest(0)), k)
        /\ g[m] = Two(P, Part(b, 0..k - 1), k, Part(c, Rest(m)), k)
    BY <2>1
  <2> HIDE DEF g, Rest
  <2>3. Part(c, Rest(0)) = c
    BY <2>1, PartAll
  <2> QED  BY <2>1, <2>2, <2>3
<1>3. body = [i \in 1..m |-> body[i]]
  OBVIOUS
<1>4. Gives(P.v, P.w, n, m) = Static!FlattenSeq(body)
  BY DEF Gives
<1> HIDE DEF g, body
<1>5. Runs(g[0], Static!FlattenSeq(body), g[m], B)
  BY <1>1, <1>3, RunsLoop
<1> QED  BY <1>0, <1>2, <1>4, <1>5

LEMMA GivesNone ==
    ASSUME NEW v, NEW w, NEW n, NEW m, NEW B
    PROVE  Runs(m, Gives(v, w, n, 0), m, B)
<1> DEFINE g == [i \in 0..0 |-> m]
           body == [i \in 1..0 |->
                      <<Static!Move(Static!Slot(v, n + (i - 1)), Static!Slot(w, n + (i - 1))),
                        Static!Size(v, n + (i - 1) + 1), Static!Destroy(Static!Slot(w, n + (i - 1)))>>]
<1>1. \A i \in 1..0 : Runs(g[i - 1], body[i], g[i], B)
  <2>1. \A i \in 1..0 : FALSE
    OBVIOUS
  <2> QED  BY <2>1
<1>2. g[0] = m /\ body = [i \in 1..0 |-> body[i]] /\ 0 \in Nat
  OBVIOUS
<1>3. Gives(v, w, n, 0) = Static!FlattenSeq(body)
  BY DEF Gives
<1> HIDE DEF g, body
<1>4. Runs(g[0], Static!FlattenSeq(body), g[0], B)
  BY <1>1, <1>2, RunsLoop
<1> QED  BY <1>2, <1>3, <1>4

\* A swap of v, which has n elements, with w, which has k of them and no fewer.
Swapping(v, w, n, k) == (Exchanges(v, w, n) \o Gives(v, w, n, k - n)) \o <<Static!Size(w, n)>>

LEMMA TwoSwaps ==
    ASSUME NEW P, IsPair(P), NEW a, NEW n, Fills(a, n), NEW b, NEW k, Fills(b, k), n <= k, NEW B
    PROVE  Runs(Two(P, a, n, b, k), Swapping(P.v, P.w, n, k), Two(P, b, k, a, n), B)
<1>1. n \in Nat /\ k \in Nat /\ k <= Capacity /\ Capacity \in Nat /\ Alike(a, 0..n - 1) /\ Alike(b, 0..k - 1)
  BY CapacityAssumption, FillsIs
<1>2. PICK a0, b0, a1, b1 : /\ a0 = Mixed(b, a, n, 0) /\ b0 = Mixed(a, b, k, 0)
                            /\ a1 = Mixed(b, a, n, n) /\ b1 = Mixed(a, b, k, n)
  OBVIOUS
<1>3. /\ MixedAs(a0, b, a, n, 0) /\ MixedAs(b0, a, b, k, 0)
      /\ MixedAs(a1, b, a, n, n) /\ MixedAs(b1, a, b, k, n)
  <2>1. 0 \in 0..n /\ 0 \in 0..k /\ n \in 0..n /\ n \in 0..k
    BY <1>1
  <2> QED  BY <1>1, <1>2, <2>1, MixedIs
<1>4. a0 = a /\ b0 = b
  BY <1>1, <1>3 DEF MixedAs, Alike
<1>5. a1 = Part(b, 0..n - 1)
  <2>1. Alike(a1, 0..n - 1) /\ \A j \in 0..n - 1 : a1[j] = b[j]
    BY <1>3 DEF MixedAs
  <2> QED  BY <2>1 DEF Alike, Part
<1>6. Alike(b1, 0..k - 1) /\ \A j \in n..k - 1 : b1[j] = b[j]
  BY <1>3 DEF MixedAs
<1>7. Part(b1, 0..n - 1) = a
  <2>1. \A j \in 0..n - 1 : b1[j] = a[j]
    BY <1>3 DEF MixedAs
  <2> QED  BY <1>1, <2>1 DEF Alike, Part
<1>8. Part(b, 0..k - 1) = b
  BY <1>1, PartAll
<1>9. Runs(Two(P, a, n, b, k), Exchanges(P.v, P.w, n), Two(P, a1, n, b1, k), B)
  <2>1. Runs(Two(P, a0, n, b0, k), Exchanges(P.v, P.w, n), Two(P, a1, n, b1, k), B)
    BY <1>1, <1>2, TwoExchangesAll
  <2> QED  BY <1>4, <2>1
<1>10. Runs(Two(P, a1, n, b1, k), Gives(P.v, P.w, n, k - n), Two(P, b, k, a, k), B)
  <2>1. Runs(Two(P, Part(b, 0..n - 1), n, b1, k), Gives(P.v, P.w, n, k - n),
             Two(P, Part(b, 0..k - 1), k, Part(b1, 0..n - 1), k), B)
    BY <1>1, <1>6, TwoGivesAll
  <2> QED  BY <1>5, <1>7, <1>8, <2>1
<1>11. Runs(Two(P, b, k, a, k), <<Static!Size(P.w, n)>>, Two(P, b, k, a, n), B)
  BY TwoSizes, RunsOne
<1>12. Runs(Two(P, a, n, b, k), Exchanges(P.v, P.w, n) \o Gives(P.v, P.w, n, k - n), Two(P, b, k, a, k), B)
  BY <1>9, <1>10, RunsConcat
<1> QED  BY <1>11, <1>12, RunsConcat DEF Swapping

\* What a swap does: of one vector, of a shorter with a longer, and the other way.
LEMMA SwapSteps ==
    ASSUME NEW v, NEW w, Static!swap(v, w)
    PROVE  \E c : /\ w \notin v_torn /\ PairResult(c, v, w, v_contents[w], v_contents[v])
                  /\ v_size[w] > v_size[v] => Static!Do(v, "swap", Swapping(v, w, v_size[v], v_size[w]), c)
                  /\ ~(v_size[w] > v_size[v]) => Static!Do(v, "swap", Swapping(w, v, v_size[w], v_size[v]), c)
<1>1. PICK c : c = [v_contents EXCEPT ![v] = v_contents[w], ![w] = v_contents[v]]
  OBVIOUS
<1>2. PairResult(c, v, w, v_contents[w], v_contents[v])
  BY <1>1 DEF PairResult
<1>3. w \notin v_torn
  BY DEF Static!swap
<1>4. CASE v_size[w] > v_size[v]
  <2>1. Static!Do(v, "swap", Swapping(v, w, v_size[v], v_size[w]), c)
    BY <1>1, <1>4 DEF Static!swap, Static!Steps, Swapping, Exchanges, Gives
  <2> QED  BY <1>2, <1>3, <1>4, <2>1
<1>5. CASE ~(v_size[w] > v_size[v])
  <2>1. Static!Do(v, "swap", Swapping(w, v, v_size[w], v_size[v]), c)
    BY <1>1, <1>5 DEF Static!swap, Static!Steps, Swapping, Exchanges, Gives
  <2> QED  BY <1>2, <1>3, <1>5, <2>1
<1> QED  BY <1>4, <1>5

LEMMA PairResultAlso ==
    ASSUME v_contents = [u \in Objects |-> v_contents[u]], NEW v \in Objects, NEW w \in Objects, v # w,
           NEW c, NEW xs, NEW ys, PairResult(c, v, w, xs, ys)
    PROVE  PairResult(c, w, v, ys, xs)
  BY DEF PairResult

\* Of a vector with itself, nothing changes.
LEMMA SwapSelf ==
    ASSUME StaticInv, NEW v \in Objects \ v_torn, NEW c, PairResult(c, v, v, v_contents[v], v_contents[v]),
           NEW n, n = v_size[v], Static!Do(v, "swap", Swapping(v, v, n, n), c)
    PROVE  StaticInv'
<1>1. PICK B, row, xs, m : /\ B = Call(v, Tears("swap")) /\ row = v_object[v] /\ xs = v_contents[v]
                           /\ m = Mem(v_object, v_size)
  OBVIOUS
<1>2. /\ IsCall(B) /\ B.v = v /\ Fills(row, n) /\ Lists(xs, row, n) /\ m = One(B, row, n)
      /\ v_fault = "none" /\ v \notin v_torn
  BY <1>1, StaticBefore
<1>3. n \in Nat /\ n <= Capacity /\ Capacity \in Nat /\ Alike(row, 0..n - 1)
  BY <1>2, CapacityAssumption, FillsIs
<1>4. v_object = [u \in Objects |-> v_object[u]]
  BY <1>2 DEF StaticInv
<1>5. OnObjects(v_object)
  BY <1>4 DEF OnObjects
<1>6. PICK s : s = Exchanges(v, v, n)
  OBVIOUS
<1>7. Runs(m, s, m, B)
  <2> DEFINE g == [i \in 0..n |-> m]
  <2>1. ASSUME NEW i \in 1..n PROVE Goes(g[i - 1], s[i], g[i], B)
    <3>a. i - 1 \in 0..n - 1
      BY <1>3
    <3>1. PICK h \in 0..n - 1 : h = i - 1
      BY <3>a
    <3>2. g[i - 1] = m /\ g[i] = m
      BY <1>3
    <3>3. s[i] = Static!Exchange(Static!Slot(v, h), Static!Slot(v, h))
      BY <1>6, <3>1 DEF Exchanges
    <3>4. h \in 0..Capacity /\ h \in 0..n - 1
      BY <1>3, <3>1
    <3> HIDE DEF g
    <3>5. h \in DOMAIN row
      BY <1>3, <3>4, AlikeIs
    <3>6. row = Static!With(row, h, row[h])
      <4>1. PICK S, T, x : S = 0..n - 1 /\ T = S /\ x = row[h]
        OBVIOUS
      <4>2. Alike(row, S) /\ Alike(row, T) /\ T = S \cup {h} /\ row[h] = x /\ \A j \in S : j # h => row[j] = row[j]
        BY <1>3, <3>4, <4>1
      <4>3. Static!With(row, h, x) = row
        BY <4>2, WithIs
      <4> QED  BY <4>1, <4>3
    <3>7. Becomes(v_object, v_size, Static!Exchange(Static!Slot(v, h), Static!Slot(v, h)), Mem(v_object, v_size))
      BY <1>1, <1>5, <3>4, <3>5, <3>6, RowKeeps
    <3>8. m.object = v_object /\ m.m_size = v_size
      BY <1>1 DEF Mem
    <3> QED  BY <1>1, <3>2, <3>3, <3>7, <3>8, NoCopies DEF Becomes, Goes
  <2>2. g[0] = m /\ g[n] = m
    BY <1>3
  <2>3. s = [i \in 1..n |-> s[i]]
    BY <1>6 DEF Exchanges
  <2> HIDE DEF g
  <2>4. Runs(g[0], s, g[n], B)
    BY <1>3, <2>1, <2>3, RunsEach
  <2> QED  BY <2>2, <2>4
<1>8. Runs(m, Gives(v, v, n, n - n), m, B)
  <2>1. n - n = 0
    BY <1>3
  <2> QED  BY <2>1, GivesNone
<1>9. Runs(m, <<Static!Size(v, n)>>, m, B)
  BY <1>2, OneSizes, RunsOne
<1>10. Runs(m, Swapping(v, v, n, n), m, B)
  <2>1. Runs(m, s \o Gives(v, v, n, n - n), m, B)
    BY <1>7, <1>8, RunsConcat
  <2>2. Runs(m, (s \o Gives(v, v, n, n - n)) \o <<Static!Size(v, n)>>, m, B)
    BY <1>9, <2>1, RunsConcat
  <2> QED  BY <1>6, <2>2 DEF Swapping
<1>11. Static!Run(v, "swap", Swapping(v, v, n, n), xs)
  <2>1. c = [v_contents EXCEPT ![v] = xs]
    BY <1>1 DEF PairResult
  <2> QED  BY <2>1 DEF Static!Run
<1>12. Runs(Mem(v_object, v_size), Swapping(v, v, n, n), One(Call(v, Tears("swap")), row, n), Call(v, Tears("swap")))
  BY <1>1, <1>2, <1>10
<1> QED  BY <1>2, <1>11, <1>12, StaticDone

\* Of x, which is no longer than y.
LEMMA SwapOther ==
    ASSUME StaticInv, NEW u \in Objects \ v_torn, NEW x \in Objects \ v_torn, NEW y \in Objects \ v_torn, x # y,
           u = x \/ u = y, v_size[x] <= v_size[y],
           NEW c, PairResult(c, x, y, v_contents[y], v_contents[x]),
           NEW n, n = v_size[x], NEW k, k = v_size[y], Static!Do(u, "swap", Swapping(x, y, n, k), c)
    PROVE  StaticInv'
<1>1. PICK B, a, b, xs, ys, P : /\ B = Call(u, Tears("swap")) /\ a = v_object[x] /\ b = v_object[y]
                                /\ xs = v_contents[x] /\ ys = v_contents[y] /\ P = Pair(x, y)
  OBVIOUS
<1>2. v_fault = "none"
  BY StaticBefore
<1>3. Fills(a, n) /\ Lists(xs, a, n) /\ Fills(b, k) /\ Lists(ys, b, k)
  <2>1. Holds(x) /\ Holds(y)
    BY <1>2 DEF StaticInv
  <2> QED  BY <1>1, <2>1 DEF Holds, Lists
<1>4. IsPair(P) /\ P.v = x /\ P.w = y /\ Mem(v_object, v_size) = Two(P, a, n, b, k)
  BY <1>1, <1>2, PairIs
<1>5. Runs(Mem(v_object, v_size), Swapping(x, y, n, k), Two(P, b, k, a, n), B)
  BY <1>3, <1>4, TwoSwaps
<1>6. PairResult(c, x, y, ys, xs)
  BY <1>1
<1> QED  BY <1>1, <1>3, <1>5, <1>6, StaticDoneTwo

LEMMA swapKeeps ==
    ASSUME StaticInv, NEW v \in Objects \ v_torn, NEW w \in Objects, Static!swap(v, w)
    PROVE  StaticInv'
<1>1. PICK c : /\ w \notin v_torn /\ PairResult(c, v, w, v_contents[w], v_contents[v])
               /\ v_size[w] > v_size[v] => Static!Do(v, "swap", Swapping(v, w, v_size[v], v_size[w]), c)
               /\ ~(v_size[w] > v_size[v]) => Static!Do(v, "swap", Swapping(w, v, v_size[w], v_size[v]), c)
  BY SwapSteps
<1>2. v_fault = "none" /\ v \notin v_torn
  BY <1>1 DEF Static!Do
<1>3. v_size[v] \in Nat /\ v_size[w] \in Nat
  <2>1. Holds(v) /\ Holds(w)
    BY <1>1, <1>2 DEF StaticInv
  <2> QED  BY <2>1, CapacityAssumption DEF Holds, Fills
<1>4. v_contents = [u \in Objects |-> v_contents[u]]
  BY <1>2 DEF StaticInv
<1>5. CASE v = w
  <2>1. ~(v_size[w] > v_size[v])
    BY <1>3, <1>5
  <2> QED  BY <1>1, <1>5, <2>1, SwapSelf
<1>6. CASE v # w /\ v_size[w] > v_size[v]
  <2>1. v_size[v] <= v_size[w]
    BY <1>3, <1>6
  <2>2. v \in Objects \ v_torn /\ w \in Objects \ v_torn
    BY <1>1, <1>2
  <2> QED  BY <1>1, <1>6, <2>1, <2>2, SwapOther
<1>7. CASE v # w /\ ~(v_size[w] > v_size[v])
  <2>1. v_size[w] <= v_size[v]
    BY <1>3, <1>7
  <2>2. v \in Objects \ v_torn /\ w \in Objects \ v_torn
    BY <1>1, <1>2
  <2>3. PairResult(c, w, v, v_contents[v], v_contents[w])
    BY <1>1, <1>4, <1>7, PairResultAlso
  <2> QED  BY <1>1, <1>7, <2>1, <2>2, <2>3, SwapOther
<1> QED  BY <1>5, <1>6, <1>7

-----------------------------------------------------------------------------
(* static_vector: the invariant.                                           *)

LEMMA StaticInit == Static!Init => StaticInv
<1> SUFFICES ASSUME Static!Init PROVE StaticInv
  OBVIOUS
<1>0. Capacity \in Nat
  BY CapacityAssumption
<1>1. Fills(<<>>, 0) /\ Lists(<<>>, <<>>, 0)
  <2>1. Alike(<<>>, 1..0)
    BY NoSequence, SequenceAlike
  <2>2. 1..0 = 0..0 - 1 /\ 0 \in 0..Capacity
    BY <1>0
  <2>3. Alike(<<>>, 0..0 - 1)
    BY <2>1, <2>2
  <2>4. Fills(<<>>, 0)
    BY <2>2, <2>3, FillsIs
  <2> QED  BY <2>4, NoSequence, ListsIs
<1>2. /\ v_object = [v \in Objects |-> <<>>] /\ v_size = [v \in Objects |-> 0]
      /\ v_contents = [v \in Objects |-> <<>>] /\ v_fault = "none"
  BY DEF Static!Init
<1>3. ASSUME NEW v \in Objects PROVE Holds(v)
  <2>1. v_object[v] = <<>> /\ v_size[v] = 0 /\ v_contents[v] = <<>>
    BY <1>2
  <2> QED  BY <1>1, <2>1 DEF Holds, Lists
<1> QED  BY <1>2, <1>3 DEF StaticInv

LEMMA ValuesAre ==
    ASSUME NEW v, NEW args, NEW m, AreValues(args, m)
    PROVE  ArgumentsAre(v, args, m)
  BY DEF AreValues, ArgumentsAre, Static!Arguments

LEMMA SameAre ==
    ASSUME NEW v, NEW a \in Static!Arguments(v), NEW n \in Nat \ {0}
    PROVE  /\ ArgumentsAre(v, Static!Same(a, n), n)
           /\ a \in Values => AreValues(Static!Same(a, n), n)
<1>1. PICK s : s = Static!Same(a, n)
  OBVIOUS
<1>2. Alike(s, 1..n) /\ \A i \in 1..n : s[i] = a
  BY <1>1, SameIs
<1>3. s[1] = a
  <2>1. 1 \in 1..n
    OBVIOUS
  <2> QED  BY <1>2, <2>1
<1> QED  BY <1>1, <1>2, <1>3 DEF ArgumentsAre, AreValues

\* The functions that are passed a range of values.
LEMMA RangesKeep ==
    ASSUME StaticInv, NEW v \in Objects \ v_torn, NEW xs \in Static!Ranges,
           \/ Static!Construct(v, xs) \/ Static!assign(v, xs, FALSE)
           \/ \E p \in 0..v_size[v] : Static!insert(v, p, xs)
    PROVE  StaticInv'
<1>1. PICK m \in 0..Capacity : AreValues(xs, m)
  BY RangesAre
<1>2. CASE Static!Construct(v, xs)
  BY <1>2, ConstructKeeps
<1>3. CASE Static!assign(v, xs, FALSE)
  <2>1. PICK own : own = FALSE
    OBVIOUS
  <2> QED  BY <1>1, <1>3, <2>1, assignValues
<1>4. ASSUME NEW p \in 0..v_size[v], Static!insert(v, p, xs) PROVE StaticInv'
  BY <1>1, <1>4, ValuesAre, insertKeeps
<1> QED  BY <1>2, <1>3, <1>4

\* Those that are passed one argument.
LEMMA ArgumentsKeep ==
    ASSUME StaticInv, NEW v \in Objects \ v_torn, NEW a \in Static!Arguments(v),
           \/ Static!push_back(v, a)
           \/ \E n \in 0..Capacity : Static!resize(v, n, a)
           \/ \E n \in 1..Capacity + 1 :
                 \/ Static!assign(v, Static!Same(a, n), a \notin Values)
                 \/ \E p \in 0..v_size[v] : Static!insert(v, p, Static!Same(a, n))
    PROVE  StaticInv'
<1>1. CASE Static!push_back(v, a)
  BY <1>1, push_backKeeps
<1>2. ASSUME NEW n \in 0..Capacity, Static!resize(v, n, a) PROVE StaticInv'
  BY <1>2, resizeKeeps
<1>3. ASSUME NEW n \in 1..Capacity + 1,
             \/ Static!assign(v, Static!Same(a, n), a \notin Values)
             \/ \E p \in 0..v_size[v] : Static!insert(v, p, Static!Same(a, n))
      PROVE  StaticInv'
  <2>0. n \in Nat \ {0} /\ n \in Nat /\ n # 0
    BY CapacityAssumption
  <2>1. PICK args, own : args = Static!Same(a, n) /\ own = (a \notin Values)
    OBVIOUS
  <2>2. ArgumentsAre(v, args, n) /\ (a \in Values => AreValues(args, n))
    BY <2>0, <2>1, SameAre
  <2>3. CASE Static!assign(v, args, own) /\ a \in Values
    <3>1. ~own
      BY <2>1, <2>3
    <3> QED  BY <2>2, <2>3, <3>1, assignValues
  <2>4. CASE Static!assign(v, args, own) /\ a \notin Values
    <3>1. own /\ Static!assign(v, Static!Same(a, n), own)
      BY <2>1, <2>4
    <3> QED  BY <2>0, <2>4, <3>1, assignOwn
  <2>5. ASSUME NEW p \in 0..v_size[v], Static!insert(v, p, args) PROVE StaticInv'
    BY <2>2, <2>5, insertKeeps
  <2> QED  BY <1>3, <2>1, <2>3, <2>4, <2>5
<1> QED  BY <1>1, <1>2, <1>3

-----------------------------------------------------------------------------
(* static_vector: what an exception has torn.                              *)

LEMMA OneStopsDestroy ==
    ASSUME NEW B, IsCall(B), NEW row, NEW n, NEW i, i \notin DOMAIN row
    PROVE  Stops(One(B, row, n), Static!Destroy(Static!Slot(B.v, i)), B)
<1>1. PICK o, z : OneAs(B, row, n, o, z)
  BY OneIs
<1>2. PICK a, s : a = Static!Slot(B.v, i) /\ s = Static!Destroy(a)
  OBVIOUS
<1>3. a[1] = B.v /\ a[2] = i
  BY <1>2, SlotHas
<1>4. s.do = "destroy" /\ s.at = a
  BY <1>2 DEF Static!Destroy
<1>5. ~Static!Alive(o, a)
  BY <1>1, <1>3 DEF OneAs, Static!Alive
<1>6. Static!Misuses(o, s)
  BY <1>4, <1>5 DEF Static!Misuses
<1> QED  BY <1>1, <1>2, <1>4, <1>6 DEF Stops, OneAs

\* The first steps destroy n elements of v.
Destroys(steps, v, n) ==
    /\ IsSequence(steps) /\ n <= Len(steps)
    /\ \A i \in 1..n : steps[i] = Static!Destroy(Static!Slot(v, i - 1))

LEMMA ClearsFirst ==
    ASSUME NEW v, v_size[v] \in Nat
    PROVE  Destroys(Static!Clears(v), v, v_size[v])
<1>1. PICK n, d, z : n = v_size[v] /\ d = Drops(v, 0, n) /\ z = <<Static!Size(v, 0)>>
  OBVIOUS
<1>n. n \in Nat
  BY <1>1
<1>2. Static!Clears(v) = d \o z
  BY <1>1, <1>n, ClearsIs, ClearingIs
<1>3. d = [i \in 1..n |-> d[i]] /\ \A i \in 1..n : d[i] = Static!Destroy(Static!Slot(v, 0 + i - 1))
  <2>1. d = [i \in 1..n |-> Static!Destroy(Static!Slot(v, 0 + i - 1))]
    BY <1>1 DEF Drops
  <2> QED  BY <2>1
<1>4. IsSequence(d) /\ Len(d) = n
  BY <1>n, <1>3, SequenceIs
<1>5. IsSequence(z) /\ Len(z) = 1
  BY <1>1, OneSequence
<1>6. IsSequence(d \o z) /\ Len(d \o z) = n + 1 /\ \A i \in 1..n : (d \o z)[i] = d[i]
  <2>1. /\ IsSequence(d \o z) /\ Len(d \o z) = Len(d) + Len(z)
        /\ \A i \in 1..Len(d) : (d \o z)[i] = d[i]
    BY <1>4, <1>5, ConcatIs
  <2> QED  BY <1>4, <1>5, <2>1
<1>7. ASSUME NEW i \in 1..n PROVE (d \o z)[i] = Static!Destroy(Static!Slot(v, i - 1))
  <2>1. 0 + i - 1 = i - 1
    OBVIOUS
  <2> QED  BY <1>3, <1>6, <2>1
<1>8. n <= Len(d \o z)
  BY <1>1, <1>6
<1> QED  BY <1>1, <1>2, <1>6, <1>7, <1>8 DEF Destroys

LEMMA DestroysFirst ==
    ASSUME NEW s, NEW v, NEW n \in Nat, Destroys(s, v, n), NEW t, IsSequence(t)
    PROVE  Destroys(s \o t, v, n)
<1>1. IsSequence(s) /\ n <= Len(s) /\ \A i \in 1..n : s[i] = Static!Destroy(Static!Slot(v, i - 1))
  BY DEF Destroys
<1>2. /\ IsSequence(s \o t) /\ Len(s) \in Nat /\ Len(t) \in Nat /\ Len(s \o t) = Len(s) + Len(t)
      /\ \A i \in 1..Len(s) : (s \o t)[i] = s[i]
  BY <1>1, ConcatIs
<1>3. \A i \in 1..n : i \in 1..Len(s)
  BY <1>1, <1>2
<1>4. n <= Len(s \o t)
  BY <1>1, <1>2
<1> QED  BY <1>1, <1>2, <1>3, <1>4 DEF Destroys

\* A row without the objects in its first k slots.
Below(row, k) == DOMAIN row \ 0..k - 1
Rest(row, k) == IF k = 0 THEN row ELSE Part(row, Below(row, k))

LEMMA RestNext ==
    ASSUME NEW row, NEW k \in Nat, \A i \in 0..k - 1 : i \in DOMAIN row
    PROVE  /\ DOMAIN Rest(row, k) = Below(row, k)
           /\ k \in DOMAIN row <=> k \in DOMAIN Rest(row, k)
           /\ Static!Without(Rest(row, k), k) = Rest(row, k + 1)
<1>1. PICK S, T : S = Below(row, k) /\ T = Below(row, k + 1)
  OBVIOUS
<1>2. T = S \ {k} /\ (k \in DOMAIN row <=> k \in S) /\ (k = 0 => S = DOMAIN row)
  <2>1. 0..(k + 1) - 1 = (0..k - 1) \cup {k} /\ k \notin 0..k - 1 /\ (k = 0 => 0..k - 1 = {})
    OBVIOUS
  <2> QED  BY <1>1, <2>1 DEF Below
<1>3. DOMAIN Rest(row, k) = S /\ \A j \in S : Rest(row, k)[j] = row[j]
  <2>1. CASE k = 0
    BY <1>2, <2>1 DEF Rest
  <2>2. CASE k # 0
    BY <1>1, <2>2, PartIs, AlikeIs DEF Rest
  <2> QED  BY <2>1, <2>2
<1>4. Rest(row, k + 1) = [j \in T |-> row[j]]
  <2>1. k + 1 # 0
    OBVIOUS
  <2> QED  BY <1>1, <2>1 DEF Rest, Part
<1>5. Static!Without(Rest(row, k), k) = [j \in T |-> row[j]]
  BY <1>2, <1>3 DEF Static!Without
<1> QED  BY <1>1, <1>2, <1>3, <1>4, <1>5

\* The objects before the first slot where none is alive are destroyed, and
\* then what is not there.
LEMMA TornHalts ==
    ASSUME StaticInv, v_fault = "none", NEW v \in Objects, NEW n \in Nat, n = v_size[v], Static!Holed(v),
           NEW steps, Destroys(steps, v, n), NEW B, B = Call(v, FALSE)
    PROVE  \E h \in 0..n - 1 : \E f :
              Path(f, Mem(v_object, v_size), steps, h, B) /\ Stops(f[h], steps[h + 1], B)
<1>1. PICK row : row = v_object[v]
  OBVIOUS
<1>2. IsCall(B) /\ B.v = v /\ Mem(v_object, v_size) = One(B, row, n)
  <2>1. FALSE \in BOOLEAN
    OBVIOUS
  <2>2. IsCall(Call(v, FALSE)) /\ Mem(v_object, v_size) = One(Call(v, FALSE), v_object[v], v_size[v])
    BY <2>1, CallIs
  <2> QED  BY <1>1, <2>2 DEF Call
<1>3. PICK h \in 0..n - 1 : h \notin DOMAIN row /\ \A i \in 0..h - 1 : i \in DOMAIN row
  <2> DEFINE S == {k \in 0..n : \A i \in 0..k - 1 : i \in DOMAIN row}
  <2>1. 0 \in S
    OBVIOUS
  <2>2. n \notin S
    BY <1>1 DEF Static!Holed
  <2>3. PICK k \in 0..n - 1 : k \in S /\ k + 1 \notin S
    <3> HIDE DEF S
    <3> QED  BY <2>1, <2>2, Climbs
  <2>4. (\A i \in 0..k - 1 : i \in DOMAIN row) /\ ~(\A i \in 0..(k + 1) - 1 : i \in DOMAIN row)
    <3>1. k + 1 \in 0..n
      OBVIOUS
    <3> QED  BY <2>3, <3>1
  <2>5. k \notin DOMAIN row
    BY <2>4
  <2> QED  BY <2>4, <2>5
<1> DEFINE f == [i \in 0..h |-> One(B, Rest(row, i), n)]
<1>4. \A i \in 1..n : steps[i] = Static!Destroy(Static!Slot(v, i - 1))
  BY DEF Destroys
<1>5. ASSUME NEW i \in 1..h PROVE Goes(f[i - 1], steps[i], f[i], B)
  <2>0. h \in Nat /\ i - 1 \in 0..h - 1 /\ (i - 1) + 1 = i /\ i \in 1..n
    BY <1>3
  <2>1. PICK k \in 0..h - 1 : k = i - 1 /\ k \in Nat /\ k + 1 = i /\ i \in 1..n /\ k \in 0..h /\ k + 1 \in 0..h
    BY <2>0
  <2>2. f[k] = One(B, Rest(row, k), n) /\ f[k + 1] = One(B, Rest(row, k + 1), n) /\ i - 1 = k /\ i = k + 1
    BY <2>1
  <2>3. steps[i] = Static!Destroy(Static!Slot(v, k))
    BY <1>4, <2>1
  <2> HIDE DEF f
  <2>4. k \in DOMAIN row /\ \A j \in 0..k - 1 : j \in DOMAIN row
    BY <1>3, <2>1
  <2>5. k \in DOMAIN Rest(row, k) /\ Static!Without(Rest(row, k), k) = Rest(row, k + 1)
    BY <2>1, <2>4, RestNext
  <2>6. Goes(One(B, Rest(row, k), n), Static!Destroy(Static!Slot(B.v, k)), One(B, Static!Without(Rest(row, k), k), n), B)
    BY <1>2, <2>5, OneDestroys
  <2> QED  BY <1>2, <2>2, <2>3, <2>5, <2>6
<1>6. f[0] = One(B, row, n) /\ f[h] = One(B, Rest(row, h), n)
  BY DEF Rest
<1>7. Stops(f[h], steps[h + 1], B)
  <2>1. h \in Nat /\ h + 1 \in 1..n /\ (h + 1) - 1 = h
    BY <1>3
  <2>2. steps[h + 1] = Static!Destroy(Static!Slot(v, h))
    BY <1>4, <2>1
  <2> HIDE DEF f
  <2>3. h \notin DOMAIN Rest(row, h)
    BY <1>3, <2>1, RestNext
  <2>4. Stops(One(B, Rest(row, h), n), Static!Destroy(Static!Slot(B.v, h)), B)
    BY <1>2, <2>3, OneStopsDestroy
  <2> QED  BY <1>2, <1>6, <2>2, <2>4
<1> HIDE DEF f
<1>8. Path(f, Mem(v_object, v_size), steps, h, B)
  BY <1>2, <1>5, <1>6 DEF Path
<1> QED  BY <1>3, <1>7, <1>8

\* A torn vector is cleared, which makes the fault.
LEMMA StaticTorn ==
    ASSUME StaticInv, NEW v \in Objects, v \in v_torn, NEW name, NEW steps, NEW result,
           Static!Do(v, name, steps, result), Destroys(steps, v, v_size[v])
    PROVE  StaticInv'
<1>1. v_fault = "none" /\ Static!Holed(v)
  BY DEF Static!Do, Static!Callable
<1>2. PICK n \in Nat : n = v_size[v]
  BY <1>1 DEF StaticInv
<1>3. PICK B : B = Call(v, FALSE)
  OBVIOUS
<1>4. PICK h \in 0..n - 1 : \E f :
         Path(f, Mem(v_object, v_size), steps, h, B) /\ Stops(f[h], steps[h + 1], B)
  BY <1>1, <1>2, <1>3, TornHalts
<1>5. PICK f : Path(f, Mem(v_object, v_size), steps, h, B) /\ Stops(f[h], steps[h + 1], B)
  BY <1>4
<1>6. /\ Len(steps) \in Nat /\ n <= Len(steps)
      /\ \A i \in 1..n : steps[i] = Static!Destroy(Static!Slot(v, i - 1))
  BY <1>2 DEF Destroys, IsSequence
<1>7. PICK k \in 0..Len(steps) :
         LET m == Static!After(steps, k)
             throws == k < Len(steps)
         IN /\ throws => steps[k + 1].do = "copy" /\ m.ok
            /\ v_fault' = IF m.ok THEN v_fault ELSE IF v \in v_torn THEN "torn" ELSE name
  BY DEF Static!Do
<1>8. k > h
  <2>1. SUFFICES ASSUME ~(k > h) PROVE FALSE
    OBVIOUS
  <2>2. k < Len(steps) /\ k + 1 \in 1..n
    BY <1>4, <1>6, <1>7, <2>1
  <2>3. steps[k + 1] = Static!Destroy(Static!Slot(v, (k + 1) - 1))
    BY <1>6, <2>2
  <2>4. steps[k + 1].do = "destroy"
    BY <2>3 DEF Static!Destroy
  <2> QED  BY <1>7, <2>2, <2>4
<1>9. ~Static!After(steps, k).ok
  <2>1. h \in Nat /\ k \in Nat
    BY <1>4, <1>6, <1>7
  <2> QED  BY <1>5, <1>8, <2>1, AfterHalts
<1>10. v_fault' = "torn"
  BY <1>7, <1>9
<1> QED  BY <1>10 DEF StaticInv

\* Sequences in a row are a sequence.
LEMMA FlattenSequence ==
    ASSUME NEW n \in Nat, NEW body, body = [i \in 1..n |-> body[i]], \A i \in 1..n : IsSequence(body[i])
    PROVE  IsSequence(Static!FlattenSeq(body))
<1>1. CASE n = 0
  <2>1. IsSequence(body) /\ Len(body) = n
    BY SequenceIs
  <2> QED  BY <1>1, <2>1 DEF Static!FlattenSeq
<1>2. CASE n # 0
  <2>0. PICK c : Flattens(c, body, n)
    BY <1>2, FlattenIs
  <2>1. /\ Static!FlattenSeq(body) = c[n] /\ c[1] = body[1]
        /\ \A k \in 1..(n - 1) : c[k + 1] = c[k] \o body[k + 1]
    BY <2>0 DEF Flattens
  <2> DEFINE S == {k \in 0..n : k # 0 => IsSequence(c[k])}
  <2>2. 0 \in S
    OBVIOUS
  <2>3. ASSUME NEW k \in 0..(n - 1), k \in S PROVE k + 1 \in S
    <3>1. k + 1 \in 1..n /\ k + 1 \in 0..n /\ IsSequence(body[k + 1])
      OBVIOUS
    <3>2. CASE k = 0
      BY <2>1, <3>1, <3>2
    <3>3. CASE k # 0
      <4>1. c[k + 1] = c[k] \o body[k + 1]
        <5>1. k \in 1..(n - 1)
          BY <3>3
        <5> QED  BY <2>1, <5>1
      <4>2. IsSequence(c[k])
        BY <2>3, <3>3
      <4>3. IsSequence(c[k + 1])
        BY <3>1, <4>1, <4>2, ConcatIs
      <4> QED  BY <3>1, <4>3
    <3> QED  BY <3>2, <3>3
  <2>4. n \in S
    <3> HIDE DEF S
    <3> QED  BY <2>2, <2>3, Climbs
  <2> QED  BY <1>2, <2>1, <2>4
<1> QED  BY <1>1, <1>2

LEMMA PushesSequence ==
    ASSUME NEW v, NEW n, NEW args, Len(args) \in Nat
    PROVE  IsSequence(Static!Pushes(v, n, args))
<1> DEFINE body == [i \in 1..Len(args) |-> <<Static!Copy(Static!Slot(v, n + i - 1), args[i]), Static!Size(v, n + i)>>]
<1>1. \A i \in 1..Len(args) : IsSequence(body[i])
  BY TwoSequence
<1>2. body = [i \in 1..Len(args) |-> body[i]]
  OBVIOUS
<1>3. Static!Pushes(v, n, args) = Static!FlattenSeq(body)
  BY DEF Static!Pushes
<1> HIDE DEF body
<1> QED  BY <1>1, <1>2, <1>3, FlattenSequence

LEMMA TakesSequence ==
    ASSUME NEW v, NEW w, NEW k \in Nat
    PROVE  IsSequence(Takes(v, w, k))
<1> DEFINE body == [i \in 1..k |-> <<Static!Move(Static!Slot(v, i - 1), Static!Slot(w, i - 1)), Static!Size(v, i - 1 + 1)>>]
<1>1. \A i \in 1..k : IsSequence(body[i])
  BY TwoSequence
<1>2. body = [i \in 1..k |-> body[i]]
  OBVIOUS
<1>3. Takes(v, w, k) = Static!FlattenSeq(body)
  BY DEF Takes
<1> HIDE DEF body
<1> QED  BY <1>1, <1>2, <1>3, FlattenSequence

\* What is assigned, after all elements are destroyed.
LEMMA TornAssigns ==
    ASSUME StaticInv, NEW v \in Objects, v \in v_torn, NEW args, Len(args) \in Nat, NEW own,
           Static!assign(v, args, own)
    PROVE  StaticInv'
<1>1. PICK t, name, xs : /\ t = (IF Len(args) > Capacity THEN <<>> ELSE Static!Pushes(v, 0, args))
                         /\ name = (IF own THEN "assign own" ELSE "assign")
                         /\ Static!Run(v, name, Static!Clears(v) \o t, xs)
  BY DEF Static!assign
<1>2. IsSequence(t)
  BY <1>1, NoSequence, PushesSequence
<1>3. \E result : Static!Do(v, name, Static!Clears(v) \o t, result)
  BY <1>1 DEF Static!Run
<1>4. v_size[v] \in Nat
  BY <1>3 DEF StaticInv, Static!Do
<1>5. Destroys(Static!Clears(v) \o t, v, v_size[v])
  BY <1>2, <1>4, ClearsFirst, DestroysFirst
<1> QED  BY <1>3, <1>5, StaticTorn

LEMMA TornCopies ==
    ASSUME StaticInv, NEW v \in Objects, v \in v_torn, NEW w \in Objects, w \notin v_torn,
           Static!CopyAssign(v, w)
    PROVE  StaticInv'
<1>1. PICK args, xs : /\ args = [i \in 1..v_size[w] |-> Static!Slot(w, i - 1)]
                      /\ Static!Run(v, "assign", Static!Clears(v) \o Static!Pushes(v, 0, args), xs)
  BY DEF Static!CopyAssign, Static!Steps
<1>2. \E result : Static!Do(v, "assign", Static!Clears(v) \o Static!Pushes(v, 0, args), result)
  BY <1>1 DEF Static!Run
<1>3. v_size[v] \in Nat /\ v_fault = "none"
  BY <1>2 DEF StaticInv, Static!Do
<1>4. v_size[w] \in Nat
  <2>1. Holds(w)
    BY <1>3 DEF StaticInv
  <2> QED  BY <2>1, CapacityAssumption DEF Holds, Fills
<1>5. Len(args) \in Nat
  BY <1>1, <1>4
<1>6. Destroys(Static!Clears(v) \o Static!Pushes(v, 0, args), v, v_size[v])
  BY <1>3, <1>5, PushesSequence, ClearsFirst, DestroysFirst
<1> QED  BY <1>2, <1>6, StaticTorn

LEMMA TornMoves ==
    ASSUME StaticInv, NEW v \in Objects, v \in v_torn, NEW w \in Objects, Static!MoveAssign(v, w)
    PROVE  StaticInv'
<1>1. v_fault = "none" /\ v_contents = [u \in Objects |-> v_contents[u]]
  BY DEF StaticInv, Static!MoveAssign, Static!Do
<1>2. w \notin v_torn /\ v # w
  BY DEF Static!MoveAssign
<1>3. PICK result : Static!Do(v, "move", (Static!Clears(v) \o Takes(v, w, v_size[w])) \o Static!Clears(w), result)
  BY <1>1, <1>2, MoveAssignIs
<1>4. v_size[v] \in Nat /\ v_size[w] \in Nat
  <2>1. Holds(w)
    BY <1>1, <1>2 DEF StaticInv
  <2> QED  BY <1>1, <2>1, CapacityAssumption DEF StaticInv, Holds, Fills
<1>5. Destroys(Static!Clears(v) \o Takes(v, w, v_size[w]), v, v_size[v])
  BY <1>4, TakesSequence, ClearsFirst, DestroysFirst
<1>6. IsSequence(Static!Clears(w))
  BY <1>4, ClearsFirst DEF Destroys
<1>7. Destroys((Static!Clears(v) \o Takes(v, w, v_size[w])) \o Static!Clears(w), v, v_size[v])
  BY <1>4, <1>5, <1>6, DestroysFirst
<1> QED  BY <1>3, <1>7, StaticTorn

LEMMA TornClears ==
    ASSUME StaticInv, NEW v \in Objects, v \in v_torn, Static!clear(v)
    PROVE  StaticInv'
<1>1. \E result : Static!Do(v, "clear", Static!Clears(v), result)
  BY DEF Static!clear, Static!Run
<1>2. v_size[v] \in Nat
  BY <1>1 DEF StaticInv, Static!Do
<1> QED  BY <1>1, <1>2, ClearsFirst, StaticTorn

\* Of the functions of a torn vector only those are called that destroy all
\* its elements first.
LEMMA TornKeeps ==
    ASSUME StaticInv, NEW v \in Objects, v \in v_torn,
           \/ \E xs \in Static!Ranges : \/ Static!Construct(v, xs) \/ Static!assign(v, xs, FALSE)
                                        \/ \E p \in 0..v_size[v] : Static!insert(v, p, xs)
           \/ \E a \in Static!Arguments(v) :
                 \/ Static!push_back(v, a)
                 \/ \E n \in 0..Capacity : Static!resize(v, n, a)
                 \/ \E n \in 1..Capacity + 1 :
                       \/ Static!assign(v, Static!Same(a, n), a \notin Values)
                       \/ \E p \in 0..v_size[v] : Static!insert(v, p, Static!Same(a, n))
           \/ Static!clear(v)
           \/ \E p \in 0..v_size[v] : \E num \in 0..v_size[v] - p : Static!erase(v, p, num)
           \/ \E w \in Objects : \/ Static!MoveAssign(v, w) \/ Static!swap(v, w)
                                 \/ (w \notin v_torn /\ Static!CopyAssign(v, w))
    PROVE  StaticInv'
<1>1. ASSUME NEW xs, Static!Construct(v, xs) PROVE FALSE
  BY <1>1 DEF Static!Construct, Static!Run, Static!Do, Static!Callable
<1>2. ASSUME NEW p, NEW args, Static!insert(v, p, args) PROVE FALSE
  BY <1>2 DEF Static!insert, Static!Run, Static!Do, Static!Callable
<1>3. ASSUME NEW a, Static!push_back(v, a) PROVE FALSE
  BY <1>3 DEF Static!push_back, Static!Run, Static!Do, Static!Callable
<1>4. ASSUME NEW n, NEW a, Static!resize(v, n, a) PROVE FALSE
  BY <1>4 DEF Static!resize, Static!Run, Static!Do, Static!Callable
<1>5. ASSUME NEW p, NEW num, Static!erase(v, p, num) PROVE FALSE
  BY <1>5 DEF Static!erase, Static!Run, Static!Do, Static!Callable
<1>6. ASSUME NEW w, Static!swap(v, w) PROVE FALSE
  BY <1>6 DEF Static!swap, Static!Do, Static!Callable
<1>7. ASSUME NEW xs \in Static!Ranges, Static!assign(v, xs, FALSE) PROVE StaticInv'
  <2>1. Len(xs) \in Nat
    BY RangesAre, AlikeSequence DEF AreValues
  <2> QED  BY <1>7, <2>1, TornAssigns
<1>8. ASSUME NEW a, NEW n \in 1..Capacity + 1, Static!assign(v, Static!Same(a, n), a \notin Values) PROVE StaticInv'
  <2>1. n \in Nat
    BY CapacityAssumption
  <2>2. PICK own : own = (a \notin Values)
    OBVIOUS
  <2>3. Len(Static!Same(a, n)) \in Nat
    BY <2>1, SameIs
  <2> QED  BY <1>8, <2>2, <2>3, TornAssigns
<1>9. ASSUME NEW w \in Objects, Static!MoveAssign(v, w) PROVE StaticInv'
  BY <1>9, TornMoves
<1>10. ASSUME NEW w \in Objects, w \notin v_torn, Static!CopyAssign(v, w) PROVE StaticInv'
  BY <1>10, TornCopies
<1>11. CASE Static!clear(v)
  BY <1>11, TornClears
<1> QED  BY <1>1, <1>2, <1>3, <1>4, <1>5, <1>6, <1>7, <1>8, <1>9, <1>10, <1>11

-----------------------------------------------------------------------------
LEMMA StaticNext == StaticInv /\ [Static!Next]_(Static!vars) => StaticInv'
<1> SUFFICES ASSUME StaticInv, [Static!Next]_(Static!vars) PROVE StaticInv'
  OBVIOUS
<1>1. CASE UNCHANGED Static!vars
  <2>1. /\ v_size' = v_size /\ v_object' = v_object /\ v_torn' = v_torn /\ v_contents' = v_contents
        /\ v_fault' = v_fault
    BY <1>1 DEF Static!vars
  <2>2. ASSUME NEW v \in Objects, Holds(v) PROVE Holds(v)'
    <3>1. v_size'[v] = v_size[v] /\ v_object'[v] = v_object[v] /\ v_contents'[v] = v_contents[v]
      BY <2>1
    <3> QED  BY <2>2, <3>1 DEF Holds, Fills
  <2>3. CASE v_fault = "none"
    <3>1. \A v \in Objects \ v_torn' : Holds(v)'
      BY <2>1, <2>2, <2>3 DEF StaticInv
    <3>2. /\ v_object' = [v \in Objects |-> v_object'[v]] /\ v_size' = [v \in Objects |-> v_size'[v]]
          /\ v_contents' = [v \in Objects |-> v_contents'[v]] /\ v_fault' = "none"
          /\ \A v \in Objects : v \in v_torn' => v_size'[v] \in Nat
      BY <2>1, <2>3 DEF StaticInv
    <3> QED  BY <3>1, <3>2 DEF StaticInv
  <2>4. CASE v_fault # "none"
    BY <2>1, <2>4 DEF StaticInv
  <2> QED  BY <2>3, <2>4
<1>2. CASE Static!Next
  <2>1. PICK v \in Objects :
          \/ \E xs \in Static!Ranges : \/ Static!Construct(v, xs) \/ Static!assign(v, xs, FALSE)
                                       \/ \E p \in 0..v_size[v] : Static!insert(v, p, xs)
          \/ \E a \in Static!Arguments(v) :
                \/ Static!push_back(v, a)
                \/ \E n \in 0..Capacity : Static!resize(v, n, a)
                \/ \E n \in 1..Capacity + 1 :
                      \/ Static!assign(v, Static!Same(a, n), a \notin Values)
                      \/ \E p \in 0..v_size[v] : Static!insert(v, p, Static!Same(a, n))
          \/ Static!clear(v)
          \/ \E p \in 0..v_size[v] : \E num \in 0..v_size[v] - p : Static!erase(v, p, num)
          \/ \E w \in Objects : \/ Static!MoveAssign(v, w) \/ Static!swap(v, w)
                                \/ (w \notin v_torn /\ Static!CopyAssign(v, w))
    BY <1>2 DEF Static!Next
  <2>2. CASE v \notin v_torn
    <3>2. ASSUME NEW xs \in Static!Ranges,
                 \/ Static!Construct(v, xs) \/ Static!assign(v, xs, FALSE)
                 \/ \E p \in 0..v_size[v] : Static!insert(v, p, xs)
          PROVE  StaticInv'
      BY <2>2, <3>2, RangesKeep
    <3>3. ASSUME NEW a \in Static!Arguments(v),
                 \/ Static!push_back(v, a)
                 \/ \E n \in 0..Capacity : Static!resize(v, n, a)
                 \/ \E n \in 1..Capacity + 1 :
                       \/ Static!assign(v, Static!Same(a, n), a \notin Values)
                       \/ \E p \in 0..v_size[v] : Static!insert(v, p, Static!Same(a, n))
          PROVE  StaticInv'
      BY <2>2, <3>3, ArgumentsKeep
    <3>4. CASE Static!clear(v)
      BY <2>2, <3>4, clearKeeps
    <3>5. ASSUME NEW p \in 0..v_size[v], NEW num \in 0..v_size[v] - p, Static!erase(v, p, num) PROVE StaticInv'
      BY <2>2, <3>5, eraseKeeps
    <3>6. ASSUME NEW w \in Objects, Static!MoveAssign(v, w) PROVE StaticInv'
      BY <2>2, <3>6, MoveAssignKeeps
    <3>7. ASSUME NEW w \in Objects, Static!swap(v, w) PROVE StaticInv'
      BY <2>2, <3>7, swapKeeps
    <3>8. ASSUME NEW w \in Objects, w \notin v_torn, Static!CopyAssign(v, w) PROVE StaticInv'
      BY <2>2, <3>8, CopyAssignKeeps
    <3> QED  BY <2>1, <3>2, <3>3, <3>4, <3>5, <3>6, <3>7, <3>8
  <2>3. CASE v \in v_torn
    BY <2>1, <2>3, TornKeeps
  <2> QED  BY <2>2, <2>3
<1> QED  BY <1>1, <1>2

LEMMA StaticAlways == Static!Spec => []StaticInv
  BY StaticInit, StaticNext, PTL DEF Static!Spec

\* A static_vector misuses the lifetime of no object, but in four cases.
THEOREM StaticLifetimes == Static!Spec => []Static!NoLifetimeFault
<1>1. StaticInv => Static!NoLifetimeFault
  BY DEF StaticInv, Static!NoLifetimeFault
<1> QED  BY <1>1, StaticAlways, PTL

\* A static_vector has the elements of a std::vector, and no others, also after
\* an exception that does not tear it.
THEOREM StaticIsVector == Static!Spec => []Static!LikeStdVector
<1>1. ASSUME StaticInv, v_fault = "none", NEW v \in Objects \ v_torn
      PROVE  /\ DOMAIN v_object[v] = 0..v_size[v] - 1
             /\ v_contents[v] = [i \in 1..v_size[v] |-> v_object[v][i - 1]]
  <2>1. Holds(v)
    BY <1>1 DEF StaticInv
  <2>2. PICK row, n : row = v_object[v] /\ n = v_size[v]
    OBVIOUS
  <2>3. Alike(row, 0..n - 1)
    BY <2>1, <2>2 DEF Holds, Fills, Alike
  <2>4. DOMAIN row = 0..n - 1
    BY <2>3, AlikeIs
  <2> QED  BY <2>1, <2>2, <2>4 DEF Holds
<1>2. StaticInv => Static!LikeStdVector
  BY <1>1 DEF Static!LikeStdVector
<1> QED  BY <1>2, StaticAlways, PTL
===============================================================================
