-------------------------------- MODULE Expected --------------------------------
(***************************************************************************)
(* itlib::expected<T, E>: a union of a value and an error, and a flag that *)
(* says which of the two is alive.  The six specializations differ in what *)
(* a member is: an object that lives in the union, a pointer (T&), which   *)
(* is null when there is no value and has no flag beside it, or nothing    *)
(* (void).                                                                 *)
(*                                                                         *)
(* T and E are external: they have contents, they leave Moved behind when  *)
(* they are moved from, their moves do not throw (the moves of expected    *)
(* are noexcept) and the other constructors of T may.                      *)
(***************************************************************************)
CONSTANTS Objects,
          Contents,   \* what the caller may put in a T or an E
          Moved,      \* what an object holds after it was moved from
          Dead        \* no object is alive, or a null pointer

Members == {"value", "error"}

\* The template arguments: T, T& or void, and E or void.
Kinds == {k \in [Members -> {"object", "ref", "void"}] : k["error"] # "ref"}

VARIABLES
    kind,           \* the specialization, of all the objects
    exists,         \* the objects that are constructed
    union,          \* what is alive in each, as either member, or what the
                    \* pointer points to
    m_has_value,    \* the flag, or whether the pointer was set
    abandoned,      \* history: a constructor threw into it in a way that lets
                    \* the caller do nothing with it, not even destroy it
    given           \* history: the member and the contents that each object was
                    \* given last

vars == <<kind, exists, union, m_has_value, abandoned, given>>

Alive == Contents \cup {Moved}

TypeOK ==
    /\ kind \in Kinds
    /\ exists \subseteq Objects /\ abandoned \subseteq exists
    /\ union \in [Objects -> [Members -> Alive \cup {Dead}]]
    /\ m_has_value \in [Objects -> BOOLEAN]
    /\ given \in [Objects -> [member : Members, contents : Alive \cup {Dead}]]

Empty == [m \in Members |-> Dead]

Init ==
    /\ kind \in Kinds
    /\ exists = {} /\ abandoned = {}
    /\ union = [x \in Objects |-> Empty]
    /\ m_has_value = [x \in Objects |-> FALSE]
    /\ given = [x \in Objects |-> [member |-> "error", contents |-> Dead]]

Usable == exists \ abandoned

\* The member that the flag b says is alive.
Held(b) == IF b THEN "value" ELSE "error"
Holds(x) == Held(m_has_value[x])

\* The union u after its member m is destroyed, constructed or moved from.
Destroyed(u, m) == IF kind[m] = "void" THEN u ELSE [u EXCEPT ![m] = Dead]
Constructed(u, m, c) == IF kind[m] = "void" THEN u ELSE [u EXCEPT ![m] = c]
MovedFrom(u, m) == IF kind[m] = "object" THEN [u EXCEPT ![m] = Moved] ELSE u

Set(x, u, b) ==
    /\ union' = [union EXCEPT ![x] = u]
    /\ m_has_value' = [m_has_value EXCEPT ![x] = b]
    /\ UNCHANGED kind

\* What x is given; what y has left after it was moved from: a T or an E is an
\* empty shell, and a T& refers to what it did.
Given(x, m, c) == given' = [given EXCEPT ![x] = [member |-> m, contents |-> c]]
Left(g) == IF kind[g.member] = "object" THEN [g EXCEPT !.contents = Moved] ELSE g
GivenFrom(x, y) == given' = [given EXCEPT ![x] = given[y], ![y] = Left(given[y])]

\* x gets u and b, and y, which it was moved from, keeps its flag.
SetFrom(x, u, b, y) ==
    /\ union' = [union EXCEPT ![x] = u, ![y] = MovedFrom(@, Holds(y))]
    /\ m_has_value' = [m_has_value EXCEPT ![x] = b]
    /\ UNCHANGED kind

\* A new object.
New(x) == x \notin exists /\ exists' = exists \cup {x} /\ UNCHANGED abandoned
Stays(x) == x \in Usable /\ UNCHANGED <<exists, abandoned>>
Abandons(x) == x \in Usable /\ abandoned' = abandoned \cup {x} /\ UNCHANGED exists
-----------------------------------------------------------------------------
(* Constructors and the destructor.                                        *)

\* expected(), expected(T&&) or expected(T&): there is no expected<T&>().
ConstructValue(x, c) ==
    New(x) /\ Set(x, Constructed(Empty, "value", c), TRUE) /\ Given(x, "value", c)

\* expected(unexpected_t)
ConstructError(x, c) ==
    New(x) /\ Set(x, Constructed(Empty, "error", c), FALSE) /\ Given(x, "error", c)

ConstructMove(x, y) ==
    /\ New(x) /\ y \in Usable
    /\ SetFrom(x, Constructed(Empty, Holds(y), union[y][Holds(y)]), m_has_value[y], y)
    /\ GivenFrom(x, y)

\* Only the specializations with void errors can be copied; if the copy throws
\* there is no new object.
ConstructCopy(x, y) ==
    /\ New(x) /\ y \in Usable /\ kind["error"] = "void"
    /\ Set(x, Constructed(Empty, Holds(y), union[y][Holds(y)]), m_has_value[y])
    /\ given' = [given EXCEPT ![x] = given[y]]

Destroy(x) ==
    /\ x \in Usable
    /\ exists' = exists \ {x} /\ UNCHANGED <<abandoned, given>>
    /\ Set(x, Destroyed(union[x], Holds(x)), FALSE)

-----------------------------------------------------------------------------
(* Assignments: the member of x is assigned to if it is the one that y     *)
(* holds, and is replaced by it otherwise.                                 *)
\* An assignment that forgets to destroy what it replaces.
ReplacedOver(x, y) == Constructed(union[x], Holds(y), union[y][Holds(y)])

\* One that has nothing to do when both hold the same member.
ReplacedIfOther(x, y) ==
    IF Holds(x) = Holds(y) THEN union[x]
    ELSE Constructed(Destroyed(union[x], Holds(x)), Holds(y), union[y][Holds(y)])

\* What x has after it is assigned y.
Replaced(x, y) ==
    IF Holds(x) = Holds(y)
    THEN Constructed(union[x], Holds(x), union[y][Holds(x)])
    ELSE Constructed(Destroyed(union[x], Holds(x)), Holds(y), union[y][Holds(y)])

AssignMove(x, y) ==
    /\ x # y /\ Stays(x) /\ y \in Usable
    /\ SetFrom(x, Replaced(x, y), m_has_value[y], y)
    /\ GivenFrom(x, y)

AssignCopy(x, y) ==
    /\ Stays(x) /\ y \in Usable /\ kind["error"] = "void"
    /\ Set(x, Replaced(x, y), m_has_value[y])
    /\ given' = [given EXCEPT ![x] = given[y]]

\* The copy constructor of T throws: the flag is set already.
AssignCopyThrows(x, y) ==
    /\ kind["value"] = "object" /\ kind["error"] = "void"
    /\ ~m_has_value[x] /\ y \in Usable /\ m_has_value[y]
    /\ Abandons(x)
    /\ Set(x, union[x], TRUE)
    /\ UNCHANGED given

-----------------------------------------------------------------------------
(* emplace destroys what is there first: with a void error this is clear.  *)
clear(x) ==
    /\ kind["error"] = "void"
    /\ Stays(x)
    /\ Set(x, Destroyed(union[x], Holds(x)), FALSE)
    /\ Given(x, "error", Dead)

emplace(x, c) ==
    /\ Stays(x)
    /\ Set(x, Constructed(Destroyed(union[x], Holds(x)), "value", c), TRUE)
    /\ Given(x, "value", c)

\* The constructor of T throws.  The flag says what it said before, which with
\* an error of type E is not so, whether it was a value or an error; with a
\* void error clear has set it.
EmplaceThrows(x) ==
    /\ kind["value"] = "object"
    /\ IF kind["error"] = "void"
       THEN /\ Stays(x) /\ Set(x, Destroyed(union[x], Holds(x)), FALSE)
            /\ Given(x, "error", Dead)
       ELSE /\ Abandons(x) /\ Set(x, Destroyed(union[x], Holds(x)), m_has_value[x])
            /\ UNCHANGED given

-----------------------------------------------------------------------------
(* The getters give references to the member, which the caller writes to.  *)
value(x, c) ==
    /\ kind["value"] = "object" /\ m_has_value[x] /\ Stays(x)
    /\ Set(x, Constructed(union[x], "value", c), TRUE)
    /\ Given(x, "value", c)

error(x, c) ==
    /\ ~m_has_value[x] /\ Stays(x)
    /\ Set(x, Constructed(union[x], "error", c), FALSE)
    /\ Given(x, "error", c)

\* The caller moves from what value() or error() of an rvalue refers to.
take(x) ==
    /\ Stays(x)
    /\ Set(x, MovedFrom(union[x], Holds(x)), m_has_value[x])
    /\ given' = [given EXCEPT ![x] = Left(@)]

\* On an rvalue value_or moves the value to the caller, if there is one.
value_or(x) ==
    \/ m_has_value[x] /\ take(x)
    \/ ~m_has_value[x] /\ Stays(x) /\ Set(x, union[x], FALSE) /\ UNCHANGED given

Next ==
    \E x \in Objects :
        \/ \E c \in Contents :
              \/ ConstructValue(x, c) \/ ConstructError(x, c) \/ emplace(x, c)
              \/ value(x, c) \/ error(x, c)
        \/ \E y \in Objects :
              \/ ConstructMove(x, y) \/ ConstructCopy(x, y)
              \/ AssignMove(x, y) \/ AssignCopy(x, y) \/ AssignCopyThrows(x, y)
        \/ Destroy(x) \/ clear(x) \/ EmplaceThrows(x) \/ take(x) \/ value_or(x)

Spec == Init /\ [][Next]_vars

-----------------------------------------------------------------------------
(* Correctness.                                                            *)

\* What is alive in x is what its flag says, and nothing else.
Truthful(x) ==
    \A m \in Members : union[x][m] # Dead <=> x \in exists /\ m = Holds(x) /\ kind[m] # "void"

\* An expected holds either a value or an error, the one that has_value() says,
\* in every specialization: after moves in both directions, after emplace, and
\* after a throwing emplace with a void error.  An object that is destroyed
\* leaves nothing alive.  An object that a constructor threw into otherwise
\* holds nothing, whatever it says.
HoldsOneOfTwo == \A x \in Objects : Truthful(x) \/ (x \in abandoned /\ union[x] = Empty)

\* An expected that can be used holds the member that it was given last, and
\* no other contents than those: by a constructor, emplace, a getter or a copy,
\* or by a move, which takes all that its source was given and leaves the shell
\* of a T or an E there; through moves between objects that hold different
\* members, and those of what had been moved from.  There are no contents to
\* compare in a void member.
HoldsWhatItWasGiven ==
    \A x \in Usable :
        /\ Holds(x) = given[x].member
        /\ kind[Holds(x)] # "void" => union[x][Holds(x)] = given[x].contents
=============================================================================
