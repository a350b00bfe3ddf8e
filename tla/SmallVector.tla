----------------------------- MODULE SmallVector -----------------------------
(***************************************************************************)
(* itlib::small_vector<T, StaticCapacity, RevertToStaticBelow>: a vector   *)
(* whose elements live in a buffer inside the object, or in a block from   *)
(* the allocator.                                                          *)
(*                                                                         *)
(* The vectors' memory is explicit: an object of type T is alive at a      *)
(* location or it is not, and every constructor, destructor, allocation    *)
(* and deallocation is a step of its own, in the order the code makes      *)
(* them.  An operation is the sequence of those steps, which its function  *)
(* determines when it is called; they are then executed one by one, and a  *)
(* step that throws abandons the rest.  T's move constructor and           *)
(* destructor do not throw.  A constructor of small_vector is modelled as  *)
(* the assignment it delegates to, made to an empty vector.                *)
(***************************************************************************)
EXTENDS Naturals, FiniteSets, TLC, SequencesExt

CONSTANTS Vectors,               \* the vectors; each is also its static buffer
          Blocks,                \* the blocks the allocator can return
          Values,                \* the values of T
          Moved,                 \* the value of a moved-from T
          Nobody,                \* no vector
          StaticCapacity,
          RevertToStaticBelow,
          MaxSize,               \* a bound on the sizes the program asks for
          EmptyRanges,           \* whether it inserts and erases empty ranges
          AllocFails,            \* the operations in which allocate may throw
          CopyThrows             \* those in which a constructor of T may

ASSUME BuffersAssumption == Vectors \cap Blocks = {}
ASSUME StaticCapacityAssumption == StaticCapacity \in Nat \ {0}
ASSUME RevertAssumption == RevertToStaticBelow \in 0..(StaticCapacity + 1)
ASSUME MaxSizeAssumption == MaxSize \in Nat

Buffers == Vectors \cup Blocks

VARIABLES
    m_begin,     \* the buffer each vector uses
    m_end,       \* the location past its last element
    m_capacity,
    block,       \* the capacity each block was allocated with, 0 if it is free
    object,      \* the objects that are alive: a function from their locations
    todo,        \* the steps left of the operation in progress
    call,        \* that operation, or the last one; whether it returned true, whether
                 \* its argument is an element that is gone or elsewhere when it is
                 \* read, and whether the allocator threw
    contents,    \* history: what a std::vector would contain
    goal,        \* history: what it will contain after the operation in progress
    fault        \* history: a step misused an object's lifetime or a block

vector == <<m_begin, m_end, m_capacity>>
memory == <<block, object>>
vars == <<m_begin, m_end, m_capacity, block, object, todo, call, contents, goal, fault>>

Operations == {"none", "assign", "copy_assign", "move_assign", "reserve", "shrink_to_fit",
               "revert_to_static", "clear", "insert", "erase", "resize", "destroy"}

TypeOK ==
    /\ m_begin \in [Vectors -> Buffers]
    /\ m_end \in [Vectors -> Buffers \X Nat]
    /\ m_capacity \in [Vectors -> Nat]
    /\ block \in [Blocks -> Nat]
    /\ DOMAIN object \subseteq Buffers \X Nat
    /\ \A at \in DOMAIN object : object[at] \in Values \cup {Moved}
    /\ call.name \in Operations /\ call.on \in Vectors \cup {Nobody}
    /\ {call.returned, call.stale, call.threw} \subseteq BOOLEAN
    /\ contents \in [Vectors -> Seq(Values)]
    /\ fault \in BOOLEAN

Call(v, name) == [name |-> name, on |-> v, returned |-> FALSE, stale |-> FALSE, threw |-> FALSE]

Init ==
    /\ m_begin = [v \in Vectors |-> v]
    /\ m_end = [v \in Vectors |-> <<v, 0>>]
    /\ m_capacity = [v \in Vectors |-> StaticCapacity]
    /\ block = [b \in Blocks |-> 0]
    /\ object = <<>>
    /\ todo = <<>>
    /\ call = Call(Nobody, "none")
    /\ contents = [v \in Vectors |-> <<>>]
    /\ goal = contents
    /\ fault = FALSE

is_static(v) == m_begin[v] = v
size(v) == m_end[v][2]
AtRest == todo = <<>>

\* An assignment destroys the elements before it allocates: if that throws, the
\* vector still counts them.  Nothing can be done with it, not even destroy it.
Torn(v) ==
    call.threw /\ call.name \in {"assign", "copy_assign"} /\ call.on = v /\ size(v) > 0
-----------------------------------------------------------------------------
(* The steps.                                                              *)

Put(at, x) == [do |-> "put", at |-> at, value |-> x]
Copy(from, at) == [do |-> "copy", at |-> at, from |-> from]
Move(from, at) == [do |-> "move", at |-> at, from |-> from]
Destroy(at) == [do |-> "destroy", at |-> at]
Allocate(b, n) == [do |-> "allocate", block |-> b, n |-> n]
Deallocate(b, n) == [do |-> "deallocate", block |-> b, n |-> n]
Point(v, b, e, n) == [do |-> "point", v |-> v, begin |-> b, end |-> e, n |-> n]

Steps(n, Step(_)) == [i \in 1..n |-> Step(i - 1)]
Alternate(n, First(_), Second(_)) ==
    [i \in 1..(2 * n) |-> IF i % 2 = 1 THEN First(i \div 2) ELSE Second(i \div 2 - 1)]

Has(b, i) == i < IF b \in Vectors THEN StaticCapacity ELSE block[b]

\* Objects are constructed in raw memory, from objects that are alive; only
\* live objects are destroyed; a block goes back empty, with its own capacity.
Misuses(s) ==
    \/ s.do \in {"put", "copy", "move"} /\ (s.at \in DOMAIN object \/ ~Has(s.at[1], s.at[2]))
    \/ s.do \in {"copy", "move"} /\ s.from \notin DOMAIN object
    \/ s.do = "destroy" /\ s.at \notin DOMAIN object
    \/ s.do = "deallocate" /\ (block[s.block] # s.n \/ \E at \in DOMAIN object : at[1] = s.block)

With(objects, at, x) == [l \in DOMAIN objects \cup {at} |-> IF l = at THEN x ELSE objects[l]]
Without(objects, at) == [l \in DOMAIN objects \ {at} |-> objects[l]]

Execute(s) ==
    /\ object' =
         CASE s.do = "put" -> With(object, s.at, s.value)
           [] s.do = "copy" -> With(object, s.at, object[s.from])
           [] s.do = "move" -> With(With(object, s.from, Moved), s.at, object[s.from])
           [] s.do = "destroy" -> Without(object, s.at)
           [] OTHER -> object
    /\ block' = CASE s.do = "allocate" -> [block EXCEPT ![s.block] = s.n]
                  [] s.do = "deallocate" -> [block EXCEPT ![s.block] = 0]
                  [] OTHER -> block
    /\ IF s.do = "point"
       THEN /\ m_begin' = [m_begin EXCEPT ![s.v] = s.begin]
            /\ m_end' = [m_end EXCEPT ![s.v] = s.end]
            /\ m_capacity' = [m_capacity EXCEPT ![s.v] = s.n]
       ELSE UNCHANGED vector

Advance ==
    /\ ~AtRest /\ ~fault
    /\ IF Misuses(Head(todo))
       THEN fault' = TRUE /\ UNCHANGED <<vector, memory, todo, contents>>
       ELSE /\ Execute(Head(todo))
            /\ todo' = Tail(todo)
            /\ contents' = IF Tail(todo) = <<>> THEN goal ELSE contents
            /\ UNCHANGED fault
    /\ UNCHANGED <<call, goal>>

\* The allocator, or a constructor of T other than its move constructor, throws.
Throw ==
    /\ ~AtRest /\ ~fault
    /\ \/ Head(todo).do = "allocate" /\ call.name \in AllocFails
       \/ Head(todo).do \in {"put", "copy"} /\ call.name \in CopyThrows
    /\ todo' = <<>>
    /\ goal' = contents
    /\ call' = [call EXCEPT !.returned = FALSE, !.threw = Head(todo).do = "allocate"]
    /\ UNCHANGED <<vector, memory, contents, fault>>

\* A function is called; std::vectors would then contain `result'.
Do(c, steps, result) ==
    /\ AtRest /\ ~fault /\ ~\E v \in Vectors : Torn(v)
    /\ todo' = steps
    /\ call' = c
    /\ goal' = result
    /\ contents' = IF steps = <<>> THEN result ELSE contents
    /\ UNCHANGED <<vector, memory, fault>>

Run(v, name, steps, xs) == Do(Call(v, name), steps, [contents EXCEPT ![v] = xs])
RunOwn(v, name, stale, steps, xs) ==
    Do([Call(v, name) EXCEPT !.stale = stale], steps, [contents EXCEPT ![v] = xs])

-----------------------------------------------------------------------------
(* The private functions.                                                  *)

At(v, i) == <<m_begin[v], i>>

destroy_all(v) == Steps(size(v), LAMBDA i : Destroy(At(v, i)))

\* A vector that forgets the block it leaves.
KeepOld(v) == <<>>

\* The block a vector leaves is returned.
FreeOld(v) == IF is_static(v) THEN <<>> ELSE <<Deallocate(m_begin[v], m_capacity[v])>>

\* Grow by roughly 1.5 until n fits.
Grown(capacity, n) ==
    LET grow[c \in Nat] == IF c < n THEN grow[(3 * c + 1) \div 2] ELSE c
    IN  grow[capacity]

\* Which buffer to use for n elements, and its capacity; b is the block that
\* an allocation would return.
choose_data(v, n, b) ==
    LET Stay == [ptr |-> m_begin[v], cap |-> m_capacity[v], steps |-> <<>>]
        Block(cap) == [ptr |-> b, cap |-> cap, steps |-> <<Allocate(b, cap)>>]
    IN  IF is_static(v)
        THEN IF n > StaticCapacity THEN Block(n) ELSE Stay
        ELSE IF n > m_capacity[v] THEN Block(Grown(m_capacity[v], n))
        ELSE IF n < RevertToStaticBelow
             THEN [ptr |-> v, cap |-> StaticCapacity, steps |-> <<>>]
             ELSE Stay

\* Making room from the first element to the last.
GrowUpwards(v, k, num) ==
    <<Point(v, m_begin[v], At(v, size(v) + num), m_capacity[v])>>
    \o Alternate(size(v) - k, LAMBDA i : Move(At(v, k + i), At(v, k + i + num)),
                              LAMBDA i : Destroy(At(v, k + i)))

\* A hole of num elements at k.  In place, the elements past it are moved from
\* the last to the first.
GrowInPlace(v, k, num) ==
    LET last == size(v) - 1
    IN  <<Point(v, m_begin[v], At(v, size(v) + num), m_capacity[v])>>
        \o Alternate(size(v) - k, LAMBDA i : Move(At(v, last - i), At(v, last - i + num)),
                                   LAMBDA i : Destroy(At(v, last - i)))

GrowElsewhere(v, k, num, to) ==
    Steps(size(v), LAMBDA i : Move(At(v, i), <<to.ptr, IF i < k THEN i ELSE i + num>>))
    \o destroy_all(v) \o FreeOld(v)
    \o <<Point(v, to.ptr, <<to.ptr, size(v) + num>>, to.cap)>>

grow_at(v, k, num, to) ==
    IF to.ptr = m_begin[v] THEN GrowInPlace(v, k, num)
                           ELSE to.steps \o GrowElsewhere(v, k, num, to)

clear(v) ==
    destroy_all(v)
    \o IF RevertToStaticBelow > 0 /\ ~is_static(v)
       THEN FreeOld(v) \o <<Point(v, v, <<v, 0>>, StaticCapacity)>>
       ELSE <<Point(v, m_begin[v], At(v, 0), m_capacity[v])>>

\* Dropping the last elements in place of those at k.
ShrinkTail(v, k, num) ==
    LET left == size(v) - num
    IN  Steps(num, LAMBDA i : Destroy(At(v, left + i)))
        \o <<Point(v, m_begin[v], At(v, left), m_capacity[v])>>

ShrinkInPlace(v, k, num) ==
    LET left == size(v) - num
    IN  Alternate(left - k, LAMBDA i : Destroy(At(v, k + i)),
                             LAMBDA i : Move(At(v, k + num + i), At(v, k + i)))
        \o Steps(num, LAMBDA i : Destroy(At(v, left + i)))
        \o <<Point(v, m_begin[v], At(v, left), m_capacity[v])>>

ShrinkToStatic(v, k, num) ==
    Alternate(k, LAMBDA i : Move(At(v, i), <<v, i>>), LAMBDA i : Destroy(At(v, i)))
    \o Steps(num, LAMBDA i : Destroy(At(v, k + i)))
    \o Alternate(size(v) - num - k, LAMBDA i : Move(At(v, k + num + i), <<v, k + i>>),
                                     LAMBDA i : Destroy(At(v, k + num + i)))
    \o FreeOld(v) \o <<Point(v, v, <<v, size(v) - num>>, StaticCapacity)>>

shrink_at(v, k, num) ==
    IF size(v) = num THEN clear(v)
    ELSE IF choose_data(v, size(v) - num, v).ptr = m_begin[v]
         THEN ShrinkInPlace(v, k, num) ELSE ShrinkToStatic(v, k, num)

\* assign_fill, assign_copy and assign_move, of n elements the i-th of which
\* made[i] constructs.  m_end is moved first, m_begin and m_capacity last.
assign_impl(v, n, made, to) ==
    to.steps
    \o <<Point(v, m_begin[v], <<to.ptr, 0>>, m_capacity[v])>>
    \o Alternate(n, LAMBDA i : made[i + 1],
                     LAMBDA i : Point(v, m_begin[v], <<to.ptr, i + 1>>, m_capacity[v]))
    \o (IF m_begin[v] = to.ptr THEN <<>> ELSE FreeOld(v))
    \o <<Point(v, to.ptr, <<to.ptr, n>>, to.cap)>>

\* A take that leaves the moved-from elements of w undestroyed.
TakeAndLeave(v, w) ==
    (IF is_static(w)
     THEN Steps(size(w), LAMBDA i : Move(At(w, i), <<v, i>>))
          \o <<Point(v, v, <<v, size(w)>>, m_capacity[w])>>
     ELSE <<Point(v, m_begin[w], m_end[w], m_capacity[w])>>)
    \o <<Point(w, w, <<w, 0>>, StaticCapacity)>>

\* v takes the elements of w, and w is left static and empty.
take_impl(v, w) ==
    (IF is_static(w)
     THEN Steps(size(w), LAMBDA i : Move(At(w, i), <<v, i>>)) \o destroy_all(w)
          \o <<Point(v, v, <<v, size(w)>>, m_capacity[w])>>
     ELSE <<Point(v, m_begin[w], m_end[w], m_capacity[w])>>)
    \o <<Point(w, w, <<w, 0>>, StaticCapacity)>>

-----------------------------------------------------------------------------
(* The functions of the class.                                             *)

Free == {b \in Blocks : block[b] = 0}
Inputs(n) == BoundedSeq(Values, n)

\* assign(count, value), assign(first, last) and assign(ilist), from outside v.
Assign(v) ==
    \E xs \in Inputs(MaxSize), b \in Free :
        LET to == choose_data(v, Len(xs), b)
            made == Steps(Len(xs), LAMBDA i : Put(<<to.ptr, i>>, xs[i + 1]))
        IN  Run(v, "assign", destroy_all(v) \o assign_impl(v, Len(xs), made, to), xs)

\* assign(count, v[i]), which destroys v[i] first.
AssignOwn(v) ==
    \E n \in 1..MaxSize, i \in 0..(size(v) - 1), b \in Free :
        LET to == choose_data(v, n, b)
            made == Steps(n, LAMBDA j : Copy(At(v, i), <<to.ptr, j>>))
        IN  RunOwn(v, "assign", TRUE, destroy_all(v) \o assign_impl(v, n, made, to), contents[v])

CopyAssign(v, w) ==
    /\ v # w
    /\ \E b \in Free :
          LET to == choose_data(v, size(w), b)
              made == Steps(size(w), LAMBDA i : Copy(At(w, i), <<to.ptr, i>>))
          IN  Run(v, "copy_assign", destroy_all(v) \o assign_impl(v, size(w), made, to), contents[w])

MoveAssign(v, w) ==
    /\ v # w
    /\ Do(Call(v, "move_assign"), destroy_all(v) \o FreeOld(v) \o take_impl(v, w),
          [contents EXCEPT ![v] = contents[w], ![w] = <<>>])

\* ~small_vector, after which an empty one is constructed in its place.
Recreate(v) ==
    Run(v, "destroy", destroy_all(v) \o FreeOld(v) \o <<Point(v, v, <<v, 0>>, StaticCapacity)>>, <<>>)

Reserved(v, n, b) ==
    IF n <= m_capacity[v] THEN [ptr |-> m_begin[v], cap |-> m_capacity[v], steps |-> <<>>]
                          ELSE choose_data(v, n, b)

reserve(v, n, to) ==
    IF n <= m_capacity[v] THEN <<>> ELSE to.steps \o GrowElsewhere(v, size(v), 0, to)

Reserve(v) ==
    \E n \in 0..(MaxSize + 1), b \in Free :
        Run(v, "reserve", reserve(v, n, Reserved(v, n, b)), contents[v])

\* The elements move to the static buffer if they are fewer than it holds, to
\* a block of their number if not.
shrink_to_fit(v, b) ==
    LET s == size(v)
        to == IF s < StaticCapacity THEN [ptr |-> v, cap |-> StaticCapacity, steps |-> <<>>]
                                    ELSE [ptr |-> b, cap |-> s, steps |-> <<Allocate(b, s)>>]
    IN  IF s = m_capacity[v] \/ is_static(v) THEN <<>>
        ELSE to.steps
             \o Alternate(s, LAMBDA i : Move(At(v, i), <<to.ptr, i>>), LAMBDA i : Destroy(At(v, i)))
             \o <<Point(v, to.ptr, <<to.ptr, s>>, to.cap)>> \o FreeOld(v)

ShrinkToFit(v) ==
    \E b \in Free :
        Do([Call(v, "shrink_to_fit") EXCEPT !.returned = ~is_static(v) /\ size(v) # m_capacity[v]],
           shrink_to_fit(v, b), contents)

RevertToStatic(v) ==
    \E b \in Free :
        Do([Call(v, "revert_to_static") EXCEPT !.returned = is_static(v) \/ size(v) <= StaticCapacity],
           IF is_static(v) \/ size(v) > StaticCapacity THEN <<>> ELSE shrink_to_fit(v, b), contents)

Clear(v) == Run(v, "clear", clear(v), <<>>)

\* insert, emplace, push_back and emplace_back, of elements from outside v.
Insert(v) ==
    \E k \in 0..size(v), xs \in Inputs(MaxSize - size(v)), b \in Free :
        LET to == choose_data(v, size(v) + Len(xs), b)
        IN  /\ xs # <<>> \/ EmptyRanges
            /\ Run(v, "insert",
                   grow_at(v, k, Len(xs), to)
                   \o Steps(Len(xs), LAMBDA i : Put(<<to.ptr, k + i>>, xs[i + 1])),
                   SubSeq(contents[v], 1, k) \o xs \o SubSeq(contents[v], k + 1, size(v)))

\* insert(pos, v[i]), once or num times, push_back(v[i]) and emplace.  v[i] is
\* read where it was: if it was far enough behind the hole, there is by then the
\* element from num places before.
InsertOwn(v) ==
    \E k \in 0..size(v), i \in 0..(size(v) - 1), num \in 1..(MaxSize - size(v)), b \in Free :
        LET to == choose_data(v, size(v) + num, b)
            read == IF i < k THEN i ELSE i - num
            xs == [j \in 1..num |-> contents[v][read + 1]]
            stale == to.ptr # m_begin[v] \/ i \in k..(k + num - 1)
        IN  RunOwn(v, "insert", stale,
                   grow_at(v, k, num, to)
                   \o Steps(num, LAMBDA j : Copy(At(v, i), <<to.ptr, k + j>>)),
                   IF stale THEN contents[v]
                   ELSE SubSeq(contents[v], 1, k) \o xs \o SubSeq(contents[v], k + 1, size(v)))

\* erase and pop_back.
Erase(v) ==
    \E k \in 0..size(v) : \E num \in 0..(size(v) - k) :
        /\ num > 0 \/ EmptyRanges
        /\ Run(v, "erase", shrink_at(v, k, num),
               SubSeq(contents[v], 1, k) \o SubSeq(contents[v], k + num + 1, size(v)))

\* resize(n, x), and resize(n) with T's default for x.  m_end is incremented
\* before the element is constructed.
Resize(v) ==
    \E n \in 0..MaxSize, x \in Values, b \in Free :
        LET s == size(v)
            to == Reserved(v, n, b)
        IN  Run(v, "resize",
                reserve(v, n, to)
                \o (IF n <= s
                    THEN Steps(s - n, LAMBDA i : Destroy(<<to.ptr, s - 1 - i>>))
                         \o <<Point(v, to.ptr, <<to.ptr, n>>, to.cap)>>
                    ELSE Alternate(n - s,
                             LAMBDA i : Point(v, to.ptr, <<to.ptr, s + i + 1>>, to.cap),
                             LAMBDA i : Put(<<to.ptr, s + i>>, x))),
                [i \in 1..n |-> IF i <= s THEN contents[v][i] ELSE x])

\* resize(n, v[i]) that grows.
ResizeOwn(v) ==
    \E n \in (size(v) + 1)..MaxSize, i \in 0..(size(v) - 1), b \in Free :
        LET s == size(v)
            to == Reserved(v, n, b)
        IN  RunOwn(v, "resize", n > m_capacity[v],
                reserve(v, n, to)
                \o Alternate(n - s,
                        LAMBDA j : Point(v, to.ptr, <<to.ptr, s + j + 1>>, to.cap),
                        LAMBDA j : Copy(At(v, i), <<to.ptr, s + j>>)),
                [j \in 1..n |-> contents[v][IF j <= s THEN j ELSE i + 1]])

Next ==
    \/ Advance \/ Throw
    \/ \E v \in Vectors :
          \/ Assign(v) \/ Recreate(v) \/ Reserve(v) \/ ShrinkToFit(v) \/ RevertToStatic(v)
          \/ Clear(v) \/ Insert(v) \/ Erase(v) \/ Resize(v)
          \/ AssignOwn(v) \/ InsertOwn(v) \/ ResizeOwn(v)
          \/ \E w \in Vectors : CopyAssign(v, w) \/ MoveAssign(v, w)

Spec == Init /\ [][Next]_vars

-----------------------------------------------------------------------------
(* Correctness.                                                            *)

\* No operation constructs an element over another, destroys or reads one
\* that is not alive, runs past a buffer, or frees a block it should not; but
\* for reading an argument that is an element of the vector: in assign, and in
\* insert and resize if it has left its place by then and none has come there.
NoLifetimeFault == fault => call.stale

\* Between operations, what is alive is what the vectors contain: no element
\* leaked, none missing between m_begin and m_end, but for a vector that the
\* allocator threw at while it was assigned: it contains nothing.
ElementsAlive ==
    AtRest => DOMAIN object =
        UNION {{At(v, i) : i \in 0..(size(v) - 1)} : v \in {w \in Vectors : ~Torn(w)}}

\* And each vector contains what a std::vector would after the same calls, or
\* what it contained before, if the allocator threw.  (An insert of an element
\* from behind the hole inserts another one, see InsertOwn.)
Element(v, i) == IF At(v, i) \in DOMAIN object THEN object[At(v, i)] ELSE Moved
LikeStdVector ==
    AtRest => \A v \in Vectors :
        Torn(v) \/ contents[v] = [i \in 1..size(v) |-> Element(v, i - 1)]

\* Every block that is allocated belongs to one vector, which knows its
\* capacity, and every vector's elements fit in its buffer.
BuffersOwned ==
    AtRest =>
        /\ TypeOK
        /\ \A b \in Blocks : block[b] # 0 => Cardinality({v \in Vectors : m_begin[v] = b}) = 1
        /\ \A v \in Vectors :
              /\ m_begin[v] \in Blocks \cup {v} /\ m_end[v][1] = m_begin[v]
              /\ size(v) <= m_capacity[v]
              /\ m_capacity[v] = IF is_static(v) THEN StaticCapacity ELSE block[m_begin[v]]

\* "return true if the the vector is now static" (revert_to_static).
RevertTellsTheTruth ==
    AtRest /\ call.name = "revert_to_static" => call.returned = is_static(call.on)

\* "when reducing the size with erase or resize": nothing else makes a vector
\* that has reserved a block give it up for the static buffer.
OnlyShrinkingReverts ==
    [][\A v \in Vectors : call'.name = "insert" /\ m_begin'[v] = v => m_begin[v] = v]_vars
=============================================================================
