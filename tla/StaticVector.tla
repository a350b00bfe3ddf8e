----------------------------- MODULE StaticVector -----------------------------
(***************************************************************************)
(* itlib::static_vector<T, Capacity>: a vector whose elements live in the  *)
(* object itself.                                                          *)
(*                                                                         *)
(* An object of type T is alive in a slot or it is not.  A function of the *)
(* vector is the sequence of constructions and destructions it makes, in   *)
(* their order, and it may end at any of them that throws: T's copy        *)
(* constructor may, its move constructor and destructor do not.            *)
(***************************************************************************)
EXTENDS Naturals, SequencesExt

CONSTANTS Vectors,
          Values,      \* the values of T
          Moved,       \* the value of a moved-from T
          Capacity

VARIABLES
    m_size,
    object,      \* the objects that are alive in each: a function from their slots
    torn,        \* history: the vectors that a constructor of T threw in while
                 \* they were constructed or their elements were moved apart
    contents,    \* history: what a std::vector would contain
    fault        \* history: the function that misused an object's lifetime or
                 \* read another element than it was given; or torn, if it
                 \* destroyed what an exception had left in an insert: nothing
                 \* is known after that

vars == <<m_size, object, torn, contents, fault>>

TypeOK ==
    /\ m_size \in [Vectors -> 0..Capacity]
    /\ \A v \in Vectors :
          /\ DOMAIN object[v] \subseteq 0..Capacity - 1
          /\ \A i \in DOMAIN object[v] : object[v][i] \in Values \cup {Moved}
    /\ torn \subseteq Vectors
    /\ contents \in [Vectors -> Seq(Values)]
    /\ fault \in STRING

Init ==
    /\ m_size = [v \in Vectors |-> 0]
    /\ object = [v \in Vectors |-> <<>>]
    /\ torn = {}
    /\ contents = [v \in Vectors |-> <<>>]
    /\ fault = "none"
-----------------------------------------------------------------------------
(* The steps.                                                              *)

\* m_data[i].data
Slot(v, i) == <<v, i>>

\* T(a), where a is a value or the slot of an object.
Copy(at, a) == [do |-> "copy", at |-> at, from |-> a]
Move(at, from) == [do |-> "move", at |-> at, from |-> from]
Exchange(at, from) == [do |-> "exchange", at |-> at, from |-> from]
Destroy(at) == [do |-> "destroy", at |-> at]
Size(v, n) == [do |-> "size", v |-> v, n |-> n]

Alive(o, at) == at[2] \in DOMAIN o[at[1]]
Read(o, a) == IF a \in Values THEN a ELSE o[a[1]][a[2]]

\* Objects are constructed in slots where none is alive, from objects that are.
Misuses(o, s) ==
    \/ s.do \in {"copy", "move"} /\ (s.at[2] \notin 0..Capacity - 1 \/ Alive(o, s.at))
    \/ s.do = "copy" /\ s.from \notin Values /\ ~Alive(o, s.from)
    \/ s.do \in {"move", "exchange"} /\ ~Alive(o, s.from)
    \/ s.do \in {"exchange", "destroy"} /\ ~Alive(o, s.at)

With(row, i, x) == [j \in DOMAIN row \cup {i} |-> IF j = i THEN x ELSE row[j]]
Without(row, i) == [j \in DOMAIN row \ {i} |-> row[j]]
Put(o, at, x) == [o EXCEPT ![at[1]] = With(@, at[2], x)]

Executed(o, s) ==
    CASE s.do = "copy" -> Put(o, s.at, Read(o, s.from))
      [] s.do = "move" -> Put(Put(o, s.from, Moved), s.at, Read(o, s.from))
      [] s.do = "exchange" -> Put(Put(o, s.from, Read(o, s.at)), s.at, Read(o, s.from))
      [] s.do = "destroy" -> [o EXCEPT ![s.at[1]] = Without(@, s.at[2])]
      [] OTHER -> o

Step(m, s) ==
    IF ~m.ok \/ Misuses(m.object, s) THEN [m EXCEPT !.ok = FALSE]
    ELSE [m EXCEPT !.object = Executed(@, s),
                   !.m_size = IF s.do = "size" THEN [@ EXCEPT ![s.v] = s.n] ELSE @]

\* After the first k steps.
After(steps, k) ==
    LET after[i \in 0..k] ==
            IF i = 0 THEN [object |-> object, m_size |-> m_size, ok |-> TRUE]
            ELSE Step(after[i - 1], steps[i])
    IN after[k]

Elements(m, v) == [i \in 1..m.m_size[v] |-> m.object[v][i - 1]]

\* An insert that threw has raised m_size, and no object is alive where it
\* stopped.  The vector is still to be destroyed: of its functions those are
\* modelled that destroy all elements before anything else, as ~static_vector
\* does.  A constructor that throws leaves no hole, and no vector either.
Holed(v) == \E i \in 0..m_size[v] - 1 : i \notin DOMAIN object[v]
Callable(v, name) == v \notin torn \/ (Holed(v) /\ name \in {"clear", "assign", "move"})

\* v's function `name' makes the steps; std::vectors would then contain `result'.
\* If a copy throws, v keeps what it has, unless it has a hole or is not there.
Do(v, name, steps, result) ==
    /\ fault = "none" /\ Callable(v, name)
    /\ \E k \in 0..Len(steps) :
          LET m == After(steps, k)
              throws == k < Len(steps)
              tears == throws /\ name \in {"construct", "insert", "insert own"}
          IN /\ throws => steps[k + 1].do = "copy" /\ m.ok
             /\ m_size' = m.m_size
             /\ object' = m.object
             /\ fault' = IF m.ok THEN fault ELSE IF v \in torn THEN "torn" ELSE name
             /\ torn' = IF tears THEN torn \cup {v} ELSE torn
             /\ contents' = IF ~throws THEN result
                            ELSE IF tears THEN contents
                            ELSE [contents EXCEPT ![v] = Elements(m, v)]

Run(v, name, steps, xs) == Do(v, name, steps, [contents EXCEPT ![v] = xs])

-----------------------------------------------------------------------------
(* The functions.                                                          *)

\* What the caller passes: a value, or a reference to an element of the vector.
Arguments(v) == Values \cup {Slot(v, i) : i \in 0..m_size[v] - 1}
ValueOf(v, a) == IF a \in Values THEN a ELSE contents[v][a[2] + 1]
Same(a, n) == [i \in 1..n |-> a]

Steps(n, F(_)) == [i \in 1..n |-> F(i - 1)]

\* push_back of each of the arguments, to a vector of n elements.
Pushes(v, n, args) ==
    FlattenSeq([i \in 1..Len(args) |->
                  <<Copy(Slot(v, n + i - 1), args[i]), Size(v, n + i)>>])

Clears(v) == Append(Steps(m_size[v], LAMBDA i : Destroy(Slot(v, i))), Size(v, 0))

\* A vector is constructed, after the one it takes the place of is destroyed.
Construct(v, xs) ==
    /\ m_size[v] = 0 /\ Len(xs) <= Capacity
    /\ Run(v, "construct", Pushes(v, 0, xs), xs)

\* If the elements do not fit it throws, and has cleared.
assign(v, args, own) ==
    Run(v, IF own THEN "assign own" ELSE "assign",
        Clears(v) \o (IF Len(args) > Capacity THEN <<>> ELSE Pushes(v, 0, args)),
        IF Len(args) > Capacity THEN <<>> ELSE [i \in DOMAIN args |-> ValueOf(v, args[i])])

CopyAssign(v, w) ==
    /\ v # w
    /\ Run(v, "assign", Clears(v) \o Pushes(v, 0, Steps(m_size[w], LAMBDA i : Slot(w, i))), contents[w])

\* From itself: it clears first, and then there is nothing to move.
MoveAssign(v, w) ==
    LET n == IF v = w THEN 0 ELSE m_size[w]
        moves == FlattenSeq(Steps(n, LAMBDA i : <<Move(Slot(v, i), Slot(w, i)), Size(v, i + 1)>>))
        clears == IF v = w THEN <<Size(v, 0)>> ELSE Clears(w)
    IN /\ w \notin torn
       /\ Do(v, "move", Clears(v) \o moves \o clears,
             [contents EXCEPT ![v] = IF v = w THEN <<>> ELSE contents[w], ![w] = <<>>])

\* And ~static_vector.
clear(v) == Run(v, "clear", Clears(v), <<>>)

push_back(v, a) ==
    /\ m_size[v] < Capacity
    /\ Run(v, "push_back", Pushes(v, m_size[v], <<a>>), Append(contents[v], ValueOf(v, a)))

\* Elements that move up from the first one.
grow_upwards(v, p, by) ==
    FlattenSeq(Steps(m_size[v] - p, LAMBDA k :
        <<Move(Slot(v, p + k + by), Slot(v, p + k)), Destroy(Slot(v, p + k))>>))
    \o <<Size(v, m_size[v] + by)>>

\* The elements from p on move up, the last one first, before any is inserted.
grow_at(v, p, by) ==
    IF by = 0 THEN <<>>
    ELSE FlattenSeq(Steps(m_size[v] - p, LAMBDA k :
            LET i == m_size[v] - 1 - k
            IN <<Move(Slot(v, i + by), Slot(v, i)), Destroy(Slot(v, i))>>))
         \o <<Size(v, m_size[v] + by)>>

\* An argument that has moved refers to where it was: there is another element
\* then, or none until one is inserted.  To read it is a fault; what is read
\* stands for either.
Gone(v) == Slot(v, Capacity)

insert(v, p, args) ==
    LET n == Len(args)
        HasMoved(a) == a \notin Values /\ a[2] >= p
        own == \E i \in 1..n : HasMoved(args[i])
        Seen(a) == IF HasMoved(a) THEN Gone(v) ELSE a
    IN /\ m_size[v] + n <= Capacity
       /\ Run(v, IF own THEN "insert own" ELSE "insert",
              grow_at(v, p, n) \o Steps(n, LAMBDA i : Copy(Slot(v, p + i), Seen(args[i + 1]))),
              SubSeq(contents[v], 1, p) \o [i \in 1..n |-> ValueOf(v, args[i])]
                  \o SubSeq(contents[v], p + 1, m_size[v]))

\* The elements after the range are moved, and what is left of them stays.
shrink_at_only(v, p, num) ==
    LET n == m_size[v]
    IN FlattenSeq(Steps(n - num - p, LAMBDA i :
           <<Destroy(Slot(v, p + i)), Move(Slot(v, p + i), Slot(v, p + i + num))>>))
       \o <<Size(v, n - num)>>

\* Each element after the range is moved to where one was destroyed, even if
\* the range is empty and that is the element itself.
shrink_at(v, p, num) ==
    LET n == m_size[v]
    IN IF n = num THEN Clears(v)
       ELSE FlattenSeq(Steps(n - num - p, LAMBDA i :
                <<Destroy(Slot(v, p + i)), Move(Slot(v, p + i), Slot(v, p + i + num))>>))
            \o Steps(num, LAMBDA i : Destroy(Slot(v, n - num + i)))
            \o <<Size(v, n - num)>>

erase(v, p, num) ==
    Run(v, IF num = 0 /\ p < m_size[v] THEN "erase none" ELSE "erase", shrink_at(v, p, num),
        SubSeq(contents[v], 1, p) \o SubSeq(contents[v], p + num + 1, m_size[v]))

\* pop_back or push_back until there are n.
resize(v, n, a) ==
    LET s == m_size[v]
    IN Run(v, "resize",
           IF n >= s THEN Pushes(v, s, Same(a, n - s))
           ELSE FlattenSeq(Steps(s - n, LAMBDA i : <<Destroy(Slot(v, s - 1 - i)), Size(v, s - 1 - i)>>)),
           IF n >= s THEN contents[v] \o Same(ValueOf(v, a), n - s) ELSE SubSeq(contents[v], 1, n))

swap(v, w) ==
    LET longer == IF m_size[w] > m_size[v] THEN w ELSE v
        shorter == IF m_size[w] > m_size[v] THEN v ELSE w
        n == m_size[shorter]
        Give(k) == <<Move(Slot(shorter, n + k), Slot(longer, n + k)), Size(shorter, n + k + 1),
                     Destroy(Slot(longer, n + k))>>
    IN /\ w \notin torn
       /\ Do(v, "swap",
             Steps(n, LAMBDA i : Exchange(Slot(shorter, i), Slot(longer, i)))
                 \o FlattenSeq(Steps(m_size[longer] - n, Give)) \o <<Size(longer, n)>>,
             [contents EXCEPT ![v] = contents[w], ![w] = contents[v]])

Ranges == UNION {[1..n -> Values] : n \in 0..Capacity}

Next ==
    \E v \in Vectors :
        \/ \E xs \in Ranges :
              \/ Construct(v, xs) \/ assign(v, xs, FALSE)
              \/ \E p \in 0..m_size[v] : insert(v, p, xs)
        \/ \E a \in Arguments(v) :
              \/ push_back(v, a)
              \/ \E n \in 0..Capacity : resize(v, n, a)
              \/ \E n \in 1..Capacity + 1 :
                    \/ assign(v, Same(a, n), a \notin Values)
                    \/ \E p \in 0..m_size[v] : insert(v, p, Same(a, n))
        \/ clear(v)
        \/ \E p \in 0..m_size[v] : \E num \in 0..m_size[v] - p : erase(v, p, num)
        \/ \E w \in Vectors : MoveAssign(v, w) \/ swap(v, w) \/ (w \notin torn /\ CopyAssign(v, w))

Spec == Init /\ [][Next]_vars

-----------------------------------------------------------------------------
(* Correctness.                                                            *)

\* Objects are constructed in free slots, read and destroyed while they are
\* alive, and read where they are meant, but in four cases: an erase of an empty
\* range before the end, an assign of the vector's own element, an insert of an
\* own element that it moves away, and the destruction of a vector that an
\* exception has left with a hole.
NoLifetimeFault == fault \in {"none", "erase none", "assign own", "insert own", "torn"}

\* Until then the elements of a vector, and no other objects, are alive in it,
\* also after an exception, but for those thrown into a constructor or an
\* insert; and they are those of a std::vector after the same calls.
LikeStdVector ==
    fault = "none" =>
        \A v \in Vectors \ torn :
            /\ DOMAIN object[v] = 0..m_size[v] - 1
            /\ contents[v] = [i \in 1..m_size[v] |-> object[v][i - 1]]
=============================================================================
