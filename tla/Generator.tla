-------------------------------- MODULE Generator --------------------------------
(***************************************************************************)
(* itlib::generator: the owner of a coroutine that yields values, which    *)
(* are taken one by one with next() or seen through a pseudo_iterator.     *)
(*                                                                         *)
(* The coroutine is external: it yields 1, 2, ... up to a number of its    *)
(* own, and then returns or throws.  Every resume runs it to its next      *)
(* co_yield or to its end.                                                 *)
(***************************************************************************)
EXTENDS Naturals, Sequences

CONSTANTS Generators, Frames,
          MaxYields,   \* bound: how many values a coroutine yields at most
          Null,        \* no handle, no value
          MovedFrom    \* an optional whose value was moved out of it

Endings == {"return", "throw"}

VARIABLES
    alive,        \* the frames of coroutines that were not destroyed
    plan,         \* what each coroutine does, and whether T is a reference
    yielded,      \* how many values it has yielded
    final,        \* whether it is suspended at its end: handle.done()
    m_yval, m_exception, m_ret,   \* its promise
    m_handle,     \* of each generator
    abandoned,    \* history: the generators that were assigned to themselves
    seen,         \* history: the values that the consumer got, in order,
    skipped,      \* how many it resumed past without looking at them,
    caught        \* and how many exceptions it got

coroutine == <<plan, yielded, final, m_yval, m_exception, m_ret>>
consumer == <<seen, skipped, caught>>
vars == <<alive, coroutine, m_handle, abandoned, consumer>>

Yields == 1..MaxYields
Plan == [yields : 0..MaxYields, ending : Endings, ref : BOOLEAN]

TypeOK ==
    /\ alive \subseteq Frames
    /\ plan \in [Frames -> Plan]
    /\ yielded \in [Frames -> 0..MaxYields]
    /\ final \in [Frames -> BOOLEAN]
    /\ m_yval \in [Frames -> Yields \cup {Null, MovedFrom}]
    /\ m_exception \in [Frames -> BOOLEAN] /\ m_ret \in [Frames -> BOOLEAN]
    /\ m_handle \in [Generators -> Frames \cup {Null}]
    /\ abandoned \subseteq Generators
    /\ seen \in [Frames -> Seq(Yields \cup {MovedFrom})]
    /\ skipped \in [Frames -> Nat] /\ caught \in [Frames -> Nat]

Init ==
    /\ alive = {} /\ abandoned = {}
    /\ plan \in [Frames -> Plan]
    /\ yielded = [f \in Frames |-> 0]
    /\ final = [f \in Frames |-> FALSE]
    /\ m_yval = [f \in Frames |-> Null]
    /\ m_exception = [f \in Frames |-> FALSE]
    /\ m_ret = [f \in Frames |-> FALSE]
    /\ m_handle = [g \in Generators |-> Null]
    /\ seen = [f \in Frames |-> <<>>]
    /\ skipped = [f \in Frames |-> 0]
    /\ caught = [f \in Frames |-> 0]

Owned(g) == g \notin abandoned /\ m_handle[g] # Null
-----------------------------------------------------------------------------
(* The owner.                                                              *)

\* get_return_object, as the coroutine is called; a frame is used once.
Create(g, f) ==
    /\ g \notin abandoned /\ m_handle[g] = Null
    /\ f \notin alive /\ yielded[f] = 0 /\ ~final[f]
    /\ \A h \in Generators : m_handle[h] # f
    /\ alive' = alive \cup {f}
    /\ m_handle' = [m_handle EXCEPT ![g] = f]
    /\ UNCHANGED <<coroutine, abandoned, consumer>>

\* reset() and the destructor.
reset(g) ==
    /\ Owned(g)
    /\ alive' = alive \ {m_handle[g]}
    /\ m_handle' = [m_handle EXCEPT ![g] = Null]
    /\ UNCHANGED <<coroutine, abandoned, consumer>>

\* A move that does not take the handle from its source.
AssignShared(g, h) ==
    /\ g \notin abandoned /\ h \notin abandoned /\ g # h
    /\ alive' = alive \ {m_handle[g]}
    /\ m_handle' = [m_handle EXCEPT ![g] = m_handle[h]]
    /\ UNCHANGED <<coroutine, abandoned, consumer>>

\* The move assignment, and the constructor if g has no handle.  There is no
\* check for a self-assignment, which destroys the frame and keeps its handle.
AssignMove(g, h) ==
    /\ g \notin abandoned /\ h \notin abandoned
    /\ alive' = alive \ {m_handle[g]}
    /\ m_handle' = IF g = h THEN m_handle ELSE [m_handle EXCEPT ![g] = m_handle[h], ![h] = Null]
    /\ abandoned' = IF g = h /\ m_handle[g] # Null THEN abandoned \cup {g} ELSE abandoned
    /\ UNCHANGED <<coroutine, consumer>>

-----------------------------------------------------------------------------
(* safe_resume clears the value, resumes, and throws what was thrown.      *)
Unread(f) == m_yval[f] \in Yields /\ \A i \in DOMAIN seen[f] : seen[f][i] # m_yval[f]

\* What m_yval is after clear_yval and the resume.
NextValue(f) == IF yielded[f] < plan[f].yields THEN yielded[f] + 1 ELSE Null
AtEnd(f) == yielded[f] = plan[f].yields
Throws(f) == AtEnd(f) /\ plan[f].ending = "throw"

safe_resume(f) ==
    /\ f \in alive /\ ~final[f]
    /\ yielded' = [yielded EXCEPT ![f] = IF AtEnd(f) THEN @ ELSE @ + 1]
    /\ final' = [final EXCEPT ![f] = AtEnd(f)]
    /\ m_exception' = [m_exception EXCEPT ![f] = Throws(f)]
    /\ m_ret' = [m_ret EXCEPT ![f] = AtEnd(f) /\ ~Throws(f)]
    /\ caught' = [caught EXCEPT ![f] = IF m_exception'[f] THEN @ + 1 ELSE @]
    /\ skipped' = [skipped EXCEPT ![f] = IF Unread(f) THEN @ + 1 ELSE @]
    /\ UNCHANGED <<alive, plan, m_handle, abandoned>>

\* next: the value is moved out of the promise, where its optional stays
\* engaged, or its pointer is copied; the consumer sees what is not empty.
next(g) ==
    LET f == m_handle[g]
        v == NextValue(f)
    IN /\ Owned(g) /\ ~final[f]
       /\ safe_resume(f)
       /\ m_yval' = [m_yval EXCEPT ![f] = IF v = Null \/ plan[f].ref THEN v ELSE MovedFrom]
       /\ seen' = [seen EXCEPT ![f] = IF v = Null THEN @ ELSE Append(@, v)]

\* next after the end returns an empty value.
NextAfterEnd(g) == Owned(g) /\ final[m_handle[g]] /\ UNCHANGED vars

\* An increment that does not clear the value first.
AdvanceUncleared(f) ==
    /\ safe_resume(f)
    /\ m_yval' = [m_yval EXCEPT ![f] = IF NextValue(f) = Null THEN @ ELSE NextValue(f)]
    /\ UNCHANGED seen

\* begin(), and ++ of an iterator, which holds the handle of a frame that some
\* generator still owns; the consumer does not do either past the end.
Advance(f) ==
    /\ safe_resume(f)
    /\ m_yval' = [m_yval EXCEPT ![f] = NextValue(f)]
    /\ UNCHANGED seen

\* *it, once or again: the value stays where it is.
Deref(f) ==
    /\ f \in alive /\ m_yval[f] \in Yields
    /\ seen' = [seen EXCEPT ![f] = IF Unread(f) THEN Append(@, m_yval[f]) ELSE @]
    /\ UNCHANGED <<alive, coroutine, m_handle, abandoned, skipped, caught>>

Next ==
    \/ \E g \in Generators :
          \/ \E f \in Frames : Create(g, f)
          \/ \E h \in Generators : AssignMove(g, h)
          \/ reset(g) \/ next(g) \/ NextAfterEnd(g)
    \/ \E f \in Frames : Advance(f) \/ Deref(f)

Spec == Init /\ [][Next]_vars

-----------------------------------------------------------------------------
(* Correctness.                                                            *)

\* The consumer gets the values in order, each of them once and none that was
\* already taken; and, whichever way it takes them, all but those that it chose
\* to resume past: also the last one, and also when the coroutine throws.
EachValueOnce ==
    \A f \in Frames :
        /\ \A i, j \in DOMAIN seen[f] : i < j => seen[f][i] < seen[f][j]
        /\ Len(seen[f]) + skipped[f] + (IF Unread(f) THEN 1 ELSE 0) = yielded[f]

\* done() is true only when every value was yielded, and the consumer was given
\* the exception, exactly once, or has a value to return.
EndIsTold ==
    \A f \in Frames :
        /\ final[f] => yielded[f] = plan[f].yields /\ m_yval[f] = Null
        /\ final[f] => (m_ret[f] \/ m_exception[f])
        /\ caught[f] = IF final[f] /\ plan[f].ending = "throw" THEN 1 ELSE 0

Delivered == EachValueOnce /\ EndIsTold

\* A frame has one owner until it is destroyed, and an owner has a frame, unless
\* it was assigned to itself.
FramesOwned ==
    /\ \A f \in alive : \E g \in Generators \ abandoned : m_handle[g] = f
    /\ \A g \in Generators \ abandoned : m_handle[g] # Null => m_handle[g] \in alive
    /\ \A g, h \in Generators : m_handle[g] = m_handle[h] /\ g # h => m_handle[g] = Null
=============================================================================
