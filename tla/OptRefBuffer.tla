------------------------------ MODULE OptRefBuffer ------------------------------
(***************************************************************************)
(* itlib::opt_ref_buffer_t<T>: a span of Ts over bytes that are the        *)
(* caller's, or that the buffer owns: a vector of bytes, a string, or a    *)
(* container in an any.                                                    *)
(*                                                                         *)
(* The containers are external.  What matters here is where their bytes    *)
(* are: in a block of memory, which a move passes on, or in the object     *)
(* itself (a short string, a small container in an any), where a move      *)
(* copies them to another place.                                           *)
(***************************************************************************)
EXTENDS Naturals

CONSTANTS Buffers,
          Width,      \* sizeof(T) of each
          Blocks,     \* blocks of memory, of the caller or of a container
          SizeOf,     \* how many bytes there are in each
          Small,      \* how many bytes fit in a string or an any
          None        \* monostate, or an empty span

VARIABLES
    exists,    \* the buffers that are constructed
    m_own,     \* the container, and the block that its bytes are in, or None if
               \* they are in m_own itself
    m_span,    \* whose bytes it points to, and how many Ts they are
    moved      \* history: the buffers that got what they own from another one

vars == <<exists, m_own, m_span, moved>>

Owners == {"vector", "string", "any"}
Sizes == {SizeOf[b] : b \in Blocks} \cup 0..Small
Own == [is : Owners, in : Blocks \cup {None}, bytes : Sizes] \cup {None}
Places == [block : Blocks] \cup [inside : Buffers]
Span == [at : Places, size : Nat] \cup {None}

TypeOK ==
    /\ exists \subseteq Buffers /\ moved \subseteq Buffers
    /\ m_own \in [Buffers -> Own]
    /\ m_span \in [Buffers -> Span]

Init ==
    /\ exists = {} /\ moved = {}
    /\ m_own = [x \in Buffers |-> None]
    /\ m_span = [x \in Buffers |-> None]

\* Where the bytes of the container o are when x owns it.
At(x, o) == IF o.in = None THEN [inside |-> x] ELSE [block |-> o.in]

\* is_congruent, or the size found to be a multiple of T's.
Fits(x, bytes) == bytes % Width[x] = 0
make_span(x, p, bytes) == [at |-> p, size |-> bytes \div Width[x]]

\* The size in bytes of the span of y.
size_bytes(y) == m_span[y].size * Width[y]

Becomes(x, own, span) ==
    /\ m_own' = [m_own EXCEPT ![x] = own]
    /\ m_span' = [m_span EXCEPT ![x] = span]

New(x) == x \notin exists /\ exists' = exists \cup {x}

\* Nobody owns the bytes in b, nor does anything point to them.
Unused(b) ==
    \A x \in Buffers :
        /\ m_own[x] # None => m_own[x].in # b
        /\ m_span[x] # None => m_span[x].at # [block |-> b]
-----------------------------------------------------------------------------
Construct(x) == New(x) /\ UNCHANGED <<m_own, m_span, moved>>

\* ref: a span of what the caller owns, which must outlive the buffer.
ref(x, b) ==
    /\ New(x) /\ Unused(b) /\ Fits(x, SizeOf[b])
    /\ Becomes(x, None, make_span(x, [block |-> b], SizeOf[b]))
    /\ UNCHANGED moved

\* The constructors that take a container whose bytes are in a block.  One that
\* has a size that T does not divide throws, out of a noexcept constructor
\* if it is a vector of bytes or a string.
take(x, w, b) ==
    LET o == [is |-> w, in |-> b, bytes |-> SizeOf[b]] IN
    /\ New(x) /\ Unused(b) /\ Fits(x, SizeOf[b])
    /\ Becomes(x, o, make_span(x, At(x, o), SizeOf[b]))
    /\ UNCHANGED moved

\* Those whose container keeps its bytes in itself: the span is made after the
\* container was moved to m_own.
TakeSmall(x, w, n) ==
    LET o == [is |-> w, in |-> None, bytes |-> n] IN
    /\ New(x) /\ w # "vector" /\ Fits(x, n)
    /\ Becomes(x, o, make_span(x, At(x, o), n))
    /\ UNCHANGED moved

\* A move that keeps the span as it was.
take_data_only(x, y, span) ==
    /\ m_own' = [m_own EXCEPT ![x] = m_own[y], ![y] = None]
    /\ m_span' = [m_span EXCEPT ![x] = span, ![y] = None]
    /\ moved' = (moved \ {x, y}) \cup (IF m_own[y] = None THEN {} ELSE {x})

\* The container and the span of y go to x, and y is left with neither.  Only the
\* span of a string is made again.
take_data(x, y, span) ==
    /\ m_own' = [m_own EXCEPT ![x] = m_own[y], ![y] = None]
    /\ m_span' = [m_span EXCEPT
           ![x] = IF m_own[y] # None /\ m_own[y].is = "string"
                  THEN make_span(x, At(x, m_own[y]), m_own[y].bytes) ELSE span,
           ![y] = None]
    /\ moved' = (moved \ {x, y}) \cup (IF m_own[y] = None THEN {} ELSE {x})

\* The move constructors: from the same T, or from another one, whose bytes are
\* a number of Ts or else it throws, and nothing is taken.
ConstructMove(x, y) ==
    /\ New(x) /\ y \in exists
    /\ IF Width[x] = Width[y] \/ m_span[y] = None
       THEN take_data(x, y, m_span[y])
       ELSE /\ Fits(x, size_bytes(y))
            /\ take_data(x, y, make_span(x, m_span[y].at, size_bytes(y)))

AssignMove(x, y) ==
    /\ x # y /\ x \in exists /\ y \in exists /\ Width[x] = Width[y]
    /\ take_data(x, y, m_span[y])
    /\ UNCHANGED exists

Destroy(x) ==
    /\ x \in exists /\ exists' = exists \ {x}
    /\ Becomes(x, None, None)
    /\ moved' = moved \ {x}

Next ==
    \E x \in Buffers :
        \/ Construct(x) \/ Destroy(x)
        \/ \E b \in Blocks : ref(x, b) \/ \E w \in Owners : take(x, w, b)
        \/ \E w \in Owners, n \in 1..Small : TakeSmall(x, w, n)
        \/ \E y \in Buffers : ConstructMove(x, y) \/ AssignMove(x, y)

Spec == Init /\ [][Next]_vars

-----------------------------------------------------------------------------
(* Correctness.                                                            *)

\* The span of a buffer that owns its bytes covers them all, where they are now,
\* after any sequence of moves between buffers of different Ts: unless they are
\* inside of an any that was moved, which is the one place that nobody looks
\* for them again.  No other buffer's span is of a block that it owns.
SpanOfOwned ==
    \A x \in Buffers : m_own[x] # None =>
        /\ m_span[x] # None /\ size_bytes(x) = m_own[x].bytes
        /\ m_span[x].at = At(x, m_own[x]) \/ (m_own[x].is = "any" /\ m_own[x].in = None /\ x \in moved)
        /\ m_own[x].in # None =>
              \A y \in Buffers \ {x} : m_span[y] # None => m_span[y].at # [block |-> m_own[x].in]
=============================================================================
