------------------------------ MODULE PodVector ------------------------------
(***************************************************************************)
(* itlib::pod_vector<T, Alloc>: a vector of trivial objects, whose bytes   *)
(* are moved with memmove, memcpy and realloc.                             *)
(*                                                                         *)
(* A block of memory is the sequence of its bytes.  If the allocator does  *)
(* not align its blocks for T, the elements begin at a shift from the      *)
(* start of the block, and the byte before them holds the shift.  What is  *)
(* past the end of a vector is Junk: nothing may depend on it.             *)
(***************************************************************************)
EXTENDS Integers, TLC, SequencesExt

CONSTANTS Vectors,
          Blocks,
          Null,
          Junk,        \* a byte that is not initialized
          Bytes,       \* the bytes of the elements, 0 among them
          Types,       \* the types and allocators of the vectors, see `type'
          MaxSize,     \* bound: how many elements a vector may have
          realloc_wasteful_copy_size

VARIABLES
    type,        \* of the vectors: [sizeof, allocator_aligned, has_expand]
    m_begin,     \* the block of each vector
    shift,       \* where in the block its elements begin
    m_size,      \* m_end - m_begin
    m_capacity,
    data,        \* the bytes of each block, none if it is free
    contents,    \* history: the bytes of the elements a std::vector would have
    fault        \* history: the function that wrote past its block, or read
                 \* its argument from a block it had freed or where another
                 \* element had come; or expand, if the block is short of what
                 \* it should have been expanded to: nothing is known after that

vector == <<m_begin, shift, m_size, m_capacity>>
vars == <<type, vector, data, contents, fault>>

TypeOK ==
    /\ type \in Types
    /\ m_begin \in [Vectors -> Blocks \cup {Null}]
    /\ shift \in [Vectors -> Nat]
    /\ \A v \in Vectors : m_size[v] \in 0..MaxSize[v]
    /\ m_capacity \in [Vectors -> Nat]
    /\ data \in [Blocks -> Seq(Nat \cup {Junk})]
    /\ contents \in [Vectors -> Seq(Bytes)]
    /\ fault \in STRING

Init ==
    /\ type \in Types
    /\ m_begin = [v \in Vectors |-> Null]
    /\ shift = [v \in Vectors |-> 0]
    /\ m_size = [v \in Vectors |-> 0]
    /\ m_capacity = [v \in Vectors |-> 0]
    /\ data = [b \in Blocks |-> <<>>]
    /\ contents = [v \in Vectors |-> <<>>]
    /\ fault = "none"

e2b(v, n) == n * type.sizeof[v]
byte_size(v) == e2b(v, m_size[v])
alignof(v) == type.sizeof[v]
Patterns(v) == [1..type.sizeof[v] -> Bytes]
-----------------------------------------------------------------------------
(* Memory.                                                                 *)

\* n bytes of `from' are copied to `to' in d.
memmove(d, to, from, n) ==
    [i \in DOMAIN d |-> IF i - 1 \in to..to + n - 1 THEN d[i - to + from] ELSE d[i]]

\* The bytes xs are written at `to' in d.
memset(d, to, xs) ==
    [i \in DOMAIN d |-> IF i - 1 \in to..to + Len(xs) - 1 THEN xs[i - to] ELSE d[i]]

Fill(x, n) == [i \in 1..n * Len(x) |-> x[((i - 1) % Len(x)) + 1]]
ZeroBytes(n) == [i \in 1..n |-> 0]

Buffer(v) ==
    [block |-> m_begin[v], shift |-> shift[v], capacity |-> m_capacity[v],
     bytes |-> IF m_begin[v] = Null THEN <<>> ELSE data[m_begin[v]]]

\* Which of the free blocks malloc returns makes no difference.
FreeBlock == CHOOSE b \in Blocks : data[b] = <<>>

\* a_malloc(n): where the block is not aligned its elements are, by one byte or
\* more, and the byte before them says how many.
a_malloc(v, n) ==
    IF type.allocator_aligned
    THEN {[block |-> FreeBlock, shift |-> 0, capacity |-> n, bytes |-> Fill(<<Junk>>, e2b(v, n))]}
    ELSE {[block |-> FreeBlock, shift |-> k, capacity |-> n,
           bytes |-> [Fill(<<Junk>>, e2b(v, n) + alignof(v)) EXCEPT ![k] = k]] : k \in 1..alignof(v)}

\* The bytes of v's elements are copied to another block.
Copies(v, n) ==
    {[u EXCEPT !.bytes = memset(@, u.shift, SubSeq(Buffer(v).bytes, shift[v] + 1, shift[v] + byte_size(v)))]
        : u \in a_malloc(v, n)}

\* The block is given another length where it is.
InPlace(v, n) ==
    LET length == e2b(v, n) + (IF type.allocator_aligned THEN 0 ELSE alignof(v))
        d == Buffer(v).bytes
    IN [Buffer(v) EXCEPT
           !.capacity = n,
           !.bytes = [i \in 1..length |-> IF i \in DOMAIN d THEN d[i] ELSE Junk]]

\* The buffers that v may have after it is reallocated for n elements: expand
\* and realloc may leave it where it is, and are not asked to by a vector with
\* no block, nor is realloc if the block is not aligned, or if it would copy
\* too much that is not used.
Reallocated(v, n, unused) ==
    Copies(v, n)
    \cup IF \/ m_begin[v] = Null
            \/ ~type.has_expand /\ ~type.allocator_aligned
            \/ ~type.has_expand /\ e2b(v, unused) > realloc_wasteful_copy_size
         THEN {} ELSE {InPlace(v, n)}

\* At least n, by steps of one half.
get_new_capacity(v, n) ==
    LET Grown[c \in Nat] == IF c < n THEN Grown[(3 * c + 1) \div 2] ELSE c
    IN IF m_capacity[v] = 0 THEN n ELSE Grown[m_capacity[v]]

\* A reserve that is one short.
ReservedShort(v, n) ==
    IF n <= m_capacity[v] + 1 THEN {Buffer(v)}
    ELSE Reallocated(v, get_new_capacity(v, n), m_capacity[v] - m_size[v])

\* The buffers after reserve(n).
Reserved(v, n) ==
    IF n <= m_capacity[v] THEN {Buffer(v)}
    ELSE Reallocated(v, get_new_capacity(v, n), m_capacity[v] - m_size[v])

\* Those after safe_grow(n), which does not keep the elements.
SafeGrown(v, n) ==
    IF n <= m_capacity[v] THEN {Buffer(v)} ELSE a_malloc(v, get_new_capacity(v, n))

\* v has buffer u and n elements, where a std::vector has the bytes xs.  The
\* block it had is freed if it is another one.
Becomes(v, u, n, xs) ==
    /\ n <= MaxSize[v]
    /\ m_begin' = [m_begin EXCEPT ![v] = u.block]
    /\ shift' = [shift EXCEPT ![v] = u.shift]
    /\ m_size' = [m_size EXCEPT ![v] = n]
    /\ m_capacity' = [m_capacity EXCEPT ![v] = u.capacity]
    /\ data' = [b \in Blocks |->
                   IF b = u.block
                   THEN [i \in DOMAIN u.bytes |-> IF i <= u.shift + e2b(v, n) THEN u.bytes[i] ELSE Junk]
                   ELSE IF b = m_begin[v] THEN <<>> ELSE data[b]]
    /\ contents' = [contents EXCEPT ![v] = xs]
    /\ UNCHANGED type

\* Where element i of a vector with buffer u is.
Place(v, u, i) == u.shift + e2b(v, i)
Fits(v, u, i) == Place(v, u, i) <= Len(u.bytes)

\* u is short of its capacity.
Short(v, u) == ~Fits(v, u, u.capacity)

Run(v, name, ok, u, n, xs) ==
    \/ ok /\ Fits(v, u, n) /\ Becomes(v, u, n, xs) /\ UNCHANGED fault
    \/ /\ ~(ok /\ Fits(v, u, n)) /\ n <= MaxSize[v]
       /\ fault' = IF ~Fits(v, u, n) /\ (Short(v, Buffer(v)) \/ u.shift > alignof(v)) THEN "expand" ELSE name
       /\ UNCHANGED <<type, vector, data, contents>>

-----------------------------------------------------------------------------
(* The functions.                                                          *)

Element(v, u, i) == [k \in 1..type.sizeof[v] |-> u.bytes[Place(v, u, i) + k]]
Writes(v, u, i, xs) == [u EXCEPT !.bytes = memset(@, Place(v, u, i), xs)]

First(v, n) == IF n >= m_size[v] THEN contents[v] ELSE SubSeq(contents[v], 1, e2b(v, n))
Rest(v, n) == SubSeq(contents[v], e2b(v, n) + 1, Len(contents[v]))

\* Element i, which the caller of a function with `own' in its name passes: the
\* function reads it after it has made room, where it was before.
Own(v, i) == SubSeq(contents[v], e2b(v, i) + 1, e2b(v, i + 1))

assign(v, xs) ==
    LET n == Len(xs) \div type.sizeof[v]
    IN \E u \in SafeGrown(v, n) : Run(v, "assign", TRUE, Writes(v, u, 0, xs), n, xs)

assign_own(v, n, i) ==
    \E u \in SafeGrown(v, n) :
        Run(v, "assign_own", u.block = m_begin[v],
            Writes(v, u, 0, Fill(Element(v, u, i), n)), n, Fill(Own(v, i), n))

\* From a vector of the same type, or recast_copy_from one of another type, of
\* whose bytes those remain that make whole elements.
copy(v, w) ==
    LET n == byte_size(w) \div type.sizeof[v]
    IN /\ v # w
       /\ \E u \in SafeGrown(v, n) :
             Run(v, "copy", TRUE,
                 Writes(v, u, 0, SubSeq(Buffer(w).bytes, shift[w] + 1, shift[w] + e2b(v, n))),
                 n, SubSeq(contents[w], 1, e2b(v, n)))

\* A move that leaves its source as it was.
move_and_keep(v, w) ==
    LET n == byte_size(w) \div type.sizeof[v]
    IN /\ v # w /\ n <= MaxSize[v]
       /\ m_begin' = [m_begin EXCEPT ![v] = m_begin[w]]
       /\ shift' = [shift EXCEPT ![v] = shift[w]]
       /\ m_size' = [m_size EXCEPT ![v] = n]
       /\ m_capacity' = [m_capacity EXCEPT ![v] = e2b(w, m_capacity[w]) \div type.sizeof[v]]
       /\ data' = [b \in Blocks |-> IF b = m_begin[v] THEN <<>> ELSE data[b]]
       /\ contents' = [contents EXCEPT ![v] = SubSeq(contents[w], 1, e2b(v, n))]
       /\ UNCHANGED <<type, fault>>

\* Likewise, and recast_take_from.
move(v, w) ==
    LET n == byte_size(w) \div type.sizeof[v]
    IN /\ v # w /\ n <= MaxSize[v]
       /\ m_begin' = [m_begin EXCEPT ![v] = m_begin[w], ![w] = Null]
       /\ shift' = [shift EXCEPT ![v] = shift[w], ![w] = 0]
       /\ m_size' = [m_size EXCEPT ![v] = n, ![w] = 0]
       /\ m_capacity' = [m_capacity EXCEPT ![v] = e2b(w, m_capacity[w]) \div type.sizeof[v], ![w] = 0]
       /\ data' = [b \in Blocks |-> IF b = m_begin[v] THEN <<>> ELSE data[b]]
       /\ contents' = [contents EXCEPT ![v] = SubSeq(contents[w], 1, e2b(v, n)), ![w] = <<>>]
       /\ UNCHANGED <<type, fault>>

swap(v, w) ==
    LET Swapped(f) == [f EXCEPT ![v] = f[w], ![w] = f[v]]
    IN /\ type.sizeof[v] = type.sizeof[w]
       /\ m_size[v] <= MaxSize[w] /\ m_size[w] <= MaxSize[v]
       /\ m_begin' = Swapped(m_begin)
       /\ shift' = Swapped(shift)
       /\ m_size' = Swapped(m_size)
       /\ m_capacity' = Swapped(m_capacity)
       /\ contents' = Swapped(contents)
       /\ UNCHANGED <<type, data, fault>>

reserve(v, n) == \E u \in Reserved(v, n) : Run(v, "reserve", TRUE, u, m_size[v], contents[v])

shrink_to_fit(v) ==
    \E u \in IF m_size[v] = m_capacity[v] THEN {Buffer(v)}
             ELSE IF m_size[v] = 0
             THEN {[block |-> Null, shift |-> 0, capacity |-> 0, bytes |-> <<>>]}
             ELSE Reallocated(v, m_size[v], 0) :
        Run(v, "shrink_to_fit", TRUE, u, m_size[v], contents[v])

clear(v) == Run(v, "clear", TRUE, Buffer(v), 0, <<>>)

resize(v, n) ==
    LET zeros == IF n > m_size[v] THEN ZeroBytes(e2b(v, n - m_size[v])) ELSE <<>>
    IN \E u \in Reserved(v, n) :
          Run(v, "resize", TRUE, Writes(v, u, m_size[v], zeros), n, First(v, n) \o zeros)

\* It writes n values from the end on, not n - size().
resize_fill(v, n, x) ==
    \E u \in Reserved(v, n) :
        Run(v, "resize_fill", n = 0 \/ Fits(v, u, m_size[v] + n),
            Writes(v, u, m_size[v], Fill(x, n)), n,
            First(v, n) \o (IF n > m_size[v] THEN Fill(x, n - m_size[v]) ELSE <<>>))

resize_own(v, n, i) ==
    \E u \in Reserved(v, n) :
        Run(v, "resize_own", u.block = m_begin[v] /\ Fits(v, u, m_size[v] + n),
            Writes(v, u, m_size[v], Fill(Element(v, u, i), n)), n,
            First(v, n) \o (IF n > m_size[v] THEN Fill(Own(v, i), n - m_size[v]) ELSE <<>>))

\* Or emplace_back(), whose element is not initialized: its bytes are any.
push_back(v, x) ==
    \E u \in Reserved(v, m_size[v] + 1) :
        Run(v, "push_back", TRUE, Writes(v, u, m_size[v], x), m_size[v] + 1, contents[v] \o x)

push_back_own(v, i) ==
    \E u \in Reserved(v, m_size[v] + 1) :
        Run(v, "push_back_own", u.block = m_begin[v],
            Writes(v, u, m_size[v], Element(v, u, i)), m_size[v] + 1,
            contents[v] \o Own(v, i))

\* A gap that is made for one element.
grow_by_one(v, p, num) ==
    LET s == m_size[v]
        Gap(u) == [u EXCEPT !.bytes = memmove(@, Place(v, u, p + 1), Place(v, u, p), e2b(v, s - p))]
    IN {Gap(u) : u \in Reserved(v, s + num)}

\* The buffers after grow_at(p, num): at the end it is resize, and elsewhere the
\* elements from p on move up.
grow_at(v, p, num) ==
    LET s == m_size[v]
        Gap(u) == [u EXCEPT !.bytes = memmove(@, Place(v, u, p + num), Place(v, u, p), e2b(v, s - p))]
    IN IF p = s THEN {Writes(v, u, s, ZeroBytes(e2b(v, num))) : u \in Reserved(v, s + num)}
       ELSE {Gap(u) : u \in IF s + num <= m_capacity[v] THEN {Buffer(v)}
                            ELSE Reallocated(v, get_new_capacity(v, s + num), m_capacity[v] - p)}

insert(v, p, xs) ==
    LET num == Len(xs) \div type.sizeof[v]
    IN \E u \in grow_at(v, p, num) :
          Run(v, "insert", TRUE, Writes(v, u, p, xs), m_size[v] + num, First(v, p) \o xs \o Rest(v, p))

\* One element num times.  The elements that have moved are those from p on, but
\* their bytes are still in the gap.
insert_own(v, p, num, i) ==
    \E u \in grow_at(v, p, num) :
        Run(v, "insert_own", u.block = m_begin[v] /\ i < p + num,
            Writes(v, u, p, Fill(Element(v, u, i), num)), m_size[v] + num,
            First(v, p) \o Fill(Own(v, i), num) \o Rest(v, p))

\* erase and pop_back.
shrink_at(v, p, num) ==
    LET u == Buffer(v)
        n == m_size[v] - num
    IN Run(v, "shrink_at", TRUE,
           IF n = 0 THEN u
           ELSE [u EXCEPT !.bytes = memmove(@, Place(v, u, p), Place(v, u, p + num), e2b(v, n - p))],
           n, First(v, p) \o Rest(v, p + num))

Next ==
    /\ fault = "none"
    /\ \E v \in Vectors :
           \/ \E n \in 0..MaxSize[v] : \E xs \in [1..e2b(v, n) -> Bytes] :
                 assign(v, xs) \/ \E p \in 0..m_size[v] : insert(v, p, xs)
           \/ \E w \in Vectors : copy(v, w) \/ move(v, w) \/ swap(v, w)
           \/ shrink_to_fit(v) \/ clear(v)
           \/ \E n \in 0..MaxSize[v] :
                 reserve(v, n) \/ resize(v, n) \/ \E x \in Patterns(v) : resize_fill(v, n, x)
           \/ \E x \in Patterns(v) : push_back(v, x)
           \/ \E i \in 0..m_size[v] - 1 :
                 \/ push_back_own(v, i)
                 \/ \E n \in 1..MaxSize[v] :
                       \/ assign_own(v, n, i) \/ resize_own(v, n, i)
                       \/ \E p \in 0..m_size[v] : insert_own(v, p, n, i)
           \/ \E p \in 0..m_size[v] : \E num \in 0..m_size[v] - p : shrink_at(v, p, num)

Spec == Init /\ [][Next]_vars

-----------------------------------------------------------------------------
(* Correctness.                                                            *)

\* No function writes past its block or reads freed memory, or another element
\* than the one it is given, but for a resize(n, val) of a vector that is not
\* empty and has no room for n elements more; for push_back, assign, resize and
\* insert of an own element from a block that they free, or one that the insert
\* moves up past the gap; and for what follows an expand of a block taken from a
\* vector of a more aligned type, which is short by the difference, also in the
\* vectors that take it then.
NoOverrun ==
    fault \in {"none", "resize_fill", "push_back_own", "assign_own", "resize_own", "insert_own",
               "expand"}

\* A block is free or the buffer of one vector, also after a recast: it has
\* room for the vector's capacity, unless its elements begin further from its
\* start than some type expects that may have expanded it, and the byte before
\* the elements leads back to the address that free and expand expect.
BuffersBacked ==
    fault = "none" =>
        /\ \A v, w \in Vectors : m_begin[v] = m_begin[w] /\ v # w => m_begin[v] = Null
        /\ \A b \in Blocks : data[b] # <<>> => \E v \in Vectors : m_begin[v] = b
        /\ \A v \in Vectors :
              IF m_begin[v] = Null THEN m_capacity[v] = 0
              ELSE /\ Short(v, Buffer(v)) => type.has_expand /\ \E w \in Vectors : shift[v] > alignof(w)
                   /\ shift[v] # 0 => data[m_begin[v]][shift[v]] = shift[v]

\* Until one of those faults the elements are those of a std::vector after the
\* same calls, or of a cast of its bytes.
LikeVectorOfBytes ==
    fault = "none" =>
        \A v \in Vectors :
            /\ Len(contents[v]) = byte_size(v)
            /\ m_size[v] <= m_capacity[v]
            /\ \A i \in DOMAIN contents[v] :
                  contents[v][i] = data[m_begin[v]][shift[v] + i]
=============================================================================
