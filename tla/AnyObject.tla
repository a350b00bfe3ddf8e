-------------------------------- MODULE AnyObject --------------------------------
(***************************************************************************)
(* itlib::any: an object of any type in a block of memory of its own, from *)
(* an allocator that the any carries with it.                              *)
(*                                                                         *)
(* An object is abstracted to its type, which decides the size and the     *)
(* alignment of its block.  The allocator and the constructors of objects  *)
(* are external: they may throw.                                           *)
(***************************************************************************)
CONSTANTS Anys, Types, Allocators,
          Blocks,     \* the addresses of blocks
          Null,       \* no block, no allocator, no type
          Copyable    \* the types that can be copied

VARIABLES
    allocator,   \* the base of each any that exists
    m_block,
    block,       \* what the allocators know of each address: who allocated it,
                 \* and for which type
    size,        \* obj_block::size and alignment, as the type they are those of
    object,      \* the type of the object that is alive in the block
    crossed      \* history: the blocks that an assignment moved to an any with
                 \* another allocator

vars == <<allocator, m_block, block, size, object, crossed>>

Free == [by |-> Null, for |-> Null]

TypeOK ==
    /\ allocator \in [Anys -> Allocators \cup {Null}]
    /\ m_block \in [Anys -> Blocks \cup {Null}]
    /\ block \in [Blocks -> [by : Allocators \cup {Null}, for : Types \cup {Null}]]
    /\ size \in [Blocks -> Types \cup {Null}]
    /\ object \in [Blocks -> Types \cup {Null}]
    /\ crossed \subseteq Blocks

Init ==
    /\ allocator = [x \in Anys |-> Null]
    /\ m_block = [x \in Anys |-> Null]
    /\ block = [b \in Blocks |-> Free]
    /\ size = [b \in Blocks |-> Null]
    /\ object = [b \in Blocks |-> Null]
    /\ crossed = {}

exists(x) == allocator[x] # Null
Held(x) == IF m_block[x] = Null THEN Null ELSE object[m_block[x]]

\* The memory after x has reset(): the object is destroyed and its block freed.
Release(f, x, v) == IF m_block[x] = Null THEN f ELSE [f EXCEPT ![m_block[x]] = v]
Released(x) ==
    [block |-> Release(block, x, Free), size |-> Release(size, x, Null),
     object |-> Release(object, x, Null),
     crossed |-> crossed \ {m_block[x]}]

Memory(r) == block' = r.block /\ size' = r.size /\ object' = r.object /\ crossed' = r.crossed
Owns(x, b) == m_block' = [m_block EXCEPT ![x] = b]

\* After r, the allocator a gives the block b, where an object of type t is
\* constructed and its size written down.
Stored(r, b, a, t) ==
    [block |-> [r.block EXCEPT ![b] = [by |-> a, for |-> t]], size |-> [r.size EXCEPT ![b] = t],
     object |-> [r.object EXCEPT ![b] = t], crossed |-> r.crossed]

\* emplace<T>: an allocation or a constructor that throws leaves x empty, as
\* the block is freed again.
Place(r, x, a, t) ==
    \/ \E b \in {c \in Blocks : r.block[c] = Free} : Memory(Stored(r, b, a, t)) /\ Owns(x, b)
    \/ Memory(r) /\ Owns(x, Null)

emplace(x, t) == exists(x) /\ Place(Released(x), x, allocator[x], t) /\ UNCHANGED allocator

reset(x) == exists(x) /\ Memory(Released(x)) /\ Owns(x, Null) /\ UNCHANGED allocator

\* x exists with the allocator a from now on.
Exists(x, a) == allocator' = [allocator EXCEPT ![x] = a]

\* any(), any(a)
Construct(x, a) == ~exists(x) /\ Exists(x, a) /\ UNCHANGED <<m_block, block, size, object, crossed>>

\* any(T&&) and any(allocator_arg, a, T&&): if emplace throws there is no any.
ConstructFrom(x, a, t) ==
    /\ ~exists(x)
    /\ Place(Released(x), x, a, t)
    /\ Exists(x, IF m_block'[x] = Null THEN Null ELSE a)

Destroy(x) == exists(x) /\ Memory(Released(x)) /\ Owns(x, Null) /\ Exists(x, Null)

\* The move constructor takes the allocator too.
ConstructMove(x, y) ==
    /\ ~exists(x) /\ exists(y)
    /\ Exists(x, allocator[y])
    /\ m_block' = [m_block EXCEPT ![x] = m_block[y], ![y] = Null]
    /\ UNCHANGED <<block, size, object, crossed>>

\* A move assignment that does not reset.
AssignMoveOver(x, y) ==
    /\ exists(x) /\ exists(y) /\ x # y
    /\ m_block' = [m_block EXCEPT ![x] = m_block[y], ![y] = Null]
    /\ UNCHANGED <<allocator, block, size, object, crossed>>

\* The move assignment takes the block only.
AssignMove(x, y) ==
    /\ exists(x) /\ exists(y) /\ x # y
    /\ LET r == Released(x) IN
       Memory([r EXCEPT !.crossed =
                   IF allocator[x] = allocator[y] THEN @ ELSE @ \cup ({m_block[y]} \ {Null})])
    /\ m_block' = [m_block EXCEPT ![x] = m_block[y], ![y] = Null]
    /\ UNCHANGED allocator

\* copy_from resets before it looks at its source, which may be x itself: then
\* there is nothing to copy.  A type that cannot be copied throws bad_cast.
copy_from(x, y, a) ==
    LET r == Released(x)
        t == IF y = x THEN Null ELSE Held(y)
    IN \/ t \in Copyable /\ Place(r, x, a, t)
       \/ t \notin Copyable /\ Memory(r) /\ Owns(x, Null)

AssignCopy(x, y) ==
    exists(x) /\ exists(y) /\ copy_from(x, y, allocator[x]) /\ UNCHANGED allocator

\* The copy constructors: if the copy throws there is no any, but the copy of
\* an empty any is one.
ConstructCopy(x, y, a) ==
    /\ ~exists(x) /\ exists(y)
    /\ copy_from(x, y, a)
    /\ Exists(x, IF Held(y) # Null /\ m_block'[x] = Null THEN Null ELSE a)

Next ==
    \E x \in Anys :
        \/ \E t \in Types : emplace(x, t) \/ \E a \in Allocators : ConstructFrom(x, a, t)
        \/ \E a \in Allocators : Construct(x, a)
        \/ reset(x) \/ Destroy(x)
        \/ \E y \in Anys :
              \/ ConstructMove(x, y) \/ AssignMove(x, y) \/ AssignCopy(x, y)
              \/ \E a \in Allocators : ConstructCopy(x, y, a)

Spec == Init /\ [][Next]_vars

-----------------------------------------------------------------------------
(* Correctness.                                                            *)

\* Whatever is moved, copied or replaced, and whatever throws on the way: every
\* block that is allocated has one owner, an any that exists, and holds a living
\* object; nothing else is allocated or alive.  The owner will free it as it was
\* allocated: with the size and the alignment it was allocated for, and by the
\* allocator that allocated it, unless a move assignment took it from an any with
\* another allocator.
BlocksOwned ==
    /\ \A x \in Anys : m_block[x] # Null => exists(x) /\ block[m_block[x]] # Free
    /\ \A x, y \in Anys : m_block[x] = m_block[y] /\ x # y => m_block[x] = Null
    /\ \A b \in Blocks : block[b] # Free => \E x \in Anys : m_block[x] = b
    /\ \A b \in Blocks : object[b] = block[b].for
    /\ \A x \in Anys : LET b == m_block[x] IN
          b # Null => size[b] = block[b].for /\ (block[b].by = allocator[x] \/ b \in crossed)
=============================================================================
