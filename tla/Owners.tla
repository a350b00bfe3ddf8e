-------------------------------- MODULE Owners --------------------------------
(***************************************************************************)
(* The components that own one object, block, frame or container each, or  *)
(* construct objects in themselves, side by side.  They share nothing; see *)
(* Holders.                                                                *)
(***************************************************************************)
EXTENDS Domains

CONSTANTS Allocators, Copyable,                   \* of anys, whose types are the Values
          Buffers, Width, Regions, SizeOf, Small, \* of opt_ref_buffers
          Frames, MaxYields,                      \* of generators
          StreamSize,                             \* of mem_streambufs
          Threads                                 \* of ref_ptrs

ASSUME AllocatorsAssumption == Null \notin Allocators /\ Copyable \subseteq Values
ASSUME FramesAssumption == Null \notin Frames /\ MaxYields \in Nat
ASSUME WidthAssumption ==
    Width \in [Buffers -> Nat \ {0}] /\ SizeOf \in [Regions -> Nat] /\ Small \in Nat /\ Null \notin Regions
ASSUME OffsetAssumption == Null \notin Nat /\ StreamSize \in Nat
ASSUME YieldsAssumption == Null \notin 1..MaxYields /\ Moved \notin 1..MaxYields

VARIABLES
    e_kind, e_exists, e_union, e_has_value, e_abandoned, e_given,
    a_allocator, a_block, a_blocks, a_size, a_object, a_crossed,
    o_exists, o_own, o_span, o_moved,
    g_alive, g_plan, g_yielded, g_final, g_yval, g_exception, g_ret, g_handle,
    g_abandoned, g_seen, g_skipped, g_caught,
    s_null_data, s_data, s_pptr, s_epptr, s_source, s_gptr, s_file, s_handed, s_answer, s_fault,
    r_ptr, r_uses, r_content, r_seen, r_writing,
    v_size, v_object, v_torn, v_contents, v_fault

Expected == INSTANCE Expected WITH
    Contents <- Values, Dead <- Null,
    kind <- e_kind, exists <- e_exists, union <- e_union, m_has_value <- e_has_value,
    abandoned <- e_abandoned, given <- e_given

AnyObject == INSTANCE AnyObject WITH
    Anys <- Objects, Types <- Values,
    allocator <- a_allocator, m_block <- a_block, block <- a_blocks, size <- a_size,
    object <- a_object, crossed <- a_crossed

OptRef == INSTANCE OptRefBuffer WITH
    Blocks <- Regions, None <- Null,
    exists <- o_exists, m_own <- o_own, m_span <- o_span, moved <- o_moved

\* Null is neither a container nor a span.
ASSUME SpanAssumption ==
    /\ Null \notin [is : OptRef!Owners, in : Regions \cup {Null}, bytes : OptRef!Sizes]
    /\ Null \notin [at : OptRef!Places, size : Nat]

Generator == INSTANCE Generator WITH
    Generators <- Objects, MovedFrom <- Moved,
    alive <- g_alive, plan <- g_plan, yielded <- g_yielded, final <- g_final, m_yval <- g_yval,
    m_exception <- g_exception, m_ret <- g_ret, m_handle <- g_handle, abandoned <- g_abandoned,
    seen <- g_seen, skipped <- g_skipped, caught <- g_caught

Stream == INSTANCE MemStreambuf WITH
    Bytes <- Values, Zero <- Null, MaxSize <- StreamSize,
    null_data <- s_null_data, m_data <- s_data, pptr <- s_pptr, epptr <- s_epptr,
    source <- s_source, gptr <- s_gptr, file <- s_file, handed <- s_handed, answer <- s_answer,
    fault <- s_fault

RefPtr == INSTANCE RefPtr WITH
    Slots <- Objects, Objects <- Blocks,
    ptr <- r_ptr, uses <- r_uses, content <- r_content, seen <- r_seen, writing <- r_writing

Static == INSTANCE StaticVector WITH
    Vectors <- Objects,
    m_size <- v_size, object <- v_object, torn <- v_torn, contents <- v_contents, fault <- v_fault

\* An element of a static_vector is no value.
ASSUME StaticAssumption == \A v \in Objects, i \in 0..Capacity : <<v, i>> \notin Values
===============================================================================
