-------------------------------- MODULE Vectors --------------------------------
(***************************************************************************)
(* The components that keep elements in order, side by side.  They share   *)
(* nothing; see Holders.                                                   *)
(***************************************************************************)
EXTENDS Naturals, Domains

CONSTANTS Junk,                              \* of pod_vectors: a byte that is not initialized
          Bitsets, bits_per_word, MaxBits,   \* of dynamic_bitsets
          Pods, Bytes, PodTypes, MaxPods, realloc_wasteful_copy_size,  \* of pod_vectors
          Keys, Orders                       \* of flat_sets

VARIABLES
    b_buf, b_size, b_bits, b_fault,
    p_type, p_begin, p_shift, p_size, p_capacity, p_data, p_contents, p_fault,
    f_container, f_cmp, f_answer

Bitset == INSTANCE DynamicBitset WITH
    MaxSize <- MaxBits,
    m_buf <- b_buf, m_size <- b_size, bits <- b_bits, fault <- b_fault

Pod == INSTANCE PodVector WITH
    Vectors <- Pods, Types <- PodTypes, MaxSize <- MaxPods,
    type <- p_type, m_begin <- p_begin, shift <- p_shift, m_size <- p_size, m_capacity <- p_capacity,
    data <- p_data, contents <- p_contents, fault <- p_fault

\* Words have bits.
ASSUME BitsAssumption == bits_per_word \in Nat \ {0} /\ MaxBits \in [Bitsets -> Nat]

\* Types have a size; an allocator always has a block that no vector uses.
ASSUME PodTypesAssumption ==
    \A t \in PodTypes : /\ t.sizeof \in [Pods -> Nat \ {0}]
                       /\ t.allocator_aligned \in BOOLEAN /\ t.has_expand \in BOOLEAN
ASSUME PodBytesAssumption == 0 \in Bytes /\ MaxPods \in [Pods -> Nat]
ASSUME PodBlocksAssumption ==
    \A used \in [Pods -> Blocks \cup {Null}] : \E b \in Blocks : \A v \in Pods : used[v] # b

Sets == INSTANCE FlatSet WITH
    Sets <- Objects, Nothing <- Null,
    m_container <- f_container, cmp <- f_cmp, answer <- f_answer

\* Comparators are strict weak orders, and end() is no element.
ASSUME SetsAssumption ==
    /\ \A r \in Orders : Sets!Map!StrictWeakOrder(r)
    /\ Null \notin Sets!Map!Entry
===============================================================================
