------------------------------ MODULE MCHolders ------------------------------
(* Holders for TLC.                                                            *)
EXTENDS Holders, TLC

\* One of the two types of anys can be copied.
MCCopyable == {CHOOSE x \in Values : TRUE}

\* Two buffers of bytes and one of pairs; a block that is pairs and one that is not.
MCWidth == <<1, 1, 2>>
MCSizeOf == 5 :> 3 @@ 6 :> 4

\* Words of three bits: four of them, a word and a bit, are copied to a word.
MCMaxBits == <<4, 3>>

\* Types of one and two bytes that the allocator does not align, or two of one byte.
MCPodTypes ==
    {[sizeof |-> <<1, 2>>, allocator_aligned |-> FALSE, has_expand |-> TRUE],
     [sizeof |-> <<1, 1>>, allocator_aligned |-> FALSE, has_expand |-> FALSE],
     [sizeof |-> <<1, 1>>, allocator_aligned |-> TRUE, has_expand |-> FALSE]}
MCMaxPods == <<3, 1>>

\* Ascending, and by parity, even before odd, which does not tell 1 from 3.
MCOrders == {{r \in Keys \X Keys : r[1] < r[2]}, {r \in Keys \X Keys : r[1] % 2 < r[2] % 2}}

\* Where a component can be constructed in several ways and is not the one
\* that is exercised, it is constructed in one of them.  The second coroutine
\* of the generators always does the same.
One(S) == CHOOSE x \in S : TRUE
MCInit ==
    /\ Init
    /\ which = "expected" \/ e_kind = One(Expected!Kinds)
    /\ g_plan[2] = [yields |-> 1, ending |-> "return", ref |-> FALSE]
    /\ which = "generator" \/ g_plan[1] = g_plan[2]
    /\ which = "mem_streambuf" \/ (s_null_data /\ s_data = <<>>)
    /\ which = "pod_vector" \/ p_type = One(PodTypes)
    /\ which = "flat_set" \/ \A x \in Objects : f_cmp[x] = One(Orders)

MCSpec == MCInit /\ [][Next]_vars
=============================================================================
