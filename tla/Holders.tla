-------------------------------- MODULE Holders --------------------------------
(***************************************************************************)
(* The components of Owners and Vectors, one at a time: a behaviour        *)
(* exercises one of them, `which', and the others stay as they were        *)
(* constructed.                                                            *)
(***************************************************************************)
EXTENDS Owners, Vectors

VARIABLE which

Components == {"expected", "any", "opt_ref_buffer", "generator", "mem_streambuf", "ref_ptr",
               "dynamic_bitset", "static_vector", "pod_vector", "flat_set"}

Init ==
    /\ which \in Components
    /\ Expected!Init /\ AnyObject!Init /\ OptRef!Init /\ Generator!Init /\ Stream!Init
    /\ RefPtr!Init /\ Bitset!Init /\ Static!Init /\ Pod!Init /\ Sets!Init

\* The variables of each component.
e_vars == <<e_kind, e_exists, e_union, e_has_value, e_abandoned, e_given>>
a_vars == <<a_allocator, a_block, a_blocks, a_size, a_object, a_crossed>>
o_vars == <<o_exists, o_own, o_span, o_moved>>
g_vars == <<g_alive, g_plan, g_yielded, g_final, g_yval, g_exception, g_ret, g_handle,
            g_abandoned, g_seen, g_skipped, g_caught>>
s_vars == <<s_null_data, s_data, s_pptr, s_epptr, s_source, s_gptr, s_file, s_handed, s_answer, s_fault>>
r_vars == <<r_ptr, r_uses, r_content, r_seen, r_writing>>
b_vars == <<b_buf, b_size, b_bits, b_fault>>
v_vars == <<v_size, v_object, v_torn, v_contents, v_fault>>
p_vars == <<p_type, p_begin, p_shift, p_size, p_capacity, p_data, p_contents, p_fault>>
f_vars == <<f_container, f_cmp, f_answer>>

Next ==
    \/ /\ which = "expected" /\ Expected!Next
       /\ UNCHANGED <<which, a_vars, o_vars, g_vars, s_vars, r_vars, b_vars, v_vars, p_vars, f_vars>>
    \/ /\ which = "any" /\ AnyObject!Next
       /\ UNCHANGED <<which, e_vars, o_vars, g_vars, s_vars, r_vars, b_vars, v_vars, p_vars, f_vars>>
    \/ /\ which = "opt_ref_buffer" /\ OptRef!Next
       /\ UNCHANGED <<which, e_vars, a_vars, g_vars, s_vars, r_vars, b_vars, v_vars, p_vars, f_vars>>
    \/ /\ which = "generator" /\ Generator!Next
       /\ UNCHANGED <<which, e_vars, a_vars, o_vars, s_vars, r_vars, b_vars, v_vars, p_vars, f_vars>>
    \/ /\ which = "mem_streambuf" /\ Stream!Next
       /\ UNCHANGED <<which, e_vars, a_vars, o_vars, g_vars, r_vars, b_vars, v_vars, p_vars, f_vars>>
    \/ /\ which = "ref_ptr" /\ RefPtr!Next
       /\ UNCHANGED <<which, e_vars, a_vars, o_vars, g_vars, s_vars, b_vars, v_vars, p_vars, f_vars>>
    \/ /\ which = "dynamic_bitset" /\ Bitset!Next
       /\ UNCHANGED <<which, e_vars, a_vars, o_vars, g_vars, s_vars, r_vars, v_vars, p_vars, f_vars>>
    \/ /\ which = "static_vector" /\ Static!Next
       /\ UNCHANGED <<which, e_vars, a_vars, o_vars, g_vars, s_vars, r_vars, b_vars, p_vars, f_vars>>
    \/ /\ which = "pod_vector" /\ Pod!Next
       /\ UNCHANGED <<which, e_vars, a_vars, o_vars, g_vars, s_vars, r_vars, b_vars, v_vars, f_vars>>
    \/ /\ which = "flat_set" /\ Sets!Next
       /\ UNCHANGED <<which, e_vars, a_vars, o_vars, g_vars, s_vars, r_vars, b_vars, v_vars, p_vars>>

vars == <<which, e_vars, a_vars, o_vars, g_vars, s_vars, r_vars, b_vars, v_vars, p_vars, f_vars>>
Spec == Init /\ [][Next]_vars

-----------------------------------------------------------------------------
(* The properties of the components; each module says what its own mean.   *)

\* An expected holds its value or its error, never both or neither.
HoldsOneOfTwo == which = "expected" => Expected!HoldsOneOfTwo

\* An expected holds the value or the error that it was given last, through
\* moves, copies and getters.
HoldsWhatItWasGiven == which = "expected" => Expected!HoldsWhatItWasGiven

\* The blocks of anys have one owner, which frees them as they were allocated.
BlocksOwned == which = "any" => AnyObject!BlocksOwned

\* The span of an opt_ref_buffer is where the bytes it owns are.
SpanOfOwned == which = "opt_ref_buffer" => OptRef!SpanOfOwned

\* The consumer of a generator gets every value once, and the end.
Delivered == which = "generator" => Generator!Delivered

\* The frames of generators have one owner.
FramesOwned == which = "generator" => Generator!FramesOwned

\* The streambufs access their memory only, if the caller stays inside too.
AccessesInside == which = "mem_streambuf" => Stream!AccessesInside

\* A mem_istreambuf reads what was written to the mem_ostreambuf.
ReadsWhatWasWritten == which = "mem_streambuf" => Stream!ReadsWhatWasWritten

\* A ref_ptr that was unique() is so when its owner comes to write.
StillUnique == which = "ref_ptr" => RefPtr!StillUnique

\* Copy-on-write never changes what another ref_ptr sees.
Detached == which = "ref_ptr" => RefPtr!Detached

\* A dynamic_bitset is a vector<bool>, unless a copy drops bits that are set, and
\* but for an all() of narrow words that may be false wrongly.
LikeVectorBool == which = "dynamic_bitset" => Bitset!LikeVectorBool

\* A static_vector misuses the lifetime of no object, and reads none for another,
\* but in four cases, its destruction after a throwing insert among them.
NoLifetimeFault == which = "static_vector" => Static!NoLifetimeFault

\* A static_vector has the elements of a std::vector, and no others, until one of
\* these cases, and unless an exception was thrown into an insert of it.
LikeStdVector == which = "static_vector" => Static!LikeStdVector

\* A pod_vector accesses its block only, and reads no element for another, but in
\* a resize(n, val), if a function is passed an own element, or after an expand
\* of a block of another alignment.
NoOverrun == which = "pod_vector" => Pod!NoOverrun

\* The blocks of pod_vectors have one owner, and room for its capacity.
BuffersBacked == which = "pod_vector" => Pod!BuffersBacked

\* A pod_vector has the bytes of a std::vector's elements, until one of these
\* accesses.
LikeVectorOfBytes == which = "pod_vector" => Pod!LikeVectorOfBytes

\* A flat_set answers as a std::set.
LikeStdSet ==
    Sets!Map!Map!Init /\ [][which = "flat_set" => Sets!Map!Map!Next]_f_vars
=============================================================================
