----------------------------- MODULE HoldersProofs -----------------------------
(***************************************************************************)
(* The properties of Holders, from what OwnersProofs and VectorsProofs     *)
(* prove about the components one by one: a behaviour of Holders is one of *)
(* each of them, that takes a step or stutters.                            *)
(***************************************************************************)
EXTENDS Holders, OwnersProofs, VectorsProofs

-----------------------------------------------------------------------------
(* What a step of Holders is to a component.                               *)

LEMMA ExpectedBehaviour == Spec => Expected!Spec
<1>1. Init => Expected!Init
  BY DEF Init
<1>2. [Next]_vars => [Expected!Next]_(Expected!vars)
  BY DEF Next, vars, e_vars, Expected!vars
<1> QED
  BY <1>1, <1>2, PTL DEF Spec, Expected!Spec

LEMMA AnyBehaviour == Spec => AnyObject!Spec
<1>1. Init => AnyObject!Init
  BY DEF Init
<1>2. [Next]_vars => [AnyObject!Next]_(AnyObject!vars)
  BY DEF Next, vars, a_vars, AnyObject!vars
<1> QED
  BY <1>1, <1>2, PTL DEF Spec, AnyObject!Spec

LEMMA GeneratorBehaviour == Spec => Generator!Spec
<1>1. Init => Generator!Init
  BY DEF Init
<1>2. [Next]_vars => [Generator!Next]_(Generator!vars)
  BY DEF Next, vars, g_vars, Generator!vars, Generator!coroutine, Generator!consumer
<1> QED
  BY <1>1, <1>2, PTL DEF Spec, Generator!Spec

LEMMA RefPtrBehaviour == Spec => RefPtr!Spec
<1>1. Init => RefPtr!Init
  BY DEF Init
<1>2. [Next]_vars => [RefPtr!Next]_(RefPtr!vars)
  BY DEF Next, vars, r_vars, RefPtr!vars
<1> QED
  BY <1>1, <1>2, PTL DEF Spec, RefPtr!Spec

LEMMA OptRefBehaviour == Spec => OptRef!Spec
<1>1. Init => OptRef!Init
  BY DEF Init
<1>2. [Next]_vars => [OptRef!Next]_(OptRef!vars)
  BY DEF Next, vars, o_vars, OptRef!vars
<1> QED
  BY <1>1, <1>2, PTL DEF Spec, OptRef!Spec

LEMMA StreamBehaviour == Spec => Stream!Spec
<1>1. Init => Stream!Init
  BY DEF Init
<1>2. [Next]_vars => [Stream!Next]_(Stream!vars)
  BY DEF Next, vars, s_vars, Stream!vars, Stream!out, Stream!in, Stream!history
<1> QED
  BY <1>1, <1>2, PTL DEF Spec, Stream!Spec

LEMMA BitsetBehaviour == Spec => Bitset!Spec
<1>1. Init => Bitset!Init
  BY DEF Init
<1>2. [Next]_vars => [Bitset!Next]_(Bitset!vars)
  BY DEF Next, vars, b_vars, Bitset!vars
<1> QED
  BY <1>1, <1>2, PTL DEF Spec, Bitset!Spec

LEMMA StaticBehaviour == Spec => Static!Spec
<1>1. Init => Static!Init
  BY DEF Init
<1>2. [Next]_vars => [Static!Next]_(Static!vars)
  BY DEF Next, vars, v_vars, Static!vars
<1> QED
  BY <1>1, <1>2, PTL DEF Spec, Static!Spec

LEMMA PodBehaviour == Spec => Pod!Spec
<1>1. Init => Pod!Init
  BY DEF Init
<1>2. [Next]_vars => [Pod!Next]_(Pod!vars)
  BY DEF Next, vars, p_vars, Pod!vars, Pod!vector
<1> QED
  BY <1>1, <1>2, PTL DEF Spec, Pod!Spec

LEMMA SetsBehaviour == Spec => Sets!Spec
<1>1. Init => Sets!Init
  BY DEF Init
<1>2. [Next]_vars => [Sets!Next]_(Sets!vars)
  BY DEF Next, vars, f_vars, Sets!vars
<1> QED
  BY <1>1, <1>2, PTL DEF Spec, Sets!Spec

-----------------------------------------------------------------------------
(* The properties.                                                         *)

\* An expected holds its value or its error, never both, and never neither unless
\* a constructor threw into it.
THEOREM HoldersExpected == Spec => []HoldsOneOfTwo
<1>1. Expected!HoldsOneOfTwo => HoldsOneOfTwo
  BY DEF HoldsOneOfTwo
<1> QED
  BY <1>1, ExpectedBehaviour, ExpectedHoldsOne, PTL

\* An expected holds the value or the error that it was given last, through
\* moves, copies and getters, if it can be used at all.
THEOREM HoldersGiven == Spec => []HoldsWhatItWasGiven
<1>1. Expected!HoldsWhatItWasGiven => HoldsWhatItWasGiven
  BY DEF HoldsWhatItWasGiven
<1> QED
  BY <1>1, ExpectedBehaviour, ExpectedHoldsGiven, PTL

\* The blocks of anys have one owner, which frees them as they were allocated.
THEOREM HoldersBlocks == Spec => []BlocksOwned
<1>1. AnyObject!BlocksOwned => BlocksOwned
  BY DEF BlocksOwned
<1> QED
  BY <1>1, AnyBehaviour, AnyBlocksOwned, PTL

\* The consumer of a generator gets every value once, and the end.
THEOREM HoldersDelivered == Spec => []Delivered
<1>1. Generator!Delivered => Delivered
  BY DEF Delivered
<1> QED
  BY <1>1, GeneratorBehaviour, GeneratorDelivers, PTL

\* The frames of generators have one owner.
THEOREM HoldersFrames == Spec => []FramesOwned
<1>1. Generator!FramesOwned => FramesOwned
  BY DEF FramesOwned
<1> QED
  BY <1>1, GeneratorBehaviour, GeneratorFramesOwned, PTL

\* A ref_ptr that was unique() is so when its owner comes to write.
THEOREM HoldersUnique == Spec => []StillUnique
<1>1. RefPtr!StillUnique => StillUnique
  BY DEF StillUnique
<1> QED
  BY <1>1, RefPtrBehaviour, RefPtrStillUnique, PTL

\* Copy-on-write never changes what another ref_ptr sees.
THEOREM HoldersDetached == Spec => []Detached
<1>1. RefPtr!Detached => Detached
  BY DEF Detached
<1> QED
  BY <1>1, RefPtrBehaviour, RefPtrDetached, PTL

\* The span of an opt_ref_buffer is where the bytes it owns are.
THEOREM HoldersSpans == Spec => []SpanOfOwned
<1>1. OptRef!SpanOfOwned => SpanOfOwned
  BY DEF SpanOfOwned
<1> QED
  BY <1>1, OptRefBehaviour, OptRefSpans, PTL

\* The streambufs access their memory only, if the caller stays inside too.
THEOREM HoldersInside == Spec => []AccessesInside
<1>1. Stream!AccessesInside => AccessesInside
  BY DEF AccessesInside
<1> QED
  BY <1>1, StreamBehaviour, StreamInside, PTL

\* A mem_istreambuf reads what was written to the mem_ostreambuf.
THEOREM HoldersReads == Spec => []ReadsWhatWasWritten
<1>1. Stream!ReadsWhatWasWritten => ReadsWhatWasWritten
  BY DEF ReadsWhatWasWritten
<1> QED
  BY <1>1, StreamBehaviour, StreamReadsWritten, PTL

\* A dynamic_bitset is a vector<bool>, unless a copy drops bits that are set, and
\* but for an all() of narrow words that may be false wrongly.
THEOREM HoldersBits == Spec => []LikeVectorBool
<1>1. Bitset!LikeVectorBool => LikeVectorBool
  BY DEF LikeVectorBool
<1> QED
  BY <1>1, BitsetBehaviour, BitsetIsVectorBool, PTL

\* A static_vector misuses the lifetime of no object, and reads none for another,
\* but in the four cases that NoLifetimeFault names.
THEOREM HoldersLifetimes == Spec => []NoLifetimeFault
<1>1. Static!NoLifetimeFault => NoLifetimeFault
  BY DEF NoLifetimeFault
<1> QED
  BY <1>1, StaticBehaviour, StaticLifetimes, PTL

\* A static_vector has the elements of a std::vector, and no others, until one of
\* these cases, and unless an exception was thrown into an insert of it.
THEOREM HoldersElements == Spec => []LikeStdVector
<1>1. Static!LikeStdVector => LikeStdVector
  BY DEF LikeStdVector
<1> QED
  BY <1>1, StaticBehaviour, StaticIsVector, PTL

\* A pod_vector accesses its block only, and reads no element for another, but in
\* a resize(n, val), if a function is passed an own element, or after an expand
\* of a block of another alignment.
THEOREM HoldersNoOverrun == Spec => []NoOverrun
<1>1. Pod!NoOverrun => NoOverrun
  BY DEF NoOverrun
<1> QED
  BY <1>1, PodBehaviour, NoOverrunOfPodVector, PTL

\* The blocks of pod_vectors have one owner, and room for its capacity unless an
\* expand left them short.
THEOREM HoldersBacked == Spec => []BuffersBacked
<1>1. Pod!BuffersBacked => BuffersBacked
  BY DEF BuffersBacked
<1> QED
  BY <1>1, PodBehaviour, BuffersOfPodVector, PTL

\* A pod_vector has the bytes of a std::vector's elements, until one of the
\* accesses that NoOverrun names.
THEOREM HoldersBytes == Spec => []LikeVectorOfBytes
<1>1. Pod!LikeVectorOfBytes => LikeVectorOfBytes
  BY DEF LikeVectorOfBytes
<1> QED
  BY <1>1, PodBehaviour, PodVectorIsVector, PTL

\* A flat_set answers as a std::set.
THEOREM HoldersSets == Spec => LikeStdSet
<1>1. Init => Sets!Map!Map!Init
  BY SetsMapInitially DEF Init
<1>2. Flat!IndInv /\ [Next]_vars => [which = "flat_set" => Sets!Map!Map!Next]_f_vars
  <2> SUFFICES ASSUME Flat!IndInv, [Next]_vars, ~UNCHANGED f_vars
               PROVE  Sets!Map!Map!Next
    OBVIOUS
  <2>1. Sets!Next
    BY DEF Next, vars
  <2> QED  BY <2>1, SetsMap
<1> QED
  BY <1>1, <1>2, SetsBehaviour, SetsInvariance, PTL DEF Spec, LikeStdSet
=============================================================================
