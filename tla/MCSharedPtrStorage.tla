------------------------- MODULE MCSharedPtrStorage -------------------------
(* SharedPtrStorage for TLC: the threads are interchangeable.                  *)
EXTENDS SharedPtrStorage, TLC
\* Reentrant tells the objects apart, so only the threads are permuted.
Symmetry == Permutations(Threads)
=============================================================================
