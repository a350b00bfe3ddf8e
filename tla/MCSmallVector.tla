---------------------------- MODULE MCSmallVector ----------------------------
(* SmallVector for TLC: the vectors are interchangeable, and so are the blocks *)
(* and the values.                                                             *)
EXTENDS SmallVector

Symmetry == Permutations(Vectors) \cup Permutations(Blocks) \cup Permutations(Values)
=============================================================================
