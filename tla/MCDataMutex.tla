------------------------------ MODULE MCDataMutex ------------------------------
(* DataMutex for TLC: threads and variables are interchangeable.           *)
EXTENDS DataMutex, TLC

Symmetry == Permutations(Threads) \cup Permutations(Variables)
=============================================================================
