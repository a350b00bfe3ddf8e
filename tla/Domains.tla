------------------------------- MODULE Domains -------------------------------
(* What the components of Owners and Vectors are about.                        *)
EXTENDS Naturals

CONSTANTS Objects,      \* the objects of the class
          Values,       \* what the program puts into them
          Blocks,       \* addresses
          Null,         \* what stands for nothing,
          Moved,        \* and what a move leaves behind
          Capacity      \* of static_vectors and flat_sets

ASSUME CapacityAssumption == Capacity \in Nat

\* They are not what a program puts there.
ASSUME NullAssumption == Null \notin Values /\ Null \notin Blocks /\ Null # Moved
ASSUME MovedAssumption == Moved \notin Values
=============================================================================
