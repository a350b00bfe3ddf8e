------------------------------ MODULE MCFlatMap ------------------------------
EXTENDS FlatMap

\* Ascending, and by parity, even before odd, which does not tell 1 from 3.
MCOrders == {{r \in Keys \X Keys : r[1] < r[2]}, {r \in Keys \X Keys : r[1] % 2 < r[2] % 2}}

Symmetry == Permutations(Maps)
=============================================================================
