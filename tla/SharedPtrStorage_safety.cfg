SPECIFICATION Spec
CONSTANTS
    Threads = {t1, t2}
    Objects = {o1, o2, o3}
    Reentrant = {o1}
    Null = null
SYMMETRY Symmetry
INVARIANTS
    TypeOK
    MutualExclusion
    CountsExact
    NoDeadCopy
    SwapIsAtomic
PROPERTIES
    Linearizable
