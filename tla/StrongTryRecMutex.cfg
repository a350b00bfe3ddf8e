SPECIFICATION FairSpec
CONSTANTS
    Threads = {t1, t2, t3}
    MaxDepth = 3
    NoThread = none
INVARIANTS
    TypeOK
    OwnerCounts
    Exclusive
    AssertionsHold
PROPERTIES
    Strong
    CallsReturn
