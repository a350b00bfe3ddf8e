SPECIFICATION Spec
CONSTANTS
    Threads = {t1, t2}
    Objects = {o1, o2}
    Reentrant = {o1}
    Null = null
INVARIANTS
    NeverWaitsForItself
