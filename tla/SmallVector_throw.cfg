SPECIFICATION Spec
CONSTANTS
    Vectors = {v}
    Blocks = {b1, b2}
    Values = {x, y}
    Moved = moved
    Nobody = nobody
    StaticCapacity = 2
    RevertToStaticBelow = 2
    MaxSize = 3
    EmptyRanges = FALSE
    AllocFails = {}
    CopyThrows = {"assign", "copy_assign", "insert", "resize"}
CHECK_DEADLOCK FALSE
INVARIANTS
    ElementsAlive
