SPECIFICATION Spec
CONSTANTS
    Vectors = {u, v}
    Blocks = {b1, b2, b3}
    Values = {x, y}
    Moved = moved
    Nobody = nobody
    StaticCapacity = 2
    RevertToStaticBelow = 2
    MaxSize = 3
    EmptyRanges = FALSE
    AllocFails = {"assign", "copy_assign", "reserve", "shrink_to_fit", "revert_to_static", "insert", "resize"}
    CopyThrows = {}
SYMMETRY Symmetry
CHECK_DEADLOCK FALSE
INVARIANTS
    NoLifetimeFault
    ElementsAlive
    LikeStdVector
    BuffersOwned
