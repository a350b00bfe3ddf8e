SPECIFICATION MCSpec
CONSTANTS
    Objects = {x, y}
    Values = {one, two}
    Blocks = {p1, p2, p3}
    Null = null
    Moved = moved
    Junk = junk
    Allocators = {1, 2}
    Copyable <- MCCopyable
    Buffers = {1, 2, 3}
    Width <- MCWidth
    Regions = {5, 6}
    SizeOf <- MCSizeOf
    Small = 2
    Frames = {1, 2}
    MaxYields = 2
    StreamSize = 2
    Threads = {1, 2}
    Bitsets = {1, 2}
    bits_per_word = 3
    MaxBits <- MCMaxBits
    Capacity = 3
    Pods = {1, 2}
    Bytes = {0, 1}
    PodTypes <- MCPodTypes
    MaxPods <- MCMaxPods
    realloc_wasteful_copy_size = 1
    Keys = {1, 2, 3}
    Orders <- MCOrders
CHECK_DEADLOCK FALSE
INVARIANTS
    HoldsOneOfTwo
    HoldsWhatItWasGiven
    BlocksOwned
    SpanOfOwned
    Delivered
    FramesOwned
    AccessesInside
    ReadsWhatWasWritten
    StillUnique
    Detached
    LikeVectorBool
    NoLifetimeFault
    LikeStdVector
    NoOverrun
    BuffersBacked
    LikeVectorOfBytes
PROPERTIES
    LikeStdSet
