SPECIFICATION Spec
CONSTANTS
    Maps = {a, b}
    Keys = {1, 2, 3}
    Values = {x, y}
    Default = x
    Orders <- MCOrders
    Capacity = 3
    MaxGiven = 2
    Nothing = nothing
SYMMETRY Symmetry
INVARIANTS
    Sorted
PROPERTIES
    LikeStdMap
