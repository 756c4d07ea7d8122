SPECIFICATION Spec
CONSTANTS
    k1 = k1
    k2 = k2
    v1 = v1
    v2 = v2
    NULL = NULL
    Dummy = Dummy
    Keys <- MCKeys
    Values <- MCValues
    Log2Sizes <- MCLog2Sizes
    MaxEntries = 3
SYMMETRY Symmetric
INVARIANTS
    ContentInv
    ListsTheMapping
    ListsTheMembers
    ListsInOrder
    ReadsInBounds
