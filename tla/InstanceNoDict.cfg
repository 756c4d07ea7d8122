SPECIFICATION Spec
CONSTANTS
    k1 = k1
    k2 = k2
    k3 = k3
    v1 = v1
    v2 = v2
    NULL = NULL
    Dummy = Dummy
    Keys <- MCKeys
    Values <- MCValues
    Versions <- MCVersions
    Types <- MCTypes
    Sizes <- MCSizes
    BeyondWords <- MCBeyond
    Rubbish <- MCRubbish
    MaxKeys = 2
INVARIANTS
    UnmaterializedShowsNone
