CONSTANTS
    Images <- MCImages
    Requests <- MCRequests
    MaxShown = 7
SPECIFICATION FairSpec
INVARIANTS
    TypeOK
    NothingLeftOut
    InductiveInv
    PromiseInv
    FinishedListsAll
PROPERTIES
    KeepsPromise
    Terminates
CHECK_DEADLOCK FALSE
