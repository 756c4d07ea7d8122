CONSTANTS
    Images <- LostThreads
    Requests <- AllOnly
    MaxShown = 4
SPECIFICATION Spec
INVARIANTS
    EveryThreadListed
