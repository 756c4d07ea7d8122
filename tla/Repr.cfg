SPECIFICATION FairSpec
CONSTANTS
    TypeTable <- MCTypes
    Addresses <- MCAddresses
    Graphs <- MCGraphs
    StackLimit = 5
    ChunkSize = 3
    AppendLimit = 6
INVARIANTS
    StackIsEnough
    InductiveInv
    FailsForAReason
    EveryOutputFits
    PrintsTheGraph
PROPERTY
    Returns
