SPECIFICATION FramesSpec
CONSTANTS
    Programs <- MCPrograms
    NoLine = NoLine
    FirstLine = 1000
    Variables <- MCVariables
    Watched <- MCWatched
INVARIANTS
    FramesInv
    ShowsTheLine
    ShowsTheFrame
    StaysInTheTable
