CONSTANTS
    d1 = d1
    d2 = d2
    d3 = d3
    e1 = e1
    e2 = e2
    Server = Server
    None = None
    Dirs <- MCDirs
    Exprs <- MCExprs
    Inside <- Apart
    Targets <- MCTargets
    InitialPath <- UserPath
SPECIFICATION Spec
INVARIANTS
    PathInv
    NoEntryTwice
PROPERTIES
    PathOnlyGrows
    SymFixLoadsSymbols
    OverrideStaysInForce
