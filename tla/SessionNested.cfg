CONSTANTS
    d1 = d1
    d2 = d2
    d3 = d3
    e1 = e1
    e2 = e2
    Server = Server
    None = None
    Dirs <- MCDirs
    Exprs <- MCExprs
    Inside <- Nested
    Targets <- MCTargets
    InitialPath <- NestedPath
SPECIFICATION Spec
INVARIANTS
    LocalPdbsOnPath
