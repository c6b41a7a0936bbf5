SPECIFICATION Spec
CONSTANTS
    Nil = Nil
    Root = Root
    f = f
    g = g
    X = X
    D = D
    E = E
    w1 = w1
    w2 = w2
    b1 = b1
    Files = {f}
    Dirs = {D}
    Parent <- Alone
    Start <- OnlyF
    Runs = {"walk", "burst"}
    Workers = {w1, b1}
    RunOf <- One
    Allowed = 1
    MaxAsk = 2
    Versions = {1}
    Size <- Distinct
    C <- Skip
    EmptyRootMin = 5
    MaxClock = 1
    Faults = {}
    MaxFaults = 0
    Moves <- FreeSpace
    MaxMoves = 3
    MaxTroubles = 3
    MidRun = FALSE
    Overlap = FALSE
PROPERTY
    ReIncludeRedownloads
