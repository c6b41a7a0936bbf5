SPECIFICATION Spec
CONSTANTS
    Nil = Nil
    Root = Root
    f = f
    g = g
    D = D
    E = E
    X = X
    w1 = w1
    w2 = w2
    b1 = b1
    Files = {f, g}
    Dirs = {D, E, X}
    Parent <- Branches
    Start <- Both
    Runs = {"walk", "burst"}
    Workers = {w1, w2, b1}
    RunOf <- Crews
    Allowed = 1
    MaxAsk = 4
    Versions = {1,2,3}
    Size <- Distinct
    C <- Skip
    EmptyRootMin = 5
    MaxClock = 3
    Faults = {"opFails","crash","unlisted","blind","cancel"}
    MaxFaults = 2
    Moves <- Everything
    MaxMoves = 2
    MaxTroubles = 2
    MidRun = TRUE
    Overlap = FALSE
INVARIANTS
    TypeOK
    GuardHolds
PROPERTIES
    FoldersTakeOnlyDismissed
    ExcludedIsLeftAlone
    CalmWalkAgrees
    BudgetIsAtomic
SYMMETRY Threads
