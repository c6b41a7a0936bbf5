SPECIFICATION StoresSpec
CONSTANTS
    Nil = Nil
    Versions = {1, 2, 3, 4}
    Times = {1, 2}
    Size <- MCSize
    Pids = {p1, p2, p3}
    NoPid = NoPid
    Torn = Torn
    Locks = TRUE
    MaxStarts = 4
    MaxBoots = 2
    Roots = {x, y}
    Rels = {a}
    Runs = {r1, r2}
    Nowhere = Nowhere
    Overlap = {}
    MaxChanges = 3
    Topics = {"status", "held", "conflicts"}
    ErrorGrace = 1
    ErrorCooldown = 4
    KeyringGrace = 1
    HeldCooldown = 2
    ConflictBatch = 1
    ConflictCooldown = 2
    PollLimit = 1
    Folders = {A, B}
    Clashing = {c}
    Recorders = {d1, d2}
    MaxConflicts = 2
    MaxSeconds = 7
    HomeDir <- MCHome
    Value <- MCValue
    DefaultRoot <- MCRoot
    LocalTexts <- MCLocals
    RemoteFolders <- MCRemotes
    RootTexts <- MCRoots
    HandWritten <- MCHandWritten
    MaxEdits = 2
    WindowApp = WindowApp
    TrayApp = TrayApp
    Spots = {i, j}
    Absent = {j}
    ScriptNames = {sync}
    MaxTouches = 2
    Nodes = {"d", "e", "f", "g"}
    Trunk = "root"
    Above <- Limbs
    Branch = {"d", "e"}
    Skipped = {}
    Odd = {}
    Callers = {c1, c2}
    NoNode = NoNode
    Retries = 1
    MaxStirs = 2
    MaxCommands = 2
    PairRoots = {"R"}
    Within = {"d", "s", "f", "x"}
    FoldersTo <- Branches
    LeftOut = {"x"}
    Unmarkable = {}
    PathOrder <- ByName
    MaxMarked = 4
    Budget = 2
    MaxNews = 2
    MaxDeaths = 2
    MaxEvents = 2
    Pairs = {P}
    Manual = {m1, m2}
    Walk = walk
    Burst = burst
    MaxRuns = 2
    MaxFaults = 2
INVARIANTS
    StoresTypeOK
    MergeIsSound
    OneRunSettles
    LockIsSound
    
    NewsIsTold
    
    AnswersAreTrue
    TerminalAgrees
    MarksSettle
    PhaseIsTrue
PROPERTIES
    NoticesArePaced
    ShortcutsAreOurs
    
    OneInstance
CHECK_DEADLOCK FALSE
