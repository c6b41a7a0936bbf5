SPECIFICATION Spec
CONSTANTS
    Nil = Nil
    a = a
    b = b
    copy = copy
    Paths = {a, b}
    CopyPaths = {}
    Versions = {1,2,3}
    Size <- Distinct
    Start <- StartAB
    MaxClock = 3
    C <- KeepBoth
    LocalDelete = "trash"
    RemoteDigests = TRUE
    MaxDeleteFiles = 1
    MaxDeletePercent = 40
    EmptyRootMin = 5
    Faults = {"opFails", "commitFails", "crash"}
    MaxFaults = 1
    Moves = {"localDelete", "remoteEdit", "remoteDelete", "exclude", "confirm"}
    MidRun = {}
INVARIANT WithinAllowance
PROPERTY ReIncludeNeverDeletes
CHECK_DEADLOCK FALSE
