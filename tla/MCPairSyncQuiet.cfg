SPECIFICATION Spec
CONSTANTS
    Nil = Nil
    a = a
    b = b
    copy = copy
    Paths = {a, b}
    CopyPaths = {}
    Versions = {1,2,3}
    Size <- Equal
    Start <- StartA
    MaxClock = 3
    C <- KeepBoth
    LocalDelete = "trash"
    RemoteDigests = FALSE
    MaxDeleteFiles = 100
    MaxDeletePercent = 20
    EmptyRootMin = 5
    Faults = {"blind", "listFails", "opFails", "timeout", "commitFails", "cancel", "crash"}
    MaxFaults = 1
    Moves = {"localEdit", "localDelete", "remoteEdit", "remoteDelete", "resync"}
    MidRun = {}
PROPERTIES
    OnlyDismissedRetire
    ResyncOnlyAdds
CHECK_DEADLOCK FALSE
