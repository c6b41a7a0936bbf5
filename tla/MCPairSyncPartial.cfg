SPECIFICATION Spec
CONSTANTS
    Nil = Nil
    a = a
    b = b
    copy = copy
    Paths = {a, b}
    CopyPaths = {}
    Versions = {1}
    Size <- Distinct
    Start <- StartA
    MaxClock = 1
    C <- KeepBoth
    LocalDelete = "trash"
    RemoteDigests = TRUE
    MaxDeleteFiles = 100
    MaxDeletePercent = 20
    EmptyRootMin = 1
    Faults = {"blind", "carried", "emptyRoot", "unlisted", "rootMissing"}
    MaxFaults = 2
    Moves = {"localDelete", "localRename", "remoteDelete", "remoteRename", "localRestore", "remoteRestore"}
    MidRun = {}
PROPERTY DeletesOnlyWhatIsGone
CHECK_DEADLOCK FALSE
