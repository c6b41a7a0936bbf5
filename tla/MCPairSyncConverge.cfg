SPECIFICATION LiveSpec
CONSTANTS
    Nil = Nil
    a = a
    b = b
    copy = copy
    Paths = {a, copy}
    CopyPaths = {copy}
    Versions = {1,2,3}
    Size <- Distinct
    Start <- StartA
    MaxClock = 3
    C <- KeepBoth
    LocalDelete = "trash"
    RemoteDigests = TRUE
    MaxDeleteFiles = 100
    MaxDeletePercent = 20
    EmptyRootMin = 5
    Faults = {"opFails", "timeout", "crash", "unlisted"}
    MaxFaults = 1
    Moves = {"localEdit", "localDelete", "remoteEdit", "remoteDelete"}
    MidRun = {"local", "remote"}
PROPERTY EventuallyConverges
CHECK_DEADLOCK FALSE
