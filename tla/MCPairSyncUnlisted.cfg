SPECIFICATION Spec
CONSTANTS
    Nil = Nil
    a = a
    b = b
    copy = copy
    Paths = {a}
    CopyPaths = {}
    Versions = {1,2,3}
    Size <- Distinct
    Start <- StartA
    MaxClock = 3
    C <- KeepBoth
    LocalDelete = "trash"
    RemoteDigests = TRUE
    MaxDeleteFiles = 100
    MaxDeletePercent = 20
    EmptyRootMin = 5
    Faults = {"unlisted"}
    MaxFaults = 1
    Moves = {"localEdit", "remoteEdit"}
    MidRun = {}
PROPERTY UploadsKeepRemoteEdits
CHECK_DEADLOCK FALSE
