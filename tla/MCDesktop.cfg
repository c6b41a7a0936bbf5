SPECIFICATION DesktopSpec
CONSTANTS
    Supervisors = {s1, s2}
    Nobody = Nobody
    MaxRestarts = 1
    RestartWindow = 2
    MaxSpawns = 1
    MaxTime = 2
    Tray = Tray
    Window = Window
    Watches = {w1, w2, w3}
    Elsewhere = Elsewhere
    Vacant = Vacant
    MaxSaves = 1
    Transfers = {t1, t2, t3}
    Spans = {0, 1, 2}
    LastTick = 4
    sub = sub
    Folders = {sub}
    Roots = {}
    Above <- Alone
    Every <- Periods
    Floor = 1
    Cap = 2
    MaxChanges = 1
    MaxTurns = 2
    MaxFaults = 1
INVARIANTS
    DesktopTypeOK
    TrayHasSupervisor
    TheLatestWatches
    WalkIsToldToStop
    PacedTogether
PROPERTIES
    RestartPolicy
    StopIsObeyed
    OldSettingsEnd
    EveryChangeIsRead
    Resumes
    ComesToRest
CHECK_DEADLOCK FALSE
