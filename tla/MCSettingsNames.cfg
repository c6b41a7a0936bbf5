SPECIFICATION SettingsSpec
CONSTANTS
    HomeDir <- MCHome
    Value <- MCValue
    DefaultRoot <- MCRoot
    LocalTexts <- MCForeign
    RemoteFolders <- MCRemotes
    RootTexts <- MCRoots
    HandWritten <- MCHandWritten
    MaxEdits = 2
INVARIANTS
    OnlyReferencesExpand
CHECK_DEADLOCK FALSE
