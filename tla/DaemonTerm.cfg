SPECIFICATION FairSpec
CONSTANTS
    MaxLives = 1
    MaxSignals = 2
    MaxReloads = 1
    Listeners = {"ipc"}
PROPERTY TermHeeded
CHECK_DEADLOCK FALSE
