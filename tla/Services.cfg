SPECIFICATION FairSpec
CONSTANTS
    Programs = {"a", "b"}
    Files <- WatchedFiles
    ConfigSets <- WatchConfigs
    Debounce = 2
    RetryDelay = 1
    MaxChecks = 2
    ChannelSize = 1
    MaxChanges = 2
    MaxUpdates = 2
    MaxLives = 2
    MaxSignals = 2
    MaxReloads = 1
    Listeners = {"ipc", "tcp"}
    Callers = {"c1", "c2"}
    StdinSlots = 2
    BufferLimit = 3
    MessageSize = 2
    MaxMessages = 4
INVARIANTS
    CleanExit
    StdinInOrder
PROPERTIES
    Settled
    WatchProgress
    ShutdownEnds
CHECK_DEADLOCK FALSE
