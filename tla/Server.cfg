SPECIFICATION MCSpec
CONSTANTS
    l1 = l1
    l2 = l2
    Programs = {"a", "b"}
    Group = "g"
    Requests <- Asked
    ChannelSize = 2
    MaxMoves = 2
    MaxRemovals = 1
    Clients = {"x", "y"}
    Sockets = {"ipc", "tcp"}
    Settings <- AllSettings
    SessionIds = {"s1", "s2"}
    Ttl = 3
    Samplers = {"p", "q"}
    IdleTimeout = 2
    Listeners = {l1, l2}
    Events <- HubEvents
    Subscribed <- Subscriptions
    BufferSize = 2
    HubCapacity = 1
    MaxEvents = 2
    MaxSpawns = 1
    MaxCalls = 1
SYMMETRY Symmetry
INVARIANTS
    WakeupPending
    AnswersTrue
    DormantWhenIdle
    EnvelopesKept
    SleepsOnlyIfMissed
PROPERTY
    SessionsSound
CHECK_DEADLOCK FALSE
