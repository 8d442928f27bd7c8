SPECIFICATION FairSpec
CONSTANTS
    Listeners = {l1}
    Events <- FewEvents
    Subscribed <- Subscriptions
    BufferSize = 1
    HubCapacity = 1
    MaxEvents = 1
    MaxSpawns = 2
    MaxCalls = 2
PROPERTIES
    ListenerControlled
CHECK_DEADLOCK FALSE
