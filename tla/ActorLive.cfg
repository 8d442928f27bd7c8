SPECIFICATION FairSpec
CONSTANTS
    Configs <- LivenessConfigs
    StartRetries = 1
    FailureThreshold = 1
    MailboxCap = 1
    HealthCap = 1
    MaxSpawns = 2
PROPERTIES
    CallAnswered
    CancelEnds
    EventsNoticed
