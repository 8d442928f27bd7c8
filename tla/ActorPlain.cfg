SPECIFICATION Spec
CONSTANTS
    Configs <- PlainConfigs
    StartRetries = 1
    FailureThreshold = 1
    MailboxCap = 2
    HealthCap = 1
    MaxSpawns = 3
INVARIANTS
    SingleInstance
    QuietStateNoProcess
    StopIsFinal
    BackoffJustified
PROPERTIES
    ImplementsLifecycle
    ImplementsContract
