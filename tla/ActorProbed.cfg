SPECIFICATION Spec
CONSTANTS
    Configs <- ProbedConfigs
    StartRetries = 1
    FailureThreshold = 2
    MailboxCap = 1
    HealthCap = 2
    MaxSpawns = 2
INVARIANTS
    DeadlineOfThisChild
    HealthOnlyWhenUp
