SPECIFICATION BulkSpec
CONSTANTS
    Gens <- ReloadGens
    Commands <- ReloadCommands
    Probed = {2}
    Timeouts = TRUE
    MaxCommands = 3
    MaxInstances = 6
    MaxStale = 1
INVARIANTS
    InstancesOwned
    RegistriesAgree
    StopAllComplete
PROPERTIES
    ReloadSparesUnchanged
    StopOrder
