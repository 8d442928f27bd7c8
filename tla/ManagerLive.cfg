SPECIFICATION FairSpec
CONSTANTS
    Gens <- LiveGens
    Commands <- LiveCommands
    Probed = {2}
    Timeouts = TRUE
    MaxCommands = 2
    MaxInstances = 4
    MaxStale = 1
INVARIANTS
    StopReported
PROPERTIES
    ManagerProgress
