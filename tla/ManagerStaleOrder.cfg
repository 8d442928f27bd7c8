SPECIFICATION Spec
CONSTANTS
    Gens <- StaleGens
    Commands <- StaleCommands
    Probed = {}
    Timeouts = FALSE
    MaxCommands = 4
    MaxInstances = 4
    MaxStale = 1
INVARIANTS
    StopAllStopsAll
