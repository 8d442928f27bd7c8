SPECIFICATION SetupSpec
CONSTANTS
    Names <- MCNames
    DependsOn <- MCDependsOn
    Priority = {10, 20}
    None = None
INVARIANTS
    LayerExact
    LayersSound
    IniExact
    NamesResolved
    NoCompetingRotators
    PathsAnchored
    DeadlineCoversWork
CHECK_DEADLOCK FALSE
