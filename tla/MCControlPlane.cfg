SPECIFICATION MCSpec
CONSTANTS
    Bots = {b1}
    MaxRuns = 3
    Workers = {b1}
    Sections = {"risk_config", "market"}
    HotSections = {"risk_config"}
    Contents <- Configs
    MaxVersions = 3
    MaxAssignments = 3
    Clients = {c1, c2, c3}
CHECK_DEADLOCK FALSE
SYMMETRY Symmetry
INVARIANTS
    ActiveRunsBounded
    MirrorIsPast
    HotReloadIsHot
    AppliedIsRunning
PROPERTIES
    ImplementsRuns
