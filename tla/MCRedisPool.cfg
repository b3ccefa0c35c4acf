SPECIFICATION BotSpec
CONSTANTS
    Threads = {t1, t2}
    Connections = {k1, k2, k3}
    MaxConnections = 1
    MaxCloses = 1
    None = None
    MaxChanges = 2
INVARIANTS
    ExclusiveConnections
    OwnAnswer
    ConnectionsBounded
PROPERTIES
    ChangesReachCopy
