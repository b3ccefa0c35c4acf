SPECIFICATION MCSpec
CONSTANTS
    Exchanges = {"upbit", "sample"}
    WsExchanges = {"upbit"}
    StaticTargets = {"upbit"}
    RunTargets = {"upbit", "sample"}
    Requests = {"h1"}
    Readers = {"r1"}
    RetryCount = 1
    MaxBook = 2
CHECK_DEADLOCK FALSE
INVARIANTS
    InflightIsFetched
PROPERTIES
    UsedNeverOlder
    TargetsCatchUp
