SPECIFICATION FairSpec
CONSTANTS
    ObservedOrders = {x, y}
    MaxOpenOrders = 2
    MismatchLimit = 2
    Agents = {a1}
    EntryOrder = entry_order
    UnwindOrders = {u1, u2}
    Entry = entry
    UnwindIntents = {i1}
    Missing = missing
    OwnResults <- OwnFindings
    OperatorResults <- OperatorFindings
INVARIANTS
    StatusAgrees
    OneUnwindOrder
    EvaluationShowsTrace
    ResolvesExactlyOnTrustworthyMatch
PROPERTIES
    TerminalStays
    RecoveryEnds
CHECK_DEADLOCK FALSE
