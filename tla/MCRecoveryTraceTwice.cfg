SPECIFICATION Spec
CONSTANTS
    ObservedOrders = {x}
    MaxOpenOrders = 1
    MismatchLimit = 2
    Agents = {a1, a2}
    EntryOrder = entry_order
    UnwindOrders = {u1, u2}
    Entry = entry
    UnwindIntents = {i1}
    Missing = missing
    OwnResults <- NoFindings
    OperatorResults <- NoFindings
INVARIANT
    OneUnwindOrder
CHECK_DEADLOCK FALSE
