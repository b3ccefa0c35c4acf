SPECIFICATION MCSpec
CONSTANTS
    Runs = {r1}
    Intents = {i1}
    Orders = {o1, o2}
    Fills = {f1, f2}
    Exchanges = {e1}
    ExchangeOrderIds = {x1}
    TradeIds = {t1}
    NoId = NoId
    MaxQty = 2
    Clients = {c1, c2}
CHECK_DEADLOCK FALSE
SYMMETRY Symmetry
INVARIANTS
    OverfillBounded
PROPERTIES
    SerialImplementsLedger
    SimulatedWhenAllFilled
