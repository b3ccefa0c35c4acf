SPECIFICATION Spec
CONSTANTS
    Runs = {r1}
    Intents = {i1, i2}
    Orders = {o1, o2}
    Fills = {f1, f2}
    Exchanges = {e1}
    ExchangeOrderIds = {x1}
    TradeIds = {t1}
    NoId = NoId
    MaxQty = 2
SYMMETRY Symmetry
CHECK_DEADLOCK FALSE
INVARIANTS
    TypeOK
    FillUpperBound
PROPERTIES
    TerminalIsFinal
