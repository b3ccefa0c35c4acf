SPECIFICATION SubmitSpec
CONSTANTS
    NoId = NoId
    Runs = {r1}
    Intents = {i1}
    Entry = i1
    Orders = {o1, o2, o3}
    Fills = {f1, f2, f3}
    Exchanges = {e1, e2}
    Buy = e1
    Sell = e2
    ExchangeOrderIds = {x1}
    TradeIds = {t1}
    ReplyIds = {x1}
    MaxQty = 2
    ConnectorStates = {"submitted", "open", "filled"}
    ReplyStates = {"submitted", "partially_filled", "filled"}
    OtherOrders = 1
CHECK_DEADLOCK FALSE
INVARIANTS
    UnbookedLegInRecovery
    SuccessBooksBothLegs
    BalancedClaimFilled
PROPERTIES
    PlacedLegAccounted
