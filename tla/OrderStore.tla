----------------------------- MODULE OrderStore -----------------------------
(***************************************************************************)
(* The order ledger of the control plane as MemoryMutableStore keeps it:   *)
(* order intents, orders and trade fills, mutated by four operations that  *)
(* each run to completion under the store's lock                           *)
(* (storage/order_mutation_views.py, storage/memory_mutable_store.py).     *)
(*                                                                         *)
(* A refused request (outcome not_found, invalid or conflict) leaves the   *)
(* store as it was, so it is the absence of a step; the ...Outcome         *)
(* operators say when a request is refused and are reused by the modules   *)
(* that model the callers.                                                 *)
(*                                                                         *)
(* Quantities are natural numbers of the smallest unit.  An order's        *)
(* "filled" field is the sum the code takes over the order's fills each    *)
(* time it needs it (order_mutation_views.py:169-173).  Prices, fees,      *)
(* times and payloads are left out: no decision of the store reads them.   *)
(***************************************************************************)
EXTENDS Naturals, FiniteSets

CONSTANTS
    Runs,              \* strategy runs the store knows
    Intents,           \* intent ids, taken from uuid4
    Orders,            \* order ids, taken from uuid4
    Fills,             \* fill ids, taken from uuid4
    Exchanges,         \* exchange names
    ExchangeOrderIds,  \* ids an exchange gives to orders
    TradeIds,          \* ids an exchange gives to trades
    NoId,              \* an external id that was not supplied (None)
    MaxQty             \* bound on requested quantities

ASSUME NoIdAssumption == NoId \notin ExchangeOrderIds \cup TradeIds
ASSUME MaxQtyAssumption == MaxQty \in Nat \ {0}

ValidOrderStatuses ==
    {"new", "partially_filled", "filled", "cancelled", "rejected", "expired"}
TerminalOrderStatuses == {"filled", "cancelled", "rejected", "expired"}

\* create_order stores whatever status its caller passes: the HTTP route one
\* of ORDER_STATUSES, the private execution adapters also these two.
StoredOrderStatuses == ValidOrderStatuses \cup {"submitted", "failed"}

IntentStatuses ==
    {"created", "submitted", "cancelled", "expired", "rejected", "simulated"}

Quantity == 1 .. MaxQty

Intent == [run : Runs, legs : SUBSET Exchanges, status : IntentStatuses]
Order == [intent : Intents, exchange : Exchanges,
          exchangeOrderId : ExchangeOrderIds \cup {NoId},
          requested : Quantity, filled : Nat, status : StoredOrderStatuses]
Fill == [order : Orders, tradeId : TradeIds \cup {NoId}, qty : Quantity]

VARIABLES
    intents,    \* order_intents: intent id -> Intent
    orders,     \* orders: order id -> Order
    fills,      \* fills: fill id -> Fill
    decisions   \* decision_count of each strategy run

vars == <<intents, orders, fills, decisions>>

TypeOK ==
    /\ DOMAIN intents \subseteq Intents /\ intents \in [DOMAIN intents -> Intent]
    /\ DOMAIN orders \subseteq Orders   /\ orders \in [DOMAIN orders -> Order]
    /\ DOMAIN fills \subseteq Fills     /\ fills \in [DOMAIN fills -> Fill]
    /\ decisions \in [Runs -> Nat]

\* f with key k mapped to v: a dict assignment.
Put(f, k, v) == [x \in DOMAIN f \cup {k} |-> IF x = k THEN v ELSE f[x]]

IsTerminal(status) == status \in TerminalOrderStatuses

OrdersOf(i, book) == {o \in DOMAIN book : book[o].intent = i}

\* Mutant: the status of an order written for an intent.
SubmittedAsOrder(status) == IF status = "created" THEN "new" ELSE status

\* An intent that has an order is no longer "created"; any other status stays.
Submitted(status) == IF status = "created" THEN "submitted" ELSE status

\* Mutant: one filled leg is enough.
AnyFilled(i, book) == \E o \in OrdersOf(i, book) : book[o].status = "filled"

AllFilled(i, book) == \A o \in OrdersOf(i, book) : book[o].status = "filled"

Init ==
    /\ intents = << >>
    /\ orders = << >>
    /\ fills = << >>
    /\ decisions = [r \in Runs |-> 0]

-----------------------------------------------------------------------------
CreateOrderIntent(i, r, legs, status) ==
    /\ i \notin DOMAIN intents
    /\ intents' = Put(intents, i, [run |-> r, legs |-> legs, status |-> status])
    /\ decisions' = [decisions EXCEPT ![r] = @ + 1]
    /\ UNCHANGED <<orders, fills>>

CreateOrderOutcome(i, e, x) ==
    IF i \notin DOMAIN intents THEN "not_found"
    ELSE IF e \notin intents[i].legs THEN "invalid"
    ELSE IF \E o \in DOMAIN orders :
                /\ x # NoId
                /\ orders[o].exchange = e
                /\ orders[o].exchangeOrderId = x
         THEN "conflict"
    ELSE "created"

\* The first order of a fresh intent moves it to submitted; an intent in any
\* other status, a terminal one included, accepts orders and stays as it is.
CreateOrder(o, i, e, x, q, status) ==
    /\ o \notin DOMAIN orders
    /\ CreateOrderOutcome(i, e, x) = "created"
    /\ orders' = Put(orders, o,
                     [intent |-> i, exchange |-> e, exchangeOrderId |-> x,
                      requested |-> q, filled |-> 0, status |-> status])
    /\ intents' = [intents EXCEPT ![i].status = Submitted(@)]
    /\ UNCHANGED <<fills, decisions>>

\* Mutant: the terminal check is dropped.
UpdateAnyOrder(o, status) ==
    IF o \notin DOMAIN orders THEN "not_found"
    ELSE IF status \notin ValidOrderStatuses THEN "invalid"
    ELSE "updated"

UpdateOrderStatusOutcome(o, status) ==
    IF o \notin DOMAIN orders THEN "not_found"
    ELSE IF status \notin ValidOrderStatuses THEN "invalid"
    ELSE IF IsTerminal(orders[o].status) /\ orders[o].status # status THEN "conflict"
    ELSE "updated"

UpdateOrderStatus(o, status) ==
    /\ UpdateOrderStatusOutcome(o, status) = "updated"
    /\ orders' = [orders EXCEPT ![o].status = status]
    /\ UNCHANGED <<intents, fills, decisions>>

\* Mutants: the new fill is left out of the sum; the trade id is not looked up.
FillWithoutItself(o, t, q) ==
    IF o \notin DOMAIN orders THEN "not_found"
    ELSE IF IsTerminal(orders[o].status) THEN "invalid"
    ELSE IF orders[o].filled > orders[o].requested THEN "invalid"
    ELSE "created"

CreateFillOutcome(o, t, q) ==
    IF o \notin DOMAIN orders THEN "not_found"
    ELSE IF IsTerminal(orders[o].status) THEN "invalid"
    ELSE IF \E f \in DOMAIN fills :
                t # NoId /\ fills[f].order = o /\ fills[f].tradeId = t
         THEN "conflict"
    ELSE IF orders[o].filled + q > orders[o].requested THEN "invalid"
    ELSE "created"

\* The intent of the order becomes simulated in the same step when, with this
\* fill counted, every order of the intent is filled.
CreateFill(f, o, t, q) ==
    LET total == orders[o].filled + q
        i == orders[o].intent
        booked == [orders EXCEPT
                       ![o].filled = total,
                       ![o].status = IF total = orders[o].requested
                                     THEN "filled" ELSE "partially_filled"]
    IN  /\ f \notin DOMAIN fills
        /\ CreateFillOutcome(o, t, q) = "created"
        /\ orders' = booked
        /\ fills' = Put(fills, f, [order |-> o, tradeId |-> t, qty |-> q])
        /\ intents' = [intents EXCEPT ![i].status =
                           IF AllFilled(i, booked) THEN "simulated" ELSE Submitted(@)]
        /\ UNCHANGED decisions

Next ==
    \/ \E i \in Intents, r \in Runs, buy, sell \in Exchanges, s \in IntentStatuses :
           CreateOrderIntent(i, r, {buy, sell}, s)
    \/ \E o \in Orders, i \in Intents, e \in Exchanges,
          x \in ExchangeOrderIds \cup {NoId}, q \in Quantity, s \in StoredOrderStatuses :
           CreateOrder(o, i, e, x, q, s)
    \/ \E o \in Orders, s \in ValidOrderStatuses : UpdateOrderStatus(o, s)
    \/ \E f \in Fills, o \in Orders, t \in TradeIds \cup {NoId}, q \in Quantity :
           CreateFill(f, o, t, q)

Spec == Init /\ [][Next]_vars

-----------------------------------------------------------------------------
(* Safety.  *)

\* The fills booked against an order never exceed the quantity it asked for,
\* whatever order the fills arrive in and whatever statuses are set between
\* them (create_fill's bound; docs/05_arbitrage_runtime_invariants.md, I4).
FillUpperBound ==
    \A o \in DOMAIN orders : orders[o].filled <= orders[o].requested

\* An order whose whole quantity has been filled is "filled": it is never
\* left open, nor cancelled, rejected or expired after the last fill.  The
\* status and the quantity are set by different operations (create_fill and
\* update_order_status), and only the terminal check keeps them together.
FullyFilledIsFilled ==
    \A o \in DOMAIN orders :
        orders[o].filled = orders[o].requested => orders[o].status = "filled"

\* Neither a trade nor an exchange order is booked twice: a replayed fill or
\* a replayed order report is refused (the two conflict outcomes).
ExternalIdsUnique ==
    /\ \A f, g \in DOMAIN fills :
           /\ fills[f].order = fills[g].order
           /\ fills[f].tradeId = fills[g].tradeId
           /\ fills[f].tradeId # NoId
           => f = g
    /\ \A o, p \in DOMAIN orders :
           /\ orders[o].exchange = orders[p].exchange
           /\ orders[o].exchangeOrderId = orders[p].exchangeOrderId
           /\ orders[o].exchangeOrderId # NoId
           => o = p

\* An order always belongs to a stored intent, was sent to one of that
\* intent's exchanges, and that intent is no longer "created": the runtime's
\* duplicate check reads the intent, never the orders, to tell the two apart.
OrdersHaveSubmittedIntent ==
    \A o \in DOMAIN orders :
        /\ orders[o].intent \in DOMAIN intents
        /\ orders[o].exchange \in intents[orders[o].intent].legs
        /\ intents[orders[o].intent].status # "created"

\* A terminal order is final: no later operation changes its status or adds
\* to its filled quantity (docs/05_trade_recovery.md:63).
TerminalIsFinal ==
    [][\A o \in DOMAIN orders :
           IsTerminal(orders[o].status) => orders'[o] = orders[o]]_vars

\* An intent turns "simulated" after its creation only in a step that leaves
\* every one of its orders filled; a partial fill, or a fill of one leg, does
\* not complete it.
SimulatedWhenAllFilled ==
    [][\A i \in DOMAIN intents :
           intents[i].status # "simulated" /\ intents'[i].status = "simulated"
           => \A o \in OrdersOf(i, orders') : orders'[o].status = "filled"]_vars
=============================================================================
