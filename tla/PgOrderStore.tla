---------------------------- MODULE PgOrderStore ----------------------------
(***************************************************************************)
(* The same ledger kept in PostgreSQL (storage/postgres_order_mutation_    *)
(* ops.py).  Every fetch opens its own autocommit connection               *)
(* (storage/postgres_driver.py, _cursor), so an operation is a sequence of *)
(* separate statements and requests of several handler threads interleave  *)
(* between them: what a SELECT returned may be stale when the INSERT or    *)
(* UPDATE that relies on it runs, and a lost connection leaves the         *)
(* statements already executed behind.                                     *)
(*                                                                         *)
(* A request in flight keeps what it read in req[c].  Statements that read *)
(* only columns no operation ever writes (an intent's exchanges, the       *)
(* existence of a run) are folded into the first step of their request.    *)
(***************************************************************************)
EXTENDS OrderStore

CONSTANT Clients   \* handler threads working on the store

ASSUME PgClientsAssumption == IsFiniteSet(Clients)

VARIABLE req       \* the request each client is executing

pgVars == <<intents, orders, fills, decisions, req>>

Idle == [at |-> "idle"]

\* create_order between its statements.
OrderRequest ==
    [at : {"insert_order", "mark_intent"}, intent : Intents, exchange : Exchanges,
     exchangeOrderId : ExchangeOrderIds \cup {NoId}, requested : Quantity,
     status : StoredOrderStatuses]

\* create_fill between its statements; "seen" is the sum the first one read.
FillRequest ==
    [at : {"check_trade", "insert_fill", "complete_intent"}, order : Orders,
     tradeId : TradeIds \cup {NoId}, qty : Quantity, seen : Nat]

\* update_order_status between its SELECT and its UPDATE.
StatusRequest == [at : {"write_status"}, order : Orders, status : ValidOrderStatuses]

PgTypeOK ==
    /\ TypeOK
    /\ req \in [Clients -> {Idle} \cup OrderRequest \cup FillRequest \cup StatusRequest]

PgInit == Init /\ req = [c \in Clients |-> Idle]

Finish(c) == req' = [req EXCEPT ![c] = Idle]
GoTo(c, pc) == req' = [req EXCEPT ![c].at = pc]

-----------------------------------------------------------------------------
(* create_order_intent: one INSERT; the run it belongs to is never deleted.  *)
(* No column counts decisions (postgres_bot_views.py:172 reads 0).           *)

PgCreateOrderIntent(c, i, r, legs, status) ==
    /\ req[c] = Idle
    /\ i \notin DOMAIN intents
    /\ intents' = Put(intents, i, [run |-> r, legs |-> legs, status |-> status])
    /\ UNCHANGED <<orders, fills, decisions, req>>

-----------------------------------------------------------------------------
(* create_order: SELECT the intent and the duplicate, INSERT, UPDATE intent. *)

BeginCreateOrder(c, i, e, x, q, status) ==
    /\ req[c] = Idle
    /\ CreateOrderOutcome(i, e, x) = "created"
    /\ req' = [req EXCEPT ![c] =
                   [at |-> "insert_order", intent |-> i, exchange |-> e,
                    exchangeOrderId |-> x, requested |-> q, status |-> status]]
    /\ UNCHANGED vars

\* The row is refused by the order_status enum or by the unique index on
\* (exchange_name, exchange_order_id): the driver's exception ends the request.
InsertOrderFails(r) ==
    \/ r.status \notin ValidOrderStatuses
    \/ /\ r.exchangeOrderId # NoId
       /\ \E o \in DOMAIN orders :
              /\ orders[o].exchange = r.exchange
              /\ orders[o].exchangeOrderId = r.exchangeOrderId

InsertOrder(c, o) ==
    /\ req[c].at = "insert_order" /\ o \notin DOMAIN orders
    /\ ~ InsertOrderFails(req[c])
    /\ orders' = Put(orders, o,
                     [intent |-> req[c].intent, exchange |-> req[c].exchange,
                      exchangeOrderId |-> req[c].exchangeOrderId,
                      requested |-> req[c].requested, filled |-> 0,
                      status |-> req[c].status])
    /\ GoTo(c, "mark_intent")
    /\ UNCHANGED <<intents, fills, decisions>>

RejectInsert(c) ==
    /\ req[c].at = "insert_order"
    /\ InsertOrderFails(req[c])
    /\ Finish(c)
    /\ UNCHANGED vars

MarkIntentSubmitted(c) ==
    /\ req[c].at = "mark_intent"
    /\ intents' = [intents EXCEPT ![req[c].intent].status = Submitted(@)]
    /\ Finish(c)
    /\ UNCHANGED <<orders, fills, decisions>>

-----------------------------------------------------------------------------
(* update_order_status: SELECT the status, then UPDATE without a condition. *)

BeginUpdateStatus(c, o, status) ==
    /\ req[c] = Idle
    /\ UpdateOrderStatusOutcome(o, status) = "updated"
    /\ req' = [req EXCEPT ![c] = [at |-> "write_status", order |-> o, status |-> status]]
    /\ UNCHANGED vars

WriteStatus(c) ==
    /\ req[c].at = "write_status"
    /\ orders' = [orders EXCEPT ![req[c].order].status = req[c].status]
    /\ Finish(c)
    /\ UNCHANGED <<intents, fills, decisions>>

-----------------------------------------------------------------------------
(* create_fill: SELECT status and sum, SELECT the trade, INSERT the fill and *)
(* UPDATE the order in one statement, UPDATE the intent.                     *)

BeginCreateFill(c, o, t, q) ==
    /\ req[c] = Idle
    /\ o \in DOMAIN orders
    /\ ~ IsTerminal(orders[o].status)
    /\ req' = [req EXCEPT ![c] =
                   [at |-> "check_trade", order |-> o, tradeId |-> t, qty |-> q,
                    seen |-> orders[o].filled]]
    /\ UNCHANGED vars

\* Mutants: no bound on the sum; the trade id is not looked up.
FillUnbounded(r) ==
    /\ r.tradeId # NoId
    /\ \E f \in DOMAIN fills : fills[f].order = r.order /\ fills[f].tradeId = r.tradeId
FillUnmatched(r) == r.seen + r.qty > orders[r.order].requested

\* The trade is looked up now; the quantity is judged by the sum read before.
FillRefused(r) ==
    \/ /\ r.tradeId # NoId
       /\ \E f \in DOMAIN fills : fills[f].order = r.order /\ fills[f].tradeId = r.tradeId
    \/ r.seen + r.qty > orders[r.order].requested

CheckTrade(c) ==
    /\ req[c].at = "check_trade"
    /\ IF FillRefused(req[c]) THEN Finish(c) ELSE GoTo(c, "insert_fill")
    /\ UNCHANGED vars

\* The sum grows by the new row; the status is the one computed from "seen".
InsertFill(c, f) ==
    LET r == req[c]
        total == r.seen + r.qty
    IN  /\ r.at = "insert_fill" /\ f \notin DOMAIN fills
        /\ fills' = Put(fills, f, [order |-> r.order, tradeId |-> r.tradeId, qty |-> r.qty])
        /\ orders' = [orders EXCEPT
               ![r.order].filled = @ + r.qty,
               ![r.order].status = IF total = orders[r.order].requested
                                   THEN "filled" ELSE "partially_filled"]
        /\ GoTo(c, "complete_intent")
        /\ UNCHANGED <<intents, decisions>>

\* Judged by the orders as they are now.
CompleteIntent(c) ==
    LET i == orders[req[c].order].intent
    IN  /\ req[c].at = "complete_intent"
        /\ intents' = [intents EXCEPT ![i].status =
                           IF AllFilled(i, orders) THEN "simulated" ELSE @]
        /\ Finish(c)
        /\ UNCHANGED <<orders, fills, decisions>>

-----------------------------------------------------------------------------
\* A statement raises (connection refused, timeout, server restart): the
\* request ends where it is and nothing already committed is undone.
LoseConnection(c) ==
    /\ req[c] # Idle
    /\ Finish(c)
    /\ UNCHANGED vars

Statement(c) ==
    \/ \E o \in Orders : InsertOrder(c, o)
    \/ RejectInsert(c)
    \/ MarkIntentSubmitted(c)
    \/ WriteStatus(c)
    \/ CheckTrade(c)
    \/ \E f \in Fills : InsertFill(c, f)
    \/ CompleteIntent(c)

Begin(c) ==
    \/ \E i \in Intents, r \in Runs, buy, sell \in Exchanges, s \in IntentStatuses :
           PgCreateOrderIntent(c, i, r, {buy, sell}, s)
    \/ \E i \in Intents, e \in Exchanges, x \in ExchangeOrderIds \cup {NoId},
          q \in Quantity, s \in StoredOrderStatuses :
           BeginCreateOrder(c, i, e, x, q, s)
    \/ \E o \in Orders, s \in ValidOrderStatuses : BeginUpdateStatus(c, o, s)
    \/ \E o \in Orders, t \in TradeIds \cup {NoId}, q \in Quantity :
           BeginCreateFill(c, o, t, q)

PgStep == \E c \in Clients : Begin(c) \/ Statement(c)
PgNext == PgStep \/ \E c \in Clients : LoseConnection(c)

\* The statements of a request run one after the other unless the server fails.
PgSpec == PgInit /\ [][PgNext]_pgVars
ReliableSpec == PgInit /\ [][PgStep]_pgVars

-----------------------------------------------------------------------------
(* What one statement sequence at a time promises: the memory store.         *)

\* The intents once the requests in flight have run their last statement: the
\* memory store makes that update in the same step as the order or the fill.
Settled(i) ==
    IF \E c \in Clients :
           /\ req[c].at = "complete_intent"
           /\ orders[req[c].order].intent = i
           /\ AllFilled(i, orders)
    THEN "simulated"
    ELSE IF /\ intents[i].status = "created"
            /\ \E c \in Clients : req[c].at = "mark_intent" /\ req[c].intent = i
    THEN "submitted"
    ELSE intents[i].status

SettledIntents ==
    [i \in DOMAIN intents |-> [intents[i] EXCEPT !.status = Settled(i)]]

CountedDecisions ==
    [r \in Runs |-> Cardinality({i \in DOMAIN intents : intents[i].run = r})]

Ledger == INSTANCE OrderStore WITH intents <- SettledIntents,
                                   decisions <- CountedDecisions

-----------------------------------------------------------------------------
(* What survives overlapping requests and lost connections.                  *)

\* The unique index keeps two concurrent reports of one exchange order from
\* creating two orders although both found no duplicate.
ExchangeOrderBookedOnce ==
    \A o, p \in DOMAIN orders :
        /\ orders[o].exchange = orders[p].exchange
        /\ orders[o].exchangeOrderId = orders[p].exchangeOrderId
        /\ orders[o].exchangeOrderId # NoId
        => o = p

\* Stale sums can overbook an order, but every client adds at most one fill
\* that fits the requested quantity on top of a sum read before it crossed.
OverfillBounded ==
    \A o \in DOMAIN orders :
        orders[o].filled <= Cardinality(Clients) * orders[o].requested
=============================================================================
