---------------------------- MODULE LedgerProofs ----------------------------
(***************************************************************************)
(* Proofs about OrderStore, the ledger, for every number of runs, intents, *)
(* orders, fills and exchanges and every bound on quantities; and about    *)
(* EntrySubmit, the submission of an entry that is booked in it.           *)
(***************************************************************************)
EXTENDS EntrySubmit, FiniteSetTheorems, TLAPS

\* The four operations without their parameters, one disjunct of Next each.
CreateIntentStep ==
    \E i \in Intents, r \in Runs, buy, sell \in Exchanges, s \in IntentStatuses :
        CreateOrderIntent(i, r, {buy, sell}, s)
CreateOrderStep ==
    \E o \in Orders, i \in Intents, e \in Exchanges,
       x \in ExchangeOrderIds \cup {NoId}, q \in Quantity, s \in StoredOrderStatuses :
        CreateOrder(o, i, e, x, q, s)
UpdateStatusStep ==
    \E o \in Orders, s \in ValidOrderStatuses : UpdateOrderStatus(o, s)
CreateFillStep ==
    \E f \in Fills, o \in Orders, t \in TradeIds \cup {NoId}, q \in Quantity :
        CreateFill(f, o, t, q)

\* Every step is one of the four operations or leaves the store alone.
LEMMA StepCases ==
    ASSUME [Next]_vars
    PROVE  CreateIntentStep \/ CreateOrderStep \/ UpdateStatusStep
           \/ CreateFillStep \/ UNCHANGED vars
BY DEF Next, CreateIntentStep, CreateOrderStep, UpdateStatusStep, CreateFillStep

\* An order stays well formed when its quantity and its status are replaced.
LEMMA OrderRewritten ==
    ASSUME NEW r \in Order, NEW n \in Nat, NEW s \in StoredOrderStatuses
    PROVE  [r EXCEPT !.filled = n, !.status = s] \in Order
BY DEF Order

-----------------------------------------------------------------------------
\* What a booked fill does to the order book: only the filled order changes,
\* its quantity grows by q and its status says whether that completed it.
LEMMA FillEffect ==
    ASSUME TypeOK,
           NEW f \in Fills, NEW o \in Orders, NEW t \in TradeIds \cup {NoId},
           NEW q \in Quantity, CreateFill(f, o, t, q)
    PROVE  /\ o \in DOMAIN orders /\ ~ IsTerminal(orders[o].status)
           /\ orders[o].filled + q <= orders[o].requested
           /\ DOMAIN orders' = DOMAIN orders
           /\ \A p \in DOMAIN orders : p # o => orders'[p] = orders[p]
           /\ orders'[o].filled = orders[o].filled + q
           /\ orders'[o].requested = orders[o].requested
           /\ orders'[o].status = IF orders[o].filled + q = orders[o].requested
                                  THEN "filled" ELSE "partially_filled"
           /\ orders' \in [DOMAIN orders -> Order]
<1>1. o \in DOMAIN orders /\ ~ IsTerminal(orders[o].status)
      /\ ~ (orders[o].filled + q > orders[o].requested)
  BY DEF CreateFill, CreateFillOutcome
<1>2. orders[o] \in Order /\ orders[o].filled \in Nat /\ orders[o].requested \in Nat
      /\ q \in Nat
  BY <1>1, MaxQtyAssumption DEF TypeOK, Order, Quantity
<1> DEFINE status == IF orders[o].filled + q = orders[o].requested
                     THEN "filled" ELSE "partially_filled"
           after == [orders[o] EXCEPT !.filled = orders[o].filled + q, !.status = status]
<1>3. orders' = [orders EXCEPT ![o] = after]
  BY <1>1, <1>2 DEF CreateFill, TypeOK, Order
<1>4. after \in Order
  <2>1. orders[o].filled + q \in Nat /\ status \in StoredOrderStatuses
    BY <1>2 DEF StoredOrderStatuses, ValidOrderStatuses
  <2>2. QED
    BY <1>2, <2>1, OrderRewritten
<1>5. /\ after.filled = orders[o].filled + q
      /\ after.requested = orders[o].requested
      /\ after.status = status
  BY <1>2 DEF Order
<1> HIDE DEF after
<1>6. QED
  BY <1>1, <1>2, <1>3, <1>4, <1>5 DEF TypeOK

\* What a status update does: a terminal order is untouched, any other order
\* changes its status and nothing else.
LEMMA StatusEffect ==
    ASSUME TypeOK, NEW o \in Orders, NEW s \in ValidOrderStatuses,
           UpdateOrderStatus(o, s)
    PROVE  /\ o \in DOMAIN orders
           /\ IsTerminal(orders[o].status) => orders[o].status = s
           /\ orders' = [orders EXCEPT ![o] = [orders[o] EXCEPT !.status = s]]
           /\ orders' \in [DOMAIN orders -> Order]
           /\ \A p \in DOMAIN orders : IsTerminal(orders[p].status) => orders'[p] = orders[p]
<1>1. o \in DOMAIN orders /\ (IsTerminal(orders[o].status) => orders[o].status = s)
  BY DEF UpdateOrderStatus, UpdateOrderStatusOutcome
<1>2. orders[o] \in Order
  BY <1>1 DEF TypeOK
<1>3. orders' = [orders EXCEPT ![o] = [orders[o] EXCEPT !.status = s]]
  BY <1>1 DEF UpdateOrderStatus, TypeOK
<1>4. [orders[o] EXCEPT !.status = s] \in Order
  BY <1>2 DEF Order, StoredOrderStatuses
<1>5. orders[o].status = s => [orders[o] EXCEPT !.status = s] = orders[o]
  BY <1>2 DEF Order
<1>6. QED
  BY <1>1, <1>2, <1>3, <1>4, <1>5 DEF TypeOK

-----------------------------------------------------------------------------
\* The empty store is well formed.
LEMMA InitType == Init => TypeOK
BY DEF Init, TypeOK

\* Each operation stores well-formed records only.
LEMMA StepType == TypeOK /\ [Next]_vars => TypeOK'
<1> SUFFICES ASSUME TypeOK, [Next]_vars PROVE TypeOK'
  OBVIOUS
<1>1. CASE CreateIntentStep
  <2>1. PICK i \in Intents, r \in Runs, buy \in Exchanges, sell \in Exchanges,
             s \in IntentStatuses : CreateOrderIntent(i, r, {buy, sell}, s)
    BY <1>1 DEF CreateIntentStep
  <2> DEFINE rec == [run |-> r, legs |-> {buy, sell}, status |-> s]
  <2>2. rec \in Intent
    BY DEF Intent
  <2>3. intents' = Put(intents, i, rec) /\ orders' = orders /\ fills' = fills
        /\ decisions' = [decisions EXCEPT ![r] = @ + 1]
    BY <2>1 DEF CreateOrderIntent
  <2> HIDE DEF rec
  <2>4. DOMAIN intents' = DOMAIN intents \cup {i}
        /\ intents' \in [DOMAIN intents \cup {i} -> Intent]
    BY <2>2, <2>3 DEF Put, TypeOK
  <2>5. decisions' \in [Runs -> Nat]
    BY <2>3 DEF TypeOK
  <2>6. QED
    BY <2>3, <2>4, <2>5 DEF TypeOK
<1>2. CASE CreateOrderStep
  <2>1. PICK o \in Orders, i \in Intents, e \in Exchanges,
             x \in ExchangeOrderIds \cup {NoId}, q \in Quantity,
             s \in StoredOrderStatuses : CreateOrder(o, i, e, x, q, s)
    BY <1>2 DEF CreateOrderStep
  <2> DEFINE rec == [intent |-> i, exchange |-> e, exchangeOrderId |-> x,
                     requested |-> q, filled |-> 0, status |-> s]
  <2>2. rec \in Order
    BY DEF Order
  <2>3. orders' = Put(orders, o, rec) /\ fills' = fills /\ decisions' = decisions
        /\ i \in DOMAIN intents
        /\ intents' = [intents EXCEPT ![i].status = Submitted(@)]
    BY <2>1 DEF CreateOrder, CreateOrderOutcome
  <2> HIDE DEF rec
  <2>4. DOMAIN orders' = DOMAIN orders \cup {o}
        /\ orders' \in [DOMAIN orders \cup {o} -> Order]
    BY <2>2, <2>3 DEF Put, TypeOK
  <2>5. DOMAIN intents' = DOMAIN intents /\ intents' \in [DOMAIN intents -> Intent]
    BY <2>3 DEF TypeOK, Intent, IntentStatuses, Submitted
  <2>6. QED
    BY <2>3, <2>4, <2>5 DEF TypeOK
<1>3. CASE UpdateStatusStep
  BY <1>3, StatusEffect DEF UpdateStatusStep, UpdateOrderStatus, TypeOK
<1>4. CASE CreateFillStep
  <2>1. PICK f \in Fills, o \in Orders, t \in TradeIds \cup {NoId}, q \in Quantity :
             CreateFill(f, o, t, q)
    BY <1>4 DEF CreateFillStep
  <2>2. DOMAIN orders' = DOMAIN orders /\ orders' \in [DOMAIN orders -> Order]
    BY <2>1, FillEffect
  <2> DEFINE rec == [order |-> o, tradeId |-> t, qty |-> q]
  <2>3. fills' = Put(fills, f, rec) /\ decisions' = decisions
    BY <2>1 DEF CreateFill
  <2>4. rec \in Fill
    BY DEF Fill
  <2> HIDE DEF rec
  <2>5. DOMAIN fills' = DOMAIN fills \cup {f} /\ fills' \in [DOMAIN fills \cup {f} -> Fill]
    BY <2>3, <2>4 DEF Put, TypeOK
  <2>6. DOMAIN intents' = DOMAIN intents /\ intents' \in [DOMAIN intents -> Intent]
    <3>1. PICK i : \E full \in BOOLEAN :
              intents' = [intents EXCEPT ![i].status = IF full THEN "simulated" ELSE Submitted(@)]
      BY <2>1 DEF CreateFill
    <3>2. \A row \in Intent : /\ [row EXCEPT !.status = "simulated"] \in Intent
                              /\ [row EXCEPT !.status = Submitted(row.status)] \in Intent
      BY DEF Intent, IntentStatuses, Submitted
    <3>3. \A x \in DOMAIN intents :
              intents'[x] \in {intents[x], [intents[x] EXCEPT !.status = "simulated"],
                              [intents[x] EXCEPT !.status = Submitted(intents[x].status)]}
      BY <3>1
    <3>4. DOMAIN intents' = DOMAIN intents
          /\ intents' = [x \in DOMAIN intents |-> intents'[x]]
      BY <3>1
    <3>5. \A x \in DOMAIN intents : intents[x] \in Intent
      BY DEF TypeOK
    <3>6. \A x \in DOMAIN intents : intents'[x] \in Intent
      BY <3>2, <3>3, <3>5
    <3>7. QED
      BY <3>4, <3>6
  <2>7. QED
    BY <2>2, <2>3, <2>5, <2>6 DEF TypeOK
<1>5. CASE UNCHANGED vars
  BY <1>5 DEF vars, TypeOK
<1>6. QED
  BY <1>1, <1>2, <1>3, <1>4, <1>5, StepCases

\* The store only ever holds well-formed intents, orders and fills.
THEOREM TypeCorrect == Spec => []TypeOK
BY InitType, StepType, PTL DEF Spec

-----------------------------------------------------------------------------
(* The ledger invariant.  FullyFilledIsFilled leans on FillUpperBound: a    *)
(* status update of a full order keeps it "filled" because create_fill left *)
(* it terminal, and a fill completes an order exactly when the sum meets    *)
(* the request, which it can only do from below.                            *)
LedgerInv == TypeOK /\ FillUpperBound /\ FullyFilledIsFilled

\* Each operation preserves the ledger invariant.
LEMMA StepLedger == LedgerInv /\ [Next]_vars => LedgerInv'
<1> SUFFICES ASSUME TypeOK, FillUpperBound, FullyFilledIsFilled, [Next]_vars
             PROVE  TypeOK' /\ FillUpperBound' /\ FullyFilledIsFilled'
  BY DEF LedgerInv
<1>1. TypeOK'
  BY StepType
<1>2. CASE CreateIntentStep
  BY <1>1, <1>2 DEF CreateIntentStep, CreateOrderIntent, FillUpperBound, FullyFilledIsFilled
<1>3. CASE CreateOrderStep
  <2>1. PICK o \in Orders, i \in Intents, e \in Exchanges,
             x \in ExchangeOrderIds \cup {NoId}, q \in Quantity,
             s \in StoredOrderStatuses : CreateOrder(o, i, e, x, q, s)
    BY <1>3 DEF CreateOrderStep
  <2> DEFINE rec == [intent |-> i, exchange |-> e, exchangeOrderId |-> x,
                     requested |-> q, filled |-> 0, status |-> s]
  <2>a. orders' = Put(orders, o, rec)
    BY <2>1 DEF CreateOrder
  <2>b. rec.filled = 0 /\ rec.requested = q
    OBVIOUS
  <2> HIDE DEF rec
  <2>2. /\ DOMAIN orders' = DOMAIN orders \cup {o}
        /\ orders'[o].filled = 0 /\ orders'[o].requested = q
        /\ \A p \in DOMAIN orders : p # o => orders'[p] = orders[p]
    BY <2>a, <2>b DEF Put
  <2>3. q > 0
    BY MaxQtyAssumption DEF Quantity
  <2>4. QED
    BY <1>1, <2>2, <2>3, MaxQtyAssumption DEF FillUpperBound, FullyFilledIsFilled, Quantity
<1>4. CASE UpdateStatusStep
  <2>1. PICK o \in Orders, s \in ValidOrderStatuses : UpdateOrderStatus(o, s)
    BY <1>4 DEF UpdateStatusStep
  <2>2. /\ o \in DOMAIN orders /\ DOMAIN orders' = DOMAIN orders
        /\ orders[o] \in Order
        /\ IsTerminal(orders[o].status) => orders[o].status = s
        /\ orders' = [orders EXCEPT ![o] = [orders[o] EXCEPT !.status = s]]
    BY <2>1, StatusEffect DEF TypeOK
  <2>3. /\ orders'[o].filled = orders[o].filled
        /\ orders'[o].requested = orders[o].requested
        /\ orders'[o].status = s
        /\ \A p \in DOMAIN orders : p # o => orders'[p] = orders[p]
    BY <2>2 DEF TypeOK, Order
  <2>4. orders[o].filled = orders[o].requested => s = "filled"
    BY <2>2 DEF FullyFilledIsFilled, IsTerminal, TerminalOrderStatuses
  <2>5. QED
    BY <1>1, <2>2, <2>3, <2>4 DEF FillUpperBound, FullyFilledIsFilled
<1>5. CASE CreateFillStep
  <2>1. PICK f \in Fills, o \in Orders, t \in TradeIds \cup {NoId}, q \in Quantity :
             CreateFill(f, o, t, q)
    BY <1>5 DEF CreateFillStep
  <2>2. /\ o \in DOMAIN orders /\ DOMAIN orders' = DOMAIN orders
        /\ orders[o].filled + q <= orders[o].requested
        /\ \A p \in DOMAIN orders : p # o => orders'[p] = orders[p]
        /\ orders'[o].filled = orders[o].filled + q
        /\ orders'[o].requested = orders[o].requested
        /\ orders'[o].status = IF orders[o].filled + q = orders[o].requested
                               THEN "filled" ELSE "partially_filled"
    BY <2>1, FillEffect
  <2>3. QED
    BY <1>1, <2>2 DEF FillUpperBound, FullyFilledIsFilled
<1>6. CASE UNCHANGED vars
  BY <1>1, <1>6 DEF vars, FillUpperBound, FullyFilledIsFilled
<1>7. QED
  BY <1>2, <1>3, <1>4, <1>5, <1>6, StepCases

\* The ledger invariant holds in every reachable state.
LEMMA LedgerInvariant == Spec => []LedgerInv
<1>1. Init => LedgerInv
  BY InitType DEF Init, LedgerInv, FillUpperBound, FullyFilledIsFilled
<1>2. QED
  BY <1>1, StepLedger, PTL DEF Spec

\* No order is ever filled beyond the quantity it asked for (create_fill).
THEOREM NeverOverfilled == Spec => []FillUpperBound
BY LedgerInvariant, PTL DEF LedgerInv

\* An order whose quantity is used up is "filled" and stays so.
THEOREM FullyFilledStaysFilled == Spec => []FullyFilledIsFilled
BY LedgerInvariant, PTL DEF LedgerInv

\* Terminal orders are final: update_order_status and create_fill both refuse
\* them, and no other operation touches an existing order.
THEOREM TerminalOrdersAreFinal == Spec => TerminalIsFinal
<1> DEFINE Final == \A o \in DOMAIN orders :
                        IsTerminal(orders[o].status) => orders'[o] = orders[o]
<1>1. TypeOK /\ [Next]_vars => [Final]_vars
  <2> SUFFICES ASSUME TypeOK, [Next]_vars PROVE Final
    OBVIOUS
  <2>1. CASE CreateIntentStep
    BY <2>1 DEF CreateIntentStep, CreateOrderIntent
  <2>2. CASE CreateOrderStep
    BY <2>2 DEF CreateOrderStep, CreateOrder, Put
  <2>3. CASE UpdateStatusStep
    BY <2>3, StatusEffect DEF UpdateStatusStep
  <2>4. CASE CreateFillStep
    BY <2>4, FillEffect DEF CreateFillStep
  <2>5. CASE UNCHANGED vars
    BY <2>5 DEF vars
  <2>6. QED
    BY <2>1, <2>2, <2>3, <2>4, <2>5, StepCases
<1>2. QED
  BY <1>1, TypeCorrect, PTL DEF Spec, TerminalIsFinal

-----------------------------------------------------------------------------
(* External ids.  What tells two orders or two fills apart never changes    *)
(* once it is written, so only the two creating operations can clash, and   *)
(* each looks its own id up in the same step.                               *)

\* Neither a status update nor a fill touches what an order is.
LEMMA OrderIdentityKept ==
    ASSUME TypeOK, UpdateStatusStep \/ CreateFillStep
    PROVE  /\ DOMAIN orders' = DOMAIN orders
           /\ \A o \in DOMAIN orders :
                  /\ orders'[o].intent = orders[o].intent
                  /\ orders'[o].exchange = orders[o].exchange
                  /\ orders'[o].exchangeOrderId = orders[o].exchangeOrderId
<1>1. CASE UpdateStatusStep
  <2>1. PICK o \in Orders, s \in ValidOrderStatuses : UpdateOrderStatus(o, s)
    BY <1>1 DEF UpdateStatusStep
  <2>2. orders' = [orders EXCEPT ![o].status = s]
    BY <2>1 DEF UpdateOrderStatus
  <2>3. QED
    BY <2>2 DEF TypeOK, Order
<1>2. CASE CreateFillStep
  <2>1. PICK f \in Fills, o \in Orders, t \in TradeIds \cup {NoId}, q \in Quantity :
             CreateFill(f, o, t, q)
    BY <1>2 DEF CreateFillStep
  <2> DEFINE total == orders[o].filled + q
             status == IF total = orders[o].requested THEN "filled" ELSE "partially_filled"
  <2>2. orders' = [orders EXCEPT ![o].filled = total, ![o].status = status]
    BY <2>1 DEF CreateFill
  <2> HIDE DEF total, status
  <2>3. QED
    BY <2>2 DEF TypeOK, Order
<1>3. QED
  BY <1>1, <1>2

\* Each operation keeps the external ids unique.
LEMMA StepIds == TypeOK /\ ExternalIdsUnique /\ [Next]_vars => ExternalIdsUnique'
<1> SUFFICES ASSUME TypeOK, ExternalIdsUnique, [Next]_vars PROVE ExternalIdsUnique'
  OBVIOUS
<1>1. CASE CreateIntentStep
  BY <1>1 DEF CreateIntentStep, CreateOrderIntent, ExternalIdsUnique
<1>2. CASE CreateOrderStep
  <2>1. PICK o \in Orders, i \in Intents, e \in Exchanges,
             x \in ExchangeOrderIds \cup {NoId}, q \in Quantity,
             s \in StoredOrderStatuses : CreateOrder(o, i, e, x, q, s)
    BY <1>2 DEF CreateOrderStep
  <2>2. \A p \in DOMAIN orders :
            x # NoId => ~ (orders[p].exchange = e /\ orders[p].exchangeOrderId = x)
    BY <2>1 DEF CreateOrder, CreateOrderOutcome
  <2> DEFINE rec == [intent |-> i, exchange |-> e, exchangeOrderId |-> x,
                     requested |-> q, filled |-> 0, status |-> s]
  <2>3. orders' = Put(orders, o, rec) /\ fills' = fills
    BY <2>1 DEF CreateOrder
  <2>4. rec.exchange = e /\ rec.exchangeOrderId = x
    OBVIOUS
  <2> HIDE DEF rec
  <2>5. /\ DOMAIN orders' = DOMAIN orders \cup {o}
        /\ orders'[o].exchange = e /\ orders'[o].exchangeOrderId = x
        /\ \A p \in DOMAIN orders : p # o => orders'[p] = orders[p]
    BY <2>3, <2>4 DEF Put
  <2>6. QED
    BY <2>2, <2>3, <2>5 DEF ExternalIdsUnique
<1>3. CASE UpdateStatusStep
  <2>1. fills' = fills
    BY <1>3 DEF UpdateStatusStep, UpdateOrderStatus
  <2>2. QED
    BY <1>3, <2>1, OrderIdentityKept DEF ExternalIdsUnique
<1>4. CASE CreateFillStep
  <2>1. PICK f \in Fills, o \in Orders, t \in TradeIds \cup {NoId}, q \in Quantity :
             CreateFill(f, o, t, q)
    BY <1>4 DEF CreateFillStep
  <2>2. \A g \in DOMAIN fills : t # NoId => ~ (fills[g].order = o /\ fills[g].tradeId = t)
    BY <2>1 DEF CreateFill, CreateFillOutcome
  <2> DEFINE rec == [order |-> o, tradeId |-> t, qty |-> q]
  <2>3. fills' = Put(fills, f, rec) /\ rec.order = o /\ rec.tradeId = t
    BY <2>1 DEF CreateFill
  <2> HIDE DEF rec
  <2>4. /\ DOMAIN fills' = DOMAIN fills \cup {f}
        /\ fills'[f].order = o /\ fills'[f].tradeId = t
        /\ \A g \in DOMAIN fills : g # f => fills'[g] = fills[g]
    BY <2>3 DEF Put
  <2>5. QED
    BY <1>4, <2>2, <2>4, OrderIdentityKept DEF ExternalIdsUnique
<1>5. CASE UNCHANGED vars
  BY <1>5 DEF vars, ExternalIdsUnique
<1>6. QED
  BY <1>1, <1>2, <1>3, <1>4, <1>5, StepCases

\* No trade and no exchange order is ever booked twice, however often it is
\* reported (the conflict outcomes of create_order and create_fill).
THEOREM ExternalIdsStayUnique == Spec => []ExternalIdsUnique
<1>1. Init => ExternalIdsUnique
  BY DEF Init, ExternalIdsUnique
<1>2. QED
  BY <1>1, StepIds, TypeCorrect, PTL DEF Spec

-----------------------------------------------------------------------------
(* Intents and their orders.                                                *)

\* A stored intent keeps its exchanges, and no operation takes it back to
\* "created".
LEMMA IntentKept ==
    ASSUME TypeOK, [Next]_vars
    PROVE  \A i \in DOMAIN intents :
               /\ i \in DOMAIN intents' /\ intents'[i].legs = intents[i].legs
               /\ intents[i].status # "created" => intents'[i].status # "created"
<1>1. CASE CreateIntentStep
  BY <1>1 DEF CreateIntentStep, CreateOrderIntent, Put
<1>2. CASE CreateOrderStep
  <2>1. PICK o \in Orders, i \in Intents, e \in Exchanges,
             x \in ExchangeOrderIds \cup {NoId}, q \in Quantity,
             s \in StoredOrderStatuses : CreateOrder(o, i, e, x, q, s)
    BY <1>2 DEF CreateOrderStep
  <2>2. intents' = [intents EXCEPT ![i].status = Submitted(@)]
    BY <2>1 DEF CreateOrder
  <2>3. QED
    BY <2>2 DEF TypeOK, Intent, Submitted
<1>3. CASE UpdateStatusStep
  BY <1>3 DEF UpdateStatusStep, UpdateOrderStatus
<1>4. CASE CreateFillStep
  <2>1. PICK f \in Fills, o \in Orders, t \in TradeIds \cup {NoId}, q \in Quantity :
             CreateFill(f, o, t, q)
    BY <1>4 DEF CreateFillStep
  <2>2. PICK s \in {"simulated", Submitted(intents[orders[o].intent].status)} :
             intents' = [intents EXCEPT ![orders[o].intent].status = s]
    BY <2>1 DEF CreateFill
  <2>3. QED
    BY <2>2 DEF TypeOK, Intent, Submitted
<1>5. CASE UNCHANGED vars
  BY <1>5 DEF vars
<1>6. QED
  BY <1>1, <1>2, <1>3, <1>4, <1>5, StepCases

\* Each operation keeps every order with a submitted intent of its exchange.
LEMMA StepIntents ==
    TypeOK /\ OrdersHaveSubmittedIntent /\ [Next]_vars => OrdersHaveSubmittedIntent'
<1> SUFFICES ASSUME TypeOK, OrdersHaveSubmittedIntent, [Next]_vars
             PROVE  OrdersHaveSubmittedIntent'
  OBVIOUS
<1>1. CASE CreateIntentStep
  BY <1>1, IntentKept DEF CreateIntentStep, CreateOrderIntent, OrdersHaveSubmittedIntent
<1>2. CASE CreateOrderStep
  <2>1. PICK o \in Orders, i \in Intents, e \in Exchanges,
             x \in ExchangeOrderIds \cup {NoId}, q \in Quantity,
             s \in StoredOrderStatuses : CreateOrder(o, i, e, x, q, s)
    BY <1>2 DEF CreateOrderStep
  <2>2. /\ i \in DOMAIN intents /\ e \in intents[i].legs
        /\ intents' = [intents EXCEPT ![i].status = Submitted(@)]
    BY <2>1 DEF CreateOrder, CreateOrderOutcome
  <2>3. intents'[i].status # "created" /\ i \in DOMAIN intents' /\ e \in intents'[i].legs
    BY <2>2 DEF TypeOK, Intent, Submitted
  <2> DEFINE rec == [intent |-> i, exchange |-> e, exchangeOrderId |-> x,
                     requested |-> q, filled |-> 0, status |-> s]
  <2>4. orders' = Put(orders, o, rec) /\ rec.intent = i /\ rec.exchange = e
    BY <2>1 DEF CreateOrder
  <2> HIDE DEF rec
  <2>5. /\ DOMAIN orders' = DOMAIN orders \cup {o}
        /\ orders'[o].intent = i /\ orders'[o].exchange = e
        /\ \A p \in DOMAIN orders : p # o => orders'[p] = orders[p]
    BY <2>4 DEF Put
  <2>6. QED
    BY <2>3, <2>5, IntentKept DEF OrdersHaveSubmittedIntent
<1>3. CASE UpdateStatusStep \/ CreateFillStep
  BY <1>3, OrderIdentityKept, IntentKept DEF OrdersHaveSubmittedIntent
<1>4. CASE UNCHANGED vars
  BY <1>4 DEF vars, OrdersHaveSubmittedIntent
<1>5. QED
  BY <1>1, <1>2, <1>3, <1>4, StepCases

\* The runtime may take a created intent for one that has no orders.
THEOREM OrdersFollowIntents == Spec => []OrdersHaveSubmittedIntent
<1>1. Init => OrdersHaveSubmittedIntent
  BY DEF Init, OrdersHaveSubmittedIntent
<1>2. QED
  BY <1>1, StepIntents, TypeCorrect, PTL DEF Spec

-----------------------------------------------------------------------------
(* The submission of an entry: what it books and what it publishes           *)

Working == {"idle", "place", "post", "check", "book", "check_fills", "fill", "refresh", "judge"}
Ending == {"close_intent", "close_orders", "publish", "trace", "done"}

\* How far the submission is, what came of it, and what is published.
ProgressOK ==
    /\ at \in Working \cup Ending
    /\ at \in Working => result = "none" /\ claim = "none"
    /\ at \in Ending => result \in {"submitted", "filled", "submit_failed"}
    /\ result = "submit_failed" => claim = "recovery"
    /\ at \in {"close_intent", "close_orders"} => result = "filled" /\ claim = "hedge_balanced"
    /\ at = "trace" => result = "submit_failed"
    /\ at \in {"trace", "done"} => evaluation = claim
    /\ at = "done" /\ result = "submit_failed" => traced

\* What is still to be booked can be: only a failed reply stores an order as filled.
PendingOK ==
    /\ orders \in [DOMAIN orders -> Order]
    /\ DOMAIN booked \subseteq Legs /\ \A l \in DOMAIN booked : booked[l] \in DOMAIN orders
    /\ DOMAIN pending \subseteq Legs
    /\ \A l \in DOMAIN pending :
           pending[l].id \in ExchangeOrderIds \cup {NoId} /\ pending[l].qty \in Quantity
    /\ at \in {"check", "book"} /\ reply.outcome # "submit_failed" =>
           \A l \in DOMAIN pending : pending[l].status # "filled"
    /\ at = "book" => \A l \in DOMAIN pending : pending[l].status \in StoredOrderStatuses
    /\ DOMAIN pendingFills \subseteq Legs
    /\ \A l \in DOMAIN pendingFills : pendingFills[l] \in Quantity
    /\ reply \in Reply /\ (reply.outcome = "submitted" => reply.preview # "closed")

\* Each adapter takes its own way, and past the orders both legs are booked.
WayOK ==
    /\ mode \in Modes
    /\ at = "place" => mode = "private_connectors"
    /\ at = "post" => mode = "private_http" /\ DOMAIN booked = {}
    /\ at = "idle" => DOMAIN booked = {}
    /\ at \in {"check", "check_fills"} => mode \in {"private_connectors", "private_http"}
    /\ mode # "private_http" => reply = NoReply
    /\ at = "book" => mode # "private_stub"
    /\ at = "book" /\ mode \in {"simulate_success", "simulate_fill"} =>
           /\ DOMAIN pending \cup DOMAIN booked = Legs
           /\ \A l \in DOMAIN pending : pending[l].qty = Target
    /\ at \in {"check_fills", "fill", "refresh", "judge"} => DOMAIN booked = Legs
    /\ SuccessBooksBothLegs

Full(l) ==
    /\ l \in DOMAIN booked
    /\ orders[booked[l]].status = "filled"
    /\ orders[booked[l]].filled = orders[booked[l]].requested

\* What was booked and read agrees with the orders of the ledger.
FilledOK ==
    /\ result # "submit_failed" /\ reply.outcome # "submit_failed" =>
           \A l \in DOMAIN booked : orders[booked[l]].status = "filled" => Full(l)
    /\ at \in {"idle", "place", "post", "check", "book", "check_fills"} => filledLegs = {}
    /\ mode = "simulate_fill" /\ at \in {"idle", "book", "fill"} =>
           \A l \in DOMAIN booked : orders[booked[l]].requested = Target
    /\ mode = "simulate_fill" /\ at = "fill" =>
           /\ \A l \in filledLegs : Full(l)
           /\ DOMAIN pendingFills \cup filledLegs = Legs
           /\ \A l \in DOMAIN pendingFills : pendingFills[l] = Target
    /\ DOMAIN seen \subseteq DOMAIN booked
    /\ \A l \in DOMAIN seen : seen[l] = "filled" => orders[booked[l]].status = "filled"
    /\ at \in Working \ {"refresh", "judge"} => DOMAIN seen = {}
    /\ at = "judge" => DOMAIN seen = DOMAIN booked
    /\ BalancedClaimFilled

SubmitInv == ProgressOK /\ PendingOK /\ WayOK /\ FilledOK

\* What any use of the ledger leaves of the orders that are there.
LedgerGrows ==
    /\ orders' \in [DOMAIN orders' -> Order]
    /\ DOMAIN orders \subseteq DOMAIN orders'
    /\ \A o \in DOMAIN orders :
           /\ orders'[o].requested = orders[o].requested
           /\ IsTerminal(orders[o].status) => orders'[o] = orders[o]
           /\ orders'[o].status = "filled" /\ orders[o].status # "filled" =>
                  orders'[o].filled = orders'[o].requested

LEMMA CreateGrows ==
    ASSUME orders \in [DOMAIN orders -> Order], NEW o, NEW e \in Exchanges,
           NEW x \in ExchangeOrderIds \cup {NoId}, NEW q \in Quantity, NEW s \in StoredOrderStatuses,
           CreateOrder(o, Entry, e, x, q, s)
    PROVE  /\ LedgerGrows
           /\ o \notin DOMAIN orders /\ o \in DOMAIN orders'
           /\ orders'[o].status = s /\ orders'[o].requested = q
           /\ \A p \in DOMAIN orders : orders'[p] = orders[p]
<1> DEFINE row == [intent |-> Entry, exchange |-> e, exchangeOrderId |-> x,
                   requested |-> q, filled |-> 0, status |-> s]
<1>1. orders' = Put(orders, o, row) /\ o \notin DOMAIN orders
  BY DEF CreateOrder
<1>2. row \in Order /\ row.status = s /\ row.requested = q
  BY EntryAssumption DEF Order
<1> HIDE DEF row
<1>3. /\ DOMAIN orders' = DOMAIN orders \cup {o} /\ orders'[o] = row
      /\ \A p \in DOMAIN orders : orders'[p] = orders[p]
      /\ orders' \in [DOMAIN orders' -> Order]
  BY <1>1, <1>2 DEF Put
<1>4. QED
  BY <1>1, <1>2, <1>3 DEF LedgerGrows

LEMMA CancelGrows ==
    ASSUME orders \in [DOMAIN orders -> Order], NEW o \in DOMAIN orders,
           NEW s \in {"cancelled", "rejected"}, UpdateOrderStatus(o, s)
    PROVE  LedgerGrows
<1> DEFINE row == [orders[o] EXCEPT !.status = s]
<1>1. orders' = [orders EXCEPT ![o] = row]
  BY DEF UpdateOrderStatus
<1>2. IsTerminal(orders[o].status) => orders[o].status = s
  BY DEF UpdateOrderStatus, UpdateOrderStatusOutcome
<1>3. /\ orders[o] \in Order /\ row \in Order /\ row.status = s
      /\ row.requested = orders[o].requested
      /\ orders[o].status = s => row = orders[o]
  BY DEF Order, StoredOrderStatuses, ValidOrderStatuses
<1> HIDE DEF row
<1>4. /\ DOMAIN orders' = DOMAIN orders /\ orders'[o] = row
      /\ \A p \in DOMAIN orders : p # o => orders'[p] = orders[p]
      /\ orders' \in [DOMAIN orders' -> Order]
  BY <1>1, <1>3
<1>5. QED
  BY <1>2, <1>3, <1>4 DEF LedgerGrows

LEMMA FillGrows ==
    ASSUME orders \in [DOMAIN orders -> Order], NEW o \in DOMAIN orders, NEW f, NEW t,
           NEW q \in Quantity, CreateFill(f, o, t, q)
    PROVE  /\ LedgerGrows
           /\ orders[o].requested = q =>
                  orders'[o].status = "filled" /\ orders'[o].filled = orders'[o].requested
<1>1. orders[o] \in Order /\ ~IsTerminal(orders[o].status)
      /\ ~(orders[o].filled + q > orders[o].requested)
  BY DEF CreateFill, CreateFillOutcome
<1>2. orders[o].filled \in Nat /\ orders[o].requested \in Nat /\ q \in Nat \ {0}
  BY <1>1, MaxQtyAssumption DEF Order, Quantity
<1> DEFINE total == orders[o].filled + q
           status == IF total = orders[o].requested THEN "filled" ELSE "partially_filled"
           row == [orders[o] EXCEPT !.filled = total, !.status = status]
<1>3. orders' = [orders EXCEPT ![o] = row]
  BY <1>1 DEF CreateFill
<1>4. row \in Order
  <2>1. total \in Nat /\ status \in StoredOrderStatuses
    BY <1>2 DEF StoredOrderStatuses, ValidOrderStatuses
  <2>2. QED
    BY <1>1, <2>1, OrderRewritten
<1>5. row.filled = total /\ row.requested = orders[o].requested /\ row.status = status
  BY <1>1 DEF Order
<1> HIDE DEF row
<1>6. /\ DOMAIN orders' = DOMAIN orders /\ orders'[o] = row
      /\ \A p \in DOMAIN orders : p # o => orders'[p] = orders[p]
      /\ orders' \in [DOMAIN orders' -> Order]
  BY <1>3, <1>4
<1>7. orders[o].requested = q => total = orders[o].requested
  BY <1>1, <1>2
<1>8. QED
  BY <1>1, <1>5, <1>6, <1>7 DEF LedgerGrows

LEMMA FullKept ==
    ASSUME LedgerGrows, PendingOK, UNCHANGED booked, NEW l, Full(l)
    PROVE  Full(l)'
BY DEF LedgerGrows, PendingOK, Full, IsTerminal, TerminalOrderStatuses

\* The uses that other threads make of the ledger disturb nothing.
LEMMA OthersKeep ==
    ASSUME SubmitInv, LedgerGrows, UNCHANGED local
    PROVE  SubmitInv'
<1>1. ProgressOK'
  BY DEF SubmitInv, ProgressOK, local, Working, Ending
<1>2. PendingOK'
  BY DEF SubmitInv, PendingOK, LedgerGrows, local
<1>3. WayOK'
  BY DEF SubmitInv, WayOK, SuccessBooksBothLegs, local
<1>4. FilledOK'
  <2>1. \A l : Full(l) => Full(l)'
    BY FullKept DEF SubmitInv, local
  <2>2. \A l \in DOMAIN booked : booked[l] \in DOMAIN orders
    BY DEF SubmitInv, PendingOK
  <2>3. \A l \in DOMAIN booked :
            /\ orders'[booked[l]].requested = orders[booked[l]].requested
            /\ orders[booked[l]].status = "filled" => orders'[booked[l]].status = "filled"
            /\ orders'[booked[l]].status = "filled" /\ orders[booked[l]].status # "filled" =>
                   orders'[booked[l]].filled = orders'[booked[l]].requested
    BY <2>2 DEF LedgerGrows, IsTerminal, TerminalOrderStatuses
  <2>4. BalancedClaimFilled'
    BY <2>1 DEF SubmitInv, FilledOK, BalancedClaimFilled, Full, local
  <2>5. QED
    BY <2>1, <2>3, <2>4 DEF SubmitInv, FilledOK, Full, Working, local
<1>5. QED
  BY <1>1, <1>2, <1>3, <1>4 DEF SubmitInv

\* A failed result can be returned from anywhere, after anything.
LEMMA FailKeeps ==
    ASSUME SubmitInv, LedgerGrows, Fail, UNCHANGED mode,
           DOMAIN booked' \subseteq Legs, \A l \in DOMAIN booked' : booked'[l] \in DOMAIN orders'
    PROVE  SubmitInv'
<1>1. /\ at' = "publish" /\ result' = "submit_failed" /\ claim' = "recovery"
      /\ reply' = NoReply /\ DOMAIN pending' = {} /\ DOMAIN pendingFills' = {} /\ DOMAIN seen' = {}
  BY DEF Fail, Forget, Nothing
<1>2. ProgressOK'
  BY <1>1 DEF ProgressOK, Working, Ending
<1>3. PendingOK'
  BY <1>1 DEF PendingOK, LedgerGrows, NoReply, Reply
<1>4. WayOK'
  BY <1>1 DEF SubmitInv, WayOK, SuccessBooksBothLegs
<1>5. FilledOK'
  BY <1>1 DEF FilledOK, BalancedClaimFilled, Working
<1>6. QED
  BY <1>2, <1>3, <1>4, <1>5 DEF SubmitInv

LEMMA LedgerSame ==
    ASSUME PendingOK, UNCHANGED orders
    PROVE  LedgerGrows
BY DEF PendingOK, LedgerGrows

LEMMA BeginKeeps ==
    ASSUME SubmitInv, Begin
    PROVE  SubmitInv'
<1>1. UNCHANGED <<orders, mode, booked, filledLegs, placed, evaluation, traced>> /\ at = "idle"
  BY DEF Begin, ledger
<1>2. CASE Fail
  BY <1>1, <1>2, LedgerSame, FailKeeps DEF SubmitInv, PendingOK
<1>3. CASE /\ mode \in {"simulate_success", "simulate_fill"} /\ Continue("book")
           /\ pending' = [l \in Legs |-> SimulatedItem]
           /\ UNCHANGED <<reply, pendingFills, seen>>
  <2>1. Target \in Quantity
    BY MaxQtyAssumption DEF Target, Quantity
  <2>2. /\ DOMAIN pending' = Legs
        /\ \A l \in Legs : /\ pending'[l].id = NoId /\ pending'[l].qty = Target
                           /\ pending'[l].status = "new"
    BY <1>3 DEF SimulatedItem
  <2>3. at' = "book" /\ UNCHANGED <<result, claim, reply, pendingFills, seen>>
    BY <1>3 DEF Continue
  <2>4. ProgressOK'
    BY <1>1, <2>3 DEF SubmitInv, ProgressOK, Working, Ending
  <2>5. PendingOK'
    BY <1>1, <2>1, <2>2, <2>3 DEF SubmitInv, PendingOK, StoredOrderStatuses, ValidOrderStatuses
  <2>6. WayOK'
    BY <1>1, <1>3, <2>2, <2>3 DEF SubmitInv, WayOK, PendingOK, SuccessBooksBothLegs
  <2>7. FilledOK'
    BY <1>1, <2>3 DEF SubmitInv, FilledOK, Full, BalancedClaimFilled, Working
  <2>8. QED
    BY <2>4, <2>5, <2>6, <2>7 DEF SubmitInv
<1>4. CASE /\ \/ mode = "private_connectors" /\ Continue("place")
              \/ mode = "private_http" /\ Continue("post")
           /\ UNCHANGED <<reply, pending, pendingFills, seen>>
  <2>1. /\ UNCHANGED <<result, claim, reply, pending, pendingFills, seen>>
        /\ \/ mode = "private_connectors" /\ at' = "place"
           \/ mode = "private_http" /\ at' = "post"
    BY <1>4 DEF Continue
  <2>2. ProgressOK'
    BY <1>1, <2>1 DEF SubmitInv, ProgressOK, Working, Ending
  <2>3. PendingOK'
    BY <1>1, <2>1 DEF SubmitInv, PendingOK
  <2>4. WayOK'
    BY <1>1, <2>1 DEF SubmitInv, WayOK, SuccessBooksBothLegs
  <2>5. FilledOK'
    BY <1>1, <2>1 DEF SubmitInv, FilledOK, Full, BalancedClaimFilled, Working
  <2>6. QED
    BY <2>2, <2>3, <2>4, <2>5 DEF SubmitInv
<1>5. QED
  BY <1>2, <1>3, <1>4 DEF Begin

\* Of the executor's reply, only a failed one has an order that counts as filled.
LEMMA ReplyPersisted ==
    ASSUME NEW r \in AcceptedReplies
    PROVE  /\ DOMAIN r.orders \subseteq Legs /\ DOMAIN r.fills \subseteq Legs
           /\ \A l \in DOMAIN r.fills : r.fills[l] \in Quantity
           /\ \A l \in DOMAIN r.orders :
                  /\ Persisted(r, l).id \in ExchangeOrderIds \cup {NoId}
                  /\ Persisted(r, l).qty \in Quantity
                  /\ r.outcome # "submit_failed" => Persisted(r, l).status # "filled"
           /\ r.outcome \in {"submitted", "filled", "submit_failed"}
           /\ r.preview \in {"absent", "entry_open", "closed"}
           /\ r.outcome = "submitted" => r.preview # "closed"
<1>1. r \in Replies /\ PayloadOk(r)
  BY DEF AcceptedReplies
<1>2. /\ r.outcome \in {"submitted", "filled", "submit_failed"}
      /\ r.preview \in {"absent", "entry_open", "closed"}
      /\ r.orders \in OnLegs([id : ReplyIds, qty : Quantity \cup {NoQty}, status : ReplyStates])
      /\ r.fills \in OnLegs(Quantity)
  BY <1>1 DEF Replies
<1>3. PICK D \in SUBSET Legs :
          r.orders \in [D -> [id : ReplyIds, qty : Quantity \cup {NoQty}, status : ReplyStates]]
  BY <1>2 DEF OnLegs
<1>4. PICK E \in SUBSET Legs : r.fills \in [E -> Quantity]
  BY <1>2 DEF OnLegs
<1>5. Target \in Quantity
  BY MaxQtyAssumption DEF Target, Quantity
<1>6. CASE r.outcome = "submitted"
  <2>1. LifecycleAllowed(r) /\ SubmittedPayloadOk(r)
    BY Zenon, <1>1, <1>6 DEF PayloadOk
  <2>2. r.preview \in {"absent", "entry_open"}
    BY Zenon, <1>6, <2>1 DEF LifecycleAllowed
  <2>3. \A l \in DOMAIN r.orders : r.orders[l].status # "filled"
    BY <2>1 DEF SubmittedPayloadOk, WithStatus, AdapterTerminal
  <2>4. QED
    BY <1>2, <1>3, <1>4, <1>5, <1>6, <2>2, <2>3, ReplyIdsAssumption DEF Persisted
<1>7. CASE r.outcome # "submitted"
  BY <1>2, <1>3, <1>4, <1>5, <1>7, ReplyIdsAssumption DEF Persisted
<1>8. QED
  BY <1>6, <1>7

\* What an exchange or the executor answers is taken over as it is.
LEMMA AnswerKeeps ==
    ASSUME SubmitInv, PlaceAnswered \/ PostAnswered \/ PlaceFails \/ PostFails
    PROVE  SubmitInv'
<1>1. UNCHANGED <<orders, mode, booked, filledLegs, evaluation, traced>> /\ at \in {"place", "post"}
  BY DEF PlaceAnswered, PostAnswered, PlaceFails, PostFails, ledger
<1>2. CASE Fail
  BY <1>1, <1>2, LedgerSame, FailKeeps DEF SubmitInv, PendingOK
<1>3. ASSUME at' = "check", UNCHANGED <<result, claim, seen>>, DOMAIN pending' \subseteq Legs,
             \A l \in DOMAIN pending' :
                 /\ pending'[l].id \in ExchangeOrderIds \cup {NoId} /\ pending'[l].qty \in Quantity
                 /\ reply'.outcome # "submit_failed" => pending'[l].status # "filled",
             DOMAIN pendingFills' \subseteq Legs,
             \A l \in DOMAIN pendingFills' : pendingFills'[l] \in Quantity,
             reply' \in Reply, reply'.outcome = "submitted" => reply'.preview # "closed",
             mode # "private_http" => reply' = NoReply,
             \A l \in DOMAIN booked :
                 reply'.outcome # "submit_failed" => (orders[booked[l]].status = "filled" => Full(l))
      PROVE  SubmitInv'
  <2>1. ProgressOK'
    BY <1>1, <1>3 DEF SubmitInv, ProgressOK, Working, Ending
  <2>2. PendingOK'
    BY <1>1, <1>3 DEF SubmitInv, PendingOK
  <2>3. WayOK'
    BY <1>1, <1>3 DEF SubmitInv, WayOK, SuccessBooksBothLegs
  <2>4. FilledOK'
    BY <1>1, <1>3 DEF SubmitInv, FilledOK, Full, BalancedClaimFilled, Working
  <2>5. QED
    BY <2>1, <2>2, <2>3, <2>4 DEF SubmitInv
<1>4. CASE PlaceAnswered /\ ~Fail
  <2>1. at = "place" /\ mode = "private_connectors" /\ reply = NoReply
    BY <1>4 DEF PlaceAnswered, SubmitInv, WayOK
  <2>2. PICK a \in ConnectorAnswers :
            /\ Usable(a.id, a.status)
            /\ pending' = Put(Nothing, NextLeg, [id |-> a.id, qty |-> Target, status |-> a.status])
            /\ Continue("check")
            /\ UNCHANGED <<reply, pendingFills, seen>>
    BY <1>4 DEF PlaceAnswered
  <2>3. DOMAIN pending' = {NextLeg} /\ NextLeg \in Legs
    BY <2>2 DEF Put, Nothing, NextLeg, Legs
  <2>4. pending'[NextLeg] = [id |-> a.id, qty |-> Target, status |-> a.status]
    BY <2>2 DEF Put, Nothing
  <2>5. /\ a.id \in ExchangeOrderIds \cup {NoId} /\ a.status # "filled"
        /\ Target \in Quantity
    BY <2>2, MaxQtyAssumption DEF ConnectorAnswers, Usable, AdapterTerminal, Target, Quantity
  <2>6. QED
    BY <1>3, <2>1, <2>2, <2>3, <2>4, <2>5 DEF Continue, SubmitInv, PendingOK, ProgressOK, FilledOK, NoReply,
       Working
<1>5. CASE PostAnswered /\ ~Fail
  <2>1. at = "post" /\ mode = "private_http"
    BY <1>5 DEF PostAnswered, SubmitInv, WayOK
  <2>2. PICK r \in AcceptedReplies :
            /\ Continue("check")
            /\ reply' = [outcome |-> r.outcome,
                         preview |-> IF r.outcome = "submit_failed" THEN "absent" ELSE r.preview]
            /\ pending' = [l \in DOMAIN r.orders |-> Persisted(r, l)]
            /\ pendingFills' = r.fills
            /\ UNCHANGED seen
    BY <1>5 DEF PostAnswered
  <2>3. reply' \in Reply /\ reply'.outcome = r.outcome
        /\ (reply'.outcome = "submitted" => reply'.preview # "closed")
    BY <2>2, ReplyPersisted DEF Reply
  <2>4. /\ DOMAIN pending' \subseteq Legs
        /\ \A l \in DOMAIN pending' :
               /\ pending'[l].id \in ExchangeOrderIds \cup {NoId} /\ pending'[l].qty \in Quantity
               /\ reply'.outcome # "submit_failed" => pending'[l].status # "filled"
    BY <2>2, <2>3, ReplyPersisted
  <2>5. DOMAIN booked = {}
    BY <2>1 DEF SubmitInv, WayOK
  <2>6. QED
    BY <1>3, <2>1, <2>2, <2>3, <2>4, <2>5, ReplyPersisted DEF Continue
<1>6. QED
  BY <1>2, <1>4, <1>5 DEF PlaceFails, PostFails

\* The items of a reply are checked before any of them is written.
LEMMA CheckOrdersKeeps ==
    ASSUME SubmitInv, CheckOrders
    PROVE  SubmitInv'
<1>1. UNCHANGED <<orders, mode, booked, filledLegs, placed, evaluation, traced>> /\ at = "check"
  BY DEF CheckOrders, ledger
<1>2. CASE Fail
  BY <1>1, <1>2, LedgerSame, FailKeeps DEF SubmitInv, PendingOK
<1>3. CASE /\ \A l \in DOMAIN pending : pending[l].status \in AllowedOrderStatuses
           /\ Continue("book")
           /\ UNCHANGED <<reply, pending, pendingFills, seen>>
  <2>1. at' = "book" /\ UNCHANGED <<result, claim, reply, pending, pendingFills, seen>>
    BY <1>3 DEF Continue
  <2>2. AllowedOrderStatuses = StoredOrderStatuses
    BY DEF AllowedOrderStatuses, StoredOrderStatuses, ValidOrderStatuses
  <2>3. mode \in {"private_connectors", "private_http"}
    BY <1>1 DEF SubmitInv, WayOK
  <2>4. ProgressOK'
    BY <1>1, <2>1 DEF SubmitInv, ProgressOK, Working, Ending
  <2>5. PendingOK'
    BY <1>1, <1>3, <2>1, <2>2 DEF SubmitInv, PendingOK
  <2>6. WayOK'
    BY <1>1, <2>1, <2>3 DEF SubmitInv, WayOK, SuccessBooksBothLegs
  <2>7. FilledOK'
    BY <1>1, <2>1, <2>3 DEF SubmitInv, FilledOK, Full, BalancedClaimFilled, Working
  <2>8. QED
    BY <2>4, <2>5, <2>6, <2>7 DEF SubmitInv
<1>4. QED
  BY <1>2, <1>3 DEF CheckOrders

\* Where a submission goes when its last order is written.
LEMMA AfterBookingWay ==
    ASSUME NEW done, mode \in Modes, mode # "private_stub"
    PROVE  /\ AfterBooking(done) \in {"refresh", "place", "check_fills", "failure", "fill", "success"}
           /\ AfterBooking(done) = "place" => mode = "private_connectors"
           /\ AfterBooking(done) = "refresh" => mode = "private_connectors" /\ done = Legs
           /\ AfterBooking(done) = "check_fills" => mode = "private_http" /\ done = Legs
           /\ AfterBooking(done) = "fill" => mode = "simulate_fill"
           /\ AfterBooking(done) = "success" => mode = "simulate_success"
<1>1. CASE mode = "private_connectors"
  <2>1. AfterBooking(done) = IF done = Legs THEN "refresh" ELSE "place"
    BY Zenon, <1>1 DEF AfterBooking
  <2>2. QED
    BY <1>1, <2>1
<1>2. CASE mode = "private_http"
  <2>1. AfterBooking(done) = IF done = Legs THEN "check_fills" ELSE "failure"
    BY <1>2 DEF AfterBooking
  <2>2. QED
    BY <1>2, <2>1
<1>3. CASE mode = "simulate_fill"
  <2>1. AfterBooking(done) = "fill"
    BY <1>3 DEF AfterBooking
  <2>2. QED
    BY <1>3, <2>1
<1>4. CASE mode = "simulate_success"
  <2>1. AfterBooking(done) = "success"
    BY <1>4 DEF AfterBooking
  <2>2. QED
    BY <1>4, <2>1
<1>5. QED
  BY <1>1, <1>2, <1>3, <1>4 DEF Modes

\* An order is written, and the last one decides what comes next.
LEMMA BookOrderKeeps ==
    ASSUME SubmitInv, BookOrder
    PROVE  SubmitInv'
<1>1. UNCHANGED <<mode, filledLegs, placed, evaluation, traced>> /\ at = "book"
  BY DEF BookOrder
<1>2. PICK l \in DOMAIN pending :
          /\ CreateOrder(FreshOrder, Entry, l, pending[l].id, pending[l].qty, pending[l].status)
          /\ booked' = Put(booked, l, FreshOrder)
          /\ LET rest == Without(pending, l)
                 next == IF rest # Nothing THEN "book" ELSE AfterBooking(DOMAIN booked')
             IN  \/ next = "failure" /\ Fail
                 \/ next = "success" /\ Succeed("submitted", "entry_submitting")
                 \/ /\ next \notin {"failure", "success"}
                    /\ Continue(next)
                    /\ pending' = rest
                    /\ pendingFills' = IF next = "fill" THEN [x \in Legs |-> Target] ELSE pendingFills
                    /\ UNCHANGED <<reply, seen>>
  BY DEF BookOrder
<1> DEFINE o == FreshOrder
           rest == Without(pending, l)
           next == IF rest # Nothing THEN "book" ELSE AfterBooking(DOMAIN booked')
<1>3. l \in Legs /\ l \in Exchanges
  BY LegsAssumption DEF SubmitInv, PendingOK, Legs
<1>4. /\ orders \in [DOMAIN orders -> Order]
      /\ pending[l].id \in ExchangeOrderIds \cup {NoId} /\ pending[l].qty \in Quantity
      /\ pending[l].status \in StoredOrderStatuses
      /\ reply.outcome # "submit_failed" => pending[l].status # "filled"
  BY <1>1 DEF SubmitInv, PendingOK
<1>5. CreateOrder(o, Entry, l, pending[l].id, pending[l].qty, pending[l].status)
  BY <1>2
<1>6. booked' = Put(booked, l, o)
  BY <1>2
<1>7. \/ next = "failure" /\ Fail
      \/ next = "success" /\ Succeed("submitted", "entry_submitting")
      \/ /\ next \notin {"failure", "success"}
         /\ Continue(next)
         /\ pending' = rest
         /\ pendingFills' = IF next = "fill" THEN [x \in Legs |-> Target] ELSE pendingFills
         /\ UNCHANGED <<reply, seen>>
  BY <1>2
<1> HIDE DEF o
<1>8. /\ LedgerGrows
      /\ o \notin DOMAIN orders /\ o \in DOMAIN orders'
      /\ orders'[o].status = pending[l].status /\ orders'[o].requested = pending[l].qty
      /\ \A p \in DOMAIN orders : orders'[p] = orders[p]
  BY <1>3, <1>4, <1>5, CreateGrows
<1>9. /\ DOMAIN booked' = DOMAIN booked \cup {l} /\ booked'[l] = o
      /\ \A k \in DOMAIN booked : k # l => booked'[k] = booked[k]
  BY <1>6 DEF Put
<1>10. /\ DOMAIN booked' \subseteq Legs /\ \A k \in DOMAIN booked' : booked'[k] \in DOMAIN orders'
  BY <1>3, <1>8, <1>9 DEF SubmitInv, PendingOK, LedgerGrows
<1>11. /\ DOMAIN rest = DOMAIN pending \ {l} /\ \A k \in DOMAIN rest : rest[k] = pending[k]
       /\ rest = Nothing => DOMAIN pending \subseteq {l}
  BY DEF Without, Nothing
<1>12. mode \in Modes /\ mode # "private_stub"
  BY <1>1 DEF SubmitInv, WayOK
<1>13. /\ next \in {"book", "refresh", "place", "check_fills", "failure", "fill", "success"}
       /\ next = "place" => mode = "private_connectors"
       /\ next \in {"refresh", "check_fills"} =>
              mode \in {"private_connectors", "private_http"} /\ DOMAIN booked' = Legs
       /\ next = "fill" => mode = "simulate_fill"
       /\ next = "success" => mode = "simulate_success"
       /\ next # "book" => rest = Nothing
  BY <1>12, AfterBookingWay
<1>14. mode \in {"simulate_success", "simulate_fill"} =>
           /\ DOMAIN rest \cup DOMAIN booked' = Legs
           /\ next # "book" => DOMAIN booked' = Legs
  BY <1>1, <1>9, <1>11, <1>13 DEF SubmitInv, WayOK
<1>15. next # "failure" /\ next # "success" => UNCHANGED <<reply, seen, result, claim>> /\ at' = next
  BY <1>7 DEF Continue
<1>16. result = "none" /\ claim = "none" /\ filledLegs = {} /\ DOMAIN seen = {}
  BY <1>1 DEF SubmitInv, ProgressOK, FilledOK, Working
<1>17. \A k \in DOMAIN booked' :
           reply.outcome # "submit_failed" /\ orders'[booked'[k]].status = "filled" => Full(k)'
  <2>1. TAKE k \in DOMAIN booked'
  <2>2. CASE k = l
    BY <1>4, <1>8, <1>9, <2>2
  <2>3. CASE k # l
    <3>1. k \in DOMAIN booked /\ booked'[k] = booked[k] /\ booked[k] \in DOMAIN orders
      BY <1>9, <2>1, <2>3 DEF SubmitInv, PendingOK
    <3>2. orders'[booked'[k]] = orders[booked[k]]
      BY <1>8, <3>1
    <3>3. QED
      BY <1>16, <3>1, <3>2, <2>1 DEF SubmitInv, FilledOK, Full
  <2>4. QED
    BY <2>2, <2>3
<1>18. CASE Fail
  BY <1>1, <1>8, <1>10, <1>18, FailKeeps
<1>19. CASE next = "success" /\ Succeed("submitted", "entry_submitting")
  <2>1. /\ at' = "publish" /\ result' = "submitted" /\ claim' = "entry_submitting"
        /\ reply' = NoReply /\ DOMAIN pending' = {} /\ DOMAIN pendingFills' = {} /\ DOMAIN seen' = {}
    BY <1>19 DEF Succeed, Forget, Nothing
  <2>2. DOMAIN booked' = Legs /\ mode = "simulate_success"
    BY <1>13, <1>14, <1>19
  <2>3. ProgressOK'
    BY <2>1 DEF ProgressOK, Working, Ending
  <2>4. PendingOK'
    BY <1>8, <1>10, <2>1 DEF PendingOK, LedgerGrows, NoReply, Reply
  <2>5. WayOK'
    BY <1>1, <1>12, <2>1, <2>2 DEF WayOK, SuccessBooksBothLegs
  <2>6. reply.outcome # "submit_failed"
    BY <2>2 DEF SubmitInv, WayOK, NoReply
  <2>7. FilledOK'
    BY <1>1, <1>17, <2>1, <2>2, <2>6 DEF FilledOK, BalancedClaimFilled, Working
  <2>8. QED
    BY <2>3, <2>4, <2>5, <2>7 DEF SubmitInv
<1>20. CASE /\ next \notin {"failure", "success"}
            /\ pending' = rest
            /\ pendingFills' = IF next = "fill" THEN [x \in Legs |-> Target] ELSE pendingFills
  <2> HIDE DEF rest, next
  <2>1. UNCHANGED <<reply, seen, result, claim>> /\ at' = next
    BY <1>15, <1>20
  <2>2. Target \in Quantity
    BY MaxQtyAssumption DEF Target, Quantity
  <2>3. ProgressOK'
    BY <1>13, <1>16, <1>20, <2>1 DEF ProgressOK, Working, Ending
  <2>4. PendingOK'
    <3>1. /\ DOMAIN pendingFills' \subseteq Legs
          /\ \A k \in DOMAIN pendingFills' : pendingFills'[k] \in Quantity
      BY <1>20, <2>2 DEF SubmitInv, PendingOK
    <3>2. QED
      BY <1>1, <1>8, <1>10, <1>11, <1>13, <1>20, <2>1, <3>1 DEF SubmitInv, PendingOK, LedgerGrows
  <2>5. WayOK'
    <3>1. at' = "fill" => DOMAIN booked' = Legs
      BY <1>13, <1>14, <2>1
    <3>2. at' = "book" /\ mode \in {"simulate_success", "simulate_fill"} =>
              /\ DOMAIN pending' \cup DOMAIN booked' = Legs
              /\ \A k \in DOMAIN pending' : pending'[k].qty = Target
      BY <1>1, <1>11, <1>14, <1>20 DEF SubmitInv, WayOK
    <3>3. QED
      BY <1>1, <1>12, <1>13, <1>16, <1>20, <2>1, <3>1, <3>2 DEF SubmitInv, WayOK, SuccessBooksBothLegs
  <2>6. FilledOK'
    <3>1. mode = "simulate_fill" => \A k \in DOMAIN booked' : orders'[booked'[k]].requested = Target
      <4>1. SUFFICES ASSUME mode = "simulate_fill", NEW k \in DOMAIN booked'
                     PROVE  orders'[booked'[k]].requested = Target
        OBVIOUS
      <4>2. CASE k = l
        BY <1>1, <1>8, <1>9, <4>1, <4>2 DEF SubmitInv, WayOK
      <4>3. CASE k # l
        BY <1>1, <1>8, <1>9, <4>1, <4>3 DEF SubmitInv, PendingOK, FilledOK
      <4>4. QED
        BY <4>2, <4>3
    <3>2. mode = "simulate_fill" /\ at' = "fill" =>
              /\ DOMAIN pendingFills' \cup filledLegs' = Legs
              /\ \A k \in DOMAIN pendingFills' : pendingFills'[k] = Target
      BY <1>1, <1>16, <1>20, <2>1
    <3>3. filledLegs' = {} /\ DOMAIN seen' = {} /\ at' # "judge"
      BY <1>1, <1>13, <1>16, <2>1
    <3>4. BalancedClaimFilled'
      BY <1>16, <2>1 DEF BalancedClaimFilled
    <3>5. \A k \in DOMAIN booked' :
              reply'.outcome # "submit_failed" /\ orders'[booked'[k]].status = "filled" => Full(k)'
      BY <1>17, <2>1
    <3>6. QED
      BY <1>1, <3>1, <3>2, <3>3, <3>4, <3>5 DEF FilledOK
  <2>7. QED
    BY <2>3, <2>4, <2>5, <2>6 DEF SubmitInv
<1>21. QED
  BY <1>7, <1>18, <1>19, <1>20

\* The orders booked before the one that is refused stay, as do the fills.
LEMMA RefusalKeeps ==
    ASSUME SubmitInv, BookOrderRefused \/ BookFillRefused
    PROVE  SubmitInv'
<1>1. Fail /\ UNCHANGED <<orders, mode, booked>>
  BY DEF BookOrderRefused, BookFillRefused, ledger
<1>2. QED
  BY <1>1, LedgerSame, FailKeeps DEF SubmitInv, PendingOK

\* The fills of a reply are checked before any of them is written.
LEMMA CheckFillsKeeps ==
    ASSUME SubmitInv, CheckFills
    PROVE  SubmitInv'
<1>1. UNCHANGED <<orders, mode, booked, filledLegs, placed, evaluation, traced>> /\ at = "check_fills"
  BY DEF CheckFills, ledger
<1>2. CASE Fail
  BY <1>1, <1>2, LedgerSame, FailKeeps DEF SubmitInv, PendingOK
<1>3. CASE /\ Continue(IF pendingFills = Nothing THEN "refresh" ELSE "fill")
           /\ UNCHANGED <<reply, pending, pendingFills, seen>>
  <2>1. /\ at' \in {"refresh", "fill"}
        /\ UNCHANGED <<result, claim, reply, pending, pendingFills, seen>>
    BY <1>3 DEF Continue
  <2>2. mode \in {"private_connectors", "private_http"}
    BY <1>1 DEF SubmitInv, WayOK
  <2>3. ProgressOK'
    BY <1>1, <2>1 DEF SubmitInv, ProgressOK, Working, Ending
  <2>4. PendingOK'
    BY <1>1, <2>1 DEF SubmitInv, PendingOK
  <2>5. WayOK'
    BY <1>1, <2>1, <2>2 DEF SubmitInv, WayOK, SuccessBooksBothLegs
  <2>6. FilledOK'
    BY <1>1, <2>1, <2>2 DEF SubmitInv, FilledOK, Full, BalancedClaimFilled, Working
  <2>7. QED
    BY <2>3, <2>4, <2>5, <2>6 DEF SubmitInv
<1>4. QED
  BY <1>2, <1>3 DEF CheckFills

\* A fill is written; a simulated one fills its order, and the last of two
\* such fills ends the submission.
LEMMA BookFillKeeps ==
    ASSUME SubmitInv, BookFill
    PROVE  SubmitInv'
<1>1. UNCHANGED <<mode, booked, placed, evaluation, traced>> /\ at = "fill"
  BY DEF BookFill
<1>2. PICK l \in DOMAIN pendingFills :
          /\ CreateFill(FreshFill, booked[l], NewTrade, pendingFills[l])
          /\ filledLegs' = filledLegs \cup {l}
          /\ LET rest == Without(pendingFills, l)
             IN  \/ rest = Nothing /\ mode = "simulate_fill" /\ Succeed("filled", "hedge_balanced")
                 \/ /\ rest # Nothing \/ mode # "simulate_fill"
                    /\ Continue(IF rest = Nothing THEN "refresh" ELSE "fill")
                    /\ pendingFills' = rest
                    /\ UNCHANGED <<reply, pending, seen>>
  BY DEF BookFill
<1> DEFINE rest == Without(pendingFills, l)
<1>3. CreateFill(FreshFill, booked[l], NewTrade, pendingFills[l])
  BY <1>2
<1>4. filledLegs' = filledLegs \cup {l}
  BY <1>2
<1>5. \/ rest = Nothing /\ mode = "simulate_fill" /\ Succeed("filled", "hedge_balanced")
      \/ /\ rest # Nothing \/ mode # "simulate_fill"
         /\ Continue(IF rest = Nothing THEN "refresh" ELSE "fill")
         /\ pendingFills' = rest
         /\ UNCHANGED <<reply, pending, seen>>
  BY <1>2
<1>6. /\ DOMAIN booked = Legs /\ l \in Legs /\ booked[l] \in DOMAIN orders
      /\ pendingFills[l] \in Quantity /\ orders \in [DOMAIN orders -> Order]
      /\ \A k \in DOMAIN booked : booked[k] \in DOMAIN orders
  BY <1>1 DEF SubmitInv, PendingOK, WayOK
<1>7. /\ LedgerGrows
      /\ orders[booked[l]].requested = pendingFills[l] =>
             orders'[booked[l]].status = "filled"
             /\ orders'[booked[l]].filled = orders'[booked[l]].requested
  BY <1>3, <1>6, FillGrows
<1>8. /\ DOMAIN rest = DOMAIN pendingFills \ {l} /\ \A k \in DOMAIN rest : rest[k] = pendingFills[k]
      /\ rest = Nothing => DOMAIN pendingFills \subseteq {l}
  BY DEF Without, Nothing
<1> HIDE DEF rest
<1>9. \A k : Full(k) => Full(k)'
  BY <1>1, <1>7, FullKept DEF SubmitInv
<1>10. \A k \in DOMAIN booked :
           /\ orders'[booked[k]].requested = orders[booked[k]].requested
           /\ orders'[booked[k]].status = "filled" /\ orders[booked[k]].status # "filled" =>
                  orders'[booked[k]].filled = orders'[booked[k]].requested
  BY <1>6, <1>7 DEF LedgerGrows
<1>11. result = "none" /\ claim = "none" /\ DOMAIN seen = {}
  BY <1>1 DEF SubmitInv, ProgressOK, FilledOK, Working
<1>12. \A k \in DOMAIN booked :
           reply.outcome # "submit_failed" /\ orders'[booked[k]].status = "filled" => Full(k)'
  BY <1>1, <1>9, <1>10, <1>11 DEF SubmitInv, FilledOK, Full
<1>13. mode = "simulate_fill" => \A k \in filledLegs' : Full(k)'
  <2>1. ASSUME mode = "simulate_fill" PROVE Full(l)'
    <3>1. orders[booked[l]].requested = pendingFills[l]
      BY <1>1, <1>6, <2>1 DEF SubmitInv, FilledOK
    <3>2. QED
      BY <1>1, <1>6, <1>7, <3>1 DEF Full
  <2>2. QED
    BY <1>1, <1>4, <1>9, <2>1 DEF SubmitInv, FilledOK
<1>14. CASE rest = Nothing /\ mode = "simulate_fill" /\ Succeed("filled", "hedge_balanced")
  <2>1. /\ at' = "close_intent" /\ result' = "filled" /\ claim' = "hedge_balanced"
        /\ reply' = NoReply /\ DOMAIN pending' = {} /\ DOMAIN pendingFills' = {} /\ DOMAIN seen' = {}
    BY <1>14 DEF Succeed, Forget, Nothing
  <2>2. \A k \in Legs : Full(k)'
    BY <1>1, <1>4, <1>8, <1>13, <1>14 DEF SubmitInv, FilledOK
  <2>3. ProgressOK'
    BY <2>1 DEF ProgressOK, Working, Ending
  <2>4. PendingOK'
    BY <1>1, <1>6, <1>7, <2>1 DEF PendingOK, LedgerGrows, NoReply, Reply
  <2>5. WayOK'
    BY <1>1, <1>6, <2>1 DEF SubmitInv, WayOK, SuccessBooksBothLegs
  <2>6. BalancedClaimFilled'
    BY <2>2 DEF BalancedClaimFilled, Full
  <2>7. FilledOK'
    BY <1>1, <1>6, <2>1, <2>2, <2>6 DEF FilledOK, Working
  <2>8. QED
    BY <2>3, <2>4, <2>5, <2>7 DEF SubmitInv
<1>15. CASE /\ rest # Nothing \/ mode # "simulate_fill"
            /\ Continue(IF rest = Nothing THEN "refresh" ELSE "fill")
            /\ pendingFills' = rest
            /\ UNCHANGED <<reply, pending, seen>>
  <2>1. /\ at' \in {"refresh", "fill"} /\ (mode = "simulate_fill" => at' = "fill")
        /\ UNCHANGED <<result, claim, reply, pending, seen>> /\ pendingFills' = rest
    BY <1>15 DEF Continue
  <2>2. ProgressOK'
    BY <1>1, <2>1 DEF SubmitInv, ProgressOK, Working, Ending
  <2>3. PendingOK'
    BY <1>1, <1>6, <1>7, <1>8, <2>1 DEF SubmitInv, PendingOK, LedgerGrows
  <2>4. WayOK'
    BY <1>1, <2>1 DEF SubmitInv, WayOK, SuccessBooksBothLegs
  <2>5. BalancedClaimFilled'
    BY <1>11, <2>1 DEF BalancedClaimFilled
  <2>6. mode = "simulate_fill" =>
            /\ DOMAIN pendingFills' \cup filledLegs' = Legs
            /\ \A k \in DOMAIN pendingFills' : pendingFills'[k] = Target
            /\ \A k \in DOMAIN booked' : orders'[booked'[k]].requested = Target
    BY <1>1, <1>4, <1>6, <1>8, <1>10, <2>1 DEF SubmitInv, FilledOK
  <2>7. FilledOK'
    BY <1>1, <1>11, <1>12, <1>13, <2>1, <2>5, <2>6 DEF FilledOK, Working
  <2>8. QED
    BY <2>2, <2>3, <2>4, <2>7 DEF SubmitInv
<1>16. QED
  BY <1>5, <1>14, <1>15

\* An order that was read as filled still is.
LEMMA RefreshKeeps ==
    ASSUME SubmitInv, NEW l \in Legs, Refresh(l)
    PROVE  SubmitInv'
<1>1. /\ UNCHANGED <<orders, mode, reply, pending, pendingFills, booked, filledLegs, placed,
                     evaluation, traced, result, claim>>
      /\ at = "refresh" /\ l \in DOMAIN booked
      /\ seen' = Put(seen, l, orders[booked[l]].status)
      /\ at' = IF DOMAIN seen' = DOMAIN booked THEN "judge" ELSE "refresh"
  BY DEF Refresh, Continue, ledger
<1>2. /\ DOMAIN seen' = DOMAIN seen \cup {l} /\ seen'[l] = orders[booked[l]].status
      /\ \A k \in DOMAIN seen : k # l => seen'[k] = seen[k]
  BY <1>1 DEF Put
<1>3. ProgressOK'
  BY <1>1 DEF SubmitInv, ProgressOK, Working, Ending
<1>4. PendingOK'
  BY <1>1 DEF SubmitInv, PendingOK
<1>5. WayOK'
  BY <1>1 DEF SubmitInv, WayOK, SuccessBooksBothLegs
<1>6. /\ DOMAIN seen' \subseteq DOMAIN booked'
      /\ \A k \in DOMAIN seen' : seen'[k] = "filled" => orders'[booked'[k]].status = "filled"
      /\ at' = "judge" => DOMAIN seen' = DOMAIN booked'
  BY <1>1, <1>2 DEF SubmitInv, FilledOK
<1>7. FilledOK'
  BY <1>1, <1>6 DEF SubmitInv, FilledOK, Full, BalancedClaimFilled, Working
<1>8. QED
  BY <1>3, <1>4, <1>5, <1>7 DEF SubmitInv

\* A result is called filled when both orders were read as filled.
LEMMA JudgeKeeps ==
    ASSUME SubmitInv, Judge
    PROVE  SubmitInv'
<1>1. UNCHANGED <<orders, mode, booked, filledLegs, placed, evaluation, traced>> /\ at = "judge"
  BY DEF Judge, ledger
<1>2. CASE Fail
  BY <1>1, <1>2, LedgerSame, FailKeeps DEF SubmitInv, PendingOK
<1>3. /\ DOMAIN booked = Legs /\ DOMAIN seen = Legs
      /\ reply \in Reply /\ (reply.outcome = "submitted" => reply.preview # "closed")
      /\ result = "none"
  BY <1>1 DEF SubmitInv, WayOK, FilledOK, PendingOK, ProgressOK, Working
<1>4. ASSUME NEW outcome \in {"submitted", "filled"}, NEW lifecycle, Succeed(outcome, lifecycle),
             lifecycle \in {"entry_submitting", "entry_open", "hedge_balanced", "closed"},
             lifecycle \in {"hedge_balanced", "closed"} => outcome = "filled" /\ \A l \in Legs : Full(l),
             reply.outcome = outcome
      PROVE  SubmitInv'
  <2>1. /\ at' \in {"close_intent", "publish"} /\ (at' = "close_intent" => lifecycle = "hedge_balanced")
        /\ result' = outcome /\ claim' = lifecycle
        /\ reply' = NoReply /\ DOMAIN pending' = {} /\ DOMAIN pendingFills' = {} /\ DOMAIN seen' = {}
    BY <1>4 DEF Succeed, Forget, Nothing
  <2>2. ProgressOK'
    BY <1>4, <2>1 DEF ProgressOK, Working, Ending
  <2>3. PendingOK'
    BY <1>1, <2>1 DEF SubmitInv, PendingOK, NoReply, Reply
  <2>4. WayOK'
    BY <1>1, <1>3, <2>1 DEF SubmitInv, WayOK, SuccessBooksBothLegs
  <2>5. BalancedClaimFilled'
    BY <1>1, <1>4, <2>1 DEF BalancedClaimFilled, Full
  <2>6. \A k \in DOMAIN booked' : orders'[booked'[k]].status = "filled" => Full(k)'
    BY <1>1, <1>3, <1>4 DEF SubmitInv, FilledOK, Full
  <2>7. FilledOK'
    BY <2>1, <2>5, <2>6 DEF FilledOK, Working
  <2>8. QED
    BY <2>2, <2>3, <2>4, <2>7 DEF SubmitInv
<1>5. CASE /\ reply.outcome = "submitted"
           /\ Succeed("submitted", IF reply.preview = "absent" THEN "entry_submitting" ELSE reply.preview)
  BY <1>3, <1>4, <1>5 DEF Reply
<1>6. CASE /\ reply.outcome = "filled" /\ FilledOnBothLegs
           /\ Succeed("filled", IF reply.preview = "absent" THEN "hedge_balanced" ELSE reply.preview)
  <2>1. \A l \in Legs : Full(l)
    BY <1>1, <1>3, <1>6 DEF FilledOnBothLegs, SubmitInv, FilledOK
  <2>2. QED
    BY <1>3, <1>4, <1>6, <2>1 DEF Reply
<1>7. QED
  BY <1>2, <1>5, <1>6 DEF Judge

\* What is published is what the submission came to.
LEMMA EndingKeeps ==
    ASSUME SubmitInv, CloseIntent \/ CloseOrders \/ Publish \/ OpenTrace
    PROVE  SubmitInv'
<1>1. /\ UNCHANGED <<orders, mode, reply, pending, pendingFills, booked, filledLegs, seen, placed, result>>
      /\ at \in {"close_intent", "close_orders", "publish", "trace"}
      /\ at' \in {"close_orders", "publish", "trace", "done"}
  BY DEF CloseIntent, CloseOrders, Publish, OpenTrace, ledger
<1>2. ProgressOK'
  <2>1. CASE CloseIntent
    BY <2>1 DEF CloseIntent, SubmitInv, ProgressOK, Working, Ending
  <2>2. CASE CloseOrders
    BY <2>2 DEF CloseOrders, SubmitInv, ProgressOK, Working, Ending
  <2>3. CASE Publish
    BY <2>3 DEF Publish, SubmitInv, ProgressOK, Working, Ending
  <2>4. CASE OpenTrace
    BY <2>4 DEF OpenTrace, SubmitInv, ProgressOK, Working, Ending
  <2>5. QED
    BY <2>1, <2>2, <2>3, <2>4
<1>3. PendingOK'
  BY <1>1 DEF SubmitInv, PendingOK
<1>4. WayOK'
  BY <1>1 DEF SubmitInv, WayOK, SuccessBooksBothLegs
<1>5. BalancedClaimFilled'
  <2>1. claim' = claim \/ claim = "hedge_balanced"
    BY DEF CloseIntent, CloseOrders, Publish, OpenTrace, SubmitInv, ProgressOK
  <2>2. QED
    BY <1>1, <2>1 DEF SubmitInv, FilledOK, BalancedClaimFilled
<1>6. FilledOK'
  BY <1>1, <1>5 DEF SubmitInv, FilledOK, Full, Working
<1>7. QED
  BY <1>2, <1>3, <1>4, <1>6 DEF SubmitInv

\* Each of the three uses that other threads make of the ledger.
LEMMA OthersStepKeeps ==
    ASSUME SubmitInv, OtherCreates \/ OtherCancels \/ OtherFills
    PROVE  SubmitInv'
<1>1. orders \in [DOMAIN orders -> Order] /\ UNCHANGED local
  BY DEF SubmitInv, PendingOK, OtherCreates, OtherCancels, OtherFills
<1>2. CASE OtherCreates
  <2>1. PICK e \in Exchanges, x \in ExchangeOrderIds \cup {NoId} :
            CreateOrder(FreshOrder, Entry, e, x, Target, "new")
    BY <1>2 DEF OtherCreates
  <2>2. Target \in Quantity /\ "new" \in StoredOrderStatuses
    BY MaxQtyAssumption DEF Target, Quantity, StoredOrderStatuses, ValidOrderStatuses
  <2>3. LedgerGrows
    BY <1>1, <2>1, <2>2, CreateGrows
  <2>4. QED
    BY <1>1, <2>3, OthersKeep
<1>3. CASE OtherCancels
  <2>1. PICK o \in DOMAIN orders, s \in {"cancelled", "rejected"} : UpdateOrderStatus(o, s)
    BY <1>3 DEF OtherCancels
  <2>2. LedgerGrows
    BY <1>1, <2>1, CancelGrows
  <2>3. QED
    BY <1>1, <2>2, OthersKeep
<1>4. CASE OtherFills
  <2>1. PICK o \in DOMAIN orders, t \in TradeIds, q \in Quantity : CreateFill(FreshFill, o, t, q)
    BY <1>4 DEF OtherFills
  <2>2. LedgerGrows
    BY <1>1, <2>1, FillGrows
  <2>3. QED
    BY <1>1, <2>2, OthersKeep
<1>5. QED
  BY <1>2, <1>3, <1>4

LEMMA SubmitInvariant == SubmitSpec => []SubmitInv
<1>1. SubmitInit => SubmitInv
  <2>1. SUFFICES ASSUME SubmitInit PROVE SubmitInv
    OBVIOUS
  <2>2. /\ at = "idle" /\ mode \in Modes /\ reply = NoReply
        /\ result = "none" /\ claim = "none" /\ filledLegs = {}
        /\ DOMAIN orders = {} /\ DOMAIN pending = {} /\ DOMAIN pendingFills = {}
        /\ DOMAIN booked = {} /\ DOMAIN seen = {}
    BY <2>1 DEF SubmitInit, Nothing
  <2>3. orders \in [DOMAIN orders -> Order]
    BY <2>1 DEF SubmitInit
  <2>4. ProgressOK
    BY <2>2 DEF ProgressOK, Working, Ending
  <2>5. PendingOK
    BY <2>2, <2>3 DEF PendingOK, NoReply, Reply
  <2>6. WayOK
    BY <2>2 DEF WayOK, SuccessBooksBothLegs
  <2>7. FilledOK
    BY <2>2 DEF FilledOK, Working, BalancedClaimFilled
  <2>8. QED
    BY <2>4, <2>5, <2>6, <2>7 DEF SubmitInv
<1>2. SubmitInv /\ [SubmitNext]_submitVars => SubmitInv'
  <2>1. SUFFICES ASSUME SubmitInv, [SubmitNext]_submitVars PROVE SubmitInv'
    OBVIOUS
  <2>2. CASE Begin
    BY <2>1, <2>2, BeginKeeps
  <2>3. CASE PlaceAnswered \/ PostAnswered \/ PlaceFails \/ PostFails
    BY <2>1, <2>3, AnswerKeeps
  <2>4. CASE CheckOrders
    BY <2>1, <2>4, CheckOrdersKeeps
  <2>5. CASE BookOrder
    BY <2>1, <2>5, BookOrderKeeps
  <2>6. CASE BookOrderRefused \/ BookFillRefused
    BY <2>1, <2>6, RefusalKeeps
  <2>7. CASE CheckFills
    BY <2>1, <2>7, CheckFillsKeeps
  <2>8. CASE BookFill
    BY <2>1, <2>8, BookFillKeeps
  <2>9. CASE \E l \in Legs : Refresh(l)
    BY <2>1, <2>9, RefreshKeeps
  <2>10. CASE Judge
    BY <2>1, <2>10, JudgeKeeps
  <2>11. CASE CloseIntent \/ CloseOrders \/ Publish \/ OpenTrace
    BY <2>1, <2>11, EndingKeeps
  <2>12. CASE OtherCreates \/ OtherCancels \/ OtherFills
    BY <2>1, <2>12, OthersStepKeeps
  <2>13. CASE UNCHANGED submitVars
    <3>1. UNCHANGED local /\ UNCHANGED orders
      BY <2>13 DEF submitVars, ledger
    <3>2. LedgerGrows
      BY <2>1, <3>1, LedgerSame DEF SubmitInv
    <3>3. QED
      BY <2>1, <3>1, <3>2, OthersKeep
  <2>14. QED
    BY <2>1, <2>2, <2>3, <2>4, <2>5, <2>6, <2>7, <2>8, <2>9, <2>10, <2>11, <2>12, <2>13
       DEF SubmitNext, SubmitStep
<1>3. QED
  BY <1>1, <1>2, PTL DEF SubmitSpec

\* A leg that an exchange may have taken and the ledger does not have is never
\* left behind a success: a lost answer, a refused reply or a booking that
\* fails half-way ends in recovery, with a trace, whichever adapter submits
\* and whatever other threads do to the orders (_failure_result of the adapters).
THEOREM UnbookedLegAlwaysInRecovery == SubmitSpec => []UnbookedLegInRecovery
<1>1. SubmitInv => UnbookedLegInRecovery
  BY DEF SubmitInv, ProgressOK, WayOK, SuccessBooksBothLegs, UnbookedLegInRecovery, Ending, Working
<1>2. QED
  BY <1>1, SubmitInvariant, PTL

\* No success with one leg: each adapter reaches a successful result only past
\* the booking of both orders (_validate_required_arbitrage_legs and the loop
\* over the two legs).
THEOREM SuccessAlwaysBooksBothLegs == SubmitSpec => []SuccessBooksBothLegs
<1>1. SubmitInv => SuccessBooksBothLegs
  BY DEF SubmitInv, WayOK
<1>2. QED
  BY <1>1, SubmitInvariant, PTL

\* What is published as hedged or closed is filled in full on both legs: a fill
\* that completes an order is the only thing that makes it filled, and nothing
\* undoes it between the read of _refresh_orders and the publication, however
\* many orders, cancellations and fills of other threads come between.
THEOREM BalancedClaimAlwaysFilled == SubmitSpec => []BalancedClaimFilled
<1>1. SubmitInv => BalancedClaimFilled
  BY DEF SubmitInv, FilledOK
<1>2. QED
  BY <1>1, SubmitInvariant, PTL
=============================================================================
