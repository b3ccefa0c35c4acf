-------------------------- MODULE PgOrderStoreProofs --------------------------
(***************************************************************************)
(* Proofs about PgOrderStore, for every number of handler threads, ids and *)
(* quantities: what overlapping requests and lost connections cannot do to *)
(* the ledger in PostgreSQL.                                               *)
(***************************************************************************)
EXTENDS PgHistory, FiniteSetTheorems, TLAPS

Request == {Idle} \cup OrderRequest \cup FillRequest \cup StatusRequest
FillSteps == {"check_trade", "insert_fill", "complete_intent"}

\* Well typed, and a request only goes on with an order that exists.
PgInv ==
    /\ PgTypeOK
    /\ \A c \in Clients :
           req[c].at \in FillSteps \cup {"write_status"} => req[c].order \in DOMAIN orders

\* What "at" says about the rest of a request.
LEMMA RequestFields ==
    ASSUME NEW r \in Request
    PROVE  /\ r.at \in {"insert_order", "mark_intent"} => r \in OrderRequest
           /\ r.at \in FillSteps => r \in FillRequest
           /\ r.at = "write_status" => r \in StatusRequest
           /\ r = Idle <=> r.at = "idle"
           /\ \A at \in {"insert_order", "mark_intent"} :
                  r \in OrderRequest => [r EXCEPT !.at = at] \in OrderRequest
           /\ \A at \in FillSteps :
                  r \in FillRequest => [r EXCEPT !.at = at] \in FillRequest
BY DEF Request, OrderRequest, FillRequest, StatusRequest, FillSteps, Idle

\* A step is one of one client's, and the other clients' requests stay.
LEMMA StepCases ==
    ASSUME [PgNext]_pgVars
    PROVE  (\E c \in Clients : Begin(c) \/ Statement(c) \/ LoseConnection(c)) \/ UNCHANGED pgVars
BY DEF PgNext, PgStep

\* Intents stay well formed when the status of one of them is replaced.
LEMMA IntentStatusWritten ==
    ASSUME TypeOK, NEW k, NEW s, k \in DOMAIN intents => s \in IntentStatuses,
           intents' = [intents EXCEPT ![k].status = s]
    PROVE  DOMAIN intents' \subseteq Intents /\ intents' \in [DOMAIN intents' -> Intent]
<1>1. DOMAIN intents \subseteq Intents /\ \A i \in DOMAIN intents : intents[i] \in Intent
  BY DEF TypeOK
<1>2. /\ DOMAIN intents' = DOMAIN intents
      /\ intents' = [i \in DOMAIN intents |-> intents'[i]]
      /\ \A i \in DOMAIN intents :
             intents'[i] = IF i = k THEN [intents[k] EXCEPT !.status = s] ELSE intents[i]
  OBVIOUS
<1>3. \A row \in Intent, t \in IntentStatuses : [row EXCEPT !.status = t] \in Intent
  BY DEF Intent
<1>4. \A i \in DOMAIN intents : intents'[i] \in Intent
  BY <1>1, <1>2, <1>3
<1>5. QED
  BY <1>1, <1>2, <1>4

\* A client's request is replaced by a well-formed one.
LEMMA RequestReplaced ==
    ASSUME PgInv, NEW c \in Clients, NEW r \in Request,
           req' = [req EXCEPT ![c] = r], TypeOK', DOMAIN orders \subseteq DOMAIN orders',
           r.at \in FillSteps \cup {"write_status"} => r.order \in DOMAIN orders
    PROVE  PgInv' /\ req'[c] = r /\ \A d \in Clients \ {c} : req'[d] = req[d]
<1>1. req' \in [Clients -> Request]
  BY DEF PgInv, PgTypeOK, Request
<1>2. \A d \in Clients : req'[d] = IF d = c THEN r ELSE req[d]
  BY DEF PgInv, PgTypeOK
<1>3. QED
  BY <1>1, <1>2 DEF PgInv, PgTypeOK, Request

\* An order keeps what it was asked for and which order of an exchange it is.
BookKept ==
    /\ DOMAIN orders \subseteq DOMAIN orders'
    /\ \A o \in DOMAIN orders :
           /\ orders'[o].requested = orders[o].requested
           /\ orders'[o].exchange = orders[o].exchange
           /\ orders'[o].exchangeOrderId = orders[o].exchangeOrderId
FilledKept(S) == \A o \in S : orders'[o].filled = orders[o].filled
Fits(r) == r.seen + r.qty <= orders[r.order].requested

\* The four things a step can do to the book and to the fills on their way to
\* it: nothing, except that a fill passes the check or is given up ...
Passes(c) ==
    /\ DOMAIN orders' = DOMAIN orders /\ FilledKept(DOMAIN orders)
    /\ req'[c].at # "check_trade"
    /\ req'[c].at = "insert_fill" =>
           /\ req[c].at = "check_trade" /\ Fits(req[c])
           /\ req'[c].order = req[c].order
           /\ req'[c].seen = req[c].seen /\ req'[c].qty = req[c].qty

\* ... add an order that the unique index accepts ...
Adds(c) ==
    \E o \in Orders \ DOMAIN orders :
        /\ DOMAIN orders' = DOMAIN orders \cup {o} /\ FilledKept(DOMAIN orders)
        /\ req'[c].at = "mark_intent"
        /\ orders'[o].filled = 0
        /\ orders'[o].exchangeOrderId # NoId =>
               \A p \in DOMAIN orders :
                   ~ (/\ orders[p].exchange = orders'[o].exchange
                      /\ orders[p].exchangeOrderId = orders'[o].exchangeOrderId)

\* ... read the sum that a fill will be judged by ...
Reads(c) ==
    /\ DOMAIN orders' = DOMAIN orders /\ FilledKept(DOMAIN orders)
    /\ req'[c].at = "check_trade" /\ req'[c].order \in DOMAIN orders
    /\ req'[c].seen = orders[req'[c].order].filled

\* ... or insert the fill.
Inserts(c) ==
    /\ DOMAIN orders' = DOMAIN orders /\ FilledKept(DOMAIN orders \ {req[c].order})
    /\ req[c].at = "insert_fill" /\ req'[c].at = "complete_intent"
    /\ orders'[req[c].order].filled = orders[req[c].order].filled + req[c].qty

Effect(c) ==
    /\ PgInv' /\ BookKept
    /\ \A d \in Clients \ {c} : req'[d] = req[d]
    /\ Passes(c) \/ Adds(c) \/ Reads(c) \/ Inserts(c)

-----------------------------------------------------------------------------
\* A step that leaves the order book and the fills alone.
LEMMA BookUntouched ==
    ASSUME PgInv, UNCHANGED <<orders, fills, decisions>>,
           DOMAIN intents' \subseteq Intents, intents' \in [DOMAIN intents' -> Intent]
    PROVE  TypeOK' /\ BookKept /\ FilledKept(DOMAIN orders) /\ DOMAIN orders' = DOMAIN orders
BY DEF PgInv, PgTypeOK, TypeOK, BookKept, FilledKept

LEMMA BeginEffect ==
    ASSUME PgInv, NEW c \in Clients, Begin(c)
    PROVE  Effect(c)
<1>1. req[c] \in Request /\ TypeOK /\ req \in [Clients -> Request]
  BY DEF PgInv, PgTypeOK, Request
<1>2. ASSUME NEW i \in Intents, NEW r \in Runs, NEW buy \in Exchanges, NEW sell \in Exchanges,
             NEW s \in IntentStatuses, PgCreateOrderIntent(c, i, r, {buy, sell}, s)
      PROVE  Effect(c)
  <2> DEFINE rec == [run |-> r, legs |-> {buy, sell}, status |-> s]
  <2>1. rec \in Intent
    BY DEF Intent
  <2>2. intents' = Put(intents, i, rec) /\ UNCHANGED <<orders, fills, decisions, req>>
        /\ req[c] = Idle
    BY <1>2 DEF PgCreateOrderIntent
  <2> HIDE DEF rec
  <2>3. DOMAIN intents' \subseteq Intents /\ intents' \in [DOMAIN intents' -> Intent]
    BY <1>1, <2>1, <2>2 DEF Put, TypeOK
  <2>4. TypeOK' /\ BookKept /\ FilledKept(DOMAIN orders) /\ DOMAIN orders' = DOMAIN orders
    BY <2>2, <2>3, BookUntouched
  <2>5. PgInv'
    BY <2>2, <2>4 DEF PgInv, PgTypeOK, OrderRequest, FillRequest, StatusRequest
  <2>6. Passes(c)
    BY <2>2, <2>4 DEF Passes, Idle
  <2>7. QED
    BY <2>2, <2>4, <2>5, <2>6 DEF Effect
<1>3. ASSUME NEW i \in Intents, NEW e \in Exchanges, NEW x \in ExchangeOrderIds \cup {NoId},
             NEW q \in Quantity, NEW s \in StoredOrderStatuses, BeginCreateOrder(c, i, e, x, q, s)
      PROVE  Effect(c)
  <2> DEFINE r == [at |-> "insert_order", intent |-> i, exchange |-> e,
                   exchangeOrderId |-> x, requested |-> q, status |-> s]
  <2>1. r \in Request /\ r.at = "insert_order"
    BY DEF Request, OrderRequest
  <2>2. req' = [req EXCEPT ![c] = r] /\ UNCHANGED vars
    BY <1>3 DEF BeginCreateOrder
  <2> HIDE DEF r
  <2>3. TypeOK' /\ BookKept /\ FilledKept(DOMAIN orders) /\ DOMAIN orders' = DOMAIN orders
    BY <1>1, <2>2, BookUntouched DEF vars, TypeOK
  <2>4. PgInv' /\ req'[c] = r /\ \A d \in Clients \ {c} : req'[d] = req[d]
    BY <2>1, <2>2, <2>3, RequestReplaced DEF FillSteps
  <2>5. QED
    BY <2>1, <2>3, <2>4 DEF Effect, Passes
<1>4. ASSUME NEW o \in Orders, NEW s \in ValidOrderStatuses, BeginUpdateStatus(c, o, s)
      PROVE  Effect(c)
  <2> DEFINE r == [at |-> "write_status", order |-> o, status |-> s]
  <2>1. r \in Request /\ r.at = "write_status" /\ r.order = o
    BY DEF Request, StatusRequest
  <2>2. req' = [req EXCEPT ![c] = r] /\ UNCHANGED vars /\ o \in DOMAIN orders
    BY <1>4 DEF BeginUpdateStatus, UpdateOrderStatusOutcome
  <2> HIDE DEF r
  <2>3. TypeOK' /\ BookKept /\ FilledKept(DOMAIN orders) /\ DOMAIN orders' = DOMAIN orders
    BY <1>1, <2>2, BookUntouched DEF vars, TypeOK
  <2>4. PgInv' /\ req'[c] = r /\ \A d \in Clients \ {c} : req'[d] = req[d]
    BY <2>1, <2>2, <2>3, RequestReplaced DEF FillSteps
  <2>5. QED
    BY <2>1, <2>3, <2>4 DEF Effect, Passes
<1>5. ASSUME NEW o \in Orders, NEW t \in TradeIds \cup {NoId}, NEW q \in Quantity,
             BeginCreateFill(c, o, t, q)
      PROVE  Effect(c)
  <2> DEFINE r == [at |-> "check_trade", order |-> o, tradeId |-> t, qty |-> q,
                   seen |-> orders[o].filled]
  <2>1. /\ req' = [req EXCEPT ![c] = r] /\ UNCHANGED vars /\ o \in DOMAIN orders
        /\ orders[o].filled \in Nat
    BY <1>1, <1>5 DEF BeginCreateFill, TypeOK, Order
  <2>2. r \in Request /\ r.at = "check_trade" /\ r.order = o /\ r.seen = orders[o].filled
    BY <2>1 DEF Request, FillRequest
  <2> HIDE DEF r
  <2>3. TypeOK' /\ BookKept /\ FilledKept(DOMAIN orders) /\ DOMAIN orders' = DOMAIN orders
    BY <1>1, <2>1, BookUntouched DEF vars, TypeOK
  <2>4. PgInv' /\ req'[c] = r /\ \A d \in Clients \ {c} : req'[d] = req[d]
    BY <2>1, <2>2, <2>3, RequestReplaced DEF FillSteps
  <2>5. QED
    BY <2>1, <2>2, <2>3, <2>4 DEF Effect, Reads
<1>6. QED
  BY <1>2, <1>3, <1>4, <1>5 DEF Begin

\* The order of a request, rewritten in its quantity and its status.
LEMMA OrderRewritten ==
    ASSUME PgInv, NEW o \in DOMAIN orders, NEW n \in Nat, NEW s \in StoredOrderStatuses,
           orders' = [orders EXCEPT ![o].filled = n, ![o].status = s],
           UNCHANGED <<intents, decisions>>,
           DOMAIN fills' \subseteq Fills, fills' \in [DOMAIN fills' -> Fill]
    PROVE  /\ TypeOK' /\ BookKept /\ DOMAIN orders' = DOMAIN orders
           /\ FilledKept(DOMAIN orders \ {o}) /\ orders'[o].filled = n
<1>1. orders[o] \in Order /\ TypeOK
  BY DEF PgInv, PgTypeOK, TypeOK
<1> DEFINE after == [orders[o] EXCEPT !.filled = n, !.status = s]
<1>2. /\ after \in Order /\ after.filled = n /\ after.requested = orders[o].requested
      /\ after.exchange = orders[o].exchange
      /\ after.exchangeOrderId = orders[o].exchangeOrderId
  BY <1>1 DEF Order
<1>3. orders' = [orders EXCEPT ![o] = after]
  BY <1>1 DEF TypeOK, Order
<1> HIDE DEF after
<1>4. QED
  BY <1>1, <1>2, <1>3 DEF TypeOK, BookKept, FilledKept

\* A step that ends the request and leaves the book alone.
LEMMA FinishEffect ==
    ASSUME PgInv, NEW c \in Clients, Finish(c), TypeOK', BookKept,
           DOMAIN orders' = DOMAIN orders, FilledKept(DOMAIN orders)
    PROVE  Effect(c)
<1>1. PgInv' /\ req'[c] = Idle /\ \A d \in Clients \ {c} : req'[d] = req[d]
  BY RequestReplaced DEF Finish, Idle, FillSteps, Request
<1>2. QED
  BY <1>1 DEF Effect, Passes, Idle

LEMMA StatementEffect ==
    ASSUME PgInv, NEW c \in Clients, Statement(c) \/ LoseConnection(c)
    PROVE  Effect(c)
<1>1. /\ req[c] \in Request /\ TypeOK /\ req \in [Clients -> Request]
      /\ req[c].at \in FillSteps \cup {"write_status"} => req[c].order \in DOMAIN orders
  BY DEF PgInv, PgTypeOK, Request
<1>2. ASSUME NEW o \in Orders, InsertOrder(c, o) PROVE Effect(c)
  <2> DEFINE row == [intent |-> req[c].intent, exchange |-> req[c].exchange,
                     exchangeOrderId |-> req[c].exchangeOrderId,
                     requested |-> req[c].requested, filled |-> 0,
                     status |-> req[c].status]
             r == [req[c] EXCEPT !.at = "mark_intent"]
  <2>1. /\ req[c] \in OrderRequest /\ o \notin DOMAIN orders
        /\ ~ InsertOrderFails(req[c])
        /\ orders' = Put(orders, o, row) /\ UNCHANGED <<intents, fills, decisions>>
        /\ req' = [req EXCEPT ![c] = r]
    BY <1>1, <1>2, RequestFields DEF InsertOrder, GoTo
  <2>2. row \in Order /\ row.filled = 0 /\ row.exchange = req[c].exchange
        /\ row.exchangeOrderId = req[c].exchangeOrderId
    BY <2>1 DEF OrderRequest, Order
  <2>3. r \in OrderRequest /\ r.at = "mark_intent"
    BY <2>1 DEF OrderRequest
  <2> HIDE DEF row, r
  <2>4. /\ DOMAIN orders' = DOMAIN orders \cup {o} /\ orders'[o] = row
        /\ \A p \in DOMAIN orders : orders'[p] = orders[p]
    BY <2>1 DEF Put
  <2>5. TypeOK' /\ BookKept /\ FilledKept(DOMAIN orders)
    BY <1>1, <2>1, <2>2, <2>4 DEF TypeOK, BookKept, FilledKept, Put
  <2>6. PgInv' /\ req'[c] = r /\ \A d \in Clients \ {c} : req'[d] = req[d]
    BY <2>1, <2>3, <2>4, <2>5, RequestReplaced DEF FillSteps, Request
  <2>7. Adds(c)
    BY <2>1, <2>2, <2>3, <2>4, <2>5, <2>6 DEF Adds, InsertOrderFails
  <2>8. QED
    BY <2>5, <2>6, <2>7 DEF Effect
<1>3. CASE RejectInsert(c) \/ LoseConnection(c)
  <2>1. Finish(c) /\ UNCHANGED vars
    BY <1>3 DEF RejectInsert, LoseConnection
  <2>2. QED
    BY <1>1, <2>1, BookUntouched, FinishEffect DEF vars, TypeOK
<1>4. CASE MarkIntentSubmitted(c)
  <2>1. /\ intents' = [intents EXCEPT ![req[c].intent].status = Submitted(@)]
        /\ Finish(c) /\ UNCHANGED <<orders, fills, decisions>>
    BY <1>4 DEF MarkIntentSubmitted
  <2>2. DOMAIN intents' \subseteq Intents /\ intents' \in [DOMAIN intents' -> Intent]
    <3> DEFINE k == req[c].intent
               new == Submitted(intents[k].status)
    <3>1. intents' = [intents EXCEPT ![k].status = new]
      BY <2>1
    <3>2. k \in DOMAIN intents => new \in IntentStatuses
      BY <1>1 DEF TypeOK, Intent, IntentStatuses, Submitted
    <3> HIDE DEF k, new
    <3>3. QED
      BY <1>1, <3>1, <3>2, IntentStatusWritten
  <2>3. QED
    BY <2>1, <2>2, BookUntouched, FinishEffect
<1>5. CASE CompleteIntent(c)
  <2> DEFINE i == orders[req[c].order].intent
  <2>1. /\ intents' = [intents EXCEPT ![i].status =
                           IF AllFilled(i, orders) THEN "simulated" ELSE @]
        /\ Finish(c) /\ UNCHANGED <<orders, fills, decisions>>
    BY <1>5 DEF CompleteIntent
  <2> HIDE DEF i
  <2>2. DOMAIN intents' \subseteq Intents /\ intents' \in [DOMAIN intents' -> Intent]
    <3> DEFINE new == IF AllFilled(i, orders) THEN "simulated" ELSE intents[i].status
    <3>1. intents' = [intents EXCEPT ![i].status = new]
      BY <2>1
    <3>2. i \in DOMAIN intents => new \in IntentStatuses
      BY <1>1 DEF TypeOK, Intent, IntentStatuses
    <3> HIDE DEF new
    <3>3. QED
      BY <1>1, <3>1, <3>2, IntentStatusWritten
  <2>3. QED
    BY <2>1, <2>2, BookUntouched, FinishEffect
<1>6. CASE WriteStatus(c)
  <2>1. /\ req[c] \in StatusRequest /\ req[c].order \in DOMAIN orders
        /\ orders' = [orders EXCEPT ![req[c].order].status = req[c].status]
        /\ Finish(c) /\ UNCHANGED <<intents, fills, decisions>>
    BY <1>1, <1>6, RequestFields DEF WriteStatus
  <2> DEFINE o == req[c].order
  <2>2. orders[o] \in Order /\ orders[o].filled \in Nat /\ req[c].status \in StoredOrderStatuses
    BY <1>1, <2>1 DEF TypeOK, Order, StatusRequest, StoredOrderStatuses
  <2>3. orders' = [orders EXCEPT ![o].filled = orders[o].filled, ![o].status = req[c].status]
    <3>1. [orders[o] EXCEPT !.filled = orders[o].filled, !.status = req[c].status]
              = [orders[o] EXCEPT !.status = req[c].status]
      BY <2>2 DEF Order
    <3>2. QED
      BY <1>1, <2>1, <3>1 DEF TypeOK
  <2>4. /\ TypeOK' /\ BookKept /\ DOMAIN orders' = DOMAIN orders
        /\ FilledKept(DOMAIN orders \ {o}) /\ orders'[o].filled = orders[o].filled
    <3>1. DOMAIN fills' \subseteq Fills /\ fills' \in [DOMAIN fills' -> Fill]
      BY <1>1, <2>1 DEF TypeOK
    <3>2. UNCHANGED <<intents, decisions>> /\ o \in DOMAIN orders /\ orders[o].filled \in Nat
      BY <2>1, <2>2
    <3> HIDE DEF o
    <3>3. QED
      BY <2>2, <2>3, <3>1, <3>2, OrderRewritten
  <2>5. FilledKept(DOMAIN orders)
    BY <2>4 DEF FilledKept
  <2>6. QED
    BY <2>1, <2>4, <2>5, FinishEffect
<1>7. CASE CheckTrade(c)
  <2>1. req[c] \in FillRequest /\ req[c].at = "check_trade" /\ UNCHANGED vars
    BY <1>1, <1>7, RequestFields DEF CheckTrade, FillSteps
  <2>2. TypeOK' /\ BookKept /\ FilledKept(DOMAIN orders) /\ DOMAIN orders' = DOMAIN orders
    BY <1>1, <2>1, BookUntouched DEF vars, TypeOK
  <2>3. CASE FillRefused(req[c])
    BY <1>7, <2>2, <2>3, FinishEffect DEF CheckTrade
  <2>4. CASE ~ FillRefused(req[c])
    <3> DEFINE r == [req[c] EXCEPT !.at = "insert_fill"]
    <3>1. /\ r \in FillRequest /\ r.at = "insert_fill" /\ r.order = req[c].order
          /\ r.seen = req[c].seen /\ r.qty = req[c].qty
      BY <2>1 DEF FillRequest
    <3>2. req' = [req EXCEPT ![c] = r]
      BY <1>1, <1>7, <2>4 DEF CheckTrade, GoTo
    <3> HIDE DEF r
    <3>3. PgInv' /\ req'[c] = r /\ \A d \in Clients \ {c} : req'[d] = req[d]
      BY <1>1, <2>1, <2>2, <3>1, <3>2, RequestReplaced DEF FillSteps, Request
    <3>4. Fits(req[c])
      <4>1. /\ req[c].seen \in Nat /\ req[c].qty \in Nat /\ req[c].order \in DOMAIN orders
        BY <1>1, <2>1, MaxQtyAssumption DEF FillRequest, Quantity, FillSteps
      <4>2. orders[req[c].order].requested \in Nat
        BY <1>1, <4>1, MaxQtyAssumption DEF TypeOK, Order, Quantity
      <4>3. QED
        BY <2>4, <4>1, <4>2 DEF FillRefused, Fits
    <3>5. QED
      BY <2>1, <2>2, <3>1, <3>3, <3>4 DEF Effect, Passes
  <2>5. QED
    BY <2>3, <2>4
<1>8. ASSUME NEW f \in Fills, InsertFill(c, f) PROVE Effect(c)
  <2> DEFINE o == req[c].order
             n == orders[o].filled + req[c].qty
             s == IF req[c].seen + req[c].qty = orders[o].requested
                  THEN "filled" ELSE "partially_filled"
             row == [order |-> o, tradeId |-> req[c].tradeId, qty |-> req[c].qty]
             r == [req[c] EXCEPT !.at = "complete_intent"]
  <2>1. /\ req[c] \in FillRequest /\ req[c].at = "insert_fill" /\ o \in DOMAIN orders
        /\ fills' = Put(fills, f, row) /\ UNCHANGED <<intents, decisions>>
        /\ orders' = [orders EXCEPT ![o].filled = @ + req[c].qty, ![o].status = s]
        /\ req' = [req EXCEPT ![c] = r]
    BY <1>1, <1>8, RequestFields DEF InsertFill, GoTo, FillSteps
  <2>2. /\ orders[o] \in Order /\ n \in Nat /\ s \in StoredOrderStatuses /\ row \in Fill
    BY <1>1, <2>1, MaxQtyAssumption
       DEF TypeOK, Order, FillRequest, Fill, Quantity, StoredOrderStatuses, ValidOrderStatuses
  <2>3. r \in FillRequest /\ r.at = "complete_intent" /\ r.order = o
    BY <2>1 DEF FillRequest
  <2>4. orders' = [orders EXCEPT ![o].filled = n, ![o].status = s]
    BY <1>1, <2>1 DEF TypeOK, Order
  <2> HIDE DEF n, s, row, r
  <2>5. DOMAIN fills' \subseteq Fills /\ fills' \in [DOMAIN fills' -> Fill]
    BY <1>1, <2>1, <2>2 DEF TypeOK, Put
  <2>6. /\ TypeOK' /\ BookKept /\ DOMAIN orders' = DOMAIN orders
        /\ FilledKept(DOMAIN orders \ {o}) /\ orders'[o].filled = n
    BY <2>1, <2>2, <2>4, <2>5, OrderRewritten
  <2>7. PgInv' /\ req'[c] = r /\ \A d \in Clients \ {c} : req'[d] = req[d]
    BY <2>1, <2>3, <2>6, RequestReplaced DEF FillSteps, Request
  <2>8. QED
    BY <2>1, <2>3, <2>6, <2>7 DEF Effect, Inserts, n
<1>9. QED
  BY <1>2, <1>3, <1>4, <1>5, <1>6, <1>7, <1>8 DEF Statement

\* Every step of every client has one of the four effects.
LEMMA StepEffect ==
    ASSUME PgInv, [PgNext]_pgVars
    PROVE  (\E c \in Clients : Effect(c)) \/ UNCHANGED pgVars
BY StepCases, BeginEffect, StatementEffect
-----------------------------------------------------------------------------
\* Whatever the statements do between each other, the store stays well typed and
\* a request never goes on with an order that is not there.
LEMMA PgInvariant == PgSpec => []PgInv
<1>1. PgInit => PgInv
  BY DEF PgInit, Init, PgInv, PgTypeOK, TypeOK, Idle, FillSteps
<1>2. PgInv /\ [PgNext]_pgVars => PgInv'
  <2>1. SUFFICES ASSUME PgInv, [PgNext]_pgVars PROVE PgInv'
    OBVIOUS
  <2>2. CASE UNCHANGED pgVars
    BY <2>1, <2>2 DEF pgVars, PgInv, PgTypeOK, TypeOK, OrderRequest, FillRequest, StatusRequest
  <2>3. QED
    BY <2>1, <2>2, StepEffect DEF Effect
<1>3. QED
  BY <1>1, <1>2, PTL DEF PgSpec

\* However requests interleave and connections are lost, the tables hold
\* well-formed rows and a request what its statements may go on with.
THEOREM PgTypeCorrect == PgSpec => []PgTypeOK
BY PgInvariant, PTL DEF PgInv

\* Two requests that report the same order of an exchange may both find no
\* duplicate; the index lets one of them insert it.
THEOREM ExchangeOrdersStaySingle == PgSpec => []ExchangeOrderBookedOnce
<1>1. PgInit => ExchangeOrderBookedOnce
  BY DEF PgInit, Init, ExchangeOrderBookedOnce
<1>2. PgInv /\ ExchangeOrderBookedOnce /\ [PgNext]_pgVars => ExchangeOrderBookedOnce'
  <2>1. SUFFICES ASSUME PgInv, ExchangeOrderBookedOnce, [PgNext]_pgVars
                 PROVE  ExchangeOrderBookedOnce'
    OBVIOUS
  <2>2. CASE UNCHANGED pgVars
    BY <2>1, <2>2 DEF pgVars, ExchangeOrderBookedOnce
  <2>3. ASSUME NEW c \in Clients, Effect(c) PROVE ExchangeOrderBookedOnce'
    <3>1. CASE DOMAIN orders' = DOMAIN orders
      BY <2>1, <2>3, <3>1 DEF Effect, BookKept, ExchangeOrderBookedOnce
    <3>2. CASE Adds(c)
      BY <2>1, <2>3, <3>2 DEF Effect, Adds, BookKept, ExchangeOrderBookedOnce
    <3>3. QED
      BY <2>3, <3>1, <3>2 DEF Effect, Passes, Reads, Inserts
  <2>4. QED
    BY <2>1, <2>2, <2>3, StepEffect
<1>3. QED
  BY <1>1, <1>2, PgInvariant, PTL DEF PgSpec

-----------------------------------------------------------------------------
(* How far concurrent fills can overfill an order.                           *)

\* The clients that may still insert a fill into order o: the sum they have
\* read leaves room for it, whatever the sum is by now.
Pending(o) ==
    {c \in Clients :
        /\ req[c].at \in {"check_trade", "insert_fill"} /\ req[c].order = o
        /\ Fits(req[c])}

\* What the order holds and what may still come, each pending fill counted as
\* a whole order, fits into one whole order per client; or it does when the
\* fill of the client that read the sum last is counted as what it is.
Margin(o) ==
    LET whole == orders[o].requested
        most == Cardinality(Clients) * whole
    IN  \/ orders[o].filled + Cardinality(Pending(o)) * whole <= most
        \/ \E c \in Pending(o) :
               orders[o].filled + req[c].qty + (Cardinality(Pending(o)) - 1) * whole <= most

InsertsFit == \A c \in Clients : req[c].at = "insert_fill" => Fits(req[c])

FillInv == PgInv /\ InsertsFit /\ \A o \in DOMAIN orders : Margin(o)

\* Products of natural numbers.
LEMMA Products ==
    ASSUME NEW a \in Nat, NEW b \in Nat, NEW r \in Nat, a <= b
    PROVE  a * r \in Nat /\ b * r \in Nat /\ a * r <= b * r
<1>1. PICK d \in Nat : b = a + d
  <2>1. b - a \in Nat /\ b = a + (b - a)
    OBVIOUS
  <2>2. QED
    BY <2>1
<1>2. d * r \in Nat /\ a * r \in Nat
  OBVIOUS
<1>3. b * r = a * r + d * r
  BY <1>1
<1>4. QED
  BY <1>1, <1>2, <1>3
LEMMA OneLess ==
    ASSUME NEW a \in Nat \ {0}, NEW r \in Nat
    PROVE  a - 1 \in Nat /\ (a - 1) * r = a * r - r
OBVIOUS

\* Pending clients are finitely many, at most all, and each has a fill that is
\* no larger than the order.
PendingFacts(o) ==
    /\ IsFiniteSet(Pending(o)) /\ Cardinality(Pending(o)) \in Nat
    /\ Cardinality(Pending(o)) <= Cardinality(Clients) /\ Cardinality(Clients) \in Nat
    /\ orders[o].requested \in Nat /\ orders[o].filled \in Nat
    /\ \A c \in Pending(o) :
           /\ Cardinality(Pending(o)) # 0
           /\ req[c].qty \in Nat /\ req[c].seen \in Nat /\ req[c].qty <= orders[o].requested

LEMMA PendingCount == PgInv => \A o \in DOMAIN orders : PendingFacts(o)
<1> SUFFICES ASSUME PgInv, NEW o \in DOMAIN orders PROVE PendingFacts(o)
  OBVIOUS
<1>1. IsFiniteSet(Pending(o)) /\ Cardinality(Pending(o)) <= Cardinality(Clients)
  BY PgClientsAssumption, FS_Subset DEF Pending
<1>2. Cardinality(Pending(o)) \in Nat /\ Cardinality(Clients) \in Nat
  BY <1>1, PgClientsAssumption, FS_CardinalityType
<1>3. orders[o].requested \in Nat /\ orders[o].filled \in Nat
  BY MaxQtyAssumption DEF PgInv, PgTypeOK, TypeOK, Order, Quantity
<1>4. ASSUME NEW c \in Pending(o)
      PROVE  /\ Cardinality(Pending(o)) # 0
             /\ req[c].qty \in Nat /\ req[c].seen \in Nat /\ req[c].qty <= orders[o].requested
  <2>1. req[c] \in Request /\ req[c].at \in FillSteps /\ c \in Clients
    BY DEF Pending, FillSteps, PgInv, PgTypeOK, Request
  <2>2. req[c] \in FillRequest
    BY <2>1, RequestFields
  <2>3. req[c].qty \in Nat /\ req[c].seen \in Nat
    BY <2>2, MaxQtyAssumption DEF FillRequest, Quantity
  <2>4. req[c].seen + req[c].qty <= orders[o].requested
    BY DEF Pending, Fits
  <2>5. Cardinality(Pending(o)) # 0
    BY <1>1, <1>4, FS_EmptySet
  <2>6. QED
    BY <1>3, <2>3, <2>4, <2>5
<1>5. QED
  BY <1>1, <1>2, <1>3, <1>4 DEF PendingFacts

LEMMA PendingCountNext == PgInv' => (\A o \in DOMAIN orders : PendingFacts(o))'
BY PendingCount, PTL

\* Fewer pending fills leave at least the margin there was.
LEMMA MarginLeft ==
    ASSUME PgInv, PgInv', NEW o \in DOMAIN orders, Margin(o), o \in DOMAIN orders',
           orders'[o].requested = orders[o].requested, orders'[o].filled = orders[o].filled,
           Pending(o)' \subseteq Pending(o),
           \A c \in Pending(o)' : req'[c].qty = req[c].qty
    PROVE  Margin(o)'
<1> DEFINE whole == orders[o].requested
           n == Cardinality(Pending(o))
           m == Cardinality(Pending(o)')
           most == Cardinality(Clients) * whole
<1>1. /\ n \in Nat /\ m \in Nat /\ m <= n /\ whole \in Nat /\ orders[o].filled \in Nat
      /\ most \in Nat
  BY PendingCount, PendingCountNext, FS_Subset, Products DEF PendingFacts
<1>2. m * whole \in Nat /\ n * whole \in Nat /\ m * whole <= n * whole
  BY <1>1, Products
<1>3. CASE orders[o].filled + n * whole <= most
  <2>1. orders[o].filled + m * whole <= most
    BY <1>1, <1>2, <1>3
  <2>2. QED
    BY <2>1 DEF Margin
<1>4. ASSUME NEW c \in Pending(o), orders[o].filled + req[c].qty + (n - 1) * whole <= most
      PROVE  Margin(o)'
  <2>1. n # 0 /\ req[c].qty \in Nat
    BY PendingCount DEF PendingFacts
  <2>2. n - 1 \in Nat /\ (n - 1) * whole \in Nat
    BY <1>1, <2>1, Products
  <2>3. CASE c \in Pending(o)'
    <3>1. m # 0 /\ req'[c].qty = req[c].qty
      BY <1>1, <2>3, PendingCountNext DEF PendingFacts
    <3>2. m - 1 \in Nat /\ m - 1 <= n - 1
      BY <1>1, <3>1
    <3>3. (m - 1) * whole \in Nat /\ (m - 1) * whole <= (n - 1) * whole
      BY <1>1, <2>2, <3>2, Products
    <3>4. orders[o].filled + req[c].qty + (m - 1) * whole <= most
      BY <1>1, <1>4, <2>1, <2>2, <3>3
    <3>5. QED
      BY <2>3, <3>1, <3>4 DEF Margin
  <2>4. CASE c \notin Pending(o)'
    <3>1. /\ Pending(o)' \subseteq Pending(o) \ {c}
          /\ Cardinality(Pending(o) \ {c}) = n - 1 /\ IsFiniteSet(Pending(o) \ {c})
      BY <2>4, PendingCount, FS_RemoveElement DEF PendingFacts
    <3>2. m <= n - 1
      BY <3>1, FS_Subset
    <3>3. m * whole <= (n - 1) * whole
      BY <1>1, <2>2, <3>2, Products
    <3>4. orders[o].filled + m * whole <= most
      BY <1>1, <1>2, <1>4, <2>1, <2>2, <3>3
    <3>5. QED
      BY <3>4 DEF Margin
  <2>5. QED
    BY <2>3, <2>4
<1>5. QED
  BY <1>3, <1>4 DEF Margin

\* A client that reads the sum: its fill fits what it reads, and the others
\* count as a whole order each.
LEMMA MarginRead ==
    ASSUME PgInv, PgInv', NEW o \in DOMAIN orders, o \in DOMAIN orders',
           orders'[o].requested = orders[o].requested, orders'[o].filled = orders[o].filled,
           NEW c \in Pending(o)', req'[c].seen = orders[o].filled
    PROVE  Margin(o)'
<1> DEFINE whole == orders[o].requested
           m == Cardinality(Pending(o)')
           all == Cardinality(Clients)
<1>1. /\ m \in Nat /\ m # 0 /\ m <= all /\ all \in Nat /\ whole \in Nat
      /\ orders[o].filled \in Nat /\ req'[c].qty \in Nat
  BY PendingCountNext DEF PendingFacts
<1>2. orders[o].filled + req'[c].qty <= whole
  BY DEF Pending, Fits
<1>3. m - 1 \in Nat /\ all \in Nat \ {0} /\ m - 1 <= all - 1 /\ all - 1 \in Nat
  BY <1>1
<1>4. /\ (m - 1) * whole \in Nat /\ (m - 1) * whole <= (all - 1) * whole
      /\ (all - 1) * whole = all * whole - whole /\ all * whole \in Nat
  BY <1>1, <1>3, Products, OneLess
<1>5. orders[o].filled + req'[c].qty + (m - 1) * whole <= all * whole
  BY <1>1, <1>2, <1>4
<1>6. QED
  BY <1>5 DEF Margin

\* A pending fill that is inserted: its client is no longer pending.
LEMMA MarginInsert ==
    ASSUME PgInv, PgInv', NEW o \in DOMAIN orders, Margin(o), o \in DOMAIN orders',
           NEW c \in Pending(o), Pending(o)' = Pending(o) \ {c},
           orders'[o].requested = orders[o].requested,
           orders'[o].filled = orders[o].filled + req[c].qty,
           \A d \in Pending(o)' : req'[d].qty = req[d].qty
    PROVE  Margin(o)'
<1> DEFINE whole == orders[o].requested
           n == Cardinality(Pending(o))
           m == Cardinality(Pending(o)')
           most == Cardinality(Clients) * whole
<1>1. /\ n \in Nat /\ n # 0 /\ whole \in Nat /\ orders[o].filled \in Nat /\ most \in Nat
      /\ req[c].qty \in Nat /\ req[c].qty <= whole
  BY PendingCount, Products DEF PendingFacts
<1>2. m = n - 1 /\ m \in Nat
  BY <1>1, PendingCount, PendingCountNext, FS_RemoveElement DEF PendingFacts
<1>3. m * whole = n * whole - whole /\ m * whole \in Nat /\ n * whole \in Nat
  BY <1>1, <1>2, Products, OneLess
<1>4. CASE orders[o].filled + n * whole <= most
  <2>1. orders'[o].filled + m * whole <= most
    BY <1>1, <1>3, <1>4
  <2>2. QED
    BY <2>1 DEF Margin
<1>5. CASE orders[o].filled + req[c].qty + (n - 1) * whole <= most
  <2>1. orders'[o].filled + m * whole <= most
    BY <1>1, <1>2, <1>3, <1>5
  <2>2. QED
    BY <2>1 DEF Margin
<1>6. ASSUME NEW d \in Pending(o), d # c,
             orders[o].filled + req[d].qty + (n - 1) * whole <= most
      PROVE  Margin(o)'
  <2>1. d \in Pending(o)' /\ req'[d].qty = req[d].qty /\ req[d].qty \in Nat /\ m # 0
    BY <1>6, PendingCount, PendingCountNext DEF PendingFacts
  <2>2. (m - 1) * whole = m * whole - whole /\ (m - 1) * whole \in Nat
    BY <1>1, <1>2, <2>1, Products, OneLess
  <2>3. orders'[o].filled + req'[d].qty + (m - 1) * whole <= most
    BY <1>1, <1>2, <1>3, <1>6, <2>1, <2>2
  <2>4. QED
    BY <2>1, <2>3 DEF Margin
<1>7. QED
  BY <1>4, <1>5, <1>6 DEF Margin

\* What the other clients' fills and the book keep of a pending fill.
LEMMA OthersPending ==
    ASSUME PgInv, NEW c \in Clients, Effect(c), NEW o \in DOMAIN orders
    PROVE  /\ o \in DOMAIN orders' /\ orders'[o].requested = orders[o].requested
           /\ Pending(o)' \ {c} = Pending(o) \ {c}
           /\ \A d \in Pending(o)' \ {c} : req'[d].qty = req[d].qty
BY DEF Effect, BookKept, Pending, Fits

\* Nothing is pending for an order that is not there yet.
LEMMA MarginOfNew ==
    ASSUME PgInv, PgInv', NEW c \in Clients, Adds(c), NEW o \in DOMAIN orders' \ DOMAIN orders,
           \A d \in Clients \ {c} : req'[d] = req[d]
    PROVE  Margin(o)'
<1>1. orders'[o].filled = 0 /\ req'[c].at = "mark_intent"
  BY DEF Adds
<1>2. Pending(o)' = {}
  BY <1>1 DEF Pending, PgInv, FillSteps
<1>3. /\ orders'[o].requested \in Nat /\ Cardinality(Clients) \in Nat
      /\ Cardinality(Pending(o)') = 0
  BY <1>2, PendingCountNext, FS_EmptySet DEF PendingFacts
<1>4. 0 * orders'[o].requested = 0 /\ Cardinality(Clients) * orders'[o].requested \in Nat
  BY <1>3, Products
<1>5. QED
  BY <1>1, <1>3, <1>4 DEF Margin

LEMMA FillKept == FillInv /\ [PgNext]_pgVars => FillInv'
<1>1. SUFFICES ASSUME FillInv, [PgNext]_pgVars PROVE FillInv'
  OBVIOUS
<1>2. PgInv
  BY <1>1 DEF FillInv
<1>3. CASE UNCHANGED pgVars
  BY <1>1, <1>3
     DEF pgVars, FillInv, PgInv, PgTypeOK, TypeOK, OrderRequest, FillRequest, StatusRequest,
         InsertsFit, Fits, Margin, Pending
<1>4. ASSUME NEW c \in Clients, Effect(c) PROVE FillInv'
  <2>1. PgInv' /\ BookKept /\ \A d \in Clients \ {c} : req'[d] = req[d]
    BY <1>4 DEF Effect
  <2>2. InsertsFit'
    <3>1. \A d \in Clients : req[d].at = "insert_fill" => Fits(req[d]) /\ req[d].order \in DOMAIN orders
      BY <1>1, <1>2 DEF FillInv, InsertsFit, PgInv, FillSteps
    <3>2. \A d \in Clients \ {c} : req'[d].at = "insert_fill" => Fits(req[d])'
      BY <2>1, <3>1 DEF BookKept, Fits
    <3>3. req'[c].at = "insert_fill" => Fits(req[c])'
      <4>1. SUFFICES ASSUME req'[c].at = "insert_fill" PROVE Fits(req[c])'
        OBVIOUS
      <4>2. /\ req[c].at = "check_trade" /\ Fits(req[c]) /\ req'[c].order = req[c].order
            /\ req'[c].seen = req[c].seen /\ req'[c].qty = req[c].qty
        BY <1>4, <4>1 DEF Effect, Passes, Adds, Reads, Inserts
      <4>3. req[c].order \in DOMAIN orders
        BY <1>2, <4>2 DEF PgInv, FillSteps
      <4>4. QED
        BY <2>1, <4>2, <4>3 DEF BookKept, Fits
    <3>4. QED
      BY <3>2, <3>3 DEF InsertsFit
  <2>3. ASSUME NEW o \in DOMAIN orders' PROVE Margin(o)'
    <3>1. CASE o \notin DOMAIN orders
      <4>1. Adds(c)
        BY <1>4, <3>1 DEF Effect, Passes, Reads, Inserts
      <4>2. QED
        BY <1>2, <2>1, <3>1, <4>1, MarginOfNew
    <3>2. CASE o \in DOMAIN orders
      <4>1. /\ Margin(o) /\ orders'[o].requested = orders[o].requested
            /\ Pending(o)' \ {c} = Pending(o) \ {c}
            /\ \A d \in Pending(o)' \ {c} : req'[d].qty = req[d].qty
        BY <1>1, <1>2, <1>4, <3>2, OthersPending DEF FillInv
      <4>2. CASE Passes(c)
        <5>1. /\ orders'[o].filled = orders[o].filled
              /\ c \in Pending(o)' => c \in Pending(o) /\ req'[c].qty = req[c].qty
          BY <1>2, <3>2, <4>2 DEF Passes, FilledKept, Pending
        <5>2. QED
          BY <1>2, <2>1, <3>2, <4>1, <5>1, MarginLeft
      <4>3. CASE Adds(c)
        <5>1. orders'[o].filled = orders[o].filled /\ c \notin Pending(o)'
          BY <3>2, <4>3 DEF Adds, FilledKept, Pending
        <5>2. QED
          BY <1>2, <2>1, <3>2, <4>1, <5>1, MarginLeft
      <4>4. CASE Reads(c)
        <5>1. orders'[o].filled = orders[o].filled
          BY <3>2, <4>4 DEF Reads, FilledKept
        <5>2. CASE c \in Pending(o)'
          <6>1. req'[c].seen = orders[o].filled
            BY <4>4, <5>2 DEF Reads, Pending
          <6>2. QED
            BY <1>2, <2>1, <3>2, <4>1, <5>1, <5>2, <6>1, MarginRead
        <5>3. CASE c \notin Pending(o)'
          BY <1>2, <2>1, <3>2, <4>1, <5>1, <5>3, MarginLeft
        <5>4. QED
          BY <5>2, <5>3
      <4>5. CASE Inserts(c)
        <5>1. c \notin Pending(o)'
          BY <4>5 DEF Inserts, Pending
        <5>2. CASE req[c].order = o
          <6>1. c \in Pending(o)
            BY <1>1, <4>5, <5>2 DEF FillInv, InsertsFit, Inserts, Pending
          <6>2. orders'[o].filled = orders[o].filled + req[c].qty
                /\ Pending(o)' = Pending(o) \ {c}
            BY <4>1, <4>5, <5>1, <5>2 DEF Inserts
          <6>3. QED
            BY <1>2, <2>1, <3>2, <4>1, <5>1, <6>1, <6>2, MarginInsert
        <5>3. CASE req[c].order # o
          <6>1. orders'[o].filled = orders[o].filled
            BY <3>2, <4>5, <5>3 DEF Inserts, FilledKept
          <6>2. QED
            BY <1>2, <2>1, <3>2, <4>1, <5>1, <6>1, MarginLeft
        <5>4. QED
          BY <5>2, <5>3
      <4>6. QED
        BY <1>4, <4>2, <4>3, <4>4, <4>5 DEF Effect
    <3>3. QED
      BY <3>1, <3>2
  <2>4. QED
    BY <2>1, <2>2, <2>3 DEF FillInv
<1>5. QED
  BY <1>1, <1>2, <1>3, <1>4, StepEffect

\* Each client can insert one fill that was judged by a sum read before the
\* others inserted theirs: with n handler threads an order is never filled
\* beyond n times what was asked for.
THEOREM OverfillPerClient == PgSpec => []OverfillBounded
<1>1. PgInit => InsertsFit /\ \A o \in DOMAIN orders : Margin(o)
  BY DEF PgInit, Init, InsertsFit, Idle
<1>2. FillInv => OverfillBounded
  <2>1. SUFFICES ASSUME FillInv, NEW o \in DOMAIN orders
                 PROVE  orders[o].filled <= Cardinality(Clients) * orders[o].requested
    BY DEF OverfillBounded
  <2> DEFINE n == Cardinality(Pending(o))
             whole == orders[o].requested
             most == Cardinality(Clients) * whole
  <2>2. PgInv /\ Margin(o) /\ PendingFacts(o)
    BY <2>1, PendingCount DEF FillInv
  <2>3. /\ n \in Nat /\ whole \in Nat /\ most \in Nat /\ orders[o].filled \in Nat
        /\ n * whole \in Nat
    BY <2>2, Products DEF PendingFacts
  <2>4. CASE orders[o].filled + n * whole <= most
    BY <2>3, <2>4
  <2>5. ASSUME NEW c \in Pending(o), orders[o].filled + req[c].qty + (n - 1) * whole <= most
        PROVE  orders[o].filled <= most
    <3>1. n # 0 /\ req[c].qty \in Nat
      BY <2>2 DEF PendingFacts
    <3>2. (n - 1) * whole \in Nat
      BY <2>3, <3>1, Products
    <3>3. QED
      BY <2>3, <2>5, <3>1, <3>2
  <2>6. QED
    BY <2>2, <2>4, <2>5 DEF Margin
<1>3. PgInv /\ InsertsFit /\ (\A o \in DOMAIN orders : Margin(o)) <=> FillInv
  BY DEF FillInv
<1>4. PgSpec => []FillInv
  BY <1>1, <1>3, FillKept, PgInvariant, PTL DEF PgSpec
<1>5. QED
  BY <1>2, <1>4, PTL

-----------------------------------------------------------------------------
\* An intent becomes simulated only by the last statement of a fill, which
\* judges the orders as they are at that moment, so that statements of other
\* requests in between, and sums that were stale, cannot complete it early.
THEOREM SimulatedOnlyWhenFilled == PgSpec => SimulatedWhenAllFilled
<1> DEFINE P == \A i \in DOMAIN intents :
                    intents[i].status # "simulated" /\ intents'[i].status = "simulated"
                    => \A o \in OrdersOf(i, orders') : orders'[o].status = "filled"
<1>1. PgInv /\ [PgNext]_pgVars => [P]_vars
  <2>1. SUFFICES ASSUME PgInv, [PgNext]_pgVars, intents' # intents PROVE P
    BY DEF vars
  <2>2. TypeOK
    BY <2>1 DEF PgInv, PgTypeOK
  <2>3. PICK c \in Clients :
            \/ MarkIntentSubmitted(c) \/ CompleteIntent(c)
            \/ \E i \in Intents, r \in Runs, buy, sell \in Exchanges, s \in IntentStatuses :
                   PgCreateOrderIntent(c, i, r, {buy, sell}, s)
    <3>1. PICK c \in Clients : Begin(c) \/ Statement(c)
      BY <2>1 DEF PgNext, PgStep, LoseConnection, pgVars, vars
    <3>2. CASE Begin(c)
      BY <2>1, <3>2 DEF Begin, BeginCreateOrder, BeginUpdateStatus, BeginCreateFill, vars
    <3>3. CASE Statement(c)
      <4>1. ASSUME NEW o, InsertOrder(c, o) PROVE FALSE
        BY <2>1, <4>1 DEF InsertOrder
      <4>2. ~RejectInsert(c) /\ ~WriteStatus(c) /\ ~CheckTrade(c)
        BY <2>1 DEF RejectInsert, WriteStatus, CheckTrade, vars
      <4>3. ASSUME NEW f, InsertFill(c, f) PROVE FALSE
        BY <2>1, <4>3 DEF InsertFill
      <4>4. QED
        BY <3>3, <4>1, <4>2, <4>3 DEF Statement
    <3>4. QED
      BY <3>1, <3>2, <3>3
  <2>4. CASE MarkIntentSubmitted(c)
    <3>1. \A i \in DOMAIN intents : intents'[i].status \in {intents[i].status, Submitted(intents[i].status)}
      <4>1. intents' = [intents EXCEPT ![req[c].intent].status = Submitted(@)]
        BY <2>4 DEF MarkIntentSubmitted
      <4>2. QED
        BY <2>2, <4>1 DEF TypeOK, Intent
    <3>2. QED
      BY <3>1 DEF Submitted
  <2>5. CASE CompleteIntent(c)
    <3> DEFINE k == orders[req[c].order].intent
    <3>1. /\ intents' = [intents EXCEPT ![k].status =
                             IF AllFilled(k, orders) THEN "simulated" ELSE @]
          /\ UNCHANGED orders
      BY <2>5 DEF CompleteIntent
    <3> HIDE DEF k
    <3>2. \A i \in DOMAIN intents :
              intents'[i].status = intents[i].status \/ (i = k /\ AllFilled(k, orders))
      BY <2>2, <3>1 DEF TypeOK, Intent
    <3>3. QED
      BY <3>1, <3>2 DEF AllFilled
  <2>6. ASSUME NEW i \in Intents, NEW r \in Runs, NEW buy \in Exchanges, NEW sell \in Exchanges,
               NEW s \in IntentStatuses, PgCreateOrderIntent(c, i, r, {buy, sell}, s)
        PROVE  P
    <3>1. \A j \in DOMAIN intents : intents'[j] = intents[j]
      BY <2>6 DEF PgCreateOrderIntent, Put
    <3>2. QED
      BY <3>1
  <2>7. QED
    BY <2>3, <2>4, <2>5, <2>6
<1>2. QED
  BY <1>1, PgInvariant, PTL DEF PgSpec, SimulatedWhenAllFilled

-----------------------------------------------------------------------------
(* Until requests overlap or a connection is lost, the statements implement  *)
(* the operations of the memory store.                                       *)

\* One request at a time, which still relies on something true.
Solo == \A c, d \in Clients : req[c] # Idle /\ req[d] # Idle => c = d

Marking(i) == \E c \in Clients : req[c].at = "mark_intent" /\ req[c].intent = i

StoreOK ==
    /\ IsFiniteSet(DOMAIN intents)
    /\ \A o \in DOMAIN orders :
           /\ orders[o].intent \in DOMAIN intents
           /\ ~Marking(orders[o].intent) => intents[orders[o].intent].status # "created"

Promise(r) ==
    /\ r.at = "insert_order" =>
           r.intent \in DOMAIN intents /\ r.exchange \in intents[r.intent].legs
    /\ r.at = "mark_intent" => r.intent \in DOMAIN intents
    /\ r.at = "write_status" =>
           (IsTerminal(orders[r.order].status) => orders[r.order].status = r.status)
    /\ r.at \in {"check_trade", "insert_fill"} =>
           ~IsTerminal(orders[r.order].status) /\ r.seen = orders[r.order].filled
    /\ r.at = "insert_fill" =>
           /\ ~(r.seen + r.qty > orders[r.order].requested)
           /\ ~ \E f \in DOMAIN fills :
                    r.tradeId # NoId /\ fills[f].order = r.order /\ fills[f].tradeId = r.tradeId

QuietInv == Solo /\ StoreOK /\ \A c \in Clients : Promise(req[c])

HistoryInv == PgInv /\ (~overlapped => QuietInv)

\* The status an intent will have when request r, the only one, is over.
SettledAs(r, book, i, status) ==
    IF r.at = "complete_intent" /\ book[r.order].intent = i /\ AllFilled(i, book) THEN "simulated"
    ELSE IF status = "created" /\ r.at = "mark_intent" /\ r.intent = i THEN "submitted"
    ELSE status

LEMMA SettledAlone ==
    ASSUME NEW c \in Clients, NEW i
    PROVE  /\ (\A d \in Clients \ {c} : req[d] = Idle)
                  => Settled(i) = SettledAs(req[c], orders, i, intents[i].status)
           /\ (\A d \in Clients \ {c} : req'[d] = Idle)
                  => Settled(i)' = SettledAs(req'[c], orders', i, intents'[i].status)
<1>1. "idle" # "complete_intent" /\ "idle" # "mark_intent" /\ Idle.at = "idle"
  BY DEF Idle
<1>2. ASSUME \A d \in Clients \ {c} : req[d] = Idle
      PROVE  Settled(i) = SettledAs(req[c], orders, i, intents[i].status)
  <2>1. \A d \in Clients : req[d].at \in {"complete_intent", "mark_intent"} => d = c
    BY <1>1, <1>2
  <2>2. QED
    BY <2>1 DEF Settled, SettledAs
<1>3. ASSUME \A d \in Clients \ {c} : req'[d] = Idle
      PROVE  Settled(i)' = SettledAs(req'[c], orders', i, intents'[i].status)
  <2>1. \A d \in Clients : req'[d].at \in {"complete_intent", "mark_intent"} => d = c
    BY <1>1, <1>3
  <2>2. QED
    BY <2>1 DEF Settled, SettledAs, AllFilled, OrdersOf
<1>4. QED
  BY <1>2, <1>3

Restated(r, status) == [r EXCEPT !.status = status]

LEMMA IntentRewritten ==
    ASSUME NEW r \in Intent, NEW a, NEW b
    PROVE  /\ Restated(Restated(r, a), b) = Restated(r, b)
           /\ Restated(r, r.status) = r
           /\ Restated(r, a).status = a /\ Restated(r, a).run = r.run
           /\ Restated(r, a).legs = r.legs
BY DEF Intent, Restated

\* A statement that leaves every intent with the status it was going to have,
\* seen from the memory store, does nothing.
LEMMA Unseen ==
    ASSUME PgInv, DOMAIN intents' = DOMAIN intents,
           \A i \in DOMAIN intents :
               /\ Settled(i)' = Settled(i)
               /\ \/ intents'[i] = intents[i]
                  \/ \E s : intents'[i] = [intents[i] EXCEPT !.status = s]
    PROVE  UNCHANGED <<SettledIntents, CountedDecisions>>
<1>1. \A i \in DOMAIN intents : intents[i] \in Intent
  BY DEF PgInv, PgTypeOK, TypeOK
<1>2. \A i \in DOMAIN intents :
          /\ intents'[i].run = intents[i].run
          /\ [intents'[i] EXCEPT !.status = Settled(i)'] = [intents[i] EXCEPT !.status = Settled(i)]
  <2>1. TAKE i \in DOMAIN intents
  <2>2. PICK m \in Intent : m = intents[i]
    BY <1>1
  <2>3. PICK n : n = intents'[i]
    OBVIOUS
  <2>4. PICK z : z = Settled(i)
    OBVIOUS
  <2>5. n = m \/ \E s : n = [m EXCEPT !.status = s]
    BY <2>2, <2>3
  <2>6. n.run = m.run /\ [n EXCEPT !.status = z] = [m EXCEPT !.status = z]
    <3>1. ASSUME NEW s, n = [m EXCEPT !.status = s]
          PROVE  n.run = m.run /\ [n EXCEPT !.status = z] = [m EXCEPT !.status = z]
      <4>1. Restated(Restated(m, s), z) = Restated(m, z) /\ Restated(m, s).run = m.run
        BY IntentRewritten
      <4>2. n = Restated(m, s)
        BY <3>1 DEF Restated
      <4>3. n.run = m.run /\ Restated(n, z) = Restated(m, z)
        BY <4>1, <4>2
      <4>4. QED
        BY <4>3 DEF Restated
    <3>2. QED
      BY <2>5, <3>1
  <2>7. Settled(i)' = z
    BY <2>4
  <2>8. QED
    BY <2>2, <2>3, <2>4, <2>6, <2>7
<1>3. UNCHANGED SettledIntents
  BY <1>2 DEF SettledIntents
<1>4. \A r \in Runs : {i \in DOMAIN intents' : intents'[i].run = r} = {i \in DOMAIN intents : intents[i].run = r}
  BY <1>2
<1>5. UNCHANGED CountedDecisions
  BY <1>4 DEF CountedDecisions
<1>6. QED
  BY <1>3, <1>5

\* One that rewrites the status of one intent is seen to do that.
LEMMA SeenStatus ==
    ASSUME PgInv, UNCHANGED intents, NEW k \in DOMAIN intents, NEW new,
           \A i \in DOMAIN intents : Settled(i)' = IF i = k THEN new ELSE Settled(i)
    PROVE  /\ SettledIntents' = [SettledIntents EXCEPT ![k].status = new]
           /\ UNCHANGED CountedDecisions
           /\ SettledIntents[k].legs = intents[k].legs /\ SettledIntents[k].status = Settled(k)
<1>1. \A i \in DOMAIN intents : intents[i] \in Intent
  BY DEF PgInv, PgTypeOK, TypeOK
<1>2. \A i \in DOMAIN intents : SettledIntents[i] = [intents[i] EXCEPT !.status = Settled(i)]
  BY DEF SettledIntents
<1>3. /\ SettledIntents[k].legs = intents[k].legs /\ SettledIntents[k].status = Settled(k)
      /\ [SettledIntents[k] EXCEPT !.status = new] = [intents[k] EXCEPT !.status = new]
  <2>1. PICK m \in Intent : m = intents[k]
    BY <1>1
  <2>2. PICK z : z = Settled(k)
    OBVIOUS
  <2>3. PICK y : y = SettledIntents[k]
    OBVIOUS
  <2>4. y = Restated(m, z)
    BY <1>2, <2>1, <2>2, <2>3 DEF Restated
  <2>5. /\ Restated(Restated(m, z), new) = Restated(m, new)
        /\ Restated(m, z).legs = m.legs /\ Restated(m, z).status = z
    BY IntentRewritten
  <2>6. y.legs = m.legs /\ y.status = z /\ Restated(y, new) = Restated(m, new)
    BY <2>4, <2>5
  <2>7. [y EXCEPT !.status = new] = [m EXCEPT !.status = new]
    BY <2>6 DEF Restated
  <2>8. QED
    BY <2>1, <2>2, <2>3, <2>6, <2>7
<1>4. SettledIntents' = [i \in DOMAIN intents |-> IF i = k THEN [SettledIntents[k] EXCEPT !.status = new]
                                                  ELSE SettledIntents[i]]
  BY <1>2, <1>3 DEF SettledIntents
<1>5. DOMAIN SettledIntents = DOMAIN intents
  BY DEF SettledIntents
<1>6. SettledIntents' = [SettledIntents EXCEPT ![k].status = new]
  <2> DEFINE S == SettledIntents
             row == [S[k] EXCEPT !.status = new]
  <2>1. S = [i \in DOMAIN intents |-> S[i]]
    BY DEF SettledIntents
  <2>2. [S EXCEPT ![k].status = new] = [i \in DOMAIN intents |-> IF i = k THEN row ELSE S[i]]
    <3> HIDE DEF S
    <3>1. [S EXCEPT ![k].status = new] = [S EXCEPT ![k] = row]
      OBVIOUS
    <3> HIDE DEF row
    <3>2. QED
      BY <2>1, <3>1
  <2>3. QED
    BY <1>4, <2>2
<1>7. UNCHANGED CountedDecisions
  BY DEF CountedDecisions
<1>8. QED
  BY <1>3, <1>6, <1>7

LedgerStep == [Ledger!Next]_<<SettledIntents, orders, fills, CountedDecisions>>

\* The memory store behind the mapping speaks of the same words.
LEMMA SameWords ==
    /\ Ledger!IntentStatuses = IntentStatuses /\ Ledger!Quantity = Quantity
    /\ Ledger!ValidOrderStatuses = ValidOrderStatuses
    /\ Ledger!StoredOrderStatuses = StoredOrderStatuses
    /\ \A s : /\ Ledger!IsTerminal(s) <=> IsTerminal(s)
             /\ Ledger!Submitted(s) = Submitted(s)
    /\ \A i, book : Ledger!AllFilled(i, book) <=> AllFilled(i, book)
    /\ \A f, k, v : Ledger!Put(f, k, v) = Put(f, k, v)
BY DEF Ledger!IntentStatuses, IntentStatuses, Ledger!Quantity, Quantity, Ledger!ValidOrderStatuses,
       ValidOrderStatuses, Ledger!StoredOrderStatuses, StoredOrderStatuses, Ledger!IsTerminal,
       Ledger!TerminalOrderStatuses, IsTerminal, TerminalOrderStatuses, Ledger!Submitted, Submitted,
       Ledger!AllFilled, AllFilled, Ledger!OrdersOf, OrdersOf, Ledger!Put, Put

\* Client c is the one at work, before the step with r and after it with x.
OnlyOne(c, r, x) ==
    /\ req[c] = r /\ req'[c] = x
    /\ \A d \in Clients \ {c} : req[d] = Idle /\ req'[d] = Idle

LEMMA OnlySettled ==
    ASSUME NEW c \in Clients, NEW r, NEW x, OnlyOne(c, r, x), NEW i
    PROVE  /\ Settled(i) = SettledAs(r, orders, i, intents[i].status)
           /\ Settled(i)' = SettledAs(x, orders', i, intents'[i].status)
<1>1. /\ req[c] = r /\ req'[c] = x
      /\ \A d \in Clients \ {c} : req[d] = Idle
      /\ \A d \in Clients \ {c} : req'[d] = Idle
  BY DEF OnlyOne
<1>2. QED
  BY <1>1, SettledAlone DEF SettledAs, AllFilled, OrdersOf

LEMMA QuietAfter ==
    ASSUME NEW c \in Clients, NEW r, NEW x, OnlyOne(c, r, x), Promise(x)', StoreOK'
    PROVE  QuietInv'
<1>1. req'[c] = x /\ \A d \in Clients \ {c} : req'[d] = Idle
  BY DEF OnlyOne
<1>2. Solo'
  BY <1>1 DEF Solo
<1>3. \A d \in Clients : Promise(req[d])'
  BY <1>1 DEF Promise, Idle
<1>4. QED
  BY <1>2, <1>3 DEF QuietInv

\* The statement of a client that is at work, or that starts to be.
LEMMA AtWork ==
    ASSUME PgInv, QuietInv, NEW c \in Clients, NEW x, req' = [req EXCEPT ![c] = x],
           req[c] # Idle \/ (Solo' /\ x # Idle)
    PROVE  OnlyOne(c, req[c], x)
<1>1. req'[c] = x /\ \A d \in Clients \ {c} : req'[d] = req[d]
  BY DEF PgInv, PgTypeOK
<1>2. \A d \in Clients \ {c} : req[d] = Idle
  BY <1>1 DEF QuietInv, Solo
<1>3. QED
  BY <1>1, <1>2 DEF OnlyOne

\* Nobody marks an intent, unless the one client at work does.
LEMMA OnlyMarks ==
    ASSUME NEW c \in Clients, NEW r, NEW x, OnlyOne(c, r, x), NEW i
    PROVE  /\ Marking(i) <=> r.at = "mark_intent" /\ r.intent = i
           /\ Marking(i)' <=> x.at = "mark_intent" /\ x.intent = i
BY DEF OnlyOne, Marking, Idle

\* Statements that only read.
LEMMA ReadsQuiet ==
    ASSUME PgInv, QuietInv, NEW c \in Clients, NEW r, NEW x, OnlyOne(c, r, x), UNCHANGED vars,
           r.at \notin {"mark_intent", "complete_intent"},
           x.at \notin {"mark_intent", "complete_intent"}, Promise(x)
    PROVE  QuietInv' /\ LedgerStep
<1>1. UNCHANGED <<intents, orders, fills, decisions>>
  BY DEF vars
<1>2. \A i \in DOMAIN intents : Settled(i)' = Settled(i)
  BY <1>1, OnlySettled DEF SettledAs
<1>3. LedgerStep
  BY <1>1, <1>2, Unseen DEF LedgerStep
<1>4. StoreOK'
  BY <1>1, OnlyMarks DEF QuietInv, StoreOK
<1>5. Promise(x)'
  BY <1>1 DEF Promise
<1>6. QED
  BY <1>3, <1>4, <1>5, QuietAfter

LEMMA StartsQuiet ==
    ASSUME PgInv, QuietInv, Solo', NEW c \in Clients, NEW x, req[c] = Idle, UNCHANGED vars,
           req' = [req EXCEPT ![c] = x], Promise(x),
           x.at = "insert_order" \/ x.at = "write_status" \/ x.at = "check_trade"
    PROVE  QuietInv' /\ LedgerStep
<1>1. x # Idle
  BY DEF Idle
<1>2. OnlyOne(c, Idle, x)
  BY <1>1, AtWork DEF OnlyOne
<1>3. QED
  BY <1>2, ReadsQuiet DEF Idle

LEMMA BeginsQuiet ==
    ASSUME PgInv, QuietInv, Solo', NEW c \in Clients,
           \/ \E i \in Intents, e \in Exchanges, x \in ExchangeOrderIds \cup {NoId},
                 q \in Quantity, s \in StoredOrderStatuses :
                  BeginCreateOrder(c, i, e, x, q, s)
           \/ \E o \in Orders, s \in ValidOrderStatuses : BeginUpdateStatus(c, o, s)
           \/ \E o \in Orders, t \in TradeIds \cup {NoId}, q \in Quantity :
                  BeginCreateFill(c, o, t, q)
    PROVE  QuietInv' /\ LedgerStep
<1>1. req[c] = Idle /\ UNCHANGED vars
  BY DEF BeginCreateOrder, BeginUpdateStatus, BeginCreateFill
<1>3. ASSUME NEW i \in Intents, NEW e \in Exchanges, NEW n \in ExchangeOrderIds \cup {NoId},
             NEW q \in Quantity, NEW s \in StoredOrderStatuses, BeginCreateOrder(c, i, e, n, q, s)
      PROVE  QuietInv' /\ LedgerStep
  <2> DEFINE x == [at |-> "insert_order", intent |-> i, exchange |-> e,
                   exchangeOrderId |-> n, requested |-> q, status |-> s]
  <2>1. x.at = "insert_order" /\ x.intent = i /\ x.exchange = e
    OBVIOUS
  <2>2. req' = [req EXCEPT ![c] = x]
    BY <1>3 DEF BeginCreateOrder
  <2>3. i \in DOMAIN intents /\ e \in intents[i].legs
    BY <1>3 DEF BeginCreateOrder, CreateOrderOutcome
  <2> HIDE DEF x
  <2>4. Promise(x)
    BY <2>1, <2>3 DEF Promise
  <2>5. QED
    BY <1>1, <2>1, <2>2, <2>4, StartsQuiet
<1>4. ASSUME NEW o \in Orders, NEW s \in ValidOrderStatuses, BeginUpdateStatus(c, o, s)
      PROVE  QuietInv' /\ LedgerStep
  <2> DEFINE x == [at |-> "write_status", order |-> o, status |-> s]
  <2>1. x.at = "write_status" /\ x.order = o /\ x.status = s
    OBVIOUS
  <2>2. req' = [req EXCEPT ![c] = x]
    BY <1>4 DEF BeginUpdateStatus
  <2>3. IsTerminal(orders[o].status) => orders[o].status = s
    BY <1>4 DEF BeginUpdateStatus, UpdateOrderStatusOutcome
  <2> HIDE DEF x
  <2>4. Promise(x)
    BY <2>1, <2>3 DEF Promise
  <2>5. QED
    BY <1>1, <2>1, <2>2, <2>4, StartsQuiet
<1>5. ASSUME NEW o \in Orders, NEW t \in TradeIds \cup {NoId}, NEW q \in Quantity,
             BeginCreateFill(c, o, t, q)
      PROVE  QuietInv' /\ LedgerStep
  <2>1. PICK x : x = [at |-> "check_trade", order |-> o, tradeId |-> t, qty |-> q,
                      seen |-> orders[o].filled]
    OBVIOUS
  <2>2. x.at = "check_trade" /\ x.order = o /\ x.seen = orders[o].filled
    BY <2>1
  <2>3. req' = [req EXCEPT ![c] = x] /\ ~IsTerminal(orders[o].status)
    BY <1>5, <2>1 DEF BeginCreateFill
  <2>4. Promise(x)
    BY <2>2, <2>3 DEF Promise
  <2>5. QED
    BY <1>1, <2>2, <2>3, <2>4, StartsQuiet
<1>6. QED
  BY <1>3, <1>4, <1>5

\* A new intent: the row, and the decision that the memory store counts.
LEMMA DecisionCounted ==
    ASSUME IsFiniteSet(DOMAIN intents), NEW i, i \notin DOMAIN intents, NEW m, m.run \in Runs,
           intents' = Put(intents, i, m)
    PROVE  CountedDecisions' = [CountedDecisions EXCEPT ![m.run] = @ + 1]
<1> DEFINE Of(r) == {j \in DOMAIN intents : intents[j].run = r}
<1>1. /\ DOMAIN intents' = DOMAIN intents \cup {i} /\ intents'[i] = m
      /\ \A j \in DOMAIN intents : intents'[j] = intents[j]
  BY DEF Put
<1>2. \A r \in Runs : {j \in DOMAIN intents' : intents'[j].run = r}
                          = IF r = m.run THEN Of(r) \cup {i} ELSE Of(r)
  BY <1>1
<1>3. \A r \in Runs : IsFiniteSet(Of(r)) /\ i \notin Of(r)
  BY FS_Subset
<1>4. \A r \in Runs : Cardinality(Of(r) \cup {i}) = Cardinality(Of(r)) + 1
  BY <1>3, FS_AddElement
<1> HIDE DEF Of
<1>5. CountedDecisions = [r \in Runs |-> Cardinality(Of(r))]
  BY DEF CountedDecisions, Of
<1>6. CountedDecisions' = [r \in Runs |-> IF r = m.run THEN Cardinality(Of(r)) + 1 ELSE Cardinality(Of(r))]
  BY <1>2, <1>4 DEF CountedDecisions
<1>7. QED
  BY <1>5, <1>6

LEMMA IntentQuiet ==
    ASSUME PgInv, QuietInv, NEW c \in Clients, NEW i \in Intents, NEW r \in Runs,
           NEW buy \in Exchanges, NEW sell \in Exchanges, NEW s \in IntentStatuses,
           PgCreateOrderIntent(c, i, r, {buy, sell}, s)
    PROVE  QuietInv' /\ LedgerStep
<1>1. PICK m \in Intent : m = [run |-> r, legs |-> {buy, sell}, status |-> s]
  BY DEF Intent
<1>2. /\ i \notin DOMAIN intents /\ intents' = Put(intents, i, m)
      /\ UNCHANGED <<orders, fills, req>>
  BY <1>1 DEF PgCreateOrderIntent
<1>3. m.run = r /\ m.legs = {buy, sell} /\ m.status = s
  BY <1>1
<1>4. /\ DOMAIN intents' = DOMAIN intents \cup {i} /\ intents'[i] = m
      /\ \A j \in DOMAIN intents : intents'[j] = intents[j]
  BY <1>2 DEF Put
<1>5. /\ \A d \in Clients : req[d].at = "complete_intent" => orders[req[d].order].intent # i
      /\ \A d \in Clients : req[d].at = "mark_intent" => req[d].intent # i
  <2>1. \A d \in Clients : req[d].at = "complete_intent" => req[d].order \in DOMAIN orders
    BY DEF PgInv, FillSteps
  <2>2. QED
    BY <1>2, <2>1 DEF QuietInv, StoreOK, Promise
<1>6. /\ \A j \in DOMAIN intents : Settled(j)' = Settled(j)
      /\ Settled(i)' = s
  <2> DEFINE Ending(j) == \E d \in Clients : /\ req[d].at = "complete_intent"
                                             /\ orders[req[d].order].intent = j
                                             /\ AllFilled(j, orders)
             As(j, status) == IF Ending(j) THEN "simulated"
                              ELSE IF status = "created" /\ Marking(j) THEN "submitted"
                              ELSE status
  <2>1. \A j : Settled(j) = As(j, intents[j].status)
    BY DEF Settled, Marking
  <2>2. \A j : Settled(j)' = As(j, intents'[j].status)
    BY <1>2 DEF Settled, Marking, AllFilled, OrdersOf
  <2>3. ~Ending(i) /\ ~Marking(i)
    BY <1>5 DEF Marking
  <2> HIDE DEF Ending
  <2>4. \A j \in DOMAIN intents : Settled(j)' = Settled(j)
    BY <1>4, <2>1, <2>2
  <2>5. Settled(i)' = s
    BY <1>3, <1>4, <2>2, <2>3
  <2>6. QED
    BY <2>4, <2>5
<1>7. SettledIntents' = Put(SettledIntents, i, m)
  <2>1. [m EXCEPT !.status = Settled(i)'] = m
    <3>1. [m EXCEPT !.status = m.status] = m
      BY IntentRewritten DEF Restated
    <3>2. QED
      BY <1>3, <1>6, <3>1
  <2>2. SettledIntents' = [j \in DOMAIN intents \cup {i} |->
                               IF j = i THEN m ELSE [intents[j] EXCEPT !.status = Settled(j)]]
    BY <1>2, <1>4, <1>6, <2>1 DEF SettledIntents
  <2>3. /\ DOMAIN SettledIntents = DOMAIN intents
        /\ \A j \in DOMAIN intents : SettledIntents[j] = [intents[j] EXCEPT !.status = Settled(j)]
    BY DEF SettledIntents
  <2>4. QED
    BY Zenon, <1>2, <2>2, <2>3 DEF Put
<1>8. CountedDecisions' = [CountedDecisions EXCEPT ![r] = @ + 1]
  BY <1>2, <1>3, DecisionCounted DEF QuietInv, StoreOK
<1>9. LedgerStep
  <2>1. i \notin DOMAIN SettledIntents
    BY <1>2 DEF SettledIntents
  <2>2. Ledger!CreateOrderIntent(i, r, {buy, sell}, s)
    BY <1>1, <1>2, <1>7, <1>8, <2>1, SameWords DEF Ledger!CreateOrderIntent
  <2>3. QED
    BY <2>2, SameWords DEF LedgerStep, Ledger!Next
<1>10. QuietInv'
  <2>1. Solo' /\ \A j : Marking(j)' <=> Marking(j)
    BY <1>2 DEF QuietInv, Solo, Marking
  <2>2. StoreOK'
    <3>1. IsFiniteSet(DOMAIN intents')
      BY <1>4, FS_AddElement DEF QuietInv, StoreOK
    <3>2. QED
      BY <1>2, <1>4, <2>1, <3>1 DEF QuietInv, StoreOK
  <2>3. \A d \in Clients : Promise(req[d])'
    BY <1>2, <1>4 DEF QuietInv, Promise
  <2>4. QED
    BY <2>1, <2>2, <2>3 DEF QuietInv
<1>11. QED
  BY <1>9, <1>10

-----------------------------------------------------------------------------
(* The statements of the one request at work.                                *)

LEMMA GoesOn ==
    ASSUME PgInv, QuietInv, NEW c \in Clients, NEW pc, req[c] # Idle
    PROVE  /\ GoTo(c, pc) => OnlyOne(c, req[c], [req[c] EXCEPT !.at = pc])
           /\ Finish(c) => OnlyOne(c, req[c], Idle)
<1>1. ASSUME GoTo(c, pc) PROVE OnlyOne(c, req[c], [req[c] EXCEPT !.at = pc])
  <2>1. PICK x : x = [req[c] EXCEPT !.at = pc]
    OBVIOUS
  <2>2. req' = [req EXCEPT ![c] = x]
    BY <1>1, <2>1 DEF GoTo
  <2>3. QED
    BY <2>1, <2>2, AtWork
<1>2. ASSUME Finish(c) PROVE OnlyOne(c, req[c], Idle)
  BY <1>2, AtWork DEF Finish
<1>3. QED
  BY <1>1, <1>2

\* The request at work, and what its next record keeps of it.
LEMMA WorkRecord ==
    ASSUME PgInv, NEW c \in Clients
    PROVE  /\ req[c].at \in {"insert_order", "mark_intent"} =>
                  /\ req[c] \in OrderRequest /\ req[c] # Idle
                  /\ \A x : x = [req[c] EXCEPT !.at = "mark_intent"] =>
                         x.at = "mark_intent" /\ x.intent = req[c].intent
           /\ req[c].at \in FillSteps =>
                  /\ req[c] \in FillRequest /\ req[c] # Idle /\ req[c].order \in DOMAIN orders
                  /\ \A pc, x : x = [req[c] EXCEPT !.at = pc] =>
                         /\ x.at = pc /\ x.order = req[c].order /\ x.tradeId = req[c].tradeId
                         /\ x.qty = req[c].qty /\ x.seen = req[c].seen
           /\ req[c].at = "write_status" =>
                  /\ req[c] \in StatusRequest /\ req[c] # Idle /\ req[c].order \in DOMAIN orders
<1>1. req[c] \in Request
  BY DEF PgInv, PgTypeOK, Request
<1>2. req[c].at \in FillSteps \cup {"write_status"} => req[c].order \in DOMAIN orders
  BY DEF PgInv
<1>3. PICK r \in Request : r = req[c]
  BY <1>1
<1>4. ASSUME r.at \in {"insert_order", "mark_intent"}
      PROVE  /\ r \in OrderRequest /\ r # Idle
             /\ \A x : x = [r EXCEPT !.at = "mark_intent"] => x.at = "mark_intent" /\ x.intent = r.intent
  <2>1. r \in OrderRequest /\ r # Idle
    BY <1>4, RequestFields DEF Idle
  <2>2. QED
    BY <2>1 DEF OrderRequest
<1>5. ASSUME r.at \in FillSteps
      PROVE  /\ r \in FillRequest /\ r # Idle
             /\ \A pc, x : x = [r EXCEPT !.at = pc] =>
                    /\ x.at = pc /\ x.order = r.order /\ x.tradeId = r.tradeId
                    /\ x.qty = r.qty /\ x.seen = r.seen
  <2>1. r \in FillRequest /\ r # Idle
    BY <1>5, RequestFields DEF Idle, FillSteps
  <2>2. QED
    BY <2>1 DEF FillRequest
<1>6. r.at = "write_status" => r \in StatusRequest /\ r # Idle
  BY RequestFields DEF Idle
<1>7. QED
  BY <1>2, <1>3, <1>4, <1>5, <1>6

LEMMA InsertOrderQuiet ==
    ASSUME PgInv, QuietInv, NEW c \in Clients, NEW o \in Orders, InsertOrder(c, o)
    PROVE  QuietInv' /\ LedgerStep
<1>1. PICK r : r = req[c]
  OBVIOUS
<1>2. PICK x : x = [r EXCEPT !.at = "mark_intent"]
  OBVIOUS
<1>3. /\ r \in OrderRequest /\ r.at = "insert_order" /\ OnlyOne(c, r, x)
      /\ x.at = "mark_intent" /\ x.intent = r.intent
  BY <1>1, <1>2, WorkRecord, GoesOn DEF InsertOrder
<1>4. PICK row : row = [intent |-> r.intent, exchange |-> r.exchange,
                        exchangeOrderId |-> r.exchangeOrderId, requested |-> r.requested,
                        filled |-> 0, status |-> r.status]
  OBVIOUS
<1>5. /\ o \notin DOMAIN orders /\ ~InsertOrderFails(r)
      /\ orders' = Put(orders, o, row) /\ UNCHANGED <<intents, fills, decisions>>
  BY <1>1, <1>4 DEF InsertOrder
<1>6. /\ r.intent \in DOMAIN intents /\ r.exchange \in intents[r.intent].legs
      /\ IsFiniteSet(DOMAIN intents)
  BY <1>1, <1>3 DEF QuietInv, Promise, StoreOK
<1>7. \A i \in DOMAIN intents :
          Settled(i)' = IF i = r.intent THEN Submitted(Settled(r.intent)) ELSE Settled(i)
  <2>1. \A i : /\ Settled(i) = intents[i].status
               /\ Settled(i)' = IF intents[i].status = "created" /\ r.intent = i
                                THEN "submitted" ELSE intents[i].status
    BY <1>3, <1>5, OnlySettled DEF SettledAs
  <2>2. QED
    BY <2>1 DEF Submitted
<1>8. /\ SettledIntents' = [SettledIntents EXCEPT ![r.intent].status = Submitted(Settled(r.intent))]
      /\ UNCHANGED CountedDecisions
      /\ SettledIntents[r.intent].legs = intents[r.intent].legs
      /\ SettledIntents[r.intent].status = Settled(r.intent)
  BY <1>5, <1>6, <1>7, SeenStatus
<1>9. LedgerStep
  <2>1. DOMAIN SettledIntents = DOMAIN intents
    BY DEF SettledIntents
  <2>2. Ledger!CreateOrderOutcome(r.intent, r.exchange, r.exchangeOrderId) = "created"
    BY <1>5, <1>6, <1>8, <2>1 DEF Ledger!CreateOrderOutcome, InsertOrderFails
  <2>3. SettledIntents' = [SettledIntents EXCEPT ![r.intent].status = Submitted(@)]
    BY <1>8
  <2>4. Ledger!CreateOrder(o, r.intent, r.exchange, r.exchangeOrderId, r.requested, r.status)
    BY <1>4, <1>5, <1>8, <2>2, <2>3, SameWords DEF Ledger!CreateOrder
  <2>5. /\ r.intent \in Intents /\ r.exchange \in Exchanges
        /\ r.exchangeOrderId \in ExchangeOrderIds \cup {NoId} /\ r.requested \in Quantity
        /\ r.status \in StoredOrderStatuses
    BY <1>3 DEF OrderRequest
  <2>6. QED
    BY <2>4, <2>5, SameWords DEF LedgerStep, Ledger!Next
<1>10. StoreOK'
  <2>1. /\ DOMAIN orders' = DOMAIN orders \cup {o} /\ orders'[o].intent = r.intent
        /\ \A p \in DOMAIN orders : orders'[p] = orders[p]
    BY <1>4, <1>5 DEF Put
  <2>2. \A i : ~Marking(i) /\ (Marking(i)' <=> r.intent = i)
    BY <1>3, OnlyMarks
  <2>3. QED
    BY <1>5, <1>6, <2>1, <2>2 DEF QuietInv, StoreOK
<1>11. Promise(x)'
  BY <1>3, <1>5, <1>6 DEF Promise
<1>12. QED
  BY <1>3, <1>9, <1>10, <1>11, QuietAfter

\* The statements that end a request or only decide what comes next.
LEMMA ReadingQuiet ==
    ASSUME PgInv, QuietInv, NEW c \in Clients, RejectInsert(c) \/ CheckTrade(c)
    PROVE  QuietInv' /\ LedgerStep
<1>1. Promise(Idle) /\ Idle.at \notin {"mark_intent", "complete_intent"}
  BY DEF Promise, Idle
<1>2. CASE RejectInsert(c)
  <2>1. req[c].at = "insert_order" /\ Finish(c) /\ UNCHANGED vars
    BY <1>2 DEF RejectInsert
  <2>2. OnlyOne(c, req[c], Idle)
    BY <2>1, WorkRecord, GoesOn
  <2>3. QED
    BY <1>1, <2>1, <2>2, ReadsQuiet
<1>3. CASE CheckTrade(c) /\ FillRefused(req[c])
  <2>1. req[c].at = "check_trade" /\ Finish(c) /\ UNCHANGED vars
    BY <1>3 DEF CheckTrade
  <2>2. OnlyOne(c, req[c], Idle)
    BY <2>1, WorkRecord, GoesOn DEF FillSteps
  <2>3. QED
    BY <1>1, <2>1, <2>2, ReadsQuiet
<1>4. CASE CheckTrade(c) /\ ~FillRefused(req[c])
  <2>1. PICK r : r = req[c]
    OBVIOUS
  <2>2. PICK x : x = [r EXCEPT !.at = "insert_fill"]
    OBVIOUS
  <2>3. r.at = "check_trade" /\ GoTo(c, "insert_fill") /\ UNCHANGED vars /\ ~FillRefused(r)
    BY <1>4, <2>1 DEF CheckTrade
  <2>4. /\ OnlyOne(c, r, x) /\ x.at = "insert_fill" /\ x.order = r.order
        /\ x.tradeId = r.tradeId /\ x.qty = r.qty /\ x.seen = r.seen
    BY <2>1, <2>2, <2>3, WorkRecord, GoesOn DEF FillSteps
  <2>5. Promise(r)
    BY <2>1 DEF QuietInv
  <2>6. Promise(x)
    BY <2>3, <2>4, <2>5 DEF Promise, FillRefused
  <2>7. QED
    BY <2>3, <2>4, <2>6, ReadsQuiet
<1>5. QED
  BY <1>2, <1>3, <1>4

\* The update of the intent that the memory store made with the order.
LEMMA MarkQuiet ==
    ASSUME PgInv, QuietInv, NEW c \in Clients, MarkIntentSubmitted(c)
    PROVE  QuietInv' /\ LedgerStep
<1>1. PICK r : r = req[c]
  OBVIOUS
<1>2. r.at = "mark_intent" /\ OnlyOne(c, r, Idle) /\ UNCHANGED <<orders, fills, decisions>>
  BY <1>1, WorkRecord, GoesOn DEF MarkIntentSubmitted
<1>3. r.intent \in DOMAIN intents
  BY <1>1, <1>2 DEF QuietInv, Promise
<1>4. \A i \in DOMAIN intents : intents[i] \in Intent
  BY DEF PgInv, PgTypeOK, TypeOK
<1>5. /\ DOMAIN intents' = DOMAIN intents
      /\ \A i \in DOMAIN intents :
             /\ intents'[i] = IF i = r.intent
                              THEN [intents[i] EXCEPT !.status = Submitted(intents[i].status)]
                              ELSE intents[i]
             /\ intents'[i].status = IF i = r.intent THEN Submitted(intents[i].status)
                                     ELSE intents[i].status
  <2>1. intents' = [intents EXCEPT ![r.intent].status = Submitted(@)]
    BY <1>1 DEF MarkIntentSubmitted
  <2>2. /\ DOMAIN intents' = DOMAIN intents
        /\ \A i \in DOMAIN intents :
               intents'[i] = IF i = r.intent
                             THEN [intents[i] EXCEPT !.status = Submitted(intents[i].status)]
                             ELSE intents[i]
    BY <1>3, <2>1
  <2>3. \A i \in DOMAIN intents : \A a : [intents[i] EXCEPT !.status = a].status = a
    BY <1>4 DEF Intent
  <2>4. \A i \in DOMAIN intents : intents'[i].status = IF i = r.intent THEN Submitted(intents[i].status)
                                                     ELSE intents[i].status
    <3>1. TAKE i \in DOMAIN intents
    <3>2. CASE i = r.intent
      <4>1. intents'[i] = [intents[i] EXCEPT !.status = Submitted(intents[i].status)]
        BY <2>2, <3>2
      <4>2. QED
        BY Zenon, <2>3, <3>2, <4>1
    <3>3. CASE i # r.intent
      BY <2>2, <3>3
    <3>4. QED
      BY <3>2, <3>3
  <2>5. QED
    BY <2>2, <2>4
<1>6. \A i \in DOMAIN intents : Settled(i)' = Settled(i)
  <2>1. \A i : /\ Settled(i) = IF intents[i].status = "created" /\ r.intent = i
                               THEN "submitted" ELSE intents[i].status
               /\ Settled(i)' = intents'[i].status
    BY <1>2, OnlySettled DEF SettledAs, Idle
  <2>2. QED
    BY <1>5, <2>1 DEF Submitted
<1>7. LedgerStep
  BY <1>2, <1>5, <1>6, Unseen DEF LedgerStep
<1>8. StoreOK'
  <2>1. \A i : (Marking(i) <=> r.intent = i) /\ ~Marking(i)'
    BY <1>2, OnlyMarks DEF Idle
  <2>2. QED
    BY <1>2, <1>5, <2>1 DEF QuietInv, StoreOK, Submitted
<1>9. Promise(Idle)'
  BY DEF Promise, Idle
<1>10. QED
  BY <1>2, <1>7, <1>8, <1>9, QuietAfter

LEMMA StatusQuiet ==
    ASSUME PgInv, QuietInv, NEW c \in Clients, WriteStatus(c)
    PROVE  QuietInv' /\ LedgerStep
<1>1. PICK r : r = req[c]
  OBVIOUS
<1>2. /\ r.at = "write_status" /\ r \in StatusRequest /\ r.order \in DOMAIN orders
      /\ OnlyOne(c, r, Idle) /\ UNCHANGED <<intents, fills, decisions>>
      /\ orders' = [orders EXCEPT ![r.order].status = r.status]
  BY <1>1, WorkRecord, GoesOn DEF WriteStatus
<1>3. IsTerminal(orders[r.order].status) => orders[r.order].status = r.status
  BY <1>1, <1>2 DEF QuietInv, Promise
<1>4. \A i \in DOMAIN intents : Settled(i)' = Settled(i)
  BY <1>2, OnlySettled DEF SettledAs, Idle
<1>5. UNCHANGED <<SettledIntents, CountedDecisions>>
  BY <1>2, <1>4, Unseen
<1>6. r.order \in Orders /\ r.status \in ValidOrderStatuses
  BY <1>2 DEF StatusRequest
<1>7. Ledger!UpdateOrderStatus(r.order, r.status)
  BY <1>2, <1>3, <1>5, <1>6, SameWords DEF Ledger!UpdateOrderStatus, Ledger!UpdateOrderStatusOutcome
<1>8. LedgerStep
  BY <1>6, <1>7, SameWords DEF LedgerStep, Ledger!Next
<1>9. StoreOK'
  <2>1. DOMAIN orders' = DOMAIN orders /\ \A o \in DOMAIN orders : orders'[o].intent = orders[o].intent
    BY <1>2 DEF PgInv, PgTypeOK, TypeOK, Order
  <2>2. \A i : ~Marking(i) /\ ~Marking(i)'
    BY <1>2, OnlyMarks DEF Idle
  <2>3. QED
    BY <1>2, <2>1, <2>2 DEF QuietInv, StoreOK
<1>10. Promise(Idle)'
  BY DEF Promise, Idle
<1>11. QED
  BY <1>2, <1>8, <1>9, <1>10, QuietAfter

LEMMA FillQuiet ==
    ASSUME PgInv, QuietInv, NEW c \in Clients, NEW f \in Fills, InsertFill(c, f)
    PROVE  QuietInv' /\ LedgerStep
<1>1. PICK r : r = req[c]
  OBVIOUS
<1>2. PICK x : x = [r EXCEPT !.at = "complete_intent"]
  OBVIOUS
<1>3. PICK k : k = r.order
  OBVIOUS
<1>4. PICK i : i = orders[k].intent
  OBVIOUS
<1>5. PICK n : n = orders[k].filled + r.qty
  OBVIOUS
<1>6. PICK row : row = [order |-> k, tradeId |-> r.tradeId, qty |-> r.qty]
  OBVIOUS
<1>7. /\ r.at = "insert_fill" /\ r \in FillRequest /\ k \in DOMAIN orders
      /\ OnlyOne(c, r, x) /\ x.at = "complete_intent" /\ x.order = k
      /\ UNCHANGED <<intents, decisions>> /\ f \notin DOMAIN fills
  BY <1>1, <1>2, <1>3, WorkRecord, GoesOn DEF InsertFill, FillSteps
<1>8. Promise(r) /\ StoreOK
  BY <1>1 DEF QuietInv
<1>9. r.seen = orders[k].filled
  BY <1>3, <1>7, <1>8 DEF Promise
<1>10. fills' = Put(fills, f, row)
  BY <1>1, <1>3, <1>6 DEF InsertFill
<1>11. PICK s : s = IF n = orders[k].requested THEN "filled" ELSE "partially_filled"
  OBVIOUS
<1>12. orders' = [orders EXCEPT ![k].filled = n, ![k].status = s]
  <2>1. orders' = [orders EXCEPT ![k].filled = @ + r.qty, ![k].status = s]
    BY <1>1, <1>3, <1>5, <1>9, <1>11 DEF InsertFill
  <2>2. orders \in [DOMAIN orders -> Order]
    BY DEF PgInv, PgTypeOK, TypeOK
  <2>3. QED
    BY <1>5, <1>7, <2>1, <2>2 DEF Order
<1>13. /\ DOMAIN orders' = DOMAIN orders
       /\ \A o \in DOMAIN orders : orders'[o].intent = orders[o].intent
  <2>1. orders \in [DOMAIN orders -> Order]
    BY DEF PgInv, PgTypeOK, TypeOK
  <2>2. QED
    BY <1>12, <2>1 DEF Order
<1>14. PICK status : status = IF AllFilled(i, orders') THEN "simulated" ELSE Settled(i)
  OBVIOUS
<1>15. \A j : Settled(j) = intents[j].status
  BY <1>7, OnlySettled DEF SettledAs
<1>16. \A j \in DOMAIN intents : Settled(j)' = IF j = i THEN status ELSE Settled(j)
  <2>1. \A j : Settled(j)' = IF i = j /\ AllFilled(j, orders') THEN "simulated" ELSE intents'[j].status
    BY <1>4, <1>7, <1>13, OnlySettled DEF SettledAs
  <2>2. QED
    BY <1>7, <1>14, <1>15, <2>1
<1>17. i \in DOMAIN intents /\ Settled(i) # "created"
  <2>1. ~Marking(i)
    BY <1>7, OnlyMarks
  <2>2. QED
    BY <1>4, <1>7, <1>8, <1>15, <2>1 DEF StoreOK
<1>18. /\ SettledIntents' = [SettledIntents EXCEPT ![i].status = status]
       /\ UNCHANGED CountedDecisions
       /\ SettledIntents[i].status = Settled(i)
  BY <1>7, <1>16, <1>17, SeenStatus
<1>19. LedgerStep
  <2>1. Submitted(Settled(i)) = Settled(i)
    BY <1>17 DEF Submitted
  <2>2. SettledIntents' = [SettledIntents EXCEPT ![i].status =
                               IF AllFilled(i, orders') THEN "simulated" ELSE Submitted(@)]
    BY <1>14, <1>18, <2>1
  <2>3. Ledger!CreateFillOutcome(k, r.tradeId, r.qty) = "created"
    BY <1>3, <1>7, <1>8, <1>9, SameWords DEF Ledger!CreateFillOutcome, Promise
  <2>4. Ledger!CreateFill(f, k, r.tradeId, r.qty)
    <3> DEFINE booked == [orders EXCEPT
                              ![k].filled = orders[k].filled + r.qty,
                              ![k].status = IF orders[k].filled + r.qty = orders[k].requested
                                            THEN "filled" ELSE "partially_filled"]
    <3>1. orders' = booked
      BY <1>5, <1>11, <1>12
    <3>2. SettledIntents' = [SettledIntents EXCEPT ![orders[k].intent].status =
                                 IF AllFilled(orders[k].intent, booked) THEN "simulated"
                                 ELSE Submitted(@)]
      BY <1>4, <2>2, <3>1
    <3>3. QED
      BY <1>6, <1>7, <1>10, <1>18, <2>3, <3>1, <3>2, SameWords DEF Ledger!CreateFill
  <2>5. k \in Orders /\ r.tradeId \in TradeIds \cup {NoId} /\ r.qty \in Quantity
    BY <1>3, <1>7 DEF FillRequest
  <2>6. QED
    BY <2>4, <2>5, SameWords DEF LedgerStep, Ledger!Next
<1>20. StoreOK'
  <2>1. \A j : ~Marking(j) /\ ~Marking(j)'
    BY <1>7, OnlyMarks
  <2>2. QED
    BY <1>7, <1>8, <1>13, <2>1 DEF StoreOK
<1>21. Promise(x)'
  BY <1>7 DEF Promise
<1>22. QED
  BY <1>7, <1>19, <1>20, <1>21, QuietAfter

\* The update of the intent that the memory store made with the fill.
LEMMA CompleteQuiet ==
    ASSUME PgInv, QuietInv, NEW c \in Clients, CompleteIntent(c)
    PROVE  QuietInv' /\ LedgerStep
<1>1. PICK r : r = req[c]
  OBVIOUS
<1>2. PICK k : k = orders[r.order].intent
  OBVIOUS
<1>3. r.at = "complete_intent" /\ OnlyOne(c, r, Idle) /\ UNCHANGED <<orders, fills, decisions>>
  BY <1>1, WorkRecord, GoesOn DEF CompleteIntent, FillSteps
<1>4. \A i \in DOMAIN intents : intents[i] \in Intent
  BY DEF PgInv, PgTypeOK, TypeOK
<1>5. PICK done \in BOOLEAN : done <=> AllFilled(k, orders)
  OBVIOUS
<1>6. /\ DOMAIN intents' = DOMAIN intents
      /\ \A i \in DOMAIN intents :
             /\ \/ intents'[i] = intents[i]
                \/ \E s : intents'[i] = [intents[i] EXCEPT !.status = s]
             /\ intents'[i].status = IF i = k /\ done THEN "simulated" ELSE intents[i].status
  <2>1. intents' = [intents EXCEPT ![k].status = IF done THEN "simulated" ELSE @]
    BY <1>1, <1>2, <1>5 DEF CompleteIntent
  <2>2. DOMAIN intents' = DOMAIN intents
    BY <2>1
  <2>3. \A i \in DOMAIN intents :
            intents'[i] = IF i = k
                          THEN Restated(intents[i], IF done THEN "simulated" ELSE intents[i].status)
                          ELSE intents[i]
    BY <2>1 DEF Restated
  <2>4. \A i \in DOMAIN intents : \A a : Restated(intents[i], a).status = a
    BY <1>4, IntentRewritten
  <2>5. ASSUME NEW i \in DOMAIN intents
        PROVE  /\ \/ intents'[i] = intents[i]
                  \/ \E s : intents'[i] = [intents[i] EXCEPT !.status = s]
               /\ intents'[i].status = IF i = k /\ done THEN "simulated" ELSE intents[i].status
    <3>1. intents'[i] = intents[i] \/ \E s : intents'[i] = Restated(intents[i], s)
      BY <2>3
    <3>2. intents'[i].status = IF i = k /\ done THEN "simulated" ELSE intents[i].status
      BY <2>3, <2>4
    <3>3. QED
      BY <3>1, <3>2 DEF Restated
  <2>6. QED
    BY <2>2, <2>5
<1>7. \A i \in DOMAIN intents : Settled(i)' = Settled(i)
  <2>1. \A i : /\ Settled(i) = IF k = i /\ AllFilled(i, orders) THEN "simulated"
                               ELSE intents[i].status
               /\ Settled(i)' = intents'[i].status
    BY <1>2, <1>3, OnlySettled DEF SettledAs, Idle
  <2>2. QED
    BY <1>5, <1>6, <2>1
<1>8. LedgerStep
  BY <1>3, <1>6, <1>7, Unseen DEF LedgerStep
<1>9. StoreOK'
  <2>1. \A i : ~Marking(i) /\ ~Marking(i)'
    BY <1>3, OnlyMarks DEF Idle
  <2>2. QED
    BY <1>3, <1>6, <2>1 DEF QuietInv, StoreOK
<1>10. Promise(Idle)'
  BY DEF Promise, Idle
<1>11. QED
  BY <1>3, <1>8, <1>9, <1>10, QuietAfter

-----------------------------------------------------------------------------
\* Nobody overlaps as long as the history variable says so.
LEMMA NobodyOverlaps ==
    ASSUME ~(Cardinality(InFlight') > 1)
    PROVE  Solo'
<1>1. SUFFICES ASSUME NEW c \in Clients, NEW d \in Clients,
                      req'[c] # Idle, req'[d] # Idle, c # d
               PROVE  FALSE
  BY DEF Solo
<1>2. PICK S : S = InFlight'
  OBVIOUS
<1>3. S \subseteq Clients /\ {c, d} \subseteq S
  BY <1>1, <1>2 DEF InFlight
<1>4. IsFiniteSet(S) /\ Cardinality(S) \in Nat
  BY <1>3, PgClientsAssumption, FS_Subset, FS_CardinalityType
<1>5. IsFiniteSet({c}) /\ Cardinality({c}) = 1
  BY FS_Singleton
<1>6. Cardinality({c} \cup {d}) = 2
  BY <1>1, <1>5, FS_AddElement
<1>7. 2 <= Cardinality(S)
  <2>1. {c} \cup {d} \in SUBSET S
    BY <1>3
  <2>2. QED
    BY <1>4, <1>6, <2>1, FS_Subset
<1>8. QED
  BY <1>2, <1>4, <1>7

LEMMA QuietStep ==
    ASSUME PgInv, QuietInv, PgStep, Solo'
    PROVE  QuietInv' /\ LedgerStep
<1>1. PICK c \in Clients : Begin(c) \/ Statement(c)
  BY DEF PgStep
<1>2. CASE Begin(c)
  BY <1>2, BeginsQuiet, IntentQuiet DEF Begin
<1>3. CASE Statement(c)
  BY <1>3, InsertOrderQuiet, ReadingQuiet, MarkQuiet, StatusQuiet, FillQuiet, CompleteQuiet
     DEF Statement
<1>4. QED
  BY <1>1, <1>2, <1>3

LEMMA HistoryStep ==
    ASSUME HistoryInv, [HistoryNext]_historyVars
    PROVE  HistoryInv' /\ (~overlapped' => LedgerStep)
<1>1. CASE UNCHANGED historyVars
  <2>1. UNCHANGED <<intents, orders, fills, decisions, req, overlapped>>
    BY <1>1 DEF historyVars, pgVars
  <2>2. PgInv'
    BY <2>1 DEF HistoryInv, PgInv, PgTypeOK, TypeOK, OrderRequest, FillRequest, StatusRequest
  <2>3. QuietInv <=> QuietInv'
    BY <2>1 DEF QuietInv, Solo, StoreOK, Marking, Promise
  <2>4. UNCHANGED <<SettledIntents, CountedDecisions>>
    BY <2>1 DEF SettledIntents, CountedDecisions, Settled, AllFilled, OrdersOf
  <2>5. QED
    BY <2>1, <2>2, <2>3, <2>4 DEF HistoryInv, LedgerStep
<1>2. CASE HistoryNext
  <2>1. PgInv'
    <3>1. [PgNext]_pgVars
      BY <1>2 DEF HistoryNext, PgNext
    <3>2. QED
      BY <3>1, StepEffect DEF HistoryInv, Effect, PgInv, PgTypeOK, TypeOK, OrderRequest, FillRequest,
                              StatusRequest, pgVars
  <2>2. ASSUME ~overlapped' PROVE QuietInv' /\ LedgerStep
    <3>1. PgStep /\ ~overlapped /\ ~(Cardinality(InFlight') > 1)
      BY <1>2, <2>2 DEF HistoryNext
    <3>2. QED
      BY <3>1, NobodyOverlaps, QuietStep DEF HistoryInv
  <2>3. QED
    BY <2>1, <2>2 DEF HistoryInv
<1>3. QED
  BY <1>1, <1>2

LEMMA HistoryStarts == HistoryInit => HistoryInv
<1>1. PgInit => PgInv
  BY DEF PgInit, Init, PgInv, PgTypeOK, TypeOK, Idle, FillSteps
<1>2. PgInit => QuietInv
  <2>1. SUFFICES ASSUME PgInit PROVE QuietInv
    OBVIOUS
  <2>2. DOMAIN intents = {} /\ DOMAIN orders = {} /\ \A c \in Clients : req[c] = Idle
    BY <2>1 DEF PgInit, Init
  <2>3. QED
    BY <2>2, FS_EmptySet DEF QuietInv, Solo, StoreOK, Promise, Idle
<1>3. QED
  BY <1>1, <1>2 DEF HistoryInit, HistoryInv

LEMMA HistoryInvariant == HistorySpec => []HistoryInv
<1>1. HistoryInv /\ [HistoryNext]_historyVars => HistoryInv'
  BY HistoryStep
<1>2. QED
  BY <1>1, HistoryStarts, PTL DEF HistorySpec

\* A client of the store cannot tell the two backends apart until requests
\* overlap or a connection is lost: the tables start as the memory store does,
\* and every statement until then is one operation of the memory store or
\* none, once the update of the intent that a request still owes and the
\* decision counter that PostgreSQL does not keep are supplied.
THEOREM SerialRequestsImplementLedger == HistorySpec => Ledger!Init /\ SerialImplementsLedger
<1>1. HistoryInit => Ledger!Init
  <2>1. SUFFICES ASSUME HistoryInit PROVE Ledger!Init
    OBVIOUS
  <2>2. intents = << >> /\ orders = << >> /\ fills = << >>
    BY <2>1 DEF HistoryInit, PgInit, Init
  <2>3. SettledIntents = << >>
    BY <2>2 DEF SettledIntents
  <2>4. \A r \in Runs : CountedDecisions[r] = 0
    <3>1. \A r \in Runs : {i \in DOMAIN intents : intents[i].run = r} = {}
      BY <2>2
    <3>2. QED
      BY <3>1, FS_EmptySet DEF CountedDecisions
  <2>5. CountedDecisions = [r \in Runs |-> 0]
    BY <2>4 DEF CountedDecisions
  <2>6. QED
    BY <2>2, <2>3, <2>5 DEF Ledger!Init
<1>2. HistoryInv /\ [HistoryNext]_historyVars
          => [~overlapped' => [Ledger!Next]_<<SettledIntents, orders, fills, CountedDecisions>>
             ]_historyVars
  BY HistoryStep DEF LedgerStep
<1>3. QED
  BY <1>1, <1>2, HistoryInvariant, PTL DEF HistorySpec, SerialImplementsLedger

\* No operation of the memory store touches a terminal order.
LEMMA LedgerLeavesTerminal ==
    ASSUME PgInv, LedgerStep, NEW p \in DOMAIN orders, IsTerminal(orders[p].status)
    PROVE  orders'[p] = orders[p]
<1>1. orders[p] \in Order
  BY DEF PgInv, PgTypeOK, TypeOK
<1>2. ASSUME NEW i, NEW r, NEW legs, NEW s, Ledger!CreateOrderIntent(i, r, legs, s)
      PROVE  orders'[p] = orders[p]
  BY <1>2 DEF Ledger!CreateOrderIntent
<1>3. ASSUME NEW o, NEW i, NEW e, NEW x, NEW q, NEW s, Ledger!CreateOrder(o, i, e, x, q, s)
      PROVE  orders'[p] = orders[p]
  <2>1. o \notin DOMAIN orders
    BY <1>3 DEF Ledger!CreateOrder
  <2>2. PICK row : orders' = Put(orders, o, row)
    BY <1>3, SameWords DEF Ledger!CreateOrder
  <2>3. QED
    BY <2>1, <2>2 DEF Put
<1>4. ASSUME NEW o, NEW s, Ledger!UpdateOrderStatus(o, s) PROVE orders'[p] = orders[p]
  <2>1. /\ orders' = [orders EXCEPT ![o].status = s]
        /\ IsTerminal(orders[o].status) => orders[o].status = s
    BY <1>4, SameWords DEF Ledger!UpdateOrderStatus, Ledger!UpdateOrderStatusOutcome
  <2>2. CASE o = p
    BY <1>1, <2>1, <2>2 DEF Order
  <2>3. CASE o # p
    BY <2>1, <2>3
  <2>4. QED
    BY <2>2, <2>3
<1>5. ASSUME NEW f, NEW o, NEW t, NEW q, Ledger!CreateFill(f, o, t, q) PROVE orders'[p] = orders[p]
  <2>1. ~IsTerminal(orders[o].status)
    BY <1>5, SameWords DEF Ledger!CreateFill, Ledger!CreateFillOutcome
  <2>2. PICK n, s : orders' = [orders EXCEPT ![o].filled = n, ![o].status = s]
    BY <1>5 DEF Ledger!CreateFill
  <2>3. QED
    BY <2>1, <2>2
<1>6. QED
  BY <1>2, <1>3, <1>4, <1>5 DEF LedgerStep, Ledger!Next

\* Until requests overlap or a connection is lost, a terminal order keeps its
\* status and its quantity: a late update that reverts one needs two requests
\* at once.
THEOREM TerminalOrdersFinalUntilOverlap == HistorySpec => TerminalUntilOverlap
<1>1. HistoryInv /\ [HistoryNext]_historyVars
          => [~overlapped' => \A o \in DOMAIN orders :
                                  IsTerminal(orders[o].status) => orders'[o] = orders[o]
             ]_historyVars
  BY HistoryStep, LedgerLeavesTerminal DEF HistoryInv
<1>2. QED
  BY <1>1, HistoryInvariant, PTL DEF HistorySpec, TerminalUntilOverlap
=============================================================================
