---------------------------- MODULE EntrySubmit ----------------------------
(***************************************************************************)
(* The submission of one accepted entry: the two legs of an arbitrage go   *)
(* to two exchanges, what comes back is validated and booked, order by     *)
(* order and fill by fill, in the ledger of OrderStore, and the result is  *)
(* published or handed to recovery.  Sources: the execution adapters       *)
(* (strategy/arbitrage_execution.py and the two strategy/arbitrage_private *)
(* _..._execution_adapter.py), place_order of private_exchange_connector,  *)
(* and execute_persisted_arbitrage_intent (strategy_runtime_execution.py). *)
(*                                                                         *)
(* One thread submits; between any two of its steps other threads create   *)
(* orders for the intent, cancel orders and book fills through the same    *)
(* ledger.  Every read or write of the ledger is a step of its own.        *)
(* The exchanges and the external executor answer anything; Redis is up,   *)
(* so that what is published is stored.                                    *)
(*                                                                         *)
(* placed holds the legs an exchange may have taken, which the ledger      *)
(* cannot know: the answer may have been lost, or have been an error.      *)
(***************************************************************************)
EXTENDS OrderStore

CONSTANTS
    Entry,            \* the persisted intent that is submitted
    Buy, Sell,        \* the exchanges of its two legs
    ConnectorStates,  \* statuses the connectors normalise answers of exchanges to
    ReplyStates,      \* order statuses in a reply of the external executor
    ReplyIds,         \* exchange order ids in its replies, NoId if one may be missing
    OtherOrders       \* bound on the orders other threads create

ASSUME LegsAssumption == Exchanges = {Buy, Sell} /\ Buy # Sell
ASSUME EntryAssumption == Entry \in Intents
ASSUME ReplyIdsAssumption == ReplyIds \subseteq ExchangeOrderIds \cup {NoId}

Legs == {Buy, Sell}
Target == MaxQty
NoQty == 0            \* an order of a reply that does not say its quantity

\* simulate_failure fails as private_stub does, before anything is sent.
Modes == {"simulate_success", "simulate_fill", "private_stub",
          "private_connectors", "private_http"}

AllowedOrderStatuses ==
    {"new", "submitted", "partially_filled", "filled", "cancelled", "rejected",
     "expired", "failed"}
AdapterTerminal == {"filled", "cancelled", "rejected", "expired", "failed"}

\* A function on some of the legs.
OnLegs(S) == UNION {[D -> S] : D \in SUBSET Legs}
LegMap(f, S) == DOMAIN f \subseteq Legs /\ f \in [DOMAIN f -> S]
Nothing == << >>

Item == [id : ExchangeOrderIds \cup {NoId}, qty : Quantity,
         status : AllowedOrderStatuses \cup ConnectorStates]

\* What is kept of a reply once its orders and fills are pending.
Reply == [outcome : {"submitted", "filled", "submit_failed"},
          preview : {"absent", "entry_open", "closed"}]
NoReply == [outcome |-> "submitted", preview |-> "absent"]

VARIABLES
    at,          \* where the submitting thread is
    mode,        \* the execution adapter it uses
    reply,       \* the executor's reply it is working on
    pending,     \* leg -> item still to be booked
    pendingFills,\* leg -> quantity still to be booked
    booked,      \* leg -> order: order_index, created_orders
    filledLegs,  \* legs of created_fills
    seen,        \* leg -> status read by _refresh_orders
    placed,      \* legs of which an exchange may have an order
    result,      \* outcome of the submit result
    claim,       \* lifecycle the thread is about to publish
    evaluation,  \* lifecycle in the evaluation
    traced       \* whether a recovery trace was opened for the entry

local == <<at, mode, reply, pending, pendingFills, booked, filledLegs, seen,
           placed, result, claim, evaluation, traced>>
ledger == <<intents, orders, fills, decisions>>
submitVars == <<ledger, local>>

Lifecycles == {"none", "entry_submitting", "entry_open", "hedge_balanced",
               "closed", "recovery"}

SubmitTypeOK ==
    /\ TypeOK
    /\ at \in {"idle", "place", "post", "check", "book", "check_fills", "fill",
               "refresh", "judge", "close_intent", "close_orders", "publish",
               "trace", "done"}
    /\ mode \in Modes
    /\ reply \in Reply
    /\ LegMap(pending, Item) /\ LegMap(pendingFills, Quantity)
    /\ LegMap(booked, Orders) /\ LegMap(seen, StoredOrderStatuses)
    /\ \A l \in DOMAIN booked :
           /\ booked[l] \in DOMAIN orders
           /\ orders[booked[l]].exchange = l /\ orders[booked[l]].intent = Entry
    /\ filledLegs \subseteq DOMAIN booked
    /\ placed \subseteq Legs
    /\ result \in {"none", "submitted", "filled", "submit_failed"}
    /\ claim \in Lifecycles /\ evaluation \in Lifecycles
    /\ traced \in BOOLEAN

\* The evaluation of the entry was published when its intent was persisted.
SubmitInit ==
    /\ \E r \in Runs :
           /\ intents = Put(<< >>, Entry, [run |-> r, legs |-> Legs, status |-> "created"])
           /\ decisions = [x \in Runs |-> IF x = r THEN 1 ELSE 0]
    /\ orders = << >> /\ fills = << >>
    /\ at = "idle" /\ mode \in Modes
    /\ reply = NoReply /\ pending = Nothing /\ pendingFills = Nothing
    /\ booked = Nothing /\ filledLegs = {} /\ seen = Nothing
    /\ placed = {}
    /\ result = "none" /\ claim = "none" /\ evaluation = "none" /\ traced = FALSE

\* uuid4: any id that is not in use.
FreshOrder == CHOOSE o \in Orders : o \notin DOMAIN orders
FreshFill == CHOOSE f \in Fills : f \notin DOMAIN fills
Without(f, k) == [x \in DOMAIN f \ {k} |-> f[x]]

-----------------------------------------------------------------------------
(* The end of a submission as the adapter returns it: _failure_result, or  *)
(* the submitted or filled result.  What was read on the way is dropped.   *)

Forget ==
    /\ reply' = NoReply /\ pending' = Nothing /\ pendingFills' = Nothing
    /\ seen' = Nothing

\* Every failed result enters recovery: recovery_required, or
\* unwind_in_progress when the strategy unwinds by itself.
Fail ==
    /\ at' = "publish" /\ result' = "submit_failed" /\ claim' = "recovery"
    /\ Forget

Succeed(outcome, lifecycle) ==
    /\ at' = IF lifecycle = "hedge_balanced" THEN "close_intent" ELSE "publish"
    /\ result' = outcome /\ claim' = lifecycle
    /\ Forget

Continue(next) == at' = next /\ UNCHANGED <<result, claim>>

-----------------------------------------------------------------------------
(* What the adapters send, and what comes back.                            *)

\* The exchange order id is a fresh uuid, which never conflicts: as good as none.
SimulatedItem == [id |-> NoId, qty |-> Target, status |-> "new"]

Begin ==
    /\ at = "idle"
    /\ UNCHANGED <<ledger, mode, booked, filledLegs, placed, evaluation, traced>>
    /\ \/ mode = "private_stub" /\ Fail
       \/ /\ mode \in {"simulate_success", "simulate_fill"} /\ Continue("book")
          /\ pending' = [l \in Legs |-> SimulatedItem]
          /\ UNCHANGED <<reply, pendingFills, seen>>
       \/ /\ mode = "private_connectors" /\ Continue("place")
          /\ UNCHANGED <<reply, pending, pendingFills, seen>>
       \/ /\ mode = "private_http" /\ Continue("post")
          /\ UNCHANGED <<reply, pending, pendingFills, seen>>

\* The buy leg is booked before the sell leg is placed.
NextLeg == IF Buy \in DOMAIN booked THEN Sell ELSE Buy

\* What place_order makes of an answer without an error.  A live order of
\* Upbit, Bithumb or Coinone is "open", which no item may be.
ConnectorAnswers == [id : ExchangeOrderIds \cup {NoId}, status : ConnectorStates]

\* No connector, no credentials, a rejection; or an error or a timeout that
\* does not tell whether the exchange took the order.
PlaceFails ==
    /\ at = "place"
    /\ placed' \in {placed, placed \cup {NextLeg}}
    /\ Fail
    /\ UNCHANGED <<ledger, mode, booked, filledLegs, evaluation, traced>>

Usable(id, status) == status \notin AdapterTerminal /\ id # NoId

PlaceAnswered ==
    /\ at = "place"
    /\ placed' = placed \cup {NextLeg}
    /\ \E a \in ConnectorAnswers :
           \/ /\ Usable(a.id, a.status)
              /\ pending' = Put(Nothing, NextLeg, [id |-> a.id, qty |-> Target, status |-> a.status])
              /\ Continue("check")
              /\ UNCHANGED <<reply, pendingFills, seen>>
           \/ ~ Usable(a.id, a.status) /\ Fail
    /\ UNCHANGED <<ledger, mode, booked, filledLegs, evaluation, traced>>

\* Not configured, an HTTP or transport error, a timeout, no JSON object or an
\* unknown outcome: the executor may have placed either leg.
PostFails ==
    /\ at = "post"
    /\ placed' \in {{}, Legs}
    /\ Fail
    /\ UNCHANGED <<ledger, mode, booked, filledLegs, evaluation, traced>>

-----------------------------------------------------------------------------
(* The executor's reply, validated before anything is written.             *)

LifecycleAllowed(r) ==
    CASE r.outcome = "submitted" -> r.preview \in {"absent", "entry_open"}
      [] r.outcome = "filled" -> r.preview \in {"absent", "closed"}
      [] OTHER -> TRUE

WithStatus(r, statuses) == {l \in DOMAIN r.orders : r.orders[l].status \in statuses}

SubmittedPayloadOk(r) ==
    r.fills = Nothing /\ WithStatus(r, AdapterTerminal) = {}

\* Orders of a reply that say how much they ask for.
Sized(r) == {l \in DOMAIN r.orders : r.orders[l].qty # NoQty}

FillsCoverLegs(r) == DOMAIN r.fills = Legs

\* The fill of a leg is only compared with an order that is there and says
\* how much it asks for.
FilledPayloadOk(r) ==
    /\ FillsCoverLegs(r)
    /\ WithStatus(r, {"filled"}) = DOMAIN r.orders
    /\ \A l \in Sized(r) : r.fills[l] = r.orders[l].qty

SubmitFailedPayloadOk(r) ==
    /\ DOMAIN r.fills \subseteq Sized(r)
    /\ \A l \in DOMAIN r.fills : r.fills[l] <= r.orders[l].qty
    /\ Sized(r) \cap WithStatus(r, {"filled", "partially_filled"}) \subseteq DOMAIN r.fills
    /\ \A l \in Sized(r) \cap WithStatus(r, {"filled"}) : r.fills[l] = r.orders[l].qty

PayloadOk(r) ==
    /\ LifecycleAllowed(r)
    /\ CASE r.outcome = "submitted" -> SubmittedPayloadOk(r)
         [] r.outcome = "filled" -> FilledPayloadOk(r)
         [] OTHER -> SubmitFailedPayloadOk(r)

\* An order that is reported filled is stored as submitted, so that its fills
\* can be booked; but only when the whole reply is a filled one.  An order
\* that does not say how much it asks for asks for the intent's target.
Persisted(r, l) ==
    [id |-> r.orders[l].id,
     qty |-> IF r.orders[l].qty = NoQty THEN Target ELSE r.orders[l].qty,
     status |-> IF r.outcome = "filled" THEN "submitted" ELSE r.orders[l].status]

\* At most one fill for each leg.
Replies ==
    [outcome : {"submitted", "filled", "submit_failed"},
     preview : {"absent", "entry_open", "closed"},
     orders : OnLegs([id : ReplyIds, qty : Quantity \cup {NoQty}, status : ReplyStates]),
     fills : OnLegs(Quantity)]

AcceptedReplies == {r \in Replies : PayloadOk(r) /\ r.orders # Nothing}

\* Whatever it answers, the executor may have placed both legs.
PostAnswered ==
    /\ at = "post"
    /\ placed' = Legs
    /\ \/ \E r \in AcceptedReplies :
              /\ Continue("check")
              /\ reply' = [outcome |-> r.outcome,
                           preview |-> IF r.outcome = "submit_failed" THEN "absent" ELSE r.preview]
              /\ pending' = [l \in DOMAIN r.orders |-> Persisted(r, l)]
              /\ pendingFills' = r.fills
              /\ UNCHANGED seen
       \/ Replies # AcceptedReplies /\ Fail
    /\ UNCHANGED <<ledger, mode, booked, filledLegs, evaluation, traced>>

-----------------------------------------------------------------------------
(* Booking: the items of a reply are validated together, against each      *)
(* other and against the orders of their exchanges in the ledger; the      *)
(* ledger itself refuses what has changed by the time they are written.    *)
(* The ids an exchange has given can only grow, so that reading them leg   *)
(* by leg and at once come to the same.                                    *)

Conflicts(l, id) ==
    /\ id # NoId
    /\ \E o \in DOMAIN orders :
           orders[o].exchange = l /\ orders[o].exchangeOrderId = id

CheckOrders ==
    /\ at = "check"
    /\ \/ /\ \A l \in DOMAIN pending :
                 /\ pending[l].status \in AllowedOrderStatuses
                 /\ ~ Conflicts(l, pending[l].id)
          /\ Continue("book")
          /\ UNCHANGED <<reply, pending, pendingFills, seen>>
       \/ /\ \E l \in DOMAIN pending :
                 \/ pending[l].status \notin AllowedOrderStatuses
                 \/ Conflicts(l, pending[l].id)
          /\ Fail
    /\ UNCHANGED <<ledger, mode, booked, filledLegs, placed, evaluation, traced>>

\* Mutant: one leg is enough for a submitted reply.
AfterAnyLeg(done) ==
    CASE mode = "private_connectors" -> IF done = Legs THEN "refresh" ELSE "place"
      [] mode = "private_http" -> IF done = Legs THEN "check_fills"
                               ELSE IF reply.outcome = "submitted" THEN "refresh" ELSE "failure"
      [] mode = "simulate_fill" -> "fill"
      [] OTHER -> "success"

\* _validate_required_arbitrage_legs asks for two orders also where it is
\* told that the legs need not be complete.
AfterBooking(done) ==
    CASE mode = "private_connectors" -> IF done = Legs THEN "refresh" ELSE "place"
      [] mode = "private_http" -> IF done = Legs THEN "check_fills" ELSE "failure"
      [] mode = "simulate_fill" -> "fill"
      [] OTHER -> "success"

\* Legs are written in the order of the reply, elsewhere buy first.
Turn(l, todo) == mode = "private_http" \/ l = Buy \/ Buy \notin DOMAIN todo

\* create_order for one item.  The last one decides what comes next.
BookOrder ==
    /\ at = "book"
    /\ \E l \in DOMAIN pending :
           /\ Turn(l, pending)
           /\ CreateOrderOutcome(Entry, l, pending[l].id) = "created"
           /\ CreateOrder(FreshOrder, Entry, l, pending[l].id, pending[l].qty, pending[l].status)
           /\ booked' = Put(booked, l, FreshOrder)
           /\ LET rest == Without(pending, l)
                  next == IF rest # Nothing THEN "book" ELSE AfterBooking(DOMAIN booked')
              IN  \/ next = "failure" /\ Fail
                  \/ next = "success" /\ Succeed("submitted", "entry_submitting")
                  \/ /\ next \notin {"failure", "success"}
                     /\ Continue(next)
                     /\ pending' = rest
                     /\ pendingFills' = IF next = "fill" THEN [x \in Legs |-> Target] ELSE pendingFills
                     /\ UNCHANGED <<reply, seen>>
    /\ UNCHANGED <<mode, filledLegs, placed, evaluation, traced>>

\* The orders booked before the one that is refused stay.
BookOrderRefused ==
    /\ at = "book"
    /\ \E l \in DOMAIN pending :
           Turn(l, pending) /\ CreateOrderOutcome(Entry, l, pending[l].id) # "created"
    /\ Fail
    /\ UNCHANGED <<ledger, mode, booked, filledLegs, placed, evaluation, traced>>

-----------------------------------------------------------------------------
(* Fills: validated together, then booked one by one.                      *)

\* The trade id of a reported fill; a simulated one has an id of its own.
NewTrade == IF mode = "simulate_fill" THEN NoId ELSE CHOOSE t \in TradeIds : TRUE

\* The trade is not booked for the order, and the order has room for it.
FillFits(l, t) ==
    /\ ~ \E f \in DOMAIN fills :
             t # NoId /\ fills[f].order = booked[l] /\ fills[f].tradeId = t
    /\ orders[booked[l]].filled + pendingFills[l] <= orders[booked[l]].requested

CheckFills ==
    /\ at = "check_fills"
    /\ \/ /\ \A l \in DOMAIN pendingFills : FillFits(l, NewTrade)
          /\ Continue(IF pendingFills = Nothing THEN "refresh" ELSE "fill")
          /\ UNCHANGED <<reply, pending, pendingFills, seen>>
       \/ /\ \E l \in DOMAIN pendingFills : ~ FillFits(l, NewTrade)
          /\ Fail
    /\ UNCHANGED <<ledger, mode, booked, filledLegs, placed, evaluation, traced>>

BookFill ==
    /\ at = "fill"
    /\ \E l \in DOMAIN pendingFills :
           /\ Turn(l, pendingFills)
           /\ CreateFillOutcome(booked[l], NewTrade, pendingFills[l]) = "created"
           /\ CreateFill(FreshFill, booked[l], NewTrade, pendingFills[l])
           /\ filledLegs' = filledLegs \cup {l}
           /\ LET rest == Without(pendingFills, l)
              IN  \/ rest = Nothing /\ mode = "simulate_fill" /\ Succeed("filled", "hedge_balanced")
                  \/ /\ rest # Nothing \/ mode # "simulate_fill"
                     /\ Continue(IF rest = Nothing THEN "refresh" ELSE "fill")
                     /\ pendingFills' = rest
                     /\ UNCHANGED <<reply, pending, seen>>
    /\ UNCHANGED <<mode, booked, placed, evaluation, traced>>

BookFillRefused ==
    /\ at = "fill"
    /\ \E l \in DOMAIN pendingFills :
           /\ Turn(l, pendingFills)
           /\ CreateFillOutcome(booked[l], NewTrade, pendingFills[l]) # "created"
    /\ Fail
    /\ UNCHANGED <<ledger, mode, booked, filledLegs, placed, evaluation, traced>>

-----------------------------------------------------------------------------
(* _refresh_orders reads the booked orders back one by one, and the result *)
(* is judged by what was read.                                             *)

Refresh(l) ==
    /\ at = "refresh"
    /\ l \in DOMAIN booked \ DOMAIN seen
    /\ Turn(l, [x \in DOMAIN booked \ DOMAIN seen |-> x])
    /\ seen' = Put(seen, l, orders[booked[l]].status)
    /\ Continue(IF DOMAIN seen' = DOMAIN booked THEN "judge" ELSE "refresh")
    /\ UNCHANGED <<ledger, mode, reply, pending, pendingFills, booked, filledLegs,
                   placed, evaluation, traced>>

\* Mutant: two fills are enough, whatever they leave open.
TwoFills == filledLegs = Legs

StillOpen == \A l \in DOMAIN seen : seen[l] \notin AdapterTerminal
FilledOnBothLegs == filledLegs = Legs /\ \A l \in DOMAIN seen : seen[l] = "filled"

Judge ==
    /\ at = "judge"
    /\ \/ reply.outcome = "submitted" /\ StillOpen
             /\ Succeed("submitted", IF reply.preview = "absent"
                                     THEN "entry_submitting" ELSE reply.preview)
       \/ reply.outcome = "filled" /\ FilledOnBothLegs
             /\ Succeed("filled", IF reply.preview = "absent"
                                  THEN "hedge_balanced" ELSE reply.preview)
       \/ /\ reply.outcome = "submitted" => ~ StillOpen
          /\ reply.outcome = "filled" => ~ FilledOnBothLegs
          /\ Fail
    /\ UNCHANGED <<ledger, mode, booked, filledLegs, placed, evaluation, traced>>

-----------------------------------------------------------------------------
(* execute_persisted_arbitrage_intent publishes the result.                *)

\* _maybe_close_after_terminal_fill: the intent is read, then its orders.
CloseIntent ==
    /\ at = "close_intent"
    /\ at' = IF intents[Entry].status = "simulated" THEN "close_orders" ELSE "publish"
    /\ UNCHANGED <<ledger, mode, reply, pending, pendingFills, booked, filledLegs, seen,
                   placed, result, claim, evaluation, traced>>

CloseOrders ==
    /\ at = "close_orders"
    /\ at' = "publish"
    /\ claim' = IF \A o \in OrdersOf(Entry, orders) : orders[o].status \in AdapterTerminal
                THEN "closed" ELSE claim
    /\ UNCHANGED <<ledger, mode, reply, pending, pendingFills, booked, filledLegs, seen,
                   placed, result, evaluation, traced>>

\* Mutant: a failure that booked nothing is published and forgotten.
PublishBooked ==
    /\ at = "publish"
    /\ evaluation' = claim
    /\ at' = IF result = "submit_failed" /\ booked # Nothing THEN "trace" ELSE "done"
    /\ UNCHANGED <<ledger, mode, reply, pending, pendingFills, booked, filledLegs, seen,
                   placed, result, claim, traced>>

Publish ==
    /\ at = "publish"
    /\ evaluation' = claim
    /\ at' = IF result = "submit_failed" THEN "trace" ELSE "done"
    /\ UNCHANGED <<ledger, mode, reply, pending, pendingFills, booked, filledLegs, seen,
                   placed, result, claim, traced>>

OpenTrace ==
    /\ at = "trace"
    /\ traced' = TRUE /\ at' = "done"
    /\ UNCHANGED <<ledger, mode, reply, pending, pendingFills, booked, filledLegs, seen,
                   placed, result, claim, evaluation>>

-----------------------------------------------------------------------------
(* Other threads use the same ledger until the submission is over.  Their  *)
(* steps commute with those of the submission that do not touch it, so     *)
(* they are taken where it is about to be read or written.                 *)

AtLedger == at \in {"check", "book", "check_fills", "fill", "refresh",
                    "close_intent", "close_orders"}
Own(o) == \E l \in DOMAIN booked : booked[l] = o
Others == {o \in DOMAIN orders : ~ Own(o)}

OtherCreates ==
    /\ AtLedger /\ Cardinality(Others) < OtherOrders
    /\ \E e \in Exchanges, x \in ExchangeOrderIds \cup {NoId} :
           CreateOrder(FreshOrder, Entry, e, x, Target, "new")
    /\ UNCHANGED local

\* cancel-open-orders is the only caller of update_order_status: it stores an
\* end without further fills, of an order that has an exchange order id.
HasExchangeId(o) ==
    \/ orders[o].exchangeOrderId # NoId
    \/ Own(o) /\ mode \in {"simulate_success", "simulate_fill"}

OtherCancels ==
    /\ AtLedger
    /\ \E o \in DOMAIN orders, s \in {"cancelled", "rejected"} :
           HasExchangeId(o) /\ UpdateOrderStatus(o, s)
    /\ UNCHANGED local

\* FillsLeft keeps ids for the two fills of the submission.
FillsLeft == Cardinality(Fills \ DOMAIN fills) > 2 - Cardinality(filledLegs)

OtherFills ==
    /\ AtLedger /\ FillsLeft
    /\ \E o \in DOMAIN orders, t \in TradeIds, q \in Quantity :
           CreateFill(FreshFill, o, t, q)
    /\ UNCHANGED local

SubmitStep ==
    \/ Begin \/ PlaceFails \/ PlaceAnswered \/ PostFails \/ PostAnswered
    \/ CheckOrders \/ BookOrder \/ BookOrderRefused
    \/ CheckFills \/ BookFill \/ BookFillRefused
    \/ (\E l \in Legs : Refresh(l)) \/ Judge
    \/ CloseIntent \/ CloseOrders \/ Publish \/ OpenTrace

SubmitNext == SubmitStep \/ OtherCreates \/ OtherCancels \/ OtherFills

\* The submitting thread goes on: every call it makes returns or times out.
SubmitSpec == SubmitInit /\ [][SubmitNext]_submitVars /\ WF_submitVars(SubmitStep)

-----------------------------------------------------------------------------
(* Properties.                                                             *)

\* A leg that an exchange may have taken and that is not in the ledger is
\* never left to a success: when the submission is over, the evaluation
\* blocks new entries and a recovery trace exists.  Losing the answer, the
\* validation of the answer, and a refused or half-finished booking all
\* leave such a leg (the returns of _failure_result in both adapters).
UnbookedLegInRecovery ==
    \A l \in Legs :
        at = "done" /\ l \in placed \ DOMAIN booked
        => evaluation = "recovery" /\ traced

\* A success means two legs in the ledger, whoever produced it: no reply
\* with one leg, and no order refused half-way, counts as an open entry.
SuccessBooksBothLegs ==
    result \in {"submitted", "filled"} => DOMAIN booked = Legs

\* An evaluation that says the entry is hedged or closed is only published
\* when both legs are booked and filled in full, although a reply may leave
\* quantities out and other threads book and cancel the same orders meanwhile.
BalancedClaimFilled ==
    claim \in {"hedge_balanced", "closed"} =>
        \A l \in Legs :
            /\ l \in DOMAIN booked
            /\ orders[booked[l]].status = "filled"
            /\ orders[booked[l]].filled = orders[booked[l]].requested

\* An order that an exchange may have taken is eventually in the ledger or
\* under a recovery trace.
PlacedLegAccounted ==
    \A l \in Legs : l \in placed ~> (l \in DOMAIN booked \/ traced)

=============================================================================
