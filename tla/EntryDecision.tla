---------------------------- MODULE EntryDecision ----------------------------
(***************************************************************************)
(* How an entry is decided (strategy/arbitrage_gate.py,                    *)
(* arbitrage_pricing.py, arbitrage_reservation.py, arbitrage_runtime.py    *)
(* and arbitrage_candidate_sets.py): the gates, the size of the order, the *)
(* profit that is left at that size, the reservation, and the choice among *)
(* the directions between the candidate exchanges.  A pure computation,    *)
(* which EntryCycle summarises as "accepted" or "rejected".                *)
(*                                                                         *)
(* Amounts are Python Decimals: m * 10^e, every result rounded half-even   *)
(* to Precision digits (28 in Python's default context).                   *)
(***************************************************************************)
EXTENDS Integers, Sequences, SequencesExt

CONSTANTS
    Precision,   \* significant digits of a result
    Candidates   \* the inputs: [venues, risk, state], venues a sequence

\* Bound: TLC's integers are 32 bits wide.
ASSUME PrecisionAssumption == Precision \in 2 .. 4

-----------------------------------------------------------------------------
(* Decimal arithmetic                                                        *)

Dec(m, e) == [m |-> m, e |-> e]
Zero == Dec(0, 0)
TenThousand == Dec(1, 4)

Magnitude(n) == IF n < 0 THEN -n ELSE n
SignOf(n) == IF n < 0 THEN -1 ELSE 1
Digits(n) == CHOOSE k \in 1 .. 10 : (k = 10 \/ n < 10 ^ k) /\ (k = 1 \/ n >= 10 ^ (k - 1))

\* n \div d to the nearest integer, a tie to the even one
HalfEven(n, d) ==
    LET q == n \div d
        twice == 2 * (n % d)
    IN  IF twice > d \/ (twice = d /\ q % 2 = 1) THEN q + 1 ELSE q

Rounded(n, e) ==
    LET digits == Digits(Magnitude(n))
        drop == IF digits > Precision THEN digits - Precision ELSE 0
    IN  Dec(SignOf(n) * HalfEven(Magnitude(n), 10 ^ drop), e + drop)

\* An operand too small to reach the digits that are kept does not count.
Plus(a, b) ==
    LET hi == IF a.e >= b.e THEN a ELSE b
        lo == IF a.e >= b.e THEN b ELSE a
    IN  IF hi.m = 0 THEN lo
        ELSE IF Digits(Magnitude(hi.m)) + hi.e - lo.e > 9 THEN hi
        ELSE Rounded(hi.m * 10 ^ (hi.e - lo.e) + lo.m, lo.e)

Minus(a, b) == Plus(a, Dec(-b.m, b.e))
Times(a, b) == Rounded(a.m * b.m, a.e + b.e)

\* b is positive wherever the code divides.
Over(a, b) ==
    LET n == Magnitude(a.m)
        kept == b.m * 10 ^ (Precision - 1)
        s == CHOOSE k \in 0 .. 8 : n * 10 ^ k >= kept /\ (k = 0 \/ n * 10 ^ (k - 1) < kept)
    IN  IF n = 0 THEN Zero
        ELSE Dec(SignOf(a.m) * HalfEven(n * 10 ^ s, b.m), a.e - b.e - s)

\* Comparisons are exact: a rounded difference keeps its sign.
Less(a, b) == Minus(a, b).m < 0
AtMost(a, b) == ~Less(b, a)
Positive(a) == a.m > 0
Least(S) == CHOOSE a \in S : \A b \in S : AtMost(a, b)
Bps(a, bps) == Over(Times(a, bps), TenThousand)
Total(amounts) == FoldLeft(Plus, Zero, amounts)

-----------------------------------------------------------------------------
(* Gates                                                                     *)

Age(now, at) == IF at > now THEN 0 ELSE now - at

\* validate_gate_conditions: every gate is evaluated, the first that fails
\* names the reason.
Gates(in) ==
    LET now == in.state.now
        fresh(x, limit) == Age(now, x.at) <= limit
        skew == Magnitude(in.buy.book.at - in.sell.book.at)
        gate(reason, passed) == [reason |-> reason, passed |-> passed]
    IN  << gate("ORDERBOOK_STALE", /\ fresh(in.buy.book, in.risk.maxBookAge)
                                   /\ fresh(in.sell.book, in.risk.maxBookAge)),
           gate("BALANCE_STALE", \A b \in {in.buy.balance, in.sell.balance} :
                                     b.fresh /\ fresh(b, in.risk.maxBalanceAge)),
           gate("QUOTE_PAIR_SKEW_TOO_HIGH", skew <= in.risk.maxSkew),
           gate("PUBLIC_CONNECTOR_DEGRADED", in.buy.book.healthy /\ in.sell.book.healthy),
           gate("HEDGE_CONFIDENCE_TOO_LOW", in.state.privateHealthy),
           gate("RISK_LIMIT_BLOCKED", ~in.state.unwinding),
           gate("RISK_LIMIT_BLOCKED", in.state.orderCap <= 0 \/ in.state.orders < in.state.orderCap),
           gate("DUPLICATE_INTENT_BLOCKED", ~in.state.duplicate),
           gate("REENTRY_COOLDOWN_ACTIVE", \A t \in in.state.unwoundAt :
                    in.risk.cooldown <= 0 \/ now - t >= in.risk.cooldown) >>

GateReason(in) ==
    LET first == SelectInSeq(Gates(in), LAMBDA g : ~g.passed)
    IN  IF first = 0 THEN "none" ELSE Gates(in)[first].reason

-----------------------------------------------------------------------------
(* Size: as much as the books, the balances and the limits allow             *)

DepthQty(levels) == Total([i \in DOMAIN levels |-> levels[i].qty])
DepthNotional(levels) == Total([i \in DOMAIN levels |-> Times(levels[i].price, levels[i].qty)])

\* _max_qty_with_quote_limit: walk the asks until the quote is spent.
MaxQty(levels, quote) ==
    LET buy(walk, l) ==
            LET notional == Times(l.price, l.qty)
            IN  IF ~Positive(l.price) \/ ~Positive(l.qty) THEN walk
                ELSE IF AtMost(notional, walk.left)
                THEN [qty |-> Plus(walk.qty, l.qty), left |-> Minus(walk.left, notional)]
                ELSE [qty |-> Plus(walk.qty, Over(walk.left, l.price)), left |-> Zero]
    IN  IF Positive(quote) THEN FoldLeft(buy, [qty |-> Zero, left |-> quote], levels).qty ELSE Zero

\* Mutant: the fee is left out of the budget.
BudgetWithoutFee(in) ==
    LET budget == Minus(in.buy.balance.quote, Plus(in.risk.unwindBuffer, in.risk.rebalanceBuffer))
    IN  IF Positive(budget)
        THEN Over(budget, Plus(Dec(1, 0), Over(in.risk.slippage, TenThousand))) ELSE Zero

\* _gross_buy_cost_budget_for_quote_requirement: what may be spent so that fee
\* and buffers can still be paid.
Budget(in) ==
    LET budget == Minus(in.buy.balance.quote, Plus(in.risk.unwindBuffer, in.risk.rebalanceBuffer))
        multiplier == Total(<<Dec(1, 0), Over(in.risk.feeBuy, TenThousand),
                              Over(in.risk.slippage, TenThousand)>>)
    IN  IF Positive(budget) THEN Over(budget, multiplier) ELSE Zero

\* The limits on what an order may cost; "remaining" is empty or the notional
\* the bot has left.
NotionalLimits(in) == {in.risk.maxOrder, in.risk.maxBot} \cup in.state.remaining

\* compute_candidate_size
TargetQty(in) ==
    LET asks == in.buy.book.asks
        bids == in.sell.book.bids
    IN  IF asks = << >> \/ bids = << >> THEN Zero
        ELSE IF ~Positive(asks[1].price) THEN Zero
        ELSE Least({DepthQty(asks), DepthQty(bids), in.sell.balance.base} \cup
                   {MaxQty(asks, q) : q \in NotionalLimits(in) \cup {Budget(in)}})

\* _is_depth_insufficient
DepthMissing(in) ==
    \E levels \in {in.buy.book.asks, in.sell.book.bids} :
        \/ Len(levels) < in.risk.minLevels \/ Len(levels) < 1
        \/ Less(DepthNotional(levels), in.risk.minDepth)

-----------------------------------------------------------------------------
(* The profit at that size, and the reservation                              *)

\* _vwap: empty when the levels do not hold the quantity
Vwap(levels, qty) ==
    LET take(walk, l) ==
            LET taken == Least({l.qty, walk.left})
            IN  IF ~Positive(walk.left) THEN walk
                ELSE [left |-> Minus(walk.left, taken),
                      paid |-> Plus(walk.paid, Times(taken, l.price))]
        end == FoldLeft(take, [left |-> qty, paid |-> Zero], levels)
    IN  IF Positive(end.left) THEN {} ELSE {Over(end.paid, qty)}

\* Mutant: the sell leg is priced from the wrong side of its book.
PricesOfAsks(in, qty) ==
    {v \in [buy : Vwap(in.buy.book.asks, qty), sell : Vwap(in.sell.book.asks, qty)] :
        Positive(v.buy) /\ Positive(Times(v.buy, qty))}

\* The prices at which both legs can be executed: none, or one pair.
Prices(in, qty) ==
    {v \in [buy : Vwap(in.buy.book.asks, qty), sell : Vwap(in.sell.book.bids, qty)] :
        Positive(v.buy) /\ Positive(Times(v.buy, qty))}

\* simulate_executable_edge at such a pair of prices
Edge(in, qty, v) ==
    LET cost == Times(v.buy, qty)
        proceeds == Times(v.sell, qty)
        adjustment == Total(<<Bps(cost, in.risk.feeBuy), Bps(proceeds, in.risk.feeSell),
                              Bps(cost, in.risk.slippage), Bps(proceeds, in.risk.slippage),
                              in.risk.unwindBuffer, in.risk.rebalanceBuffer>>)
        profit == Minus(Minus(proceeds, cost), adjustment)
    IN  [cost |-> cost, profit |-> profit,
         profitBps |-> Times(Over(profit, cost), TenThousand),
         spreadBps |-> Times(Over(Minus(v.sell, v.buy), v.buy), TenThousand)]

Edges(in, qty) == {Edge(in, qty, v) : v \in Prices(in, qty)}

\* reserve_capacity: what the buy leg takes out of the quote balance
QuoteRequired(in, edge) ==
    Total(<<edge.cost, Bps(edge.cost, in.risk.feeBuy), Bps(edge.cost, in.risk.slippage),
            in.risk.unwindBuffer, in.risk.rebalanceBuffer>>)

ReservationPassed(in, qty, edge) ==
    /\ AtMost(QuoteRequired(in, edge), in.buy.balance.quote)
    /\ AtMost(qty, in.sell.balance.base)

-----------------------------------------------------------------------------
(* The decision                                                              *)

\* What the planner makes of a refusal, and of an opportunity (whose order
\* intent plan repeats the sized and priced order).
Reject(reason, edges) == [accepted |-> FALSE, reason |-> reason, edges |-> edges]

Accept(edge) ==
    [accepted |-> TRUE, reason |-> "ARBITRAGE_OPPORTUNITY_FOUND", edges |-> {edge}]

\* The checks of evaluate_arbitrage on a priced order, in their order.
PricedDecision(in, qty, edge) ==
    LET verdict(reason) == Reject(reason, {edge})
    IN  IF Less(edge.profit, in.risk.minProfit) \/ Less(edge.profitBps, in.risk.minProfitBps)
        THEN verdict("EXECUTABLE_PROFIT_NEGATIVE_AFTER_DEPTH")
        ELSE IF \/ \E limit \in NotionalLimits(in) : Less(limit, edge.cost)
                \/ Less(in.risk.maxSpreadBps, edge.spreadBps)
        THEN verdict("RISK_LIMIT_BLOCKED")
        ELSE IF ~ReservationPassed(in, qty, edge) THEN verdict("RESERVATION_FAILED")
        ELSE Accept(edge)

\* ... and on a sized one; "edges" is empty when no profit can be computed.
SizedDecision(in, qty, edges) ==
    IF ~Positive(qty) \/ DepthMissing(in) THEN Reject("ORDERBOOK_DEPTH_INSUFFICIENT", {})
    ELSE IF edges = {} THEN Reject("EXECUTABLE_PROFIT_NEGATIVE_AFTER_DEPTH", {})
    ELSE PricedDecision(in, qty, CHOOSE edge \in edges : TRUE)

\* evaluate_arbitrage
Decision(in) ==
    LET sized(qty) == SizedDecision(in, qty, Edges(in, qty))
    IN  IF GateReason(in) # "none" THEN Reject(GateReason(in), {}) ELSE sized(TargetQty(in))

-----------------------------------------------------------------------------
(* The choice among the directions                                           *)

Direction(c, b, s) ==
    [buy |-> c.venues[b], sell |-> c.venues[s], risk |-> c.risk, state |-> c.state]

\* Every ordered pair of venues, in the order of the two loops.
Directions(c) ==
    LET venues == DOMAIN c.venues
        before(d, e) == d[1] < e[1] \/ (d[1] = e[1] /\ d[2] <= e[2])
    IN  SetToSortSeq({d \in venues \X venues : d[1] # d[2]}, before)

\* _accepted_rank and _fallback_rank; no edge ranks below any profit.
BetterRank(in, d, in2, d2) ==
    LET edge == CHOOSE e \in d.edges : TRUE
        edge2 == CHOOSE e \in d2.edges : TRUE
        age(x) == LET a == Age(x.state.now, x.buy.book.at)
                      b == Age(x.state.now, x.sell.book.at) IN IF a >= b THEN a ELSE b
        skew(x) == Magnitude(x.buy.book.at - x.sell.book.at)
        fresher == age(in) < age(in2) \/ (age(in) = age(in2) /\ skew(in) < skew(in2))
        equal(x, y) == AtMost(x, y) /\ AtMost(y, x)
    IN  IF d.edges = {} \/ d2.edges = {} THEN d2.edges = {} /\ (d.edges # {} \/ fresher)
        ELSE \/ Less(edge2.profit, edge.profit)
             \/ /\ equal(edge.profit, edge2.profit)
                /\ \/ Less(edge2.profitBps, edge.profitBps)
                   \/ equal(edge.profitBps, edge2.profitBps) /\ fresher

\* The best accepted direction, else the best rejected one; of equals the first.
Best(c, made) ==
    LET accepted == {d \in DOMAIN made : made[d].accepted}
        field == IF accepted # {} THEN accepted ELSE DOMAIN made
        in(d) == Direction(c, d[1], d[2])
        best(d) == d \in field /\ \A e \in field : ~BetterRank(in(e), made[e], in(d), made[d])
    IN  Directions(c)[SelectInSeq(Directions(c), best)]

\* evaluate_arbitrage_candidate_set
Select(c) ==
    Best(c, [d \in ToSet(Directions(c)) |-> Decision(Direction(c, d[1], d[2]))])

-----------------------------------------------------------------------------
(* Properties                                                                *)

\* At most b, but for what two roundings to Precision digits can come to: one
\* part in 10 ^ (Precision - 1), at four digits less than half a fee of 25 bps.
AboutAtMost(a, b) == AtMost(a, Plus(b, Times(b, Dec(1, 1 - Precision))))

SizeFits(in, qty, edge) ==
    LET required == QuoteRequired(in, edge)
        limits == NotionalLimits(in)
        stock == {DepthQty(in.buy.book.asks), DepthQty(in.sell.book.bids), in.sell.balance.base}
    IN  /\ AboutAtMost(required, in.buy.balance.quote)
        /\ \A limit \in limits : AboutAtMost(edge.cost, limit)
        /\ \/ \E all \in stock : AtMost(all, qty)
           \/ AboutAtMost(in.buy.balance.quote, required)
           \/ \E limit \in limits : AboutAtMost(limit, edge.cost)

\* The size is computed from every limit by a walk over the asks and a division
\* (compute_candidate_size), the cost from the size by another walk
\* (simulate_executable_edge, reserve_capacity).  The two agree: but for
\* rounding no limit is exceeded, and one of them is used up.
SizeIsLargestThatFits ==
    \A c \in Candidates : \A d \in ToSet(Directions(c)) :
        LET in == Direction(c, d[1], d[2])
        IN  \A qty \in {TargetQty(in)} :
                Positive(qty) => \E edge \in Edges(in, qty) : SizeFits(in, qty, edge)

Uncrossed(book) ==
    \A a \in ToSet(book.asks), b \in ToSet(book.bids) : Less(b.price, a.price)

\* An opportunity has one direction: as long as no exchange's own book is crossed
\* (and no threshold, fee or buffer is negative), the pair that is selected for
\* an entry is not accepted the other way round, and when none is accepted the
\* selection is no entry.
OpportunityHasOneDirection ==
    \A c \in Candidates : (\A v \in ToSet(c.venues) : Uncrossed(v.book)) =>
        LET accepted(b, s) == Decision(Direction(c, b, s)).accepted
        IN  \A d \in {Select(c)} :
                IF accepted(d[1], d[2]) THEN ~accepted(d[2], d[1])
                ELSE \A e \in ToSet(Directions(c)) : ~accepted(e[1], e[2])
=============================================================================
