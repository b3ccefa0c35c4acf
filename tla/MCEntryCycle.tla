----------------------------- MODULE MCEntryCycle -----------------------------
(***************************************************************************)
(* Instances of EntryCycle: one run, or two runs of two bots; and small    *)
(* inputs of EntryDecision, the evaluation that EntryCycle's runs make.    *)
(***************************************************************************)
EXTENDS EntryCycle, EntryDecision, TLC

CONSTANTS r1, r2, b1, b2

OneRun == r1 :> b1
TwoBots == r1 :> b1 @@ r2 :> b2
Symmetry == Permutations(Intents) \cup Permutations(Traces)

-----------------------------------------------------------------------------
(* Decision inputs: two exchanges with one or two levels on each side        *)

Levels(pairs) == [i \in DOMAIN pairs |-> [price |-> pairs[i][1], qty |-> pairs[i][2]]]
N(n) == Dec(n, 0)

Books == {
    [asks |-> Levels(<< <<N(5), N(2)>>, <<N(7), N(3)>> >>), bids |-> Levels(<< <<N(4), N(3)>> >>)],
    [asks |-> Levels(<< <<N(11), N(1)>> >>), bids |-> Levels(<< <<N(9), N(1)>>, <<N(8), N(4)>> >>)],
    [asks |-> Levels(<< <<Dec(64, -1), N(4)>> >>), bids |-> Levels(<< <<Dec(59, -1), N(6)>> >>)],
    [asks |-> << >>, bids |-> Levels(<< <<N(3), N(2)>> >>)]}

Venue(book, at, base, quote) ==
    [book |-> [asks |-> book.asks, bids |-> book.bids, at |-> at, healthy |-> TRUE],
     balance |-> [base |-> base, quote |-> quote, at |-> 5, fresh |-> TRUE]]

Risk(order, slippage, fee, buffer) ==
    [minProfit |-> Zero, minProfitBps |-> Zero, maxSpreadBps |-> TenThousand,
     maxSkew |-> 3, maxBookAge |-> 4, maxBalanceAge |-> 9, cooldown |-> 2,
     maxOrder |-> order, maxBot |-> N(21), minLevels |-> 0, minDepth |-> N(3),
     slippage |-> slippage, feeBuy |-> fee, feeSell |-> fee,
     unwindBuffer |-> buffer, rebalanceBuffer |-> buffer]

State(now, remaining) ==
    [now |-> now, orders |-> 0, orderCap |-> 1, unwinding |-> FALSE, privateHealthy |-> TRUE,
     duplicate |-> FALSE, unwoundAt |-> {4}, remaining |-> remaining]

\* Two exchanges: every pair of books against small and large limits.
Pairs ==
    {[venues |-> <<Venue(book1, 5, N(4), quote), Venue(book2, 7, base, N(30))>>,
      risk |-> Risk(order, slippage, fee, buffer), state |-> State(6, remaining)] :
        book1 \in Books, book2 \in Books, base \in {N(3), N(9)}, quote \in {N(8), N(26)},
        order \in {N(8), N(19)}, slippage \in {Zero, N(1000)}, fee \in {Zero, N(25)},
        buffer \in {Zero, Dec(5, -1)}, remaining \in {{}, {N(13)}}}

\* Three exchanges; the last book is stale, of the same time, or from the future.
Triples ==
    {[venues |-> <<Venue(book1, 5, N(4), quote), Venue(book2, 6, N(3), N(30)),
                   Venue(book3, at, N(9), N(9))>>,
      risk |-> Risk(N(19), slippage, Zero, Zero), state |-> State(6, {})] :
        book1 \in Books, book2 \in Books, book3 \in Books, at \in {1, 5, 7},
        quote \in {N(8), N(26)}, slippage \in {Zero, N(1000)}}

SmallCandidates == Pairs \cup Triples

\* A run decides by EntryDecision.  Its inputs are constants here, so its two
\* properties are looked at once, before the first step: the size of an entry
\* (compute_candidate_size) uses up a limit and exceeds none ...
EntrySizeFits == Init => SizeIsLargestThatFits

\* ... and the direction that is selected (evaluate_arbitrage_candidate_set) is
\* the only one between its two exchanges.
EntryHasOneDirection == Init => OpportunityHasOneDirection
=============================================================================
