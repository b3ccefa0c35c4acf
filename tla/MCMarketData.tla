---------------------------- MODULE MCMarketData ----------------------------
(* A small instance of MarketData for TLC.  With direct readers, one         *)
(* exchange: the run, which has the second one as its target, is not         *)
(* started, and nobody asks for it.                                          *)
EXTENDS MarketData, TLC

OneExchange ==
    readers # {} =>
        /\ ~runs'
        /\ \A t \in Requests \cup Readers :
               At(t, "idle") => op'[t] \in {Idle, Proceed(StaticTargets)} \/ Fetching(t, "upbit")'
        /\ \A e \in Exchanges \ StaticTargets : book'[e] = 1

MCSpec == Init /\ [][Next /\ OneExchange]_vars /\ Fairness
=============================================================================
