----------------------------- MODULE MCPairLock -----------------------------
(* Small instances of PairLock for TLC.                                    *)
EXTENDS PairLock, TLC

CONSTANTS c1, c2, c3, r1, r2, r3

\* Three runtimes, each with a run of its own.
OneRunEach == c1 :> r1 @@ c2 :> r2 @@ c3 :> r3
=============================================================================
