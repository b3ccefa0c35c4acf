----------------------------- MODULE PgHistory -----------------------------
(***************************************************************************)
(* PgOrderStore with a history variable that records whether two requests  *)
(* ever overlapped or a connection was ever lost: until then the two       *)
(* backends of the ledger are the same to their callers.                   *)
(***************************************************************************)
EXTENDS PgOrderStore

VARIABLE overlapped

historyVars == <<pgVars, overlapped>>

InFlight == {c \in Clients : req[c] # Idle}

HistoryInit == PgInit /\ overlapped = FALSE

HistoryNext ==
    \/ PgStep /\ overlapped' = (overlapped \/ Cardinality(InFlight') > 1)
    \/ \E c \in Clients : LoseConnection(c) /\ overlapped' = TRUE

HistorySpec == HistoryInit /\ [][HistoryNext]_historyVars

-----------------------------------------------------------------------------
\* As long as requests do not overlap and no connection is lost, the statement
\* sequences of postgres_order_mutation_ops.py implement the memory store's
\* atomic operations: the two backends behind ControlPlaneStoreProtocol are
\* interchangeable then, except for the decision counter, which Postgres does
\* not keep and the mapping supplies.
SerialImplementsLedger ==
    [][~ overlapped' => [Ledger!Next]_<<SettledIntents, orders, fills, CountedDecisions>>
      ]_historyVars

\* What a terminal order says is final as long as requests do not overlap:
\* neither its status nor its filled quantity changes, although the check and
\* the write are separate statements of update_order_status and create_fill.
TerminalUntilOverlap ==
    [][~ overlapped' =>
           \A o \in DOMAIN orders :
               IsTerminal(orders[o].status) => orders'[o] = orders[o]]_historyVars

=============================================================================
