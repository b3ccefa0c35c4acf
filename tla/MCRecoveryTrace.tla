--------------------------- MODULE MCRecoveryTrace ---------------------------
(* Small instances of RecoveryTrace for TLC.                                *)
EXTENDS RecoveryTrace

Result(kind, source, open, residual, statuses, balances) ==
    [result |-> kind, source |-> source, openOrders |-> open, residual |-> residual,
     observedAt |-> "fresh", wellFormed |-> TRUE, fillIds |-> FALSE,
     statuses |-> [o \in ObservedOrders |-> statuses], balances |-> balances]

\* What build_auto_reconciliation_snapshot can conclude: everything filled and
\* balanced, an order still open, a residual although no order is open.
OwnFindings ==
    {Result("matched", "auto", 0, "zero", "filled", "free"),
     Result("mismatch", "auto", 1, "open", "open", "locked"),
     Result("mismatch", "auto", 0, "open", "failed", "free")}

OperatorFindings ==
    {Result("matched", "operator", 0, "zero", "filled", "free"),
     Result("matched", "operator", 0, "zero", "open", "free"),
     Result("mismatch", "operator", 1, "open", "open", "free")}

NoFindings == {}
=============================================================================
