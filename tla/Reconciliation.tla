--------------------------- MODULE Reconciliation ---------------------------
(***************************************************************************)
(* What the recovery runtime concludes from the reconciliation result      *)
(* recorded on a recovery trace (recovery_runtime.py, the                   *)
(* _reconciliation_..._reason helpers in the order _process_trace calls    *)
(* them).  A result is recorded by an operator (record-reconciliation) or  *)
(* by the runtime itself from the private connectors; both writers only    *)
(* store "matched" or "mismatch" with non-negative numbers, so the checks  *)
(* for other values cannot fire and are left out.                          *)
(*                                                                         *)
(* Order statuses are folded into the three classes the helpers tell       *)
(* apart, the observed balances into how far they cover the two exchanges  *)
(* and two assets of the intent and whether something is still locked.     *)
(***************************************************************************)
EXTENDS Naturals, FiniteSets

CONSTANTS
    ObservedOrders,   \* orders a reconciliation may report on
    MaxOpenOrders,    \* bound on the reported open_order_count
    MismatchLimit     \* reconciliation_mismatch_handoff_count, at least 1

ASSUME MismatchLimitAssumption == MismatchLimit \in Nat \ {0}

StatusClasses == {"open", "filled", "failed"}

Results ==
    [result : {"matched", "mismatch"},
     source : {"auto", "operator"},
     openOrders : 0 .. MaxOpenOrders,
     residual : {"zero", "open"},
     observedAt : {"missing", "future", "fresh", "old"},
     wellFormed : BOOLEAN,              \* every evidence list parses
     fillIds : BOOLEAN,                 \* some fill id was observed
     statuses : UNION {[seen -> StatusClasses] : seen \in SUBSET ObservedOrders},
     balances : {"none", "partial", "locked", "free"}]

Observed(r) == {r.statuses[o] : o \in DOMAIN r.statuses}

ClaimsClean(r) ==
    r.result = "matched" /\ r.openOrders = 0 /\ r.residual = "zero"

-----------------------------------------------------------------------------
InvalidResult(r) == r.observedAt = "future"

StaleObservation(r) == ClaimsClean(r) /\ r.observedAt \in {"missing", "old"}

InvalidEvidence(r) == ~r.wellFormed

EvidenceMissing(r) ==
    ClaimsClean(r) /\ ~r.fillIds /\ r.statuses = << >> /\ r.balances = "none"

StatusConflict(r) == ClaimsClean(r) /\ Observed(r) \cap {"failed", "open"} # {}

\* Mutant: rows are looked at for locked amounts only, not for coverage.
LockedOnly(r, known) == ClaimsClean(r) /\ (~known \/ r.balances = "locked")

\* "known": the trace names an intent with two exchanges and a market.
BalanceConflict(r, known) ==
    ClaimsClean(r) /\ (~known \/ r.balances \in {"none", "partial", "locked"})

\* Every order reported open has an observed status, and all are terminal.
OpenOrdersSettled(r) ==
    /\ r.openOrders > 0 /\ r.statuses # << >>
    /\ Cardinality(DOMAIN r.statuses) >= r.openOrders
    /\ Observed(r) \subseteq {"filled", "failed"}

MismatchHopeless(r, streak) ==
    /\ r.result = "mismatch"
    /\ streak >= MismatchLimit \/ OpenOrdersSettled(r) \/ r.openOrders = 0

\* The streak counts consecutive mismatches, r included.
Verdict(r, known, streak) ==
    IF \/ InvalidResult(r) \/ StaleObservation(r) \/ InvalidEvidence(r)
       \/ EvidenceMissing(r) \/ StatusConflict(r) \/ BalanceConflict(r, known)
    THEN "handoff"
    ELSE IF ClaimsClean(r) THEN "resolve"
    ELSE IF MismatchHopeless(r, streak) THEN "handoff"
    ELSE "undecided"

\* What a trustworthy match is, whatever order the checks run in: recent, well
\* formed, every observed order filled, and the balances of both exchanges
\* seen and free.
TrustworthyMatch(r, known) ==
    /\ ClaimsClean(r) /\ known /\ r.wellFormed
    /\ r.observedAt = "fresh"
    /\ Observed(r) \subseteq {"filled"}
    /\ r.balances = "free"
=============================================================================
