--------------------------- MODULE MCControlPlane ---------------------------
(* Small instances of PgStrategyRuns and ConfigRollout for TLC.  The two     *)
(* share the handler threads and nothing else, so a behaviour of both is an  *)
(* interleaving of one of each, and each is checked by itself.               *)
EXTENDS PgStrategyRuns, ConfigRollout, TLC

VARIABLE part    \* "runs" or "config"

Config(r, m) == [risk_config |-> r, market |-> m]
Configs == {Config(0, 0), Config(1, 0), Config(1, 1)}

\* A part starts with no more threads than its steps below use, and the runs,
\* which do not read the versions, with one choice of them.
MCInit ==
    /\ PgRunsInit /\ ConfigInit
    /\ part \in {"runs", "config"}
    /\ part = "config" =>
           Cardinality(threads) <= IF backend = "memory" THEN 1 ELSE 2
    /\ part = "runs" =>
           versions = << >> \/ (backend = "memory" /\ versions = <<Config(0, 0)>>)

\* Three threads on the runs.
RunsPart ==
    /\ part = "runs" /\ PgRunsNext
    /\ UNCHANGED <<storeVars, botVars, part>>

\* Two threads on the configs, which get one assignment; one thread gets three.
\* In memory nothing of a request is left between two steps, so one thread is
\* all of them.
ConfigPart ==
    /\ part = "config" /\ ConfigNext
    /\ Cardinality(threads) = 1 \/ \A b \in Workers : Len(assignments'[b]) <= 1 /\ Len(versions') <= 2
    /\ UNCHANGED <<runs, latest, mirror, part>>

MCSpec ==
    MCInit /\ [][RunsPart \/ ConfigPart]_<<pgRunVars, storeVars, botVars, part>>

Symmetry == Permutations(Clients)
=============================================================================
