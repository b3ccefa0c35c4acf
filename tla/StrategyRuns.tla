---------------------------- MODULE StrategyRuns ----------------------------
(***************************************************************************)
(* The strategy runs of the control plane as MemoryMutableStore keeps      *)
(* them: create, start and stop, each under the store's lock               *)
(* (storage/memory_mutable_store.py).  A refused request (not_found,       *)
(* conflict) changes nothing and is the absence of a step.                 *)
(*                                                                         *)
(* A run is known by its place in the order of creation (a uuid4 in the    *)
(* code).  Its name, mode and times are left out: no guard reads them.     *)
(***************************************************************************)
EXTENDS Naturals, Sequences

CONSTANTS
    Bots,      \* bots registered with the control plane
    MaxRuns    \* bound on the number of runs ever created

ASSUME MaxRunsAssumption == MaxRuns \in Nat

RunStatuses == {"created", "running", "stopped"}
ActiveStatuses == {"created", "running"}

VARIABLES
    runs,      \* strategy_runs, in the order of their creation
    latest     \* latest_strategy_run of each bot's detail; 0: None

runVars == <<runs, latest>>

Run == [bot : Bots, status : RunStatuses]

RunsTypeOK ==
    /\ runs \in Seq(Run)
    /\ latest \in [Bots -> Nat]

IsActive(r) == runs[r].status \in ActiveStatuses

ActiveRuns(b) == {r \in DOMAIN runs : runs[r].bot = b /\ IsActive(r)}

\* Mutant: only the bot's running run is looked for.
IdleBot(b) == \A r \in DOMAIN runs : runs[r].bot = b => runs[r].status # "running"

NoActiveRun(b) == ActiveRuns(b) = {}

NoOtherRunning(r) ==
    \A q \in DOMAIN runs \ {r} :
        runs[q].bot = runs[r].bot => runs[q].status # "running"

RunsInit ==
    /\ runs = << >>
    /\ latest = [b \in Bots |-> 0]

\* create_strategy_run: refused while the bot has a created or running run.
CreateStrategyRun(b) ==
    /\ Len(runs) < MaxRuns
    /\ NoActiveRun(b)
    /\ runs' = Append(runs, [bot |-> b, status |-> "created"])
    /\ latest' = [latest EXCEPT ![b] = Len(runs) + 1]

StartStrategyRun(r) ==
    /\ r \in DOMAIN runs
    /\ runs[r].status = "created"
    /\ NoOtherRunning(r)
    /\ runs' = [runs EXCEPT ![r].status = "running"]
    /\ latest' = [latest EXCEPT ![runs[r].bot] = r]

StopStrategyRun(r) ==
    /\ r \in DOMAIN runs
    /\ runs[r].status = "running"
    /\ runs' = [runs EXCEPT ![r].status = "stopped"]
    /\ latest' = [latest EXCEPT ![runs[r].bot] = r]

RunsNext ==
    \/ \E b \in Bots : CreateStrategyRun(b)
    \/ \E r \in 1 .. MaxRuns : StartStrategyRun(r) \/ StopStrategyRun(r)

RunsSpec == RunsInit /\ [][RunsNext]_runVars

-----------------------------------------------------------------------------
\* A bot never has two runs that are created or running: create looks for
\* both, and neither start nor stop brings an ended run back.
OneActiveRun ==
    \A b \in Bots : \A q, r \in ActiveRuns(b) : q = r

\* The bot's detail shows its active run: a request for an older run never
\* replaces it, although start and stop write the detail without a look at it.
ActiveRunShown == \A b \in Bots : \A r \in ActiveRuns(b) : latest[b] = r
=============================================================================
