--------------------------- MODULE PgStrategyRuns ---------------------------
(***************************************************************************)
(* The requests that create, start and stop strategy runs, over either     *)
(* backend: the HTTP handler (route_handlers_write.py) calls the store and *)
(* then writes the run the store returned to Redis, where dashboards read  *)
(* it (redis_runtime.py, sync_strategy_run_state).  Handlers are threads   *)
(* of one server: they interleave between the two calls and, in PostgreSQL *)
(* (storage/postgres_mutation_ops.py), between the autocommit statements   *)
(* of one store operation: the SELECT that refuses a conflict and the      *)
(* INSERT or UPDATE that relies on it are separate steps.                  *)
(*                                                                         *)
(* The SELECT of bot_exists is folded into the request's first step: no    *)
(* operation removes a bot.                                                *)
(***************************************************************************)
EXTENDS StrategyRuns, Handlers

VARIABLE
    mirror     \* strategy_run:{run_id}:state in Redis: the status written there

pgRunVars == <<runs, latest, backend, threads, req, mirror>>

Requests ==
    [at : {"insert_run"}, bot : Bots]
    \cup [at : {"check_running", "write_running", "write_stopped", "read_back"},
          run : 1 .. MaxRuns]
    \cup [at : {"sync"}, run : 1 .. MaxRuns, status : RunStatuses]

PgRunsTypeOK ==
    /\ RunsTypeOK
    /\ backend \in {"memory", "postgres"} /\ threads \subseteq Clients
    /\ req \in [Clients -> {Idle} \cup Requests]
    /\ mirror \in [1 .. MaxRuns -> RunStatuses \cup {"absent"}]

PgRunsInit ==
    /\ RunsInit
    /\ HandlersInit
    /\ mirror = [r \in 1 .. MaxRuns |-> "absent"]

-----------------------------------------------------------------------------
(* The memory store: the whole operation, then the handler's write to Redis. *)

MemoryCreate(c, b) ==
    /\ Begins(c, "memory")
    /\ CreateStrategyRun(b)
    /\ GoTo(c, [at |-> "sync", run |-> Len(runs) + 1, status |-> "created"])
    /\ UNCHANGED <<backend, threads, mirror>>

MemoryStart(c, r) ==
    /\ Begins(c, "memory")
    /\ StartStrategyRun(r)
    /\ GoTo(c, [at |-> "sync", run |-> r, status |-> "running"])
    /\ UNCHANGED <<backend, threads, mirror>>

MemoryStop(c, r) ==
    /\ Begins(c, "memory")
    /\ StopStrategyRun(r)
    /\ GoTo(c, [at |-> "sync", run |-> r, status |-> "stopped"])
    /\ UNCHANGED <<backend, threads, mirror>>

-----------------------------------------------------------------------------
(* PostgreSQL, statement by statement.                                       *)

\* create_strategy_run: SELECT the bot's active run, INSERT, read the row back.
BeginCreate(c, b) ==
    /\ Begins(c, "postgres")
    /\ NoActiveRun(b)
    /\ GoTo(c, [at |-> "insert_run", bot |-> b])
    /\ UNCHANGED <<runs, latest, backend, threads, mirror>>

InsertRun(c) ==
    /\ Ready(c, "insert_run") /\ Len(runs) < MaxRuns
    /\ runs' = Append(runs, [bot |-> req[c].bot, status |-> "created"])
    /\ GoTo(c, [at |-> "read_back", run |-> Len(runs) + 1])
    /\ UNCHANGED <<latest, backend, threads, mirror>>

\* start_strategy_run: SELECT the status, SELECT another running run of the
\* bot, UPDATE by id alone, read the row back.
BeginStart(c, r) ==
    /\ Begins(c, "postgres")
    /\ r \in DOMAIN runs /\ runs[r].status = "created"
    /\ GoTo(c, [at |-> "check_running", run |-> r])
    /\ UNCHANGED <<runs, latest, backend, threads, mirror>>

CheckRunning(c) ==
    /\ Ready(c, "check_running")
    /\ IF NoOtherRunning(req[c].run)
       THEN GoTo(c, [at |-> "write_running", run |-> req[c].run])
       ELSE GoTo(c, Idle)
    /\ UNCHANGED <<runs, latest, backend, threads, mirror>>

WriteRunning(c) ==
    /\ Ready(c, "write_running")
    /\ runs' = [runs EXCEPT ![req[c].run].status = "running"]
    /\ GoTo(c, [at |-> "read_back", run |-> req[c].run])
    /\ UNCHANGED <<latest, backend, threads, mirror>>

\* Mutant: the new status is written to Redis before the store has it.
BeginStopMirrored(c, r) ==
    /\ Begins(c, "postgres")
    /\ r \in DOMAIN runs /\ runs[r].status = "running"
    /\ mirror' = [mirror EXCEPT ![r] = "stopped"]
    /\ GoTo(c, [at |-> "write_stopped", run |-> r])
    /\ UNCHANGED <<runs, latest, backend, threads>>

\* stop_strategy_run: SELECT the status, UPDATE by id alone, read back.
BeginStop(c, r) ==
    /\ Begins(c, "postgres")
    /\ r \in DOMAIN runs /\ runs[r].status = "running"
    /\ GoTo(c, [at |-> "write_stopped", run |-> r])
    /\ UNCHANGED <<runs, latest, backend, threads, mirror>>

WriteStopped(c) ==
    /\ Ready(c, "write_stopped")
    /\ runs' = [runs EXCEPT ![req[c].run].status = "stopped"]
    /\ GoTo(c, [at |-> "read_back", run |-> req[c].run])
    /\ UNCHANGED <<latest, backend, threads, mirror>>

\* get_strategy_run: the row as it is by now is what the operation returns.
ReadBack(c) ==
    /\ Ready(c, "read_back")
    /\ GoTo(c, [at |-> "sync", run |-> req[c].run, status |-> runs[req[c].run].status])
    /\ UNCHANGED <<runs, latest, backend, threads, mirror>>

-----------------------------------------------------------------------------
\* sync_strategy_run_state: SET without a time to live and without a look at
\* what is there; the last handler to write wins.
SyncRunState(c) ==
    /\ Ready(c, "sync")
    /\ mirror' = [mirror EXCEPT ![req[c].run] = req[c].status]
    /\ GoTo(c, Idle)
    /\ UNCHANGED <<runs, latest, backend, threads>>

RunsStep(c) ==
    \/ \E b \in Bots : MemoryCreate(c, b) \/ BeginCreate(c, b)
    \/ \E r \in 1 .. MaxRuns :
           MemoryStart(c, r) \/ MemoryStop(c, r) \/ BeginStart(c, r) \/ BeginStop(c, r)
    \/ InsertRun(c) \/ CheckRunning(c) \/ WriteRunning(c) \/ WriteStopped(c)
    \/ ReadBack(c) \/ SyncRunState(c)
    \/ Abandon(c) /\ UNCHANGED <<runs, latest, mirror>>

PgRunsNext == \E c \in threads : RunsStep(c)

PgRunsSpec == PgRunsInit /\ [][PgRunsNext]_pgRunVars

-----------------------------------------------------------------------------
(* With the memory store, or with one thread, the requests are atomic.       *)

NewestRun(b) ==
    LET own == {r \in DOMAIN runs : runs[r].bot = b}
    IN  IF own = {} THEN 0 ELSE CHOOSE r \in own : \A q \in own : q <= r

\* PostgreSQL keeps no latest run: bot detail shows the row that was started
\* or created last, the newest one as long as requests do not overlap.
ShownRun == IF backend = "memory" THEN latest ELSE [b \in Bots |-> NewestRun(b)]

Store == INSTANCE StrategyRuns WITH latest <- ShownRun

\* Either backend then implements the atomic store: a run is created for an
\* idle bot only, started once and stopped once, and never comes back.
ImplementsRuns == [][Serial => Store!RunsNext]_<<runs, ShownRun>>

Rank(status) ==
    CASE status = "absent" -> 0 [] status = "created" -> 1
      [] status = "running" -> 2 [] status = "stopped" -> 3

\* Redis may show an older status of a run than the store, and with two
\* handlers goes on showing it, but never one that the run has not reached.
MirrorIsPast ==
    Serial => \A r \in 1 .. MaxRuns :
                  mirror[r] = "absent" \/ Rank(mirror[r]) <= Rank(runs[r].status)

\* Overlapping requests in PostgreSQL give a bot several active runs, several
\* running ones among them, and bring ended runs back; but a request that was
\* let through found none, so there is never more than one per thread.
ActiveRunsBounded ==
    \A b \in Bots : Cardinality(ActiveRuns(b)) <= Cardinality(threads)
=============================================================================
