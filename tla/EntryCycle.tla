------------------------------ MODULE EntryCycle ------------------------------
(***************************************************************************)
(* How entries into one quote pair begin and end: the strategy runtime     *)
(* (strategy_runtime.py, strategy_runtime_execution.py), the HTTP          *)
(* evaluate-arbitrage handler, which persists and executes an entry by the *)
(* same code but without the runtime's checks and without the pair lock,   *)
(* and the two sweeps of the recovery runtime that close a finished entry  *)
(* and open a trace for one that is submitted too long.                    *)
(*                                                                         *)
(* They share the latest evaluation of each run, the recovery traces and   *)
(* the pair lock in Redis, and the intents and orders of the store.  Each  *)
(* access is a step.  The pair lock is the one RunLock specifies (PairLock *)
(* has its commands); a trace's own life is RecoveryTrace's, of which      *)
(* MoveTrace is the summary; orders are kept per intent, as one class.     *)
(***************************************************************************)
CONSTANTS
    Runs, BotOf,   \* strategy runs and the bot of each
    Intents,       \* ids for order intents, taken from uuid4
    Traces,        \* ids for recovery traces, taken from uuid4
    Runtimes,      \* strategy runtime threads
    Handlers,      \* HTTP threads serving evaluate-arbitrage
    Watchers,      \* recovery runtime threads
    NoRun, NoIntent

ASSUME NoneAssumption == NoRun \notin Runs /\ NoIntent \notin Intents
ASSUME ThreadAssumption ==
    Runtimes \cap Handlers = {} /\ Watchers \cap (Runtimes \cup Handlers) = {}

Threads == Runtimes \cup Handlers \cup Watchers

VARIABLES
    runs,         \* status of each run; "absent" before it is created
    evaluation,   \* latest evaluation of each run: stage, intent, selected pair?
    intents,      \* intent id -> [run, status, orders]
    traces,       \* trace id -> [run, status]
    holder,       \* the run that owns the pair lock
    late,         \* intents whose orders have been open beyond the submit timeout
    op            \* what each thread is in the middle of

vars == <<runs, evaluation, intents, traces, holder, late, op>>

\* derive_arbitrage_lifecycle_state, and the previews a recovery trace gives
Stages ==
    {"decision_rejected", "decision_accepted", "intent_created", "entry_submitting",
     "entry_open", "hedge_balanced", "recovery_required", "unwind_in_progress",
     "manual_handoff", "closed"}

\* ACTIVE_PAIR_LOCK_LIFECYCLE_STATES
HeldStages ==
    {"intent_created", "entry_submitting", "entry_open", "hedge_balanced",
     "recovery_required", "unwind_in_progress", "manual_handoff"}

ActiveStatuses == {"recovery_required", "unwind_in_progress"}
BlockingStatuses == ActiveStatuses \cup {"handoff_required"}

\* A mapping with one new key.
Added(f, key, value) ==
    [x \in DOMAIN f \cup {key} |-> IF x = key THEN value ELSE f[x]]

NoEvaluation == [stage |-> "none", intent |-> NoIntent, pair |-> FALSE]
Idle == [at |-> "idle"]

TypeOK ==
    /\ runs \in [Runs -> {"absent", "running", "stopped"}]
    /\ evaluation \in [Runs -> {NoEvaluation} \cup
           [stage : Stages, intent : Intents \cup {NoIntent}, pair : BOOLEAN]]
    /\ DOMAIN intents \subseteq Intents
    /\ \A i \in DOMAIN intents :
           intents[i] \in [run : Runs, status : {"created", "submitted", "simulated"},
                           orders : {"none", "open", "filled", "ended"}]
    /\ DOMAIN traces \subseteq Traces
    /\ \A t \in DOMAIN traces :
           traces[t] \in [run : Runs, status : BlockingStatuses \cup {"resolved"}]
    /\ holder \in Runs \cup {NoRun}
    /\ late \subseteq DOMAIN intents
    /\ DOMAIN op = Threads

Init ==
    /\ runs = [r \in Runs |-> "absent"]
    /\ evaluation = [r \in Runs |-> NoEvaluation]
    /\ intents = << >> /\ traces = << >>
    /\ holder = NoRun /\ late = {}
    /\ op = [a \in Threads |-> Idle]

Goto(a, step) == op' = [op EXCEPT ![a] = step]
GotoAt(a, at) == op' = [op EXCEPT ![a].at = at]

\* should_hold_pair_lock: without a selected pair there is no lock to hold.
Holds(e) == e.pair /\ e.stage \in HeldStages

Free(r) == holder \in {NoRun, r}
TakeLock(r) == holder' = IF Free(r) THEN r ELSE holder
\* Mutant: whoever owns it.
ReleaseAnyLock(r) == holder' = NoRun
ReleaseLock(r) == holder' = IF holder = r THEN NoRun ELSE holder

Blocking(r) ==
    {t \in DOMAIN traces : /\ BotOf[traces[t].run] = BotOf[r]
                           /\ traces[t].status \in BlockingStatuses}

-----------------------------------------------------------------------------
(* The strategy runtime: what it looks at before an entry                    *)

BeginRun(s) ==
    /\ op[s] = Idle
    /\ \E r \in Runs : runs[r] = "running" /\ Goto(s, [at |-> "reconcile", run |-> r])
    /\ UNCHANGED <<runs, evaluation, intents, traces, holder, late>>

\* Mutant: the lock of a finished entry is kept.
ReconcileHolding(s) ==
    LET r == op[s].run
    IN  /\ op[s].at = "reconcile"
        /\ IF Holds(evaluation[r]) THEN TakeLock(r) ELSE UNCHANGED holder
        /\ Goto(s, [at |-> "handoffs", run |-> r, goal |-> "enter", blocking |-> Blocking(r)])
        /\ UNCHANGED <<runs, evaluation, intents, traces, late>>

\* _reconcile_pair_lock: the evaluation says whether the run should own the
\* lock.  "blocking" remembers, for the properties, what blocked the bot then.
ReconcileLock(s) ==
    LET r == op[s].run
    IN  /\ op[s].at = "reconcile"
        /\ CASE Holds(evaluation[r]) -> TakeLock(r)
             [] evaluation[r].pair /\ ~Holds(evaluation[r]) -> ReleaseLock(r)
             [] ~evaluation[r].pair -> UNCHANGED holder
        /\ Goto(s, [at |-> "handoffs", run |-> r, goal |-> "enter", blocking |-> Blocking(r)])
        /\ UNCHANGED <<runs, evaluation, intents, traces, late>>

\* The traces get_blocking_recovery_trace asks for: those of the bot, and for
\* the sweeps of the recovery runtime those of the run.
Asked(a, statuses) ==
    {t \in DOMAIN traces : /\ traces[t].status \in statuses
                           /\ IF a \in Watchers THEN traces[t].run = op[a].run
                              ELSE BotOf[traces[t].run] = BotOf[op[a].run]}

\* get_blocking_recovery_trace scans the handed-off traces first ...
ScanHandoffs(a) ==
    /\ op[a].at = "handoffs"
    /\ IF Asked(a, {"handoff_required"}) # {} THEN Goto(a, Idle) ELSE GotoAt(a, "actives")
    /\ UNCHANGED <<runs, evaluation, intents, traces, holder, late>>

\* Mutant: only a handed-off trace blocks.
PassActives(a) ==
    /\ op[a].at = "actives"
    /\ GotoAt(a, op[a].goal)
    /\ UNCHANGED <<runs, evaluation, intents, traces, holder, late>>

\* ... and then the active ones.
ScanActives(a) ==
    /\ op[a].at = "actives"
    /\ IF Asked(a, ActiveStatuses) # {} THEN Goto(a, Idle) ELSE GotoAt(a, op[a].goal)
    /\ UNCHANGED <<runs, evaluation, intents, traces, holder, late>>

\* duplicate_intent_active, or open orders
Busy(r) ==
    \E i \in DOMAIN intents :
        /\ intents[i].run = r
        /\ intents[i].status \in {"created", "submitted"} \/ intents[i].orders = "open"

\* Mutant: only open orders count.
LoadOrdersOnly(s) ==
    /\ op[s].at = "enter"
    /\ IF \E i \in DOMAIN intents : intents[i].run = op[s].run /\ intents[i].orders = "open"
       THEN Goto(s, Idle) ELSE GotoAt(s, "decide")
    /\ UNCHANGED <<runs, evaluation, intents, traces, holder, late>>

\* load_arbitrage_runtime_payload; a run whose inputs are missing is skipped.
Load(s) ==
    /\ op[s].at = "enter"
    /\ \/ Goto(s, Idle)
       \/ ~Busy(op[s].run) /\ GotoAt(s, "decide")
    /\ UNCHANGED <<runs, evaluation, intents, traces, holder, late>>

Evaluating(s, stage, pair) ==
    [at |-> "evaluate", run |-> op[s].run, stage |-> stage, pair |-> pair,
     blocking |-> op[s].blocking]

\* Mutant: PAIR_LOCK_ACTIVE is passed over.
DecideOnConflict(s) ==
    /\ op[s].at = "decide"
    /\ TakeLock(op[s].run)
    /\ Goto(s, Evaluating(s, "decision_accepted", TRUE))
    /\ UNCHANGED <<runs, evaluation, intents, traces, late>>

\* Bound: nothing is accepted once the ids for intents are used up.
IntentsLeft == Intents \ DOMAIN intents # {}

\* build_pair_lock_blocked_decision: PAIR_LOCK_ACTIVE turns an acceptance into a
\* rejection that names the pair.
DecideBlocked(s) ==
    /\ ~Free(op[s].run)
    /\ UNCHANGED holder
    /\ Goto(s, Evaluating(s, "decision_rejected", TRUE))

\* attach_pair_lock_context: the decision keeps the lock that was acquired.
DecideLocked(s) ==
    /\ IntentsLeft
    /\ Free(op[s].run)
    /\ TakeLock(op[s].run)
    /\ Goto(s, Evaluating(s, "decision_accepted", TRUE))

\* The evaluation rejects, or accepts and tries to acquire the lock.
Decide(s) ==
    /\ op[s].at = "decide"
    /\ \/ Goto(s, Evaluating(s, "decision_rejected", FALSE)) /\ UNCHANGED holder
       \/ DecideLocked(s)
       \/ DecideBlocked(s)
    /\ UNCHANGED <<runs, evaluation, intents, traces, late>>

-----------------------------------------------------------------------------
(* The HTTP handler starts here: any run, the caller's inputs, no lock       *)

Request(h) ==
    /\ op[h] = Idle
    /\ \E r \in Runs, stage \in {"decision_accepted", "decision_rejected"} :
           /\ runs[r] # "absent"
           /\ Goto(h, [at |-> "evaluate", run |-> r, stage |-> stage, pair |-> FALSE,
                       blocking |-> {}])
    /\ UNCHANGED <<runs, evaluation, intents, traces, holder, late>>

\* sync_arbitrage_evaluation replaces the evaluation of the run.
Evaluate(a) ==
    /\ op[a].at = "evaluate"
    /\ evaluation' = [evaluation EXCEPT ![op[a].run] =
           [stage |-> op[a].stage, intent |-> NoIntent, pair |-> op[a].pair]]
    /\ \/ op[a].stage = "decision_accepted" /\ GotoAt(a, "persist")
       \/ (op[a].stage = "decision_rejected" \/ a \in Handlers) /\ Goto(a, Idle)
    /\ UNCHANGED <<runs, intents, traces, holder, late>>

\* persist_order_intent_plan returns no intent.
PersistRefused(a) ==
    /\ op[a].at = "persist"
    /\ IF op[a].pair THEN GotoAt(a, "unlock") ELSE Goto(a, Idle)
    /\ UNCHANGED <<runs, evaluation, intents, traces, holder, late>>

\* _release_pair_lock_for_decision
Unlock(a) ==
    /\ op[a].at = "unlock"
    /\ ReleaseLock(op[a].run)
    /\ Goto(a, Idle)
    /\ UNCHANGED <<runs, evaluation, intents, traces, late>>

\* persist_order_intent_plan; without a lock there is none to refresh.
Persist(a) ==
    /\ op[a].at = "persist"
    /\ \E i \in Intents \ DOMAIN intents :
           /\ intents' = Added(intents, i,
                  [run |-> op[a].run, status |-> "created", orders |-> "none"])
           /\ Goto(a, [at |-> IF op[a].pair THEN "refresh" ELSE "record",
                       run |-> op[a].run, pair |-> op[a].pair, intent |-> i])
    /\ UNCHANGED <<runs, evaluation, traces, holder, late>>

\* _refresh_pair_lock_after_persist: a conflict is passed over.
Refresh(a) ==
    /\ op[a].at = "refresh"
    /\ TakeLock(op[a].run)
    /\ GotoAt(a, "record")
    /\ UNCHANGED <<runs, evaluation, intents, traces, late>>

Shown(a, stage) == [stage |-> stage, intent |-> op[a].intent, pair |-> op[a].pair]

\* A request may end here (execute is optional there); the runtime is configured
\* to execute what it persists.
Record(a) ==
    /\ op[a].at = "record"
    /\ evaluation' = [evaluation EXCEPT ![op[a].run] = Shown(a, "intent_created")]
    /\ GotoAt(a, "submit") \/ (a \in Handlers /\ Goto(a, Idle))
    /\ UNCHANGED <<runs, intents, traces, holder, late>>

-----------------------------------------------------------------------------
(* execute_persisted_arbitrage_intent                                        *)

\* submit: both legs are open, or filled (then the entry is over,
\* _maybe_close_after_terminal_fill, unless another order of the intent is
\* open), or a leg failed.
SubmitOutcomes ==
    {[status |-> "submitted", orders |-> "open", stage |-> "entry_submitting"],
     [status |-> "submitted", orders |-> "open", stage |-> "entry_open"],
     [status |-> "submitted", orders |-> "open", stage |-> "hedge_balanced"],
     [status |-> "simulated", orders |-> "filled", stage |-> "closed"]}
    \cup [status : {"created"}, orders : {"none"}, stage : ActiveStatuses]
    \cup [status : {"submitted"}, orders : {"open"}, stage : ActiveStatuses]

Submit(a) ==
    /\ op[a].at = "submit"
    /\ \E out \in SubmitOutcomes :
           /\ intents' = [intents EXCEPT ![op[a].intent].status = out.status,
                                         ![op[a].intent].orders = out.orders]
           /\ Goto(a, [at |-> "report", run |-> op[a].run, pair |-> op[a].pair,
                       intent |-> op[a].intent, stage |-> out.stage])
    /\ UNCHANGED <<runs, evaluation, traces, holder, late>>

Report(a) ==
    /\ op[a].at = "report"
    /\ evaluation' = [evaluation EXCEPT ![op[a].run] = Shown(a, op[a].stage)]
    /\ GotoAt(a, "relock")
    /\ UNCHANGED <<runs, intents, traces, holder, late>>

\* _sync_pair_lock
Relock(a) ==
    /\ op[a].at \in {"relock", "relock_trace"}
    /\ IF ~op[a].pair THEN UNCHANGED holder
       ELSE IF op[a].stage \in HeldStages THEN TakeLock(op[a].run)
       ELSE ReleaseLock(op[a].run)
    /\ IF op[a].at = "relock" /\ op[a].stage \in ActiveStatuses
       THEN GotoAt(a, "open_trace") ELSE Goto(a, Idle)
    /\ UNCHANGED <<runs, evaluation, intents, traces, late>>

\* Mutant: the failure leaves no trace.
OpenNoTrace(a) ==
    /\ op[a].at = "open_trace"
    /\ Goto(a, Idle)
    /\ UNCHANGED <<runs, evaluation, intents, traces, holder, late>>

\* A failed submit, or a submit timeout, gets a trace of its own.
OpenTrace(a) ==
    /\ op[a].at = "open_trace"
    /\ \E t \in Traces \ DOMAIN traces :
           /\ traces' = Added(traces, t, [run |-> op[a].run, status |-> op[a].stage])
           /\ Goto(a, [at |-> "show_trace", run |-> op[a].run, pair |-> op[a].pair,
                       trace |-> t])
    /\ UNCHANGED <<runs, evaluation, intents, holder, late>>

Preview(status) ==
    CASE status = "resolved" -> "closed"
      [] status = "handoff_required" -> "manual_handoff"
      [] status \in ActiveStatuses -> status

Synced(r, status) ==
    IF evaluation[r] = NoEvaluation THEN evaluation
    ELSE [evaluation EXCEPT ![r].stage = Preview(status)]

\* sync_arbitrage_evaluation_recovery_state, then the lock for what it wrote.
ShowTrace(a) ==
    LET r == op[a].run
        status == traces[op[a].trace].status
    IN  /\ op[a].at = "show_trace"
        /\ evaluation' = Synced(r, status)
        /\ IF a \in Watchers THEN Goto(a, Idle)
           ELSE Goto(a, [at |-> "relock_trace", run |-> r, stage |-> Preview(status),
                         pair |-> evaluation[r].pair])
        /\ UNCHANGED <<runs, intents, traces, holder, late>>

-----------------------------------------------------------------------------
(* The recovery runtime's sweeps over the evaluations                        *)

\* _sync_terminal_latest_evaluations
BeginClose(w) ==
    /\ op[w] = Idle
    /\ \E r \in Runs :
           /\ evaluation[r].stage \in {"entry_submitting", "entry_open", "hedge_balanced",
                                      "unwind_in_progress"}
           /\ evaluation[r].intent # NoIntent
           /\ Goto(w, [at |-> "handoffs", run |-> r, goal |-> "ended", item |-> evaluation[r]])
    /\ UNCHANGED <<runs, evaluation, intents, traces, holder, late>>

CheckEnded(w) ==
    /\ op[w].at = "ended"
    /\ LET i == intents[op[w].item.intent]
       IN  IF i.status = "simulated" /\ i.orders \in {"filled", "ended"}
           THEN GotoAt(w, "close") ELSE Goto(w, Idle)
    /\ UNCHANGED <<runs, evaluation, intents, traces, holder, late>>

\* The item read at the beginning is written back.
Close(w) ==
    /\ op[w].at = "close"
    /\ evaluation' = [evaluation EXCEPT ![op[w].run] =
                          [op[w].item EXCEPT !.stage = "closed"]]
    /\ Goto(w, Idle)
    /\ UNCHANGED <<runs, intents, traces, holder, late>>

\* Mutant: an entry that failed is looked at too.
WatchFailed(w) ==
    /\ op[w] = Idle
    /\ \E r \in Runs :
           /\ evaluation[r].stage \in {"entry_submitting", "recovery_required"}
           /\ Goto(w, [at |-> "handoffs", run |-> r, goal |-> "overdue"])
    /\ UNCHANGED <<runs, evaluation, intents, traces, holder, late>>

\* _open_submit_timeout_traces
BeginWatch(w) ==
    /\ op[w] = Idle
    /\ \E r \in Runs :
           /\ evaluation[r].stage = "entry_submitting"
           /\ Goto(w, [at |-> "handoffs", run |-> r, goal |-> "overdue"])
    /\ UNCHANGED <<runs, evaluation, intents, traces, holder, late>>

Overdue(r) ==
    \E i \in late : intents[i].run = r /\ intents[i].orders = "open"

\* Mutant: the age of the orders is not looked at the right way round.
CheckYoung(w) ==
    /\ op[w].at = "overdue"
    /\ IF ~Overdue(op[w].run)
       THEN Goto(w, [at |-> "open_trace", run |-> op[w].run, pair |-> FALSE,
                     stage |-> "recovery_required"])
       ELSE Goto(w, Idle)
    /\ UNCHANGED <<runs, evaluation, intents, traces, holder, late>>

CheckOverdue(w) ==
    /\ op[w].at = "overdue"
    /\ IF Overdue(op[w].run)
       THEN Goto(w, [at |-> "open_trace", run |-> op[w].run, pair |-> FALSE,
                     stage |-> "recovery_required"])
       ELSE Goto(w, Idle)
    /\ UNCHANGED <<runs, evaluation, intents, traces, holder, late>>

-----------------------------------------------------------------------------
(* The world around                                                          *)

\* create_strategy_run and start_strategy_run: one running run per bot
StartRun(r) ==
    /\ runs[r] = "absent"
    /\ \A o \in Runs : BotOf[o] = BotOf[r] => runs[o] # "running"
    /\ runs' = [runs EXCEPT ![r] = "running"]
    /\ UNCHANGED <<evaluation, intents, traces, holder, late, op>>

\* stop_strategy_run: nothing is said to the intents, the orders or the lock.
StopRun(r) ==
    /\ runs[r] = "running"
    /\ runs' = [runs EXCEPT ![r] = "stopped"]
    /\ UNCHANGED <<evaluation, intents, traces, holder, late, op>>

\* Fills and order updates come in.  Only fills end the intent.
OrdersProgress(i) ==
    /\ i \in DOMAIN intents /\ intents[i].orders = "open"
    /\ \/ intents' = [intents EXCEPT ![i].orders = "filled", ![i].status = "simulated"]
       \/ intents' = [intents EXCEPT ![i].orders = "ended"]
    /\ late' = late \ {i}
    /\ UNCHANGED <<runs, evaluation, traces, holder, op>>

SubmitTimePasses(i) ==
    /\ i \in DOMAIN intents /\ intents[i].orders = "open"
    /\ late' = late \cup {i}
    /\ UNCHANGED <<runs, evaluation, intents, traces, holder, op>>

\* A pass or an operator changes the status of a trace; the evaluation follows.
MoveTrace(t) ==
    /\ t \in DOMAIN traces /\ traces[t].status # "resolved"
    /\ \E status \in {"unwind_in_progress", "handoff_required", "resolved"} :
           /\ traces' = [traces EXCEPT ![t].status = status]
           /\ evaluation' = Synced(traces[t].run, status)
    /\ UNCHANGED <<runs, intents, holder, late, op>>

\* Nobody has refreshed the lock for its time to live: its run is not evaluated
\* any more, or its evaluation does not ask for the lock.
ExpireLock ==
    /\ holder # NoRun
    /\ \A a \in Threads : op[a] # Idle => op[a].run # holder
    /\ runs[holder] # "running" \/ ~Holds(evaluation[holder])
    /\ holder' = NoRun
    /\ UNCHANGED <<runs, evaluation, intents, traces, late, op>>

\* The process of a thread is restarted; Redis and PostgreSQL keep their state.
Crash(a) ==
    /\ op[a] # Idle
    /\ Goto(a, Idle)
    /\ UNCHANGED <<runs, evaluation, intents, traces, holder, late>>

EntrySteps(a) ==
    \/ Evaluate(a) \/ Persist(a) \/ PersistRefused(a) \/ Unlock(a) \/ Refresh(a)
    \/ Record(a) \/ Submit(a) \/ Report(a) \/ Relock(a) \/ OpenTrace(a) \/ ShowTrace(a)

Continue(a) ==
    \/ EntrySteps(a) \/ ScanHandoffs(a) \/ ScanActives(a)
    \/ ReconcileLock(a) \/ Load(a) \/ Decide(a)
    \/ CheckEnded(a) \/ Close(a) \/ CheckOverdue(a)

World ==
    \/ \E r \in Runs : StartRun(r) \/ StopRun(r)
    \/ \E i \in Intents : OrdersProgress(i) \/ SubmitTimePasses(i)
    \/ \E t \in Traces : MoveTrace(t)
    \/ ExpireLock

Next ==
    \/ \E a \in Threads : Continue(a)
    \/ \E s \in Runtimes : BeginRun(s)
    \/ \E w \in Watchers : BeginClose(w) \/ BeginWatch(w)
    \/ World

Spec == Init /\ [][Next]_vars

\* The same with evaluate-arbitrage requests.
HttpSpec == Init /\ [][Next \/ \E h \in Handlers : Request(h)]_vars

\* The same with threads that are restarted, and without a trace that is handed
\* off between the two halves of a scan (a trace that is escapes both halves).
HandedOff == {t \in DOMAIN traces : traces[t].status = "handoff_required"}
ScansUndisturbed == (\E a \in Threads : op[a].at = "actives") => HandedOff' \subseteq HandedOff
CrashingSpec ==
    Init /\ [][(Next \/ \E a \in Threads : Crash(a)) /\ ScansUndisturbed]_vars

\* The threads run, the strategy runtime ticks over every running run, and the
\* recovery runtime over every evaluation.
FairSpec ==
    /\ Spec
    /\ \A a \in Threads : WF_vars(Continue(a))
    /\ \A s \in Runtimes, r \in Runs : SF_vars(BeginRun(s) /\ op'[s].run = r)
    /\ \A w \in Watchers : SF_vars(BeginWatch(w))

-----------------------------------------------------------------------------
(* Properties *)

\* Two running runs are never both in an entry on the pair: the lock of the one
\* keeps the other out until the entry is closed (docs/TODO.md:84).
OneEntryPerPair ==
    \A q, r \in Runs :
        /\ runs[q] = "running" /\ Holds(evaluation[q])
        /\ runs[r] = "running" /\ Holds(evaluation[r])
        => q = r

\* A runtime counts on the lock from its acquisition until it is given back, and a
\* running run as long as it shows an entry.
CountsOnLock(s) ==
    /\ \/ op[s].at \in {"persist", "refresh", "record", "submit", "report"}
       \/ op[s].at = "evaluate" /\ op[s].stage = "decision_accepted"
       \/ op[s].at = "relock" /\ op[s].stage \in HeldStages
    /\ op[s].pair

InEntry ==
    {r \in Runs : \/ runs[r] = "running" /\ Holds(evaluation[r])
                  \/ \E s \in Runtimes : CountsOnLock(s) /\ op[s].run = r}

Lock == INSTANCE RunLock
    WITH Clients <- Runs, RunOf <- [r \in Runs |-> r], owner <- holder, granted <- InEntry

\* The lock is used as RunLock says one may use it, although an entry takes, keeps
\* and gives it back in _acquire_pair_lock, _refresh_pair_lock_after_persist,
\* _sync_pair_lock and _reconcile_pair_lock, each by what it has read of the
\* evaluation: it never passes to another run, and is never given back or left to
\* expire, while a run counts on it.
EntriesKeepLock == Lock!LockSpec

\* A run has one active entry at a time (docs/05_arbitrage_runtime_invariants.md:28).
OneEntryPerRun ==
    \A i, j \in DOMAIN intents :
        /\ intents[i].run = intents[j].run
        /\ \A k \in {i, j} : intents[k].status # "simulated"
        => i = j

\* An intent that never got an order is still being worked on, or its run was
\* given a recovery trace: a failed entry cannot pass unnoticed.
FailedEntryTraced ==
    \A i \in DOMAIN intents :
        intents[i].orders = "none" =>
            \/ \E a \in Threads : "intent" \in DOMAIN op[a] /\ op[a].intent = i
            \/ \E t \in DOMAIN traces : traces[t].run = intents[i].run

\* An entry has one active recovery trace at a time (docs/05_arbitrage_recovery_
\* trace_contract.md:24).  A trace that a sweep opens names no intent, so this is
\* said of the runs that have had one entry.
OneTracePerEntry ==
    \A t, u \in DOMAIN traces :
        /\ traces[t].run = traces[u].run
        /\ {traces[t].status, traces[u].status} \subseteq ActiveStatuses
        /\ \A i, j \in DOMAIN intents :
               intents[i].run = traces[t].run /\ intents[j].run = traces[t].run => i = j
        => t = u

\* A run with an active trace shows at least recovery_required once nobody is at
\* work on it (docs/05_arbitrage_recovery_trace_contract.md:104).
ActiveTraceShown ==
    \A t \in DOMAIN traces :
        LET r == traces[t].run
        IN  /\ traces[t].status \in BlockingStatuses
            /\ \A a \in Threads : op[a] # Idle => op[a].run # r
            => evaluation[r].stage \in ActiveStatuses \cup {"manual_handoff"}

\* No entry is persisted while a trace of the bot has been blocking ever since the
\* runtime looked (docs/TODO.md:87: a recovery trace blocks new evaluations).
NoEntryDuringRecovery ==
    \A s \in Runtimes :
        op[s].at = "persist" => op[s].blocking \cap Blocking(op[s].run) = {}

\* A running run whose entry is over does not keep the lock for ever.
LockGivenBack ==
    \A r \in Runs :
        LET Over == runs[r] = "running" /\ evaluation[r].stage = "closed" /\ evaluation[r].pair
        IN  holder = r /\ Over ~> holder # r \/ ~Over

\* A submitted entry whose orders stay open beyond the timeout gets a recovery
\* trace, unless they end or the evaluation moves on by itself (the trace may be
\* one that was opened late for the entry before).
OverdueEntryNoticed ==
    \A r \in Runs :
        LET Unnoticed == /\ evaluation[r].stage = "entry_submitting" /\ Overdue(r)
                         /\ \A t \in DOMAIN traces :
                                traces[t].run = r => traces[t].status = "resolved"
        IN  Unnoticed ~> ~Unnoticed
=============================================================================
