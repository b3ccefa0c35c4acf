---------------------------- MODULE RecoveryTrace ----------------------------
(***************************************************************************)
(* The life of one recovery trace: recovery_runtime.py and the operator    *)
(* handlers of route_handlers_recovery_write.py over the trace and the     *)
(* latest evaluation of its run, two keys in Redis.                        *)
(*                                                                         *)
(* An agent is a thread: the recovery runtime's own, or one of the HTTP    *)
(* server.  HTTP handlers that end in run_once() run the same pass as the  *)
(* recovery thread.  Every access to Redis or to the order store is a step *)
(* of its own, so what an agent has read may be out of date when it writes *)
(* the trace back; a write replaces the whole trace by the copy the agent  *)
(* holds, patched.                                                         *)
(*                                                                         *)
(* Of an order only its class is kept (still open, filled, or ended        *)
(* without a full fill); that a terminal class never changes is what       *)
(* OrderStore proves (TerminalOrdersAreFinal).  A residual exposure is     *)
(* absent, zero or open.  "overdue" holds what has reached its time limit: *)
(* the trace itself (handoff_after_seconds since it was opened) and unwind   *)
(* orders (submit_timeout_seconds since their last update).                *)
(***************************************************************************)
EXTENDS Reconciliation

CONSTANTS
    Agents,           \* threads that work on the trace
    EntryOrder,       \* the order of the failed entry
    UnwindOrders,     \* ids for unwind orders, taken from uuid4
    Entry,            \* the intent of the failed entry
    UnwindIntents,    \* ids for unwind intents, taken from uuid4
    Missing,          \* a field that is None
    OwnResults,       \* what the runtime may conclude from the connectors
    OperatorResults   \* what operators may record

ASSUME FreshAssumption == EntryOrder \notin UnwindOrders
ASSUME MissingAssumption == Missing \notin UnwindOrders \cup UnwindIntents \cup {Entry}
ASSUME ResultsAssumption ==
    /\ OwnResults \subseteq Results /\ \A r \in OwnResults : r.source = "auto"
    /\ OperatorResults \subseteq Results /\ \A r \in OperatorResults : r.source = "operator"

Orders == UnwindOrders \cup {EntryOrder}
Limits == {"trace"} \cup UnwindOrders
Statuses == {"active", "handoff_required", "resolved"}
LifecycleStates ==
    {"recovery_required", "unwind_in_progress", "manual_handoff", "closed"}

Trace ==
    [status : Statuses, lifecycle : LifecycleStates,
     residual : {"none", "zero", "open"},
     intent : {Entry, Missing},                  \* intent_id
     action : UnwindIntents \cup {Missing},      \* linked_unwind_action_id
     order : UnwindOrders \cup {Missing},        \* linked_unwind_order_id
     handoff : BOOLEAN,                          \* manual_handoff_required
     result : Results \cup {Missing},            \* reconciliation_...
     streak : 0 .. MismatchLimit]                \* ..._mismatch_streak

VARIABLES
    trace,     \* the trace in Redis
    preview,   \* lifecycle_preview of the run's latest evaluation
    intents,   \* unwind intents in the order store
    orders,    \* order id -> [intent, class]
    overdue,   \* time limits that have passed
    op         \* what each agent is in the middle of

vars == <<trace, preview, intents, orders, overdue, op>>

Idle == [at |-> "idle"]
AgentSteps ==
    {"idle", "orders", "decide", "intent", "submit", "cancel", "fill",
     "transition", "write", "sync", "evaluate"}

TypeOK ==
    /\ trace \in Trace
    /\ preview \in LifecycleStates \cup {"entry_submitting"}
    /\ intents \subseteq UnwindIntents
    /\ DOMAIN orders \subseteq Orders
    /\ \A o \in DOMAIN orders : orders[o].class \in StatusClasses
    /\ overdue \subseteq Limits
    /\ DOMAIN op = Agents
    /\ \A a \in Agents : op[a].at \in AgentSteps

IsTerminal(t) == t.status = "resolved"
IsOpen(o) == orders[o].class = "open"

\* _trace_intent_id: the unwind intent once there is one, else the entry.
IntentOf(t) == IF t.action # Missing THEN t.action ELSE t.intent

\* _related_orders: a trace that names no intent is about every order of its run.
RelatedOrders(t) ==
    {o \in DOMAIN orders : IntentOf(t) \in {Missing, orders[o].intent}}

\* {**f, **g}
Merged(f, g) ==
    [x \in DOMAIN f \cup DOMAIN g |-> IF x \in DOMAIN g THEN g[x] ELSE f[x]]

\* {**trace, **patch}: a patch names fields that every trace has.
Patched(t, patch) ==
    [field \in DOMAIN t |-> IF field \in DOMAIN patch THEN patch[field] ELSE t[field]]

\* A trace opened by a failed submit knows its intent, which may not have got as
\* far as an order; one opened by the submit-timeout watchdog does not.
Init ==
    /\ \E i \in {Entry, Missing}, stage \in {"recovery_required", "unwind_in_progress"} :
           /\ i = Missing => stage = "recovery_required"
           /\ trace = [status |-> "active", lifecycle |-> stage,
                       residual |-> "none", intent |-> i, action |-> Missing,
                       order |-> Missing, handoff |-> FALSE,
                       result |-> Missing, streak |-> 0]
    /\ preview = trace.lifecycle
    /\ intents = {}
    /\ \/ trace.intent = Entry /\ orders = << >>
       \/ \E c \in StatusClasses :
              orders = [o \in {EntryOrder} |-> [intent |-> Entry, class |-> c]]
    /\ overdue = {}
    /\ op = [a \in Agents |-> Idle]

Goto(a, step) == op' = [op EXCEPT ![a] = step]

-----------------------------------------------------------------------------
(* Redis steps shared by the handlers and the passes *)

\* Mutant: the residual is left as it was.
ResolvedKeepingResidual(residual) ==
    [status |-> "resolved", lifecycle |-> "closed", handoff |-> FALSE]

ResolvedPatch(residual) ==
    [status |-> "resolved", lifecycle |-> "closed", handoff |-> FALSE,
     residual |-> residual]

HandoffPatch ==
    [status |-> "handoff_required", lifecycle |-> "manual_handoff", handoff |-> TRUE]
UnwindPatch == [status |-> "active", lifecycle |-> "unwind_in_progress"]

Transition(patch) == [at |-> "transition", patch |-> patch]
Writing(t, patch) == [at |-> "write", copy |-> Patched(t, patch), resume |-> FALSE]

\* Mutant: the terminal check is dropped.
TransitionAnyway(a) ==
    /\ op[a].at = "transition"
    /\ Goto(a, Writing(trace, op[a].patch))
    /\ UNCHANGED <<trace, preview, intents, orders, overdue>>

\* transition_recovery_trace: read again, refuse a terminal trace.
ReadForTransition(a) ==
    /\ op[a].at = "transition"
    /\ Goto(a, IF IsTerminal(trace) THEN Idle ELSE Writing(trace, op[a].patch))
    /\ UNCHANGED <<trace, preview, intents, orders, overdue>>

\* Mutant: the evaluation is not synchronised after the write.
WriteOnly(a) ==
    /\ op[a].at = "write"
    /\ trace' = op[a].copy
    /\ Goto(a, Idle)
    /\ UNCHANGED <<preview, intents, orders, overdue>>

\* sync_recovery_trace: SET, whatever the key holds by now.
Write(a) ==
    /\ op[a].at = "write"
    /\ trace' = op[a].copy
    /\ Goto(a, [op[a] EXCEPT !.at = "sync"])
    /\ UNCHANGED <<preview, intents, orders, overdue>>

\* The trace is read back ...
ReadBack(a) ==
    /\ op[a].at = "sync"
    /\ Goto(a, [op[a] EXCEPT !.at = "evaluate", !.copy = trace])
    /\ UNCHANGED <<trace, preview, intents, orders, overdue>>

Preview(t) ==
    IF t.status = "resolved" THEN "closed"
    ELSE IF t.status = "handoff_required" THEN "manual_handoff"
    ELSE t.lifecycle

\* ... and the evaluation is written from what was read
\* (sync_arbitrage_evaluation_recovery_state).  A pass that recorded its own
\* reconciliation goes on with the trace it read back.
SyncEvaluation(a) ==
    /\ op[a].at = "evaluate"
    /\ preview' = Preview(op[a].copy)
    /\ Goto(a, IF op[a].resume
               THEN [at |-> "decide", seen |-> op[a].copy, active |-> op[a].active]
               ELSE Idle)
    /\ UNCHANGED <<trace, intents, orders, overdue>>

-----------------------------------------------------------------------------
(* A pass of the recovery runtime over the trace *)

\* Only active traces are listed.
BeginPass(a) ==
    /\ op[a] = Idle /\ trace.status = "active"
    /\ Goto(a, [at |-> "orders", seen |-> trace])
    /\ UNCHANGED <<trace, preview, intents, orders, overdue>>

HasActiveOrders(t) == \E o \in RelatedOrders(t) : IsOpen(o)

NextStreak(t, r) ==
    IF r.result = "matched" THEN 0
    ELSE IF t.streak < MismatchLimit THEN t.streak + 1 ELSE MismatchLimit

\* What a recorded result changes in the trace.
Recording(t, r) == [result |-> r, streak |-> NextStreak(t, r)]

\* An operator's result is never replaced by the runtime's own.
MayRecordOwn(t) ==
    /\ t.result # Missing => t.result.source = "auto"
    /\ RelatedOrders(t) # {}
    /\ IntentOf(t) # Missing

\* _auto_record_reconciliation, when the connectors answer.
RecordOwnResult(a) ==
    /\ op[a].at = "orders" /\ MayRecordOwn(op[a].seen)
    /\ \E r \in OwnResults :
           Goto(a, [at |-> "write",
                    copy |-> Patched(op[a].seen, Recording(op[a].seen, r)),
                    resume |-> TRUE,
                    active |-> HasActiveOrders(op[a].seen)])
    /\ UNCHANGED <<trace, preview, intents, orders, overdue>>

RecordNothing(a) ==
    /\ op[a].at = "orders"
    /\ Goto(a, [at |-> "decide", seen |-> op[a].seen,
                active |-> HasActiveOrders(op[a].seen)])
    /\ UNCHANGED <<trace, preview, intents, orders, overdue>>

\* An observation that was recent when recorded may have become old.
Aged(r) == IF r.observedAt = "fresh" THEN {r, [r EXCEPT !.observedAt = "old"]} ELSE {r}

ResultVerdicts(t) ==
    IF t.result = Missing THEN {"undecided"}
    ELSE {Verdict(r, IntentOf(t) # Missing, t.streak) : r \in Aged(t.result)}

UnwindOrderLost(t) ==
    /\ t.order # Missing
    /\ \/ orders[t.order].class = "failed"
       \/ IsOpen(t.order) /\ t.order \in overdue

\* Mutant: no time limit on the trace itself.
PatientDecision(t, active, verdict) ==
    IF verdict # "undecided" THEN verdict
    ELSE IF UnwindOrderLost(t) THEN "handoff"
    ELSE IF ~active /\ t.residual = "zero" THEN "resolve"
    ELSE "skip"

\* What _process_trace does with the trace it holds.
Decision(t, active, verdict) ==
    IF verdict # "undecided" THEN verdict
    ELSE IF UnwindOrderLost(t) THEN "handoff"
    ELSE IF ~active /\ t.residual = "zero" THEN "resolve"
    ELSE IF "trace" \in overdue /\ ~t.handoff THEN "handoff"
    ELSE "skip"

Decide(a) ==
    /\ op[a].at = "decide"
    /\ \E verdict \in ResultVerdicts(op[a].seen) :
           LET t == op[a].seen
               decision == Decision(t, op[a].active, verdict)
           IN  Goto(a, CASE decision = "resolve" -> Writing(t, ResolvedPatch("zero"))
                         [] decision = "handoff" -> Writing(t, HandoffPatch)
                         [] decision = "skip" -> Idle)
    /\ UNCHANGED <<trace, preview, intents, orders, overdue>>

-----------------------------------------------------------------------------
(* Operator handlers *)

\* resolve: the residual is the request's, or else the trace's.
Resolve(a) ==
    /\ op[a] = Idle
    /\ \E requested \in {"none", "zero"} :
           requested = "zero" \/ trace.residual = "zero"
    /\ Goto(a, Transition(ResolvedPatch("zero")))
    /\ UNCHANGED <<trace, preview, intents, orders, overdue>>

Handoff(a) ==
    /\ op[a] = Idle
    /\ Goto(a, Transition(HandoffPatch))
    /\ UNCHANGED <<trace, preview, intents, orders, overdue>>

StartedPatch(residual) ==
    [status |-> "active", lifecycle |-> "unwind_in_progress", handoff |-> FALSE,
     residual |-> residual]

\* start-unwind, with or without a new unwind intent.
StartUnwind(a) ==
    /\ op[a] = Idle /\ ~IsTerminal(trace)
    /\ \E residual \in {"none", "zero", "open"} :
           \/ Goto(a, Transition(StartedPatch(residual)))
           \/ /\ trace.action = Missing
              /\ Goto(a, [at |-> "intent", residual |-> residual])
    /\ UNCHANGED <<trace, preview, intents, orders, overdue>>

CreateUnwindIntent(a) ==
    /\ op[a].at = "intent"
    /\ \E i \in UnwindIntents \ intents :
           /\ intents' = intents \cup {i}
           /\ Goto(a, Transition(Merged(StartedPatch(op[a].residual), [action |-> i])))
    /\ UNCHANGED <<trace, preview, orders, overdue>>

\* Mutant: an order that is already linked is not looked for.
SubmitAnotherOrder(a) ==
    /\ op[a] = Idle /\ ~IsTerminal(trace) /\ trace.action # Missing
    /\ Goto(a, [at |-> "submit", intent |-> trace.action])
    /\ UNCHANGED <<trace, preview, intents, orders, overdue>>

\* submit-unwind-order
SubmitUnwindOrder(a) ==
    /\ op[a] = Idle /\ ~IsTerminal(trace)
    /\ trace.action # Missing /\ trace.order = Missing
    /\ Goto(a, [at |-> "submit", intent |-> trace.action])
    /\ UNCHANGED <<trace, preview, intents, orders, overdue>>

\* The order store takes the order or refuses it (conflict, invalid).
CreateUnwindOrder(a) ==
    /\ op[a].at = "submit"
    /\ \/ \E o \in UnwindOrders \ DOMAIN orders, class \in StatusClasses :
              /\ orders' = Merged(orders, [x \in {o} |->
                                               [intent |-> op[a].intent, class |-> class]])
              /\ Goto(a, Transition(Merged(UnwindPatch, [order |-> o])))
       \/ Goto(a, Idle) /\ UNCHANGED orders
    /\ UNCHANGED <<trace, preview, intents, overdue>>

\* _trace_cancel_candidate_orders
CancelCandidates(t) ==
    {o \in DOMAIN orders : /\ IsOpen(o)
                           /\ \/ orders[o].intent \in {t.intent, t.action}
                              \/ o = t.order}

\* cancel-open-orders: the exchange is asked order by order, and the trace is
\* written back with the status it had when the request began.
CancelOpenOrders(a) ==
    /\ op[a] = Idle /\ ~IsTerminal(trace) /\ CancelCandidates(trace) # {}
    /\ Goto(a, [at |-> "cancel", seen |-> trace, left |-> CancelCandidates(trace)])
    /\ UNCHANGED <<trace, preview, intents, orders, overdue>>

\* An order that is confirmed cancelled and not terminal by now is updated.
CancelOrder(a) ==
    /\ op[a].at = "cancel"
    /\ \E o \in op[a].left :
           /\ Goto(a, [op[a] EXCEPT !.left = @ \ {o}])
           /\ \/ UNCHANGED <<orders, overdue>>
              \/ /\ IsOpen(o)
                 /\ orders' = [orders EXCEPT ![o].class = "failed"]
                 /\ overdue' = overdue \ {o}
    /\ UNCHANGED <<trace, preview, intents>>

FinishCancel(a) ==
    /\ op[a].at = "cancel" /\ op[a].left = {}
    /\ Goto(a, Transition([status |-> op[a].seen.status,
                           lifecycle |-> op[a].seen.lifecycle]))
    /\ UNCHANGED <<trace, preview, intents, orders, overdue>>

\* record-unwind-fill
RecordUnwindFill(a) ==
    /\ op[a] = Idle /\ ~IsTerminal(trace) /\ trace.order # Missing
    /\ Goto(a, [at |-> "fill", seen |-> trace])
    /\ UNCHANGED <<trace, preview, intents, orders, overdue>>

\* The order store takes the fill unless the order is terminal.
CreateUnwindFill(a) ==
    /\ op[a].at = "fill"
    /\ LET o == op[a].seen.order
           Filled(class, residual) ==
               /\ IsOpen(o)
               /\ orders' = [orders EXCEPT ![o].class = class]
               /\ overdue' = overdue \ {o}
               /\ Goto(a, Transition(StartedPatch(residual)))
       IN  \/ Filled("filled", "zero")
           \/ Filled("open", op[a].seen.residual)
           \/ ~IsOpen(o) /\ Goto(a, Idle) /\ UNCHANGED <<orders, overdue>>
    /\ UNCHANGED <<trace, preview, intents>>

\* record-reconciliation: no second look at the status before the write.
RecordReconciliation(a) ==
    /\ op[a] = Idle /\ ~IsTerminal(trace)
    /\ \E r \in OperatorResults :
           Goto(a, Writing(trace, Recording(trace, r)))
    /\ UNCHANGED <<trace, preview, intents, orders, overdue>>

-----------------------------------------------------------------------------
(* The world around: the order routes and the clock *)

UpdateOrder(o) ==
    /\ o \in DOMAIN orders /\ IsOpen(o)
    /\ \E class \in StatusClasses : orders' = [orders EXCEPT ![o].class = class]
    /\ overdue' = overdue \ {o}
    /\ UNCHANGED <<trace, preview, intents, op>>

Expire(limit) ==
    /\ overdue' = overdue \cup {limit}
    /\ UNCHANGED <<trace, preview, intents, orders, op>>

\* Redis or the order store does not answer, or the process is restarted: the
\* agent stops where it is, and what it has written stays.
Fail(a) ==
    /\ op[a] # Idle
    /\ Goto(a, Idle)
    /\ UNCHANGED <<trace, preview, intents, orders, overdue>>

Continue(a) ==
    \/ ReadForTransition(a) \/ Write(a) \/ ReadBack(a) \/ SyncEvaluation(a)
    \/ RecordOwnResult(a) \/ RecordNothing(a) \/ Decide(a)
    \/ CreateUnwindIntent(a) \/ CreateUnwindOrder(a)
    \/ CancelOrder(a) \/ FinishCancel(a) \/ CreateUnwindFill(a)

Request(a) ==
    \/ Resolve(a) \/ Handoff(a) \/ StartUnwind(a) \/ SubmitUnwindOrder(a)
    \/ CancelOpenOrders(a) \/ RecordUnwindFill(a) \/ RecordReconciliation(a)

World == (\E o \in Orders : UpdateOrder(o)) \/ (\E limit \in Limits : Expire(limit))

Next == (\E a \in Agents : BeginPass(a) \/ Request(a) \/ Continue(a)) \/ World

Spec == Init /\ [][Next]_vars
FailingSpec == Init /\ [][Next \/ \E a \in Agents : Fail(a)]_vars

\* Threads that are in the middle of something go on; the recovery thread ticks
\* for ever, so that a pass begins again and again; time passes.
FairSpec ==
    /\ Spec
    /\ \A a \in Agents : WF_vars(Continue(a)) /\ SF_vars(BeginPass(a))
    /\ WF_vars(Expire("trace"))

-----------------------------------------------------------------------------
(* Properties *)

\* A resolved trace records no residual exposure and is closed, and a trace that
\* was handed off shows it: status, lifecycle_state and residual of a trace are
\* written together, whoever wrote last and from however old a copy.
StatusAgrees ==
    /\ trace.status = "resolved" => trace.lifecycle = "closed" /\ trace.residual = "zero"
    /\ trace.status = "handoff_required" <=> trace.lifecycle = "manual_handoff"
    /\ trace.lifecycle = "closed" => trace.status = "resolved"

\* The unwind order of a trace exists and belongs to an unwind intent that the
\* order store knows, so the runtime's look-ups of it cannot miss.
LinksHold ==
    /\ trace.action # Missing => trace.action \in intents
    /\ trace.order # Missing =>
           trace.order \in DOMAIN orders /\ orders[trace.order].intent \in intents

\* submit-unwind-order creates at most one order to unwind the entry.
OneUnwindOrder ==
    Cardinality(UnwindOrders \cap DOMAIN orders) <= 1

\* A terminal trace is never written again: handlers answer RECOVERY_TRACE_TERMINAL.
TerminalStays == [][IsTerminal(trace) => trace' = trace]_trace

\* Whenever nobody is working on it, the evaluation shows the trace's state.
EvaluationShowsTrace ==
    (\A a \in Agents : op[a] = Idle) => preview = Preview(trace)

\* A trace as it was opened: nothing has been recorded or begun.
Untouched ==
    /\ trace.status = "active" /\ trace.result = Missing /\ trace.residual = "none"
    /\ intents = {} /\ overdue = {} /\ \A a \in Agents : op[a] = Idle

\* The cascade of checks in _process_trace will resolve such a trace on any
\* reconciliation result recorded for it exactly when the result is a trustworthy
\* match, whether or not the trace knows its intent and whatever its streak.
ResolvesExactlyOnTrustworthyMatch ==
    Untouched =>
        LET known == IntentOf(trace) # Missing
        IN  \A r \in Results, streak \in 0 .. MismatchLimit :
                Verdict(r, known, streak) = "resolve" <=> TrustworthyMatch(r, known)

\* _process_trace leaves a result without a verdict only when it has something
\* left to wait for: an open order, or a match that still admits a residual.  A
\* mismatch without open orders cannot mend by waiting.
UndecidedHasWorkLeft ==
    Untouched =>
        \A r \in Results, streak \in 0 .. MismatchLimit :
            Verdict(r, IntentOf(trace) # Missing, streak) = "undecided" =>
                r.openOrders > 0 \/ (r.result = "matched" /\ r.residual = "open")

\* Recovery ends: an active trace that nobody has taken over is resolved, or
\* handed off when its time is up.
RecoveryEnds ==
    (trace.status = "active" /\ ~trace.handoff) ~> (trace.status # "active" \/ trace.handoff)
=============================================================================
