--------------------------- MODULE EntryCycleProofs ---------------------------
(***************************************************************************)
(* Proofs about EntryCycle: entries of any runs of any bots into one pair. *)
(***************************************************************************)
EXTENDS EntryCycle, TLAPS

-----------------------------------------------------------------------------
(* What each thread holds, whoever it is and wherever it is stopped.         *)

Evaluation ==
    {NoEvaluation} \cup [stage : Stages, intent : Intents \cup {NoIntent}, pair : BOOLEAN]

LookSteps == [at : {"handoffs", "actives", "enter", "decide"}, run : Runs,
              goal : {"enter"}, blocking : SUBSET Traces]
EvaluateSteps == [at : {"evaluate", "persist", "unlock"}, run : Runs, pair : BOOLEAN,
                  stage : {"decision_accepted", "decision_rejected"}, blocking : SUBSET Traces]
IntentSteps == [at : {"refresh", "record", "submit"}, run : Runs, pair : BOOLEAN,
                intent : Intents]
ReportSteps == [at : {"report", "relock"}, run : Runs, pair : BOOLEAN,
                intent : Intents, stage : HeldStages \cup {"closed"}]
FailedSteps == [at : {"open_trace"}, run : Runs, pair : BOOLEAN,
                intent : Intents, stage : ActiveStatuses]
ShowSteps == [at : {"show_trace"}, run : Runs, pair : BOOLEAN, trace : Traces]
RelockSteps == [at : {"relock_trace"}, run : Runs, pair : BOOLEAN,
                stage : HeldStages \cup {"closed"}]

\* The strategy runtime and the requests.
EntryOps ==
    {Idle} \cup [at : {"reconcile"}, run : Runs]
    \cup LookSteps \cup EvaluateSteps \cup IntentSteps \cup ReportSteps
    \cup FailedSteps \cup ShowSteps \cup RelockSteps

\* The two sweeps of the recovery runtime.
CloseSteps == [at : {"handoffs", "actives", "ended", "close"}, run : Runs,
               goal : {"ended"}, item : Evaluation]
WatchSteps == [at : {"handoffs", "actives", "overdue"}, run : Runs, goal : {"overdue"}]
TimeoutSteps == [at : {"open_trace"}, run : Runs, pair : {FALSE}, stage : {"recovery_required"}]

SweepOps == {Idle} \cup CloseSteps \cup WatchSteps \cup TimeoutSteps \cup ShowSteps

IntentRows == [run : Runs, status : {"created", "submitted", "simulated"},
               orders : {"none", "open", "filled", "ended"}]
TraceRows == [run : Runs, status : BlockingStatuses \cup {"resolved"}]

OpsOK ==
    /\ DOMAIN op = Threads
    /\ \A a \in Runtimes \cup Handlers : op[a] \in EntryOps
    /\ \A w \in Watchers : op[w] \in SweepOps

CycleType ==
    /\ runs \in [Runs -> {"absent", "running", "stopped"}]
    /\ evaluation \in [Runs -> Evaluation]
    /\ DOMAIN intents \subseteq Intents
    /\ \A i \in DOMAIN intents : intents[i] \in IntentRows
    /\ DOMAIN traces \subseteq Traces
    /\ \A t \in DOMAIN traces : traces[t] \in TraceRows
    /\ holder \in Runs \cup {NoRun}
    /\ late \subseteq DOMAIN intents
    /\ OpsOK
    /\ \A a \in Threads : op[a].at = "show_trace" => op[a].trace \in DOMAIN traces

\* The shape of what is held follows from its "at".
LEMMA EntryOpsAt ==
    ASSUME NEW o \in EntryOps
    PROVE  /\ o.at = "idle" => o = Idle
           /\ o.at = "reconcile" => o \in [at : {"reconcile"}, run : Runs]
           /\ o.at \in {"handoffs", "actives", "enter", "decide"} => o \in LookSteps
           /\ o.at \in {"evaluate", "persist", "unlock"} => o \in EvaluateSteps
           /\ o.at \in {"refresh", "record", "submit"} => o \in IntentSteps
           /\ o.at \in {"report", "relock"} => o \in ReportSteps
           /\ o.at = "open_trace" => o \in FailedSteps
           /\ o.at = "show_trace" => o \in ShowSteps
           /\ o.at = "relock_trace" => o \in RelockSteps
           /\ o.at \notin {"ended", "close", "overdue"}
BY DEF EntryOps, Idle, LookSteps, EvaluateSteps, IntentSteps, ReportSteps, FailedSteps,
       ShowSteps, RelockSteps

LEMMA SweepOpsAt ==
    ASSUME NEW o \in SweepOps
    PROVE  /\ o.at = "idle" => o = Idle
           /\ o.at \in {"handoffs", "actives"} => o \in CloseSteps \cup WatchSteps
           /\ o.at \in {"ended", "close"} => o \in CloseSteps
           /\ o.at = "overdue" => o \in WatchSteps
           /\ o.at = "open_trace" => o \in TimeoutSteps
           /\ o.at = "show_trace" => o \in ShowSteps
           /\ o.at \notin {"reconcile", "enter", "decide", "evaluate", "persist", "unlock", "refresh", "record",
                           "submit", "report", "relock", "relock_trace"}
<1>1. CASE o \in {Idle} \cup ShowSteps
  BY <1>1 DEF Idle, ShowSteps
<1>2. CASE o \in CloseSteps
  BY <1>2 DEF CloseSteps
<1>3. CASE o \in WatchSteps
  BY <1>3 DEF WatchSteps
<1>4. CASE o \in TimeoutSteps
  BY <1>4 DEF TimeoutSteps
<1>5. QED
  BY <1>1, <1>2, <1>3, <1>4 DEF SweepOps

LEMMA EvaluationFields ==
    ASSUME NEW e \in Evaluation
    PROVE  /\ e.stage \in Stages \cup {"none"}
           /\ e.intent \in Intents \cup {NoIntent}
           /\ e.pair \in BOOLEAN
<1>1. CASE e = NoEvaluation
  BY <1>1 DEF NoEvaluation
<1>2. CASE e \in [stage : Stages, intent : Intents \cup {NoIntent}, pair : BOOLEAN]
  BY <1>2
<1>3. QED
  BY <1>1, <1>2 DEF Evaluation

\* GotoAt changes "at" alone.
LEMMA GotoAtStep ==
    ASSUME NEW a \in DOMAIN op, NEW at, GotoAt(a, at)
    PROVE  Goto(a, [op[a] EXCEPT !.at = at])
BY DEF GotoAt, Goto

LEMMA GotoStep ==
    ASSUME NEW a \in DOMAIN op, NEW step, Goto(a, step)
    PROVE  DOMAIN op' = DOMAIN op /\ \A b \in DOMAIN op : op'[b] = IF b = a THEN step ELSE op[b]
BY DEF Goto

LEMMA AddedKey ==
    ASSUME NEW f, NEW key, NEW value
    PROVE  /\ DOMAIN Added(f, key, value) = DOMAIN f \cup {key}
           /\ Added(f, key, value)[key] = value
           /\ \A x \in DOMAIN f : x # key => Added(f, key, value)[x] = f[x]
BY DEF Added

-----------------------------------------------------------------------------
(* Types *)

\* A thread begins something, goes on with it, or is restarted.
Act(a) ==
    \/ Continue(a) \/ Crash(a)
    \/ a \in Runtimes /\ BeginRun(a)
    \/ a \in Handlers /\ Request(a)
    \/ a \in Watchers /\ (BeginClose(a) \/ BeginWatch(a))

\* Everything that any of the specifications allows.
AnyNext == World \/ \E a \in Threads : Act(a)

\* What a thread does is right if what it holds next is.
LEMMA GotoType ==
    ASSUME CycleType, NEW a \in Threads, NEW step, Goto(a, step),
           a \in Runtimes \cup Handlers => step \in EntryOps,
           a \in Watchers => step \in SweepOps,
           step.at = "show_trace" => step.trace \in DOMAIN traces',
           DOMAIN traces \subseteq DOMAIN traces'
    PROVE  /\ OpsOK'
           /\ \A b \in Threads : op'[b].at = "show_trace" => op'[b].trace \in DOMAIN traces'
<1>1. DOMAIN op' = Threads /\ \A b \in Threads : op'[b] = IF b = a THEN step ELSE op[b]
  BY GotoStep DEF CycleType, OpsOK
<1>2. \A b \in Threads : op'[b].at = "show_trace" => op'[b].trace \in DOMAIN traces'
  BY <1>1 DEF CycleType
<1>3. OpsOK'
  BY <1>1 DEF CycleType, OpsOK, Threads
<1>4. QED
  BY <1>2, <1>3

\* The runtime and the requests.
LEMMA EntryActType ==
    ASSUME CycleType, NEW a \in Runtimes \cup Handlers, Act(a)
    PROVE  /\ OpsOK'
           /\ \A b \in Threads : op'[b].at = "show_trace" => op'[b].trace \in DOMAIN traces'
<1> DEFINE o == op[a]
<1>1. /\ a \in Threads /\ a \notin Watchers /\ o \in EntryOps /\ DOMAIN op = Threads
      /\ a \in DOMAIN op
  BY ThreadAssumption DEF CycleType, OpsOK, Threads
<1>2. ASSUME NEW step \in EntryOps, Goto(a, step),
             step.at = "show_trace" => step.trace \in DOMAIN traces', DOMAIN traces \subseteq DOMAIN traces'
      PROVE  /\ OpsOK'
             /\ \A b \in Threads : op'[b].at = "show_trace" => op'[b].trace \in DOMAIN traces'
  BY <1>1, <1>2, GotoType
<1>3. ASSUME NEW step \in EntryOps, Goto(a, step), step.at # "show_trace", UNCHANGED traces
      PROVE  /\ OpsOK'
             /\ \A b \in Threads : op'[b].at = "show_trace" => op'[b].trace \in DOMAIN traces'
  BY <1>2, <1>3
<1>4. Idle \in EntryOps /\ Idle.at # "show_trace"
  BY DEF EntryOps, Idle
<1>5. \A at : GotoAt(a, at) => Goto(a, [o EXCEPT !.at = at])
  BY <1>1, GotoAtStep
<1>6. \A r \in Runs : Blocking(r) \in SUBSET Traces
  BY DEF Blocking, CycleType
<1> HIDE DEF o
<1>7. CASE Crash(a)
  BY <1>3, <1>4, <1>7 DEF Crash
<1>8. CASE BeginRun(a)
  <2>1. PICK r \in Runs : Goto(a, [at |-> "reconcile", run |-> r]) /\ UNCHANGED traces
    BY <1>8 DEF BeginRun
  <2>2. [at |-> "reconcile", run |-> r] \in EntryOps
    BY DEF EntryOps
  <2>3. QED
    BY <1>3, <2>1, <2>2
<1>9. CASE Request(a)
  <2>1. PICK r \in Runs, stage \in {"decision_accepted", "decision_rejected"} :
            /\ Goto(a, [at |-> "evaluate", run |-> r, stage |-> stage, pair |-> FALSE,
                        blocking |-> {}])
            /\ UNCHANGED traces
    BY <1>9 DEF Request
  <2>2. [at |-> "evaluate", run |-> r, stage |-> stage, pair |-> FALSE, blocking |-> {}]
            \in EvaluateSteps
    BY DEF EvaluateSteps
  <2>3. QED
    BY <1>3, <2>1, <2>2 DEF EntryOps
<1>10. CASE ReconcileLock(a)
  <2>1. o \in [at : {"reconcile"}, run : Runs]
    BY <1>1, <1>10, EntryOpsAt DEF ReconcileLock, o
  <2>2. o.run \in Runs
    BY <2>1
  <2>3. /\ Goto(a, [at |-> "handoffs", run |-> o.run, goal |-> "enter", blocking |-> Blocking(o.run)])
        /\ UNCHANGED traces
    BY <1>10 DEF ReconcileLock, o
  <2>4. [at |-> "handoffs", run |-> o.run, goal |-> "enter", blocking |-> Blocking(o.run)] \in LookSteps
    BY <1>6, <2>2 DEF LookSteps
  <2>5. QED
    BY <1>3, <2>3, <2>4 DEF EntryOps
<1>11. CASE ScanHandoffs(a) \/ ScanActives(a) \/ Load(a)
  <2>1. o \in LookSteps /\ UNCHANGED traces
    BY <1>1, <1>11, EntryOpsAt DEF ScanHandoffs, ScanActives, Load, o
  <2>2. \E at \in {"actives", "enter", "decide"} : Goto(a, Idle) \/ GotoAt(a, at)
    BY <1>11, <2>1 DEF ScanHandoffs, ScanActives, Load, o, LookSteps
  <2>3. \A at \in {"actives", "enter", "decide"} :
            [o EXCEPT !.at = at] \in LookSteps /\ [o EXCEPT !.at = at].at # "show_trace"
    BY <2>1 DEF LookSteps
  <2>4. QED
    BY <1>3, <1>4, <1>5, <2>1, <2>2, <2>3 DEF EntryOps
<1>12. CASE Decide(a)
  <2>1. o \in LookSteps /\ UNCHANGED traces
    BY <1>1, <1>12, EntryOpsAt DEF Decide, o
  <2>2. PICK stage \in {"decision_accepted", "decision_rejected"}, pair \in BOOLEAN :
            Goto(a, Evaluating(a, stage, pair))
    BY <1>12 DEF Decide, DecideLocked, DecideBlocked
  <2>3. Evaluating(a, stage, pair) \in EvaluateSteps
    BY <2>1 DEF Evaluating, EvaluateSteps, LookSteps, o
  <2>4. Evaluating(a, stage, pair).at # "show_trace"
    BY DEF Evaluating
  <2>5. QED
    BY <1>3, <2>1, <2>2, <2>3, <2>4 DEF EntryOps
<1>13. CASE Evaluate(a)
  <2>1. o \in EvaluateSteps /\ UNCHANGED traces
    BY <1>1, <1>13, EntryOpsAt DEF Evaluate, o
  <2>2. Goto(a, Idle) \/ GotoAt(a, "persist")
    BY <1>13 DEF Evaluate
  <2>3. [o EXCEPT !.at = "persist"] \in EvaluateSteps /\ [o EXCEPT !.at = "persist"].at # "show_trace"
    BY <2>1 DEF EvaluateSteps
  <2>4. QED
    BY <1>3, <1>4, <1>5, <2>1, <2>2, <2>3 DEF EntryOps
<1>14. CASE Persist(a)
  <2>1. o \in EvaluateSteps /\ UNCHANGED traces
    BY <1>1, <1>14, EntryOpsAt DEF Persist, o
  <2>2. PICK i \in Intents, at \in {"refresh", "record"} :
            Goto(a, [at |-> at, run |-> o.run, pair |-> o.pair, intent |-> i])
    BY <1>14 DEF Persist, o
  <2>3. [at |-> at, run |-> o.run, pair |-> o.pair, intent |-> i] \in IntentSteps
    BY <2>1 DEF IntentSteps, EvaluateSteps
  <2>4. QED
    BY <1>3, <2>1, <2>2, <2>3 DEF EntryOps
<1>15. CASE Refresh(a) \/ Record(a)
  <2>1. o \in IntentSteps /\ UNCHANGED traces
    BY <1>1, <1>15, EntryOpsAt DEF Refresh, Record, o
  <2>2. \E at \in {"record", "submit"} : Goto(a, Idle) \/ GotoAt(a, at)
    BY <1>15 DEF Refresh, Record
  <2>3. \A at \in {"record", "submit"} :
            [o EXCEPT !.at = at] \in IntentSteps /\ [o EXCEPT !.at = at].at # "show_trace"
    BY <2>1 DEF IntentSteps
  <2>4. QED
    BY <1>3, <1>4, <1>5, <2>1, <2>2, <2>3 DEF EntryOps
<1>16. CASE Submit(a)
  <2>1. o \in IntentSteps /\ UNCHANGED traces
    BY <1>1, <1>16, EntryOpsAt DEF Submit, o
  <2>2. PICK out \in SubmitOutcomes :
            Goto(a, [at |-> "report", run |-> o.run, pair |-> o.pair, intent |-> o.intent,
                     stage |-> out.stage])
    BY <1>16 DEF Submit, o
  <2>3. out.stage \in HeldStages \cup {"closed"}
    BY DEF SubmitOutcomes, HeldStages, ActiveStatuses
  <2>4. [at |-> "report", run |-> o.run, pair |-> o.pair, intent |-> o.intent,
         stage |-> out.stage] \in ReportSteps
    BY <2>1, <2>3 DEF IntentSteps, ReportSteps
  <2>5. QED
    BY <1>3, <2>1, <2>2, <2>4 DEF EntryOps
<1>17. CASE Report(a)
  <2>1. o \in ReportSteps /\ UNCHANGED traces /\ GotoAt(a, "relock")
    BY <1>1, <1>17, EntryOpsAt DEF Report, o
  <2>2. [o EXCEPT !.at = "relock"] \in ReportSteps /\ [o EXCEPT !.at = "relock"].at # "show_trace"
    BY <2>1 DEF ReportSteps
  <2>3. QED
    BY <1>3, <1>5, <2>1, <2>2 DEF EntryOps
<1>18. CASE Relock(a)
  <2>1. /\ UNCHANGED traces
        /\ \/ Goto(a, Idle)
           \/ o.at = "relock" /\ o.stage \in ActiveStatuses /\ GotoAt(a, "open_trace")
    BY <1>18 DEF Relock, o
  <2>2. CASE o.at = "relock" /\ o.stage \in ActiveStatuses /\ GotoAt(a, "open_trace")
    <3>1. o \in ReportSteps
      BY <1>1, <2>2, EntryOpsAt DEF o
    <3>2. /\ [o EXCEPT !.at = "open_trace"] \in FailedSteps
          /\ [o EXCEPT !.at = "open_trace"].at # "show_trace"
      BY <2>2, <3>1 DEF ReportSteps, FailedSteps
    <3>3. QED
      BY <1>3, <1>5, <2>1, <2>2, <3>2 DEF EntryOps
  <2>3. QED
    BY <1>3, <1>4, <2>1, <2>2
<1>19. CASE OpenTrace(a)
  <2>1. o \in FailedSteps
    BY <1>1, <1>19, EntryOpsAt DEF OpenTrace, o
  <2>2. PICK t \in Traces \ DOMAIN traces :
            /\ traces' = Added(traces, t, [run |-> o.run, status |-> o.stage])
            /\ Goto(a, [at |-> "show_trace", run |-> o.run, pair |-> o.pair, trace |-> t])
    BY <1>19 DEF OpenTrace, o
  <2>3. [at |-> "show_trace", run |-> o.run, pair |-> o.pair, trace |-> t] \in ShowSteps
    BY <2>1 DEF FailedSteps, ShowSteps
  <2>4. DOMAIN traces' = DOMAIN traces \cup {t}
    BY <2>2, AddedKey
  <2>5. QED
    BY <1>2, <2>2, <2>3, <2>4 DEF EntryOps
<1>20. CASE ShowTrace(a)
  <2> DEFINE status == traces[o.trace].status
             next == [at |-> "relock_trace", run |-> o.run, stage |-> Preview(status),
                      pair |-> evaluation[o.run].pair]
  <2>1. o \in ShowSteps /\ UNCHANGED traces /\ Goto(a, next)
    BY <1>1, <1>20, EntryOpsAt DEF ShowTrace, o
  <2>2. o.trace \in DOMAIN traces
    BY <1>1, <1>20 DEF CycleType, ShowTrace, o
  <2>3. status \in BlockingStatuses \cup {"resolved"}
    BY <2>2 DEF CycleType, TraceRows
  <2>4. Preview(status) \in HeldStages \cup {"closed"}
    BY <2>3 DEF Preview, BlockingStatuses, ActiveStatuses, HeldStages
  <2>5. evaluation[o.run].pair \in BOOLEAN
    <3>1. o.run \in Runs /\ evaluation \in [Runs -> Evaluation]
      BY <2>1 DEF CycleType, ShowSteps
    <3>2. QED
      BY <3>1, EvaluationFields
  <2>6. next \in RelockSteps
    BY <2>1, <2>4, <2>5 DEF RelockSteps, ShowSteps
  <2>7. QED
    BY <1>3, <2>1, <2>6 DEF EntryOps
<1>21. CASE PersistRefused(a) \/ Unlock(a)
  <2>1. o \in EvaluateSteps /\ UNCHANGED traces /\ (Goto(a, Idle) \/ GotoAt(a, "unlock"))
    BY <1>1, <1>21, EntryOpsAt DEF PersistRefused, Unlock, o
  <2>2. [o EXCEPT !.at = "unlock"] \in EvaluateSteps /\ [o EXCEPT !.at = "unlock"].at # "show_trace"
    BY <2>1 DEF EvaluateSteps
  <2>3. QED
    BY <1>3, <1>4, <1>5, <2>1, <2>2 DEF EntryOps
<1>22. QED
  <2>1. o.at \notin {"ended", "close", "overdue"}
    BY <1>1, EntryOpsAt
  <2>2. ~CheckEnded(a) /\ ~Close(a) /\ ~CheckOverdue(a)
    BY <2>1 DEF CheckEnded, Close, CheckOverdue, o
  <2>3. QED
    BY <1>1, <1>7, <1>8, <1>9, <1>10, <1>11, <1>12, <1>13, <1>14, <1>15, <1>16, <1>17, <1>18, <1>19,
       <1>20, <1>21, <2>2 DEF Act, Continue, EntrySteps

\* The sweeps.
LEMMA SweepActType ==
    ASSUME CycleType, NEW w \in Watchers, Act(w)
    PROVE  /\ OpsOK'
           /\ \A b \in Threads : op'[b].at = "show_trace" => op'[b].trace \in DOMAIN traces'
<1> DEFINE o == op[w]
<1>1. /\ w \in Threads /\ w \notin Runtimes \cup Handlers /\ o \in SweepOps
      /\ DOMAIN op = Threads /\ w \in DOMAIN op
  BY ThreadAssumption DEF CycleType, OpsOK, Threads
<1>2. ASSUME NEW step \in SweepOps, Goto(w, step),
             step.at = "show_trace" => step.trace \in DOMAIN traces', DOMAIN traces \subseteq DOMAIN traces'
      PROVE  /\ OpsOK'
             /\ \A b \in Threads : op'[b].at = "show_trace" => op'[b].trace \in DOMAIN traces'
  BY <1>1, <1>2, GotoType
<1>3. ASSUME NEW step \in SweepOps, Goto(w, step), step.at # "show_trace", UNCHANGED traces
      PROVE  /\ OpsOK'
             /\ \A b \in Threads : op'[b].at = "show_trace" => op'[b].trace \in DOMAIN traces'
  BY <1>2, <1>3
<1>4. Idle \in SweepOps /\ Idle.at # "show_trace"
  BY DEF SweepOps, Idle
<1>5. \A at : GotoAt(w, at) => Goto(w, [o EXCEPT !.at = at])
  BY <1>1, GotoAtStep
<1>6. \A r \in Runs : evaluation[r] \in Evaluation
  BY DEF CycleType
<1> HIDE DEF o
<1>7. CASE Crash(w)
  BY <1>3, <1>4, <1>7 DEF Crash
<1>8. CASE BeginClose(w)
  <2>1. PICK r \in Runs :
            /\ Goto(w, [at |-> "handoffs", run |-> r, goal |-> "ended", item |-> evaluation[r]])
            /\ UNCHANGED traces
    BY <1>8 DEF BeginClose
  <2>2. [at |-> "handoffs", run |-> r, goal |-> "ended", item |-> evaluation[r]] \in CloseSteps
    BY <1>6 DEF CloseSteps
  <2>3. QED
    BY <1>3, <2>1, <2>2 DEF SweepOps
<1>9. CASE BeginWatch(w)
  <2>1. PICK r \in Runs :
            Goto(w, [at |-> "handoffs", run |-> r, goal |-> "overdue"]) /\ UNCHANGED traces
    BY <1>9 DEF BeginWatch
  <2>2. [at |-> "handoffs", run |-> r, goal |-> "overdue"] \in WatchSteps
    BY DEF WatchSteps
  <2>3. QED
    BY <1>3, <2>1, <2>2 DEF SweepOps
<1>10. CASE ScanHandoffs(w) \/ ScanActives(w)
  <2>1. o \in CloseSteps \cup WatchSteps /\ UNCHANGED traces
    BY <1>1, <1>10, SweepOpsAt DEF ScanHandoffs, ScanActives, o
  <2>2. Goto(w, Idle) \/ GotoAt(w, "actives") \/ GotoAt(w, o.goal)
    BY <1>10 DEF ScanHandoffs, ScanActives, o
  <2>3. CASE o \in CloseSteps
    <3>1. \A at \in {"actives", "ended"} :
              [o EXCEPT !.at = at] \in CloseSteps /\ [o EXCEPT !.at = at].at # "show_trace"
      BY <2>3 DEF CloseSteps
    <3>2. o.goal = "ended"
      BY <2>3 DEF CloseSteps
    <3>3. QED
      BY <1>3, <1>4, <1>5, <2>1, <2>2, <3>1, <3>2 DEF SweepOps
  <2>4. CASE o \in WatchSteps
    <3>1. \A at \in {"actives", "overdue"} :
              [o EXCEPT !.at = at] \in WatchSteps /\ [o EXCEPT !.at = at].at # "show_trace"
      BY <2>4 DEF WatchSteps
    <3>2. o.goal = "overdue"
      BY <2>4 DEF WatchSteps
    <3>3. QED
      BY <1>3, <1>4, <1>5, <2>1, <2>2, <3>1, <3>2 DEF SweepOps
  <2>5. QED
    BY <2>1, <2>3, <2>4
<1>11. CASE CheckEnded(w)
  <2>1. o \in CloseSteps /\ UNCHANGED traces /\ (Goto(w, Idle) \/ GotoAt(w, "close"))
    BY <1>1, <1>11, SweepOpsAt DEF CheckEnded, o
  <2>2. [o EXCEPT !.at = "close"] \in CloseSteps /\ [o EXCEPT !.at = "close"].at # "show_trace"
    BY <2>1 DEF CloseSteps
  <2>3. QED
    BY <1>3, <1>4, <1>5, <2>1, <2>2 DEF SweepOps
<1>12. CASE Close(w)
  BY <1>3, <1>4, <1>12 DEF Close
<1>13. CASE CheckOverdue(w)
  <2> DEFINE next == [at |-> "open_trace", run |-> o.run, pair |-> FALSE,
                      stage |-> "recovery_required"]
  <2>1. o \in WatchSteps /\ UNCHANGED traces /\ (Goto(w, Idle) \/ Goto(w, next))
    BY <1>1, <1>13, SweepOpsAt DEF CheckOverdue, o
  <2>2. next \in TimeoutSteps
    BY <2>1 DEF TimeoutSteps, WatchSteps
  <2>3. QED
    BY <1>3, <1>4, <2>1, <2>2 DEF SweepOps
<1>14. CASE OpenTrace(w)
  <2>1. o \in TimeoutSteps
    BY <1>1, <1>14, SweepOpsAt DEF OpenTrace, o
  <2>2. PICK t \in Traces \ DOMAIN traces :
            /\ traces' = Added(traces, t, [run |-> o.run, status |-> o.stage])
            /\ Goto(w, [at |-> "show_trace", run |-> o.run, pair |-> o.pair, trace |-> t])
    BY <1>14 DEF OpenTrace, o
  <2>3. [at |-> "show_trace", run |-> o.run, pair |-> o.pair, trace |-> t] \in ShowSteps
    BY <2>1 DEF TimeoutSteps, ShowSteps
  <2>4. DOMAIN traces' = DOMAIN traces \cup {t}
    BY <2>2, AddedKey
  <2>5. QED
    BY <1>2, <2>2, <2>3, <2>4 DEF SweepOps
<1>15. CASE ShowTrace(w)
  BY <1>3, <1>4, <1>15 DEF ShowTrace
<1>16. QED
  <2>1. o.at \notin {"reconcile", "enter", "decide", "evaluate", "persist", "unlock", "refresh", "record",
                     "submit", "report", "relock", "relock_trace"}
    BY <1>1, SweepOpsAt
  <2>2. /\ ~ReconcileLock(w) /\ ~Load(w) /\ ~Decide(w) /\ ~Evaluate(w) /\ ~Persist(w)
        /\ ~Refresh(w) /\ ~Record(w) /\ ~Submit(w) /\ ~Report(w) /\ ~Relock(w)
        /\ ~PersistRefused(w) /\ ~Unlock(w)
    BY <2>1 DEF ReconcileLock, Load, Decide, Evaluate, Persist, Refresh, Record, Submit, Report,
                Relock, PersistRefused, Unlock, o
  <2>3. QED
    BY <1>1, <1>7, <1>8, <1>9, <1>10, <1>11, <1>12, <1>13, <1>14, <1>15, <2>2
       DEF Act, Continue, EntrySteps

LEMMA OpsAt ==
    ASSUME CycleType, NEW a \in Threads
    PROVE  /\ op[a].at = "reconcile" => op[a] \in [at : {"reconcile"}, run : Runs]
           /\ op[a].at = "decide" => op[a] \in LookSteps
           /\ op[a].at \in {"evaluate", "persist", "unlock"} => op[a] \in EvaluateSteps
           /\ op[a].at \in {"refresh", "record", "submit"} => op[a] \in IntentSteps
           /\ op[a].at \in {"report", "relock"} => op[a] \in ReportSteps
           /\ op[a].at = "open_trace" => op[a] \in FailedSteps \cup TimeoutSteps
           /\ op[a].at = "show_trace" => op[a] \in ShowSteps
           /\ op[a].at = "relock_trace" => op[a] \in RelockSteps
           /\ op[a].at = "close" => op[a] \in CloseSteps
<1>1. CASE op[a] \in EntryOps
  BY <1>1, EntryOpsAt
<1>2. CASE op[a] \in SweepOps
  BY <1>2, SweepOpsAt
<1>3. QED
  BY <1>1, <1>2 DEF CycleType, OpsOK, Threads

LEMMA SyncedType ==
    ASSUME CycleType, NEW r \in Runs, NEW status \in BlockingStatuses \cup {"resolved"}
    PROVE  Synced(r, status) \in [Runs -> Evaluation]
<1>1. Preview(status) \in Stages
  BY DEF Preview, BlockingStatuses, ActiveStatuses, Stages
<1>2. CASE evaluation[r] = NoEvaluation
  BY <1>2 DEF Synced, CycleType
<1>3. CASE evaluation[r] # NoEvaluation
  <2> DEFINE e == [evaluation[r] EXCEPT !.stage = Preview(status)]
  <2>1. evaluation[r] \in [stage : Stages, intent : Intents \cup {NoIntent}, pair : BOOLEAN]
    BY <1>3 DEF CycleType, Evaluation
  <2>2. e \in Evaluation
    BY <1>1, <2>1 DEF Evaluation
  <2>3. Synced(r, status) = [evaluation EXCEPT ![r] = e]
    BY <1>3 DEF Synced
  <2> HIDE DEF e
  <2>4. QED
    BY <2>2, <2>3 DEF CycleType
<1>4. QED
  BY <1>2, <1>3

LEMMA ClosedEvaluation ==
    ASSUME NEW e \in Evaluation
    PROVE  [e EXCEPT !.stage = "closed"] \in Evaluation
<1>1. [NoEvaluation EXCEPT !.stage = "closed"] \in
          [stage : Stages, intent : Intents \cup {NoIntent}, pair : BOOLEAN]
  BY DEF NoEvaluation, Stages
<1>2. CASE e # NoEvaluation
  BY <1>2 DEF Evaluation, Stages
<1>3. QED
  BY <1>1, <1>2 DEF Evaluation

LEMMA EvaluationType ==
    ASSUME CycleType, AnyNext
    PROVE  evaluation' \in [Runs -> Evaluation]
<1>1. evaluation \in [Runs -> Evaluation]
  BY DEF CycleType
<1>2. ASSUME NEW r, NEW e \in Evaluation, evaluation' = [evaluation EXCEPT ![r] = e]
      PROVE  evaluation' \in [Runs -> Evaluation]
  BY <1>1, <1>2
<1>3. \A stage \in Stages, i \in Intents \cup {NoIntent}, pair \in BOOLEAN :
          [stage |-> stage, intent |-> i, pair |-> pair] \in Evaluation
  BY DEF Evaluation
<1>4. ASSUME NEW a \in Threads, Evaluate(a) PROVE evaluation' \in [Runs -> Evaluation]
  <2>1. op[a].stage \in Stages /\ op[a].pair \in BOOLEAN
    <3>1. op[a] \in EvaluateSteps
      BY <1>4, OpsAt DEF Evaluate
    <3>2. QED
      BY <3>1 DEF EvaluateSteps, Stages
  <2>2. QED
    BY <1>2, <1>3, <1>4, <2>1 DEF Evaluate
<1>5. ASSUME NEW a \in Threads, Record(a) PROVE evaluation' \in [Runs -> Evaluation]
  <2>1. op[a] \in IntentSteps
    BY <1>5, OpsAt DEF Record
  <2>2. op[a].intent \in Intents /\ op[a].pair \in BOOLEAN
    BY <2>1 DEF IntentSteps
  <2>3. evaluation' = [evaluation EXCEPT ![op[a].run] = Shown(a, "intent_created")]
    BY <1>5 DEF Record
  <2>4. QED
    BY <1>2, <1>3, <2>2, <2>3 DEF Shown, Stages
<1>6. ASSUME NEW a \in Threads, Report(a) PROVE evaluation' \in [Runs -> Evaluation]
  <2>1. op[a] \in ReportSteps
    BY <1>6, OpsAt DEF Report
  <2>2. op[a].intent \in Intents /\ op[a].pair \in BOOLEAN /\ op[a].stage \in Stages
    BY <2>1 DEF ReportSteps, HeldStages, Stages
  <2>3. evaluation' = [evaluation EXCEPT ![op[a].run] = Shown(a, op[a].stage)]
    BY <1>6 DEF Report
  <2>4. QED
    BY <1>2, <1>3, <2>2, <2>3 DEF Shown
<1>7. ASSUME NEW a \in Threads, ShowTrace(a) PROVE evaluation' \in [Runs -> Evaluation]
  <2>1. op[a] \in ShowSteps /\ op[a].trace \in DOMAIN traces
    BY <1>7, OpsAt DEF ShowTrace, CycleType
  <2>2. op[a].run \in Runs /\ traces[op[a].trace].status \in BlockingStatuses \cup {"resolved"}
    BY <2>1 DEF ShowSteps, CycleType, TraceRows
  <2>3. QED
    BY <1>7, <2>2, SyncedType DEF ShowTrace
<1>8. ASSUME NEW w \in Threads, Close(w) PROVE evaluation' \in [Runs -> Evaluation]
  <2> DEFINE item == op[w].item
  <2>1. op[w] \in CloseSteps
    BY <1>8, OpsAt DEF Close
  <2>2. item \in Evaluation
    BY <2>1 DEF CloseSteps
  <2>3. [item EXCEPT !.stage = "closed"] \in Evaluation
    BY <2>2, ClosedEvaluation
  <2>4. QED
    BY <1>2, <1>8, <2>3 DEF Close
<1>9. CASE World
  <2>1. UNCHANGED evaluation \/ \E t : MoveTrace(t)
    BY <1>9 DEF World, StartRun, StopRun, OrdersProgress, SubmitTimePasses, ExpireLock
  <2>2. ASSUME NEW t, MoveTrace(t) PROVE evaluation' \in [Runs -> Evaluation]
    <3>1. traces[t].run \in Runs
      BY <2>2 DEF MoveTrace, CycleType, TraceRows
    <3>2. QED
      BY <2>2, <3>1, SyncedType DEF MoveTrace, BlockingStatuses, ActiveStatuses
  <2>3. QED
    BY <1>1, <2>1, <2>2
<1>10. ASSUME NEW a \in Threads, Act(a) PROVE evaluation' \in [Runs -> Evaluation]
  BY <1>1, <1>4, <1>5, <1>6, <1>7, <1>8, <1>10
     DEF Act, Continue, EntrySteps, PersistRefused, Unlock, Crash, BeginRun, Request,
         BeginClose, BeginWatch, ScanHandoffs, ScanActives, ReconcileLock, Load, Decide,
         CheckEnded, CheckOverdue, Persist, Refresh, Submit, Relock, OpenTrace
<1>11. QED
  BY <1>9, <1>10 DEF AnyNext

LEMMA IntentsType ==
    ASSUME CycleType, AnyNext
    PROVE  /\ DOMAIN intents' \subseteq Intents /\ late' \subseteq DOMAIN intents'
           /\ \A i \in DOMAIN intents' : intents'[i] \in IntentRows
<1> DEFINE Goal == /\ DOMAIN intents' \subseteq Intents /\ late' \subseteq DOMAIN intents'
                   /\ \A i \in DOMAIN intents' : intents'[i] \in IntentRows
<1>1. /\ DOMAIN intents \subseteq Intents /\ late \subseteq DOMAIN intents
      /\ \A i \in DOMAIN intents : intents[i] \in IntentRows
  BY DEF CycleType
<1>2. ASSUME UNCHANGED intents, late' \subseteq DOMAIN intents PROVE Goal
  BY <1>1, <1>2
<1>3. ASSUME NEW a \in Threads, Persist(a) PROVE Goal
  <2>1. op[a] \in EvaluateSteps
    BY <1>3, OpsAt DEF Persist
  <2> DEFINE row == [run |-> op[a].run, status |-> "created", orders |-> "none"]
  <2>2. PICK i \in Intents \ DOMAIN intents : intents' = Added(intents, i, row)
    BY <1>3 DEF Persist
  <2>3. row \in IntentRows
    BY <2>1 DEF EvaluateSteps, IntentRows
  <2>4. late' = late
    BY <1>3 DEF Persist
  <2> HIDE DEF row
  <2>5. DOMAIN intents' = DOMAIN intents \cup {i} /\ intents'[i] = row
        /\ \A j \in DOMAIN intents : j # i => intents'[j] = intents[j]
    BY <2>2 DEF Added
  <2>6. QED
    BY <1>1, <2>2, <2>3, <2>4, <2>5
<1>4. ASSUME NEW a \in Threads, Submit(a) PROVE Goal
  <2>1. PICK out \in SubmitOutcomes :
            intents' = [intents EXCEPT ![op[a].intent].status = out.status,
                                       ![op[a].intent].orders = out.orders]
    BY <1>4 DEF Submit
  <2>2. /\ out.status \in {"created", "submitted", "simulated"}
        /\ out.orders \in {"none", "open", "filled", "ended"}
    BY DEF SubmitOutcomes
  <2>3. DOMAIN intents' = DOMAIN intents
    BY <2>1
  <2>4. ASSUME NEW i \in DOMAIN intents PROVE intents'[i] \in IntentRows
    <3>1. intents[i] \in IntentRows
      BY <1>1
    <3>2. intents'[i] = intents[i]
          \/ intents'[i] = [[intents[i] EXCEPT !.status = out.status] EXCEPT !.orders = out.orders]
      BY <2>1
    <3>3. QED
      BY <2>2, <3>1, <3>2 DEF IntentRows
  <2>5. late' = late
    BY <1>4 DEF Submit
  <2>6. QED
    BY <1>1, <2>3, <2>4, <2>5
<1>5. ASSUME NEW i, OrdersProgress(i) PROVE Goal
  <2>1. /\ i \in DOMAIN intents /\ late' = late \ {i}
        /\ \/ intents' = [intents EXCEPT ![i].orders = "filled", ![i].status = "simulated"]
           \/ intents' = [intents EXCEPT ![i].orders = "ended"]
    BY <1>5 DEF OrdersProgress
  <2>2. DOMAIN intents' = DOMAIN intents
    BY <2>1
  <2>3. ASSUME NEW j \in DOMAIN intents PROVE intents'[j] \in IntentRows
    <3>1. intents[j] \in IntentRows
      BY <1>1
    <3>2. \/ intents'[j] = intents[j]
          \/ intents'[j] = [[intents[j] EXCEPT !.orders = "filled"] EXCEPT !.status = "simulated"]
          \/ intents'[j] = [intents[j] EXCEPT !.orders = "ended"]
      BY <2>1
    <3>3. QED
      BY <3>1, <3>2 DEF IntentRows
  <2>4. QED
    BY <1>1, <2>1, <2>2, <2>3
<1>6. ASSUME NEW i, SubmitTimePasses(i) PROVE Goal
  <2>1. UNCHANGED intents /\ late' = late \cup {i} /\ i \in DOMAIN intents
    BY <1>6 DEF SubmitTimePasses
  <2>2. QED
    BY <1>1, <1>2, <2>1
<1> SUFFICES Goal
  OBVIOUS
<1> HIDE DEF Goal
<1>7. CASE World
  <2>1. \/ intents' = intents /\ late' = late
        \/ \E i \in Intents : OrdersProgress(i) \/ SubmitTimePasses(i)
    BY <1>7 DEF World, StartRun, StopRun, MoveTrace, ExpireLock
  <2>2. QED
    BY <1>1, <1>2, <1>5, <1>6, <2>1
<1>8. ASSUME NEW a \in Threads, Act(a) PROVE Goal
  <2>1. UNCHANGED <<intents, late>> \/ Persist(a) \/ Submit(a)
    BY <1>8 DEF Act, Continue, EntrySteps, PersistRefused, Unlock, Crash, BeginRun, Request,
             BeginClose, BeginWatch, ScanHandoffs, ScanActives, ReconcileLock, Load, Decide,
             CheckEnded, CheckOverdue, Close, Evaluate, Record, Report, ShowTrace, Refresh,
             Relock, OpenTrace
  <2>2. QED
    BY <1>1, <1>2, <1>3, <1>4, <2>1
<1>9. QED
  BY <1>7, <1>8 DEF AnyNext

LEMMA TracesType ==
    ASSUME CycleType, AnyNext
    PROVE  /\ DOMAIN traces' \subseteq Traces /\ DOMAIN traces \subseteq DOMAIN traces'
           /\ \A t \in DOMAIN traces' : traces'[t] \in TraceRows
<1> DEFINE Goal == /\ DOMAIN traces' \subseteq Traces /\ DOMAIN traces \subseteq DOMAIN traces'
                   /\ \A t \in DOMAIN traces' : traces'[t] \in TraceRows
<1> SUFFICES Goal
  OBVIOUS
<1>1. DOMAIN traces \subseteq Traces /\ \A t \in DOMAIN traces : traces[t] \in TraceRows
  BY DEF CycleType
<1>2. CASE UNCHANGED traces
  BY <1>1, <1>2
<1>3. ASSUME NEW a \in Threads, OpenTrace(a) PROVE Goal
  <2> DEFINE row == [run |-> op[a].run, status |-> op[a].stage]
  <2>1. op[a] \in FailedSteps \cup TimeoutSteps
    BY <1>3, OpsAt DEF OpenTrace
  <2>2. PICK t \in Traces \ DOMAIN traces : traces' = Added(traces, t, row)
    BY <1>3 DEF OpenTrace
  <2>3. row \in TraceRows
    BY <2>1 DEF TraceRows, FailedSteps, TimeoutSteps, BlockingStatuses, ActiveStatuses
  <2> HIDE DEF row
  <2>4. /\ DOMAIN traces' = DOMAIN traces \cup {t} /\ traces'[t] = row
        /\ \A u \in DOMAIN traces : u # t => traces'[u] = traces[u]
    BY <2>2 DEF Added
  <2>5. QED
    BY <1>1, <2>2, <2>3, <2>4
<1>4. ASSUME NEW t, MoveTrace(t) PROVE Goal
  <2>1. PICK status \in {"unwind_in_progress", "handoff_required", "resolved"} :
            traces' = [traces EXCEPT ![t].status = status]
    BY <1>4 DEF MoveTrace
  <2>2. status \in BlockingStatuses \cup {"resolved"}
    BY DEF BlockingStatuses, ActiveStatuses
  <2>3. ASSUME NEW u \in DOMAIN traces PROVE traces'[u] \in TraceRows
    <3>1. traces'[u] = traces[u] \/ traces'[u] = [traces[u] EXCEPT !.status = status]
      BY <2>1
    <3>2. QED
      BY <1>1, <2>2, <3>1 DEF TraceRows
  <2>4. DOMAIN traces' = DOMAIN traces
    BY <2>1
  <2>5. QED
    BY <1>1, <2>3, <2>4
<1> HIDE DEF Goal
<1>5. CASE World
  <2>1. UNCHANGED traces \/ \E t \in Traces : MoveTrace(t)
    BY <1>5 DEF World, StartRun, StopRun, OrdersProgress, SubmitTimePasses, ExpireLock
  <2>2. QED
    BY <1>2, <1>4, <2>1
<1>6. ASSUME NEW a \in Threads, Act(a) PROVE Goal
  <2>1. UNCHANGED traces \/ OpenTrace(a)
    BY <1>6 DEF Act, Continue, EntrySteps, PersistRefused, Unlock, Crash, BeginRun, Request,
             BeginClose, BeginWatch, ScanHandoffs, ScanActives, ReconcileLock, Load, Decide,
             CheckEnded, CheckOverdue, Close, Evaluate, Persist, Record, Submit, Report,
             ShowTrace, Refresh, Relock
  <2>2. QED
    BY <1>2, <1>3, <2>1
<1>7. QED
  BY <1>5, <1>6 DEF AnyNext

LEMMA HolderType ==
    ASSUME CycleType, AnyNext
    PROVE  holder' \in Runs \cup {NoRun} /\ runs' \in [Runs -> {"absent", "running", "stopped"}]
<1>1. holder \in Runs \cup {NoRun} /\ runs \in [Runs -> {"absent", "running", "stopped"}]
  BY DEF CycleType
<1>2. \A r \in Runs : TakeLock(r) \/ ReleaseLock(r) => holder' \in Runs \cup {NoRun}
  BY <1>1 DEF TakeLock, ReleaseLock
<1>3. ASSUME NEW a \in Threads, ReconcileLock(a) PROVE holder' \in Runs \cup {NoRun}
  <2>1. op[a].run \in Runs
    BY <1>3, OpsAt DEF ReconcileLock
  <2>2. evaluation[op[a].run] \in Evaluation
    BY <2>1 DEF CycleType
  <2>3. evaluation[op[a].run].pair \in BOOLEAN
    BY <2>2, EvaluationFields
  <2>4. TakeLock(op[a].run) \/ ReleaseLock(op[a].run) \/ UNCHANGED holder
    <3>1. CASE Holds(evaluation[op[a].run])
      BY <1>3, <2>3, <3>1 DEF ReconcileLock, Holds
    <3>2. CASE ~Holds(evaluation[op[a].run])
      BY <1>3, <2>3, <3>2 DEF ReconcileLock
    <3>3. QED
      BY <3>1, <3>2
  <2>5. QED
    BY <1>1, <1>2, <2>1, <2>4
<1>4. ASSUME NEW a \in Threads, Decide(a) PROVE holder' \in Runs \cup {NoRun}
  <2>1. op[a].run \in Runs
    <3>1. op[a] \in LookSteps
      BY <1>4, OpsAt DEF Decide
    <3>2. QED
      BY <3>1 DEF LookSteps
  <2>2. QED
    BY <1>1, <1>2, <1>4, <2>1 DEF Decide, DecideLocked, DecideBlocked
<1>5. ASSUME NEW a \in Threads, Refresh(a) PROVE holder' \in Runs \cup {NoRun}
  <2>1. op[a].run \in Runs
    <3>1. op[a] \in IntentSteps
      BY <1>5, OpsAt DEF Refresh
    <3>2. QED
      BY <3>1 DEF IntentSteps
  <2>2. QED
    BY <1>2, <1>5, <2>1 DEF Refresh
<1>6. ASSUME NEW a \in Threads, Relock(a) PROVE holder' \in Runs \cup {NoRun}
  <2>1. op[a].run \in Runs
    <3>1. op[a] \in ReportSteps \cup RelockSteps
      BY <1>6, OpsAt DEF Relock
    <3>2. QED
      BY <3>1 DEF ReportSteps, RelockSteps
  <2>2. TakeLock(op[a].run) \/ ReleaseLock(op[a].run) \/ UNCHANGED holder
    BY <1>6 DEF Relock
  <2>3. QED
    BY <1>1, <1>2, <2>1, <2>2
<1>7. CASE World
  BY <1>1, <1>7
     DEF World, StartRun, StopRun, OrdersProgress, SubmitTimePasses, MoveTrace, ExpireLock
<1>8. ASSUME NEW a \in Threads, Act(a)
      PROVE  /\ UNCHANGED runs
             /\ \/ UNCHANGED holder \/ ReconcileLock(a) \/ Decide(a) \/ Refresh(a) \/ Relock(a)
                \/ Unlock(a)
  BY <1>8 DEF Act, Continue, EntrySteps, PersistRefused, Unlock, Crash, BeginRun, Request,
             BeginClose, BeginWatch, ScanHandoffs, ScanActives, ReconcileLock, Load, Decide,
             CheckEnded, CheckOverdue, Close, Evaluate, Persist, Record, Submit, Report,
             ShowTrace, Refresh, Relock, OpenTrace
<1>9. ASSUME NEW a \in Threads, Unlock(a) PROVE holder' \in Runs \cup {NoRun}
  <2>1. op[a].run \in Runs
    <3>1. op[a] \in EvaluateSteps
      BY <1>9, OpsAt DEF Unlock
    <3>2. QED
      BY <3>1 DEF EvaluateSteps
  <2>2. QED
    BY <1>2, <1>9, <2>1 DEF Unlock
<1>10. QED
  BY <1>1, <1>3, <1>4, <1>5, <1>6, <1>7, <1>8, <1>9 DEF AnyNext

LEMMA CycleTypeInit == Init => CycleType
<1>1. SUFFICES ASSUME Init PROVE CycleType
  OBVIOUS
<1>2. DOMAIN op = Threads /\ \A a \in Threads : op[a] = Idle
  BY <1>1 DEF Init
<1>3. OpsOK /\ \A a \in Threads : op[a].at # "show_trace"
  BY <1>2 DEF OpsOK, EntryOps, SweepOps, Threads, Idle
<1>4. evaluation \in [Runs -> Evaluation] /\ runs \in [Runs -> {"absent", "running", "stopped"}]
  BY <1>1 DEF Init, Evaluation
<1>5. DOMAIN intents = {} /\ DOMAIN traces = {} /\ late = {} /\ holder = NoRun
  BY <1>1 DEF Init
<1>6. QED
  BY <1>3, <1>4, <1>5 DEF CycleType

LEMMA CycleTypeStep ==
    ASSUME CycleType, [AnyNext]_vars
    PROVE  CycleType'
<1>1. CASE UNCHANGED vars
  BY <1>1 DEF vars, CycleType, OpsOK
<1>2. CASE AnyNext
  <2>1. OpsOK' /\ \A a \in Threads : op'[a].at = "show_trace" => op'[a].trace \in DOMAIN traces'
    <3>1. CASE World
      <4>1. UNCHANGED op
        BY <3>1 DEF World, StartRun, StopRun, OrdersProgress, SubmitTimePasses, MoveTrace, ExpireLock
      <4>2. QED
        BY <1>2, <4>1, TracesType DEF CycleType, OpsOK
    <3>2. ASSUME NEW a \in Threads, Act(a)
          PROVE  /\ OpsOK'
                 /\ \A b \in Threads : op'[b].at = "show_trace" => op'[b].trace \in DOMAIN traces'
      BY <3>2, EntryActType, SweepActType DEF Threads
    <3>3. QED
      BY <1>2, <3>1, <3>2 DEF AnyNext
  <2>2. QED
    BY <1>2, <2>1, EvaluationType, IntentsType, TracesType, HolderType DEF CycleType
<1>3. QED
  BY <1>1, <1>2

\* Each of the three specifications takes only such steps.
LEMMA AnyNextCovers ==
    /\ Next => AnyNext
    /\ (\E h \in Handlers : Request(h)) => AnyNext
    /\ (\E a \in Threads : Crash(a)) => AnyNext
BY DEF Next, AnyNext, Act, Threads

LEMMA CycleTypeInvariant == (HttpSpec => []CycleType) /\ (CrashingSpec => []CycleType)
                            /\ (Spec => []CycleType)
<1>1. [Next \/ \E h \in Handlers : Request(h)]_vars => [AnyNext]_vars
  BY AnyNextCovers
<1>2. [(Next \/ \E a \in Threads : Crash(a)) /\ ScansUndisturbed]_vars => [AnyNext]_vars
  BY AnyNextCovers
<1>3. [Next]_vars => [AnyNext]_vars
  BY AnyNextCovers
<1>4. CycleType /\ [AnyNext]_vars => CycleType'
  BY CycleTypeStep
<1>5. HttpSpec => []CycleType
  BY <1>1, <1>4, CycleTypeInit, PTL DEF HttpSpec
<1>6. CrashingSpec => []CycleType
  BY <1>2, <1>4, CycleTypeInit, PTL DEF CrashingSpec
<1>7. Spec => []CycleType
  BY <1>3, <1>4, CycleTypeInit, PTL DEF Spec
<1>8. QED
  BY <1>5, <1>6, <1>7

\* Whatever the runtime, the requests and the sweeps write into each other's
\* evaluations, and wherever threads are restarted, every reachable state is well
\* typed; in particular no thread shows a trace that does not exist.
THEOREM CycleTypeCorrect == (HttpSpec => []TypeOK) /\ (CrashingSpec => []TypeOK)
<1>1. CycleType => TypeOK
  BY DEF CycleType, TypeOK, OpsOK, Evaluation, IntentRows, TraceRows
<1>2. QED
  BY <1>1, CycleTypeInvariant, PTL

-----------------------------------------------------------------------------
(* A failed entry is traced                                                  *)

\* The thread holds the intent, and will open a trace if it gets no order.
Works(o, i) ==
    /\ o.intent = i
    /\ \/ o \in IntentSteps \cup FailedSteps
       \/ o \in ReportSteps /\ o.stage \in ActiveStatuses

Traced(i) == \E t \in DOMAIN traces : traces[t].run = intents[i].run

FailInv ==
    /\ \A h \in Handlers : op[h] = Idle
    /\ \A a \in Runtimes :
           op[a] \in IntentSteps \cup ReportSteps \cup FailedSteps =>
               op[a].intent \in DOMAIN intents /\ intents[op[a].intent].run = op[a].run
    /\ \A i \in DOMAIN intents :
           intents[i].orders = "none" => Traced(i) \/ \E a \in Runtimes : Works(op[a], i)

\* An intent stays, of the same run.
IntentsKept ==
    \A i \in DOMAIN intents : i \in DOMAIN intents' /\ intents'[i].run = intents[i].run

\* The world and the sweeps create no intent, and take no order away.
NoIntentWork ==
    /\ DOMAIN intents' = DOMAIN intents
    /\ \A i \in DOMAIN intents : intents'[i].orders = "none" => intents[i].orders = "none"

LEMMA IntentsGrow ==
    ASSUME CycleType, AnyNext
    PROVE  IntentsKept
<1>1. CASE UNCHANGED intents
  BY <1>1 DEF IntentsKept
<1>2. ASSUME NEW a \in Threads, Persist(a) PROVE IntentsKept
  <2>1. PICK i \in Intents \ DOMAIN intents : \E row : intents' = Added(intents, i, row)
    BY <1>2 DEF Persist
  <2>2. PICK row : intents' = Added(intents, i, row)
    BY <2>1
  <2>3. QED
    BY <2>2 DEF Added, IntentsKept
<1>3. ASSUME NEW a \in Threads, Submit(a) PROVE IntentsKept
  <2>1. PICK out \in SubmitOutcomes :
            intents' = [intents EXCEPT ![op[a].intent].status = out.status,
                                       ![op[a].intent].orders = out.orders]
    BY <1>3 DEF Submit
  <2>2. DOMAIN intents' = DOMAIN intents
    BY <2>1
  <2>3. ASSUME NEW i \in DOMAIN intents
        PROVE  intents'[i].run = intents[i].run
    <3>1. intents[i] \in IntentRows
      BY DEF CycleType
    <3>2. \/ intents'[i] = intents[i]
          \/ intents'[i] = [[intents[i] EXCEPT !.status = out.status] EXCEPT !.orders = out.orders]
      BY <2>1
    <3>3. QED
      BY <2>1, <3>1, <3>2 DEF IntentRows
  <2>4. QED
    BY <2>2, <2>3 DEF IntentsKept
<1>4. ASSUME NEW i, OrdersProgress(i) PROVE IntentsKept
  <2>1. \/ intents' = [intents EXCEPT ![i].orders = "filled", ![i].status = "simulated"]
        \/ intents' = [intents EXCEPT ![i].orders = "ended"]
    BY <1>4 DEF OrdersProgress
  <2>2. DOMAIN intents' = DOMAIN intents
    BY <2>1
  <2>3. ASSUME NEW j \in DOMAIN intents
        PROVE  intents'[j].run = intents[j].run
    <3>1. intents[j] \in IntentRows
      BY DEF CycleType
    <3>2. \/ intents'[j] = intents[j]
          \/ intents'[j] = [[intents[j] EXCEPT !.orders = "filled"] EXCEPT !.status = "simulated"]
          \/ intents'[j] = [intents[j] EXCEPT !.orders = "ended"]
      BY <2>1
    <3>3. QED
      BY <3>1, <3>2 DEF IntentRows
  <2>4. QED
    BY <2>2, <2>3 DEF IntentsKept
<1>5. CASE World
  <2>1. UNCHANGED intents \/ \E i \in Intents : OrdersProgress(i)
    BY <1>5 DEF World, StartRun, StopRun, SubmitTimePasses, MoveTrace, ExpireLock
  <2>2. QED
    BY <1>1, <1>4, <2>1
<1>6. ASSUME NEW a \in Threads, Act(a) PROVE IntentsKept
  <2>1. UNCHANGED intents \/ Persist(a) \/ Submit(a)
    BY <1>6 DEF Act, Continue, EntrySteps, PersistRefused, Unlock, Crash, BeginRun, Request,
             BeginClose, BeginWatch, ScanHandoffs, ScanActives, ReconcileLock, Load, Decide,
             CheckEnded, CheckOverdue, Close, Evaluate, Record, Report, ShowTrace, Refresh,
             Relock, OpenTrace
  <2>2. QED
    BY <1>1, <1>2, <1>3, <2>1
<1>7. QED
  BY <1>5, <1>6 DEF AnyNext

\* A trace stays, of the same run.
LEMMA TracesKept ==
    ASSUME CycleType, AnyNext, NEW t \in DOMAIN traces
    PROVE  t \in DOMAIN traces' /\ traces'[t].run = traces[t].run
<1>1. CASE UNCHANGED traces
  BY <1>1
<1>2. ASSUME NEW a, OpenTrace(a) PROVE t \in DOMAIN traces' /\ traces'[t] = traces[t]
  <2>1. PICK u \in Traces \ DOMAIN traces : \E row : traces' = Added(traces, u, row)
    BY <1>2 DEF OpenTrace
  <2>2. PICK row : traces' = Added(traces, u, row)
    BY <2>1
  <2>3. QED
    BY <2>2 DEF Added
<1>3. ASSUME NEW u, MoveTrace(u) PROVE t \in DOMAIN traces' /\ traces'[t].run = traces[t].run
  <2>1. PICK status : traces' = [traces EXCEPT ![u].status = status]
    BY <1>3 DEF MoveTrace
  <2>2. traces[t] \in TraceRows
    BY DEF CycleType
  <2>3. traces'[t] = traces[t] \/ traces'[t] = [traces[t] EXCEPT !.status = status]
    BY <2>1
  <2>4. QED
    BY <2>1, <2>2, <2>3 DEF TraceRows
<1>4. CASE World
  <2>1. UNCHANGED traces \/ \E u \in Traces : MoveTrace(u)
    BY <1>4 DEF World, StartRun, StopRun, OrdersProgress, SubmitTimePasses, ExpireLock
  <2>2. QED
    BY <1>1, <1>3, <2>1
<1>5. ASSUME NEW a \in Threads, Act(a) PROVE t \in DOMAIN traces' /\ traces'[t].run = traces[t].run
  <2>1. UNCHANGED traces \/ OpenTrace(a)
    BY <1>5 DEF Act, Continue, EntrySteps, PersistRefused, Unlock, Crash, BeginRun, Request,
             BeginClose, BeginWatch, ScanHandoffs, ScanActives, ReconcileLock, Load, Decide,
             CheckEnded, CheckOverdue, Close, Evaluate, Persist, Record, Submit, Report,
             ShowTrace, Refresh, Relock
  <2>2. QED
    BY <1>1, <1>2, <2>1
<1>6. QED
  BY <1>4, <1>5 DEF AnyNext

\* What a step of a runtime does for the intents: it goes on with its own, or has
\* traced it, and takes on those that have come to lack an order.
Carried(a) ==
    /\ \A i \in DOMAIN intents :
           Works(op[a], i) /\ intents'[i].orders = "none" => Works(op'[a], i) \/ Traced(i)'
    /\ \A i \in DOMAIN intents' :
           intents'[i].orders = "none" /\ (i \in DOMAIN intents => intents[i].orders # "none")
               => Works(op'[a], i)
    /\ op'[a] \in IntentSteps \cup ReportSteps \cup FailedSteps =>
           op'[a].intent \in DOMAIN intents' /\ intents'[op'[a].intent].run = op'[a].run

LEMMA RuntimeCarries ==
    ASSUME CycleType, CycleType', FailInv, NEW a \in Runtimes, Continue(a) \/ BeginRun(a)
    PROVE  Carried(a)
<1> DEFINE o == op[a]
           Held == IntentSteps \cup ReportSteps \cup FailedSteps
<1>1. /\ a \in Threads /\ a \notin Handlers \cup Watchers /\ o \in EntryOps
      /\ a \in DOMAIN op /\ DOMAIN op = Threads
  BY ThreadAssumption DEF CycleType, OpsOK, Threads
<1>2. o \in Held => o.intent \in DOMAIN intents /\ intents[o.intent].run = o.run
  BY DEF FailInv
<1>3. \A i : Works(o, i) => o \in Held
  BY DEF Works
<1>4. \A step \in Held : step.at \in {"refresh", "record", "submit", "report", "relock", "open_trace"}
  BY DEF IntentSteps, ReportSteps, FailedSteps
<1>5. \A at : GotoAt(a, at) => op'[a] = [o EXCEPT !.at = at]
  BY <1>1, GotoAtStep, GotoStep
<1>6. \A step : Goto(a, step) => op'[a] = step
  BY <1>1, GotoStep
<1> HIDE DEF o, Held
<1>7. \A i \in DOMAIN intents : Works(o, i) => o.intent = i
  BY DEF Works
<1>8. ASSUME UNCHANGED intents, o \notin Held, op'[a] \notin Held PROVE Carried(a)
  BY <1>3, <1>8 DEF Carried, o, Held
<1>9. CASE /\ ~Persist(a) /\ ~Refresh(a) /\ ~Record(a) /\ ~Submit(a) /\ ~Report(a)
           /\ ~Relock(a) /\ ~OpenTrace(a)
  <2>1. /\ UNCHANGED intents
        /\ \/ BeginRun(a) \/ Evaluate(a) \/ ShowTrace(a) \/ ScanHandoffs(a) \/ ScanActives(a)
           \/ ReconcileLock(a) \/ Load(a) \/ Decide(a) \/ CheckEnded(a) \/ Close(a)
           \/ CheckOverdue(a) \/ PersistRefused(a) \/ Unlock(a)
    BY <1>9 DEF Continue, EntrySteps, PersistRefused, Unlock, BeginRun, Evaluate, ShowTrace,
             ScanHandoffs, ScanActives, ReconcileLock, Load, Decide, CheckEnded, Close,
             CheckOverdue
  <2>2. o.at \notin {"refresh", "record", "submit", "report", "relock", "open_trace",
                     "ended", "close", "overdue"}
    <3>1. BeginRun(a) => o.at = "idle"
      BY DEF BeginRun, Idle, o
    <3>2. ~BeginRun(a) => o.at \in {"evaluate", "show_trace", "handoffs", "actives", "reconcile",
                                   "enter", "decide", "ended", "close", "overdue", "persist", "unlock"}
      BY <2>1 DEF Evaluate, ShowTrace, ScanHandoffs, ScanActives, PersistRefused, Unlock,
             ReconcileLock, Load, Decide, CheckEnded, Close, CheckOverdue, o
    <3>3. o.at \notin {"ended", "close", "overdue"}
      BY <1>1, EntryOpsAt
    <3>4. QED
      BY <3>1, <3>2, <3>3
  <2>3. op'[a].at \in {"idle", "evaluate", "persist", "unlock", "relock_trace", "handoffs", "actives",
                       "enter", "decide", "reconcile"}
    <3>1. CASE BeginRun(a) \/ ReconcileLock(a) \/ Decide(a) \/ ShowTrace(a)
      <4>1. CASE BeginRun(a) \/ ReconcileLock(a)
        <5>1. CASE BeginRun(a)
          <6>1. PICK r \in Runs : Goto(a, [at |-> "reconcile", run |-> r])
            BY <5>1 DEF BeginRun
          <6>2. QED
            BY <1>6, <6>1
        <5>2. CASE ReconcileLock(a)
          <6>1. Goto(a, [at |-> "handoffs", run |-> o.run, goal |-> "enter",
                         blocking |-> Blocking(o.run)])
            BY <5>2 DEF ReconcileLock, o
          <6>2. QED
            BY <1>6, <6>1
        <5>3. QED
          BY <4>1, <5>1, <5>2
      <4>2. CASE Decide(a)
        <5>1. PICK stage, pair : Goto(a, Evaluating(a, stage, pair))
          BY <4>2 DEF Decide, DecideLocked, DecideBlocked
        <5>2. QED
          BY <1>6, <5>1 DEF Evaluating
      <4>3. CASE ShowTrace(a)
        BY <1>1, <1>6, <4>3 DEF ShowTrace
      <4>4. QED
        BY <3>1, <4>1, <4>2, <4>3
    <3>2. CASE ScanHandoffs(a) \/ ScanActives(a) \/ Load(a)
      <4>1. o \in LookSteps
        BY <1>1, <3>2, EntryOpsAt DEF ScanHandoffs, ScanActives, Load, o
      <4>2. \E at \in {"actives", "enter", "decide"} : Goto(a, Idle) \/ GotoAt(a, at)
        BY <3>2, <4>1 DEF ScanHandoffs, ScanActives, Load, o, LookSteps
      <4>3. \A at \in {"actives", "enter", "decide"} : [o EXCEPT !.at = at].at = at
        BY <4>1 DEF LookSteps
      <4>4. Goto(a, Idle) => op'[a].at = "idle"
        BY <1>6 DEF Idle
      <4>5. QED
        BY <1>5, <4>2, <4>3, <4>4
    <3>3. CASE Evaluate(a)
      <4>1. o \in EvaluateSteps /\ (Goto(a, Idle) \/ GotoAt(a, "persist"))
        BY <1>1, <3>3, EntryOpsAt DEF Evaluate, o
      <4>2. [o EXCEPT !.at = "persist"].at = "persist"
        BY <4>1 DEF EvaluateSteps
      <4>3. Goto(a, Idle) => op'[a].at = "idle"
        BY <1>6 DEF Idle
      <4>4. QED
        BY <1>5, <4>1, <4>2, <4>3
    <3>4. CASE PersistRefused(a) \/ Unlock(a)
      <4>1. o \in EvaluateSteps /\ (Goto(a, Idle) \/ GotoAt(a, "unlock"))
        BY <1>1, <3>4, EntryOpsAt DEF PersistRefused, Unlock, o
      <4>2. [o EXCEPT !.at = "unlock"].at = "unlock"
        BY <4>1 DEF EvaluateSteps
      <4>3. Goto(a, Idle) => op'[a].at = "idle"
        BY <1>6 DEF Idle
      <4>4. QED
        BY <1>5, <4>1, <4>2, <4>3
    <3>5. QED
      BY <2>1, <2>2, <3>1, <3>2, <3>3, <3>4 DEF CheckEnded, Close, CheckOverdue, o
  <2>4. o \notin Held /\ op'[a] \notin Held
    BY <1>4, <2>2, <2>3 DEF Held
  <2>5. QED
    BY <1>8, <2>1, <2>4
<1>10. CASE Persist(a)
  <2> DEFINE row == [run |-> o.run, status |-> "created", orders |-> "none"]
  <2>1. o \in EvaluateSteps
    BY <1>1, <1>10, EntryOpsAt DEF Persist, o
  <2>2. PICK i \in Intents \ DOMAIN intents, at \in {"refresh", "record"} :
            /\ intents' = Added(intents, i, row)
            /\ Goto(a, [at |-> at, run |-> o.run, pair |-> o.pair, intent |-> i])
    BY <1>10 DEF Persist, o
  <2>3. /\ op'[a] \in IntentSteps /\ op'[a].intent = i /\ op'[a].run = o.run
        /\ o \notin Held
    BY <1>4, <1>6, <2>1, <2>2 DEF EvaluateSteps, IntentSteps, Held
  <2>4. /\ i \in DOMAIN intents' /\ intents'[i].run = o.run
        /\ \A j \in DOMAIN intents' : j # i => j \in DOMAIN intents /\ intents'[j] = intents[j]
    BY <2>2 DEF Added
  <2>5. Works(op'[a], i)
    BY <2>3 DEF Works
  <2>6. QED
    BY <1>3, <2>3, <2>4, <2>5 DEF Carried, o
<1>11. CASE Refresh(a) \/ Record(a)
  <2>1. o \in IntentSteps /\ UNCHANGED intents
    BY <1>1, <1>11, EntryOpsAt DEF Refresh, Record, o
  <2>2. \E at \in {"record", "submit"} : op'[a] = [o EXCEPT !.at = at]
    BY <1>1, <1>5, <1>11 DEF Refresh, Record
  <2>3. op'[a] \in IntentSteps /\ op'[a].intent = o.intent /\ op'[a].run = o.run
    BY <2>1, <2>2 DEF IntentSteps
  <2>4. QED
    BY <1>2, <2>1, <2>3 DEF Carried, Works, o, Held
<1>12. CASE Submit(a)
  <2>1. o \in IntentSteps
    BY <1>1, <1>12, EntryOpsAt DEF Submit, o
  <2>2. PICK out \in SubmitOutcomes :
            /\ intents' = [intents EXCEPT ![o.intent].status = out.status,
                                          ![o.intent].orders = out.orders]
            /\ Goto(a, [at |-> "report", run |-> o.run, pair |-> o.pair, intent |-> o.intent,
                        stage |-> out.stage])
    BY <1>12 DEF Submit, o
  <2>3. o.intent \in DOMAIN intents /\ intents[o.intent] \in IntentRows /\ intents[o.intent].run = o.run
    BY <1>2, <2>1 DEF CycleType, Held
  <2>4. /\ DOMAIN intents' = DOMAIN intents
        /\ \A j \in DOMAIN intents : j # o.intent => intents'[j] = intents[j]
        /\ intents'[o.intent] = [[intents[o.intent] EXCEPT !.status = out.status] EXCEPT !.orders = out.orders]
    BY <2>2, <2>3
  <2>5. intents'[o.intent].run = o.run /\ intents'[o.intent].orders = out.orders
    BY <2>3, <2>4 DEF IntentRows
  <2>6. out.orders = "none" => out.stage \in ActiveStatuses
    BY DEF SubmitOutcomes
  <2>7. out.orders = "none" \/ out.orders # "none" => out.stage \in HeldStages \cup {"closed"}
    BY DEF SubmitOutcomes, HeldStages, ActiveStatuses
  <2>8. /\ op'[a] \in ReportSteps /\ op'[a].intent = o.intent /\ op'[a].run = o.run
        /\ op'[a].stage = out.stage
    BY <1>6, <2>1, <2>2, <2>7 DEF IntentSteps, ReportSteps
  <2>9. out.orders = "none" => Works(op'[a], o.intent)
    BY <2>6, <2>8 DEF Works
  <2>10. QED
    BY <1>7, <2>3, <2>4, <2>5, <2>8, <2>9 DEF Carried, o
<1>13. CASE Report(a)
  <2>1. o \in ReportSteps /\ UNCHANGED intents /\ op'[a] = [o EXCEPT !.at = "relock"]
    BY <1>1, <1>5, <1>13, EntryOpsAt DEF Report, o
  <2>2. /\ op'[a] \in ReportSteps /\ op'[a].intent = o.intent /\ op'[a].run = o.run
        /\ op'[a].stage = o.stage
    BY <2>1 DEF ReportSteps
  <2>3. o \notin IntentSteps \cup FailedSteps
    BY <2>1 DEF ReportSteps, IntentSteps, FailedSteps
  <2>4. QED
    BY <1>2, <2>1, <2>2, <2>3 DEF Carried, Works, o, Held
<1>14. CASE Relock(a)
  <2>1. o.at \in {"relock", "relock_trace"} /\ UNCHANGED intents
    BY <1>14 DEF Relock, o
  <2>2. CASE o.at = "relock" /\ o.stage \in ActiveStatuses
    <3>1. o \in ReportSteps /\ op'[a] = [o EXCEPT !.at = "open_trace"]
      BY <1>1, <1>5, <1>14, <2>2, EntryOpsAt DEF Relock, o
    <3>2. op'[a] \in FailedSteps /\ op'[a].intent = o.intent /\ op'[a].run = o.run
      BY <2>2, <3>1 DEF ReportSteps, FailedSteps
    <3>3. QED
      BY <1>2, <2>1, <3>1, <3>2 DEF Carried, Works, o, Held
  <2>3. CASE ~(o.at = "relock" /\ o.stage \in ActiveStatuses)
    <3>1. op'[a] = Idle /\ Idle \notin Held
      BY <1>4, <1>6, <1>14, <2>3 DEF Relock, o, Idle
    <3>2. \A i : ~Works(o, i)
      BY <2>1, <2>3 DEF Works, IntentSteps, FailedSteps, ReportSteps
    <3>3. QED
      BY <2>1, <3>1, <3>2 DEF Carried, o, Held
  <2>4. QED
    BY <2>2, <2>3
<1>15. CASE OpenTrace(a)
  <2>1. o \in FailedSteps /\ UNCHANGED intents
    BY <1>1, <1>15, EntryOpsAt DEF OpenTrace, o
  <2>2. PICK t \in Traces \ DOMAIN traces :
            /\ \E row : traces' = Added(traces, t, row) /\ row.run = o.run
            /\ Goto(a, [at |-> "show_trace", run |-> o.run, pair |-> o.pair, trace |-> t])
    BY <1>15 DEF OpenTrace, o
  <2>3. op'[a].at = "show_trace"
    BY <1>6, <2>2
  <2>4. op'[a] \notin Held
    BY <1>4, <2>3 DEF Held
  <2>5. t \in DOMAIN traces' /\ traces'[t].run = o.run
    BY <2>2 DEF Added
  <2>6. ASSUME NEW i, i = o.intent PROVE Traced(i)'
    BY <1>2, <2>1, <2>5, <2>6 DEF Traced, Held
  <2>7. QED
    BY <1>7, <2>1, <2>4, <2>6 DEF Carried, o, Held
<1>16. QED
  BY <1>9, <1>10, <1>11, <1>12, <1>13, <1>14, <1>15

\* A thread moves itself alone.
LEMMA ActMovesOne ==
    ASSUME CycleType, NEW a \in Threads, Act(a), NEW b \in Threads, b # a
    PROVE  op'[b] = op[b]
<1>1. a \in DOMAIN op /\ b \in DOMAIN op
  BY DEF CycleType, OpsOK
<1>2. ASSUME NEW step, Goto(a, step) PROVE op'[b] = op[b]
  BY <1>1, <1>2, GotoStep
<1>3. ASSUME NEW at, GotoAt(a, at) PROVE op'[b] = op[b]
  BY <1>1, <1>2, <1>3, GotoAtStep
<1>4. CASE Crash(a) \/ BeginRun(a) \/ Request(a) \/ BeginClose(a) \/ BeginWatch(a)
  BY <1>2, <1>4 DEF Crash, BeginRun, Request, BeginClose, BeginWatch
<1>5. CASE ReconcileLock(a) \/ ScanHandoffs(a) \/ ScanActives(a) \/ Load(a)
  BY <1>2, <1>3, <1>5 DEF ReconcileLock, ScanHandoffs, ScanActives, Load
<1>6. CASE Decide(a)
  BY <1>2, <1>6 DEF Decide, DecideLocked, DecideBlocked
<1>7. CASE Evaluate(a) \/ Persist(a) \/ Refresh(a) \/ Record(a) \/ Submit(a) \/ Report(a)
  BY <1>2, <1>3, <1>7 DEF Evaluate, Persist, Refresh, Record, Submit, Report
<1>8. CASE Relock(a) \/ OpenTrace(a) \/ ShowTrace(a)
  BY <1>2, <1>3, <1>8 DEF Relock, OpenTrace, ShowTrace
<1>9. CASE CheckEnded(a) \/ Close(a) \/ CheckOverdue(a)
  BY <1>2, <1>3, <1>9 DEF CheckEnded, Close, CheckOverdue
<1>10. CASE PersistRefused(a) \/ Unlock(a)
  BY <1>2, <1>3, <1>10 DEF PersistRefused, Unlock
<1>11. QED
  BY <1>4, <1>5, <1>6, <1>7, <1>8, <1>9, <1>10 DEF Act, Continue, EntrySteps

\* Without a request a handler has nothing to go on with.
LEMMA HandlersIdle ==
    ASSUME CycleType, NEW h \in Handlers, op[h] = Idle
    PROVE  ~Continue(h)
BY DEF Idle, Continue, EntrySteps, PersistRefused, Unlock, Evaluate, Persist, Refresh, Record,
       Submit, Report, Relock, OpenTrace, ShowTrace, ScanHandoffs, ScanActives, ReconcileLock,
       Load, Decide, CheckEnded, Close, CheckOverdue

LEMMA FailStep ==
    ASSUME CycleType, CycleType', FailInv, [Next]_vars
    PROVE  FailInv'
<1>1. CASE UNCHANGED vars
  BY <1>1 DEF vars, FailInv, Traced
<1>2. ASSUME NEW i, \E t \in DOMAIN traces : traces[t].run = intents[i].run, i \in DOMAIN intents, Next
      PROVE  Traced(i)'
  <2>1. intents'[i].run = intents[i].run
    BY <1>2, IntentsGrow, AnyNextCovers DEF IntentsKept
  <2>2. PICK t \in DOMAIN traces : traces[t].run = intents[i].run
    BY <1>2
  <2>3. t \in DOMAIN traces' /\ traces'[t].run = traces[t].run
    BY <1>2, TracesKept, AnyNextCovers
  <2>4. QED
    BY <2>1, <2>2, <2>3 DEF Traced
<1>3. ASSUME Next, NoIntentWork, \A a \in Runtimes \cup Handlers : op'[a] = op[a]
      PROVE  FailInv'
  <2>1. IntentsKept
    BY <1>3, IntentsGrow, AnyNextCovers
  <2>2. \A i \in DOMAIN intents : Traced(i) => Traced(i)'
    BY <1>2, <1>3 DEF Traced
  <2>3. \A a \in Runtimes : \A i : Works(op[a], i) => Works(op'[a], i)
    BY <1>3
  <2>4. QED
    BY <1>3, <2>1, <2>2, <2>3 DEF FailInv, IntentsKept, NoIntentWork, Works
<1>4. ASSUME NEW a \in Runtimes, Continue(a) \/ BeginRun(a), Next PROVE FailInv'
  <2>1. a \in Threads /\ a \notin Handlers /\ DOMAIN op = Threads
    BY ThreadAssumption DEF Threads, CycleType, OpsOK
  <2>2. \A b \in Threads : b # a => op'[b] = op[b]
    BY <1>4, <2>1, ActMovesOne DEF Act
  <2>3. Carried(a)
    BY <1>4, RuntimeCarries
  <2>4. \A h \in Handlers : op'[h] = Idle
    BY <2>1, <2>2 DEF FailInv, Threads
  <2>5. ASSUME NEW b \in Runtimes, op'[b] \in IntentSteps \cup ReportSteps \cup FailedSteps
        PROVE  op'[b].intent \in DOMAIN intents' /\ intents'[op'[b].intent].run = op'[b].run
    <3>1. CASE b = a
      BY <2>3, <2>5, <3>1 DEF Carried
    <3>2. CASE b # a
      BY <1>4, <2>2, <2>5, <3>2, IntentsGrow, AnyNextCovers DEF FailInv, IntentsKept, Threads
    <3>3. QED
      BY <3>1, <3>2
  <2>6. ASSUME NEW i \in DOMAIN intents', intents'[i].orders = "none"
        PROVE  Traced(i)' \/ \E b \in Runtimes : Works(op'[b], i)
    <3>1. CASE i \in DOMAIN intents => intents[i].orders # "none"
      BY <2>3, <2>6, <3>1 DEF Carried
    <3>2. CASE i \in DOMAIN intents /\ intents[i].orders = "none"
      <4>1. CASE Traced(i)
        BY <1>2, <1>4, <3>2, <4>1 DEF Traced
      <4>2. ASSUME NEW b \in Runtimes, Works(op[b], i)
            PROVE  Traced(i)' \/ \E c \in Runtimes : Works(op'[c], i)
        <5>1. CASE b = a
          BY <2>3, <2>6, <3>2, <4>2, <5>1 DEF Carried
        <5>2. CASE b # a
          BY <2>2, <4>2, <5>2 DEF Threads
        <5>3. QED
          BY <5>1, <5>2
      <4>3. QED
        BY <3>2, <4>1, <4>2 DEF FailInv
    <3>3. QED
      BY <3>1, <3>2
  <2>7. QED
    BY <2>4, <2>5, <2>6 DEF FailInv, Works
<1>5. CASE Next /\ World
  <2>1. UNCHANGED op
    BY <1>5 DEF World, StartRun, StopRun, OrdersProgress, SubmitTimePasses, MoveTrace, ExpireLock
  <2>2. ASSUME NEW i, OrdersProgress(i) PROVE NoIntentWork
    <3>1. \/ intents' = [intents EXCEPT ![i].orders = "filled", ![i].status = "simulated"]
          \/ intents' = [intents EXCEPT ![i].orders = "ended"]
      BY <2>2 DEF OrdersProgress
    <3>2. ASSUME NEW j \in DOMAIN intents
          PROVE  intents'[j].orders = "none" => intents[j].orders = "none"
      <4>1. intents[j] \in IntentRows
        BY DEF CycleType
      <4>2. \/ intents'[j] = intents[j]
            \/ intents'[j] = [[intents[j] EXCEPT !.orders = "filled"] EXCEPT !.status = "simulated"]
            \/ intents'[j] = [intents[j] EXCEPT !.orders = "ended"]
        BY <3>1
      <4>3. QED
        BY <4>1, <4>2 DEF IntentRows
    <3>3. QED
      BY <3>1, <3>2 DEF NoIntentWork
  <2>3. UNCHANGED intents => NoIntentWork
    BY DEF NoIntentWork
  <2>4. UNCHANGED intents \/ \E i \in Intents : OrdersProgress(i)
    BY <1>5 DEF World, StartRun, StopRun, SubmitTimePasses, MoveTrace, ExpireLock
  <2>5. QED
    BY <1>3, <1>5, <2>1, <2>2, <2>3, <2>4
<1>6. ASSUME NEW w \in Watchers, Next, Continue(w) \/ BeginClose(w) \/ BeginWatch(w) PROVE FailInv'
  <2>1. w \in Threads /\ w \notin Runtimes \cup Handlers /\ op[w] \in SweepOps
    BY ThreadAssumption DEF Threads, CycleType, OpsOK
  <2>2. ~Persist(w) /\ ~Submit(w)
    BY <2>1, SweepOpsAt DEF Persist, Submit
  <2>3. UNCHANGED intents
    BY <1>6, <2>2 DEF Continue, EntrySteps, PersistRefused, Unlock, BeginClose, BeginWatch,
             ScanHandoffs, ScanActives, ReconcileLock, Load, Decide, CheckEnded, CheckOverdue,
             Close, Evaluate, Record, Report, ShowTrace, Refresh, Relock, OpenTrace
  <2>4. \A a \in Runtimes \cup Handlers : op'[a] = op[a]
    BY <1>6, <2>1, ActMovesOne DEF Act, Threads
  <2>5. QED
    BY <1>3, <1>6, <2>3, <2>4 DEF NoIntentWork
<1>7. \A h \in Handlers : ~Continue(h)
  BY HandlersIdle DEF FailInv
<1>8. QED
  BY <1>1, <1>4, <1>5, <1>6, <1>7 DEF Next, Threads

LEMMA FailInvariant == Spec => []FailInv
<1>1. Init => FailInv
  <2>1. SUFFICES ASSUME Init PROVE FailInv
    OBVIOUS
  <2>2. DOMAIN intents = {} /\ \A a \in Threads : op[a] = Idle
    BY <2>1 DEF Init
  <2>3. Idle \notin IntentSteps \cup ReportSteps \cup FailedSteps
    BY DEF Idle, IntentSteps, ReportSteps, FailedSteps
  <2>4. QED
    BY <2>2, <2>3 DEF FailInv, Threads
<1>2. FailInv /\ CycleType /\ CycleType' /\ [Next]_vars => FailInv'
  BY FailStep
<1>3. QED
  BY <1>1, <1>2, CycleTypeInvariant, PTL DEF Spec

\* An intent that never got an order is still in the hands of a strategy runtime,
\* or its run has a recovery trace: no failed entry passes unnoticed, whatever the
\* runtimes, the sweeps and the operators do at the same time.
THEOREM FailedEntryAlwaysTraced == Spec => []FailedEntryTraced
<1>1. FailInv /\ CycleType => FailedEntryTraced
  <2>1. \A o \in IntentSteps \cup ReportSteps \cup FailedSteps : "intent" \in DOMAIN o
    BY DEF IntentSteps, ReportSteps, FailedSteps
  <2>2. \A o, i : Works(o, i) => "intent" \in DOMAIN o /\ o.intent = i
    BY <2>1 DEF Works
  <2>3. QED
    BY <2>2 DEF FailInv, FailedEntryTraced, Traced, Threads
<1>2. QED
  BY <1>1, FailInvariant, CycleTypeInvariant, PTL

-----------------------------------------------------------------------------
(* One entry per run, with the one strategy runtime thread of the program    *)

\* While the runtime decides, every intent of the run is over, and the one that it
\* has persisted is as it was created until it is submitted.
EntryInv(s) ==
    /\ \A h \in Handlers : op[h] = Idle
    /\ OneEntryPerRun
    /\ op[s].at \in {"decide", "evaluate", "persist"} =>
           \A i \in DOMAIN intents : intents[i].run = op[s].run => intents[i].status = "simulated"
    /\ op[s] \in IntentSteps =>
           /\ op[s].intent \in DOMAIN intents
           /\ intents[op[s].intent].status = "created" /\ intents[op[s].intent].orders = "none"

\* No intent is added, none begins again, and one without orders is left alone.
NoneBegins ==
    /\ DOMAIN intents' = DOMAIN intents
    /\ \A i \in DOMAIN intents :
           /\ intents'[i].run = intents[i].run
           /\ intents[i].status = "simulated" => intents'[i].status = "simulated"
           /\ intents[i].orders = "none" => intents'[i] = intents[i]

LEMMA EntryStepKept ==
    ASSUME NEW s, EntryInv(s), NoneBegins, op'[s] = op[s], \A h \in Handlers : op'[h] = Idle
    PROVE  EntryInv(s)'
BY DEF EntryInv, NoneBegins, OneEntryPerRun

LEMMA EntryStepRuntime ==
    ASSUME NEW s \in Runtimes, CycleType, CycleType', EntryInv(s), Continue(s) \/ BeginRun(s) \/ Crash(s)
    PROVE  EntryInv(s)'
<1> DEFINE o == op[s]
<1>1. /\ s \in Threads /\ s \notin Handlers \cup Watchers /\ o \in EntryOps
      /\ s \in DOMAIN op /\ DOMAIN op = Threads
  BY ThreadAssumption DEF CycleType, OpsOK, Threads
<1>2. \A h \in Handlers : op'[h] = Idle
  BY <1>1, ActMovesOne DEF Act, EntryInv, Threads
<1>3. \A at : GotoAt(s, at) => op'[s] = [o EXCEPT !.at = at]
  BY <1>1, GotoAtStep, GotoStep
<1>4. \A step : Goto(s, step) => op'[s] = step
  BY <1>1, GotoStep
<1> HIDE DEF o
<1>5. ASSUME UNCHANGED intents,
             op'[s].at \notin {"decide", "evaluate", "persist"}, op'[s] \notin IntentSteps
      PROVE  EntryInv(s)'
  BY <1>2, <1>5 DEF EntryInv, OneEntryPerRun
<1>6. \A step \in IntentSteps : step.at \in {"refresh", "record", "submit"}
  BY DEF IntentSteps
<1>7. CASE BeginRun(s) \/ Crash(s) \/ ReconcileLock(s)
  <2>1. UNCHANGED intents /\ op'[s].at \in {"reconcile", "idle", "handoffs"}
    <3>1. CASE BeginRun(s)
      <4>1. PICK r \in Runs : Goto(s, [at |-> "reconcile", run |-> r])
        BY <3>1 DEF BeginRun
      <4>2. QED
        BY <1>4, <3>1, <4>1 DEF BeginRun
    <3>2. CASE Crash(s)
      BY <1>4, <3>2 DEF Crash, Idle
    <3>3. CASE ReconcileLock(s)
      <4>1. Goto(s, [at |-> "handoffs", run |-> o.run, goal |-> "enter",
                     blocking |-> Blocking(o.run)])
        BY <3>3 DEF ReconcileLock, o
      <4>2. UNCHANGED intents
        BY <3>3 DEF ReconcileLock
      <4>3. QED
        BY <1>4, <4>1, <4>2
    <3>4. QED
      BY <1>7, <3>1, <3>2, <3>3
  <2>2. QED
    BY <1>5, <1>6, <2>1
<1>8. CASE ScanHandoffs(s) \/ ScanActives(s)
  <2>1. o \in LookSteps /\ UNCHANGED intents
    BY <1>1, <1>8, EntryOpsAt DEF ScanHandoffs, ScanActives, o
  <2>2. \E at \in {"actives", "enter"} : Goto(s, Idle) \/ GotoAt(s, at)
    BY <1>8, <2>1 DEF ScanHandoffs, ScanActives, o, LookSteps
  <2>3. \A at \in {"actives", "enter"} : [o EXCEPT !.at = at].at = at
    BY <2>1 DEF LookSteps
  <2>4. Goto(s, Idle) => op'[s].at = "idle"
    BY <1>4 DEF Idle
  <2>5. QED
    BY <1>3, <1>5, <1>6, <2>1, <2>2, <2>3, <2>4
<1>9. CASE Load(s)
  <2>1. o \in LookSteps /\ UNCHANGED intents
    BY <1>1, <1>9, EntryOpsAt DEF Load, o
  <2>2. CASE Goto(s, Idle)
    BY <1>4, <1>5, <1>6, <2>1, <2>2 DEF Idle
  <2>3. CASE ~Busy(o.run) /\ GotoAt(s, "decide")
    <3>1. op'[s].at = "decide" /\ op'[s].run = o.run
      <4>1. op'[s] = [o EXCEPT !.at = "decide"]
        BY <1>3, <2>3
      <4>2. [o EXCEPT !.at = "decide"].at = "decide" /\ [o EXCEPT !.at = "decide"].run = o.run
        BY <2>1 DEF LookSteps
      <4>3. QED
        BY <4>1, <4>2
    <3>2. \A i \in DOMAIN intents : intents[i].run = o.run => intents[i].status = "simulated"
      <4>1. \A i \in DOMAIN intents : intents[i].status \in {"created", "submitted", "simulated"}
        BY DEF CycleType, IntentRows
      <4>2. QED
        BY <2>3, <4>1 DEF Busy
    <3>3. QED
      BY <1>2, <1>6, <2>1, <3>1, <3>2 DEF EntryInv, OneEntryPerRun
  <2>4. QED
    BY <1>9, <2>2, <2>3 DEF Load, o
<1>10. CASE Decide(s)
  <2>1. UNCHANGED intents /\ o.at = "decide"
    BY <1>10 DEF Decide, o
  <2>2. PICK stage, pair : Goto(s, Evaluating(s, stage, pair))
    BY <1>10 DEF Decide, DecideLocked, DecideBlocked
  <2>3. op'[s].at = "evaluate" /\ op'[s].run = o.run
    BY <1>4, <2>2 DEF Evaluating, o
  <2>4. QED
    BY <1>2, <1>6, <2>1, <2>3 DEF EntryInv, OneEntryPerRun, o
<1>11. CASE Evaluate(s)
  <2>1. o \in EvaluateSteps /\ UNCHANGED intents /\ (Goto(s, Idle) \/ GotoAt(s, "persist")) /\ o.at = "evaluate"
    BY <1>1, <1>11, EntryOpsAt DEF Evaluate, o
  <2>2. CASE GotoAt(s, "persist")
    <3>1. op'[s] = [o EXCEPT !.at = "persist"]
      BY <1>3, <2>2
    <3>2. op'[s].at = "persist" /\ op'[s].run = o.run
      BY <2>1, <3>1 DEF EvaluateSteps
    <3>3. QED
      BY <1>2, <1>6, <2>1, <3>2 DEF EntryInv, OneEntryPerRun, o
  <2>3. CASE Goto(s, Idle)
    BY <1>4, <1>5, <1>6, <2>1, <2>3 DEF Idle
  <2>4. QED
    BY <2>1, <2>2, <2>3
<1>12. CASE Persist(s)
  <2> DEFINE row == [run |-> o.run, status |-> "created", orders |-> "none"]
  <2>1. o.at = "persist"
    BY <1>12 DEF Persist, o
  <2>2. PICK i \in Intents \ DOMAIN intents, at \in {"refresh", "record"} :
            /\ intents' = Added(intents, i, row)
            /\ Goto(s, [at |-> at, run |-> o.run, pair |-> o.pair, intent |-> i])
    BY <1>12 DEF Persist, o
  <2>3. op'[s].at \in {"refresh", "record"} /\ op'[s].intent = i
    BY <1>4, <2>2
  <2>4. /\ DOMAIN intents' = DOMAIN intents \cup {i} /\ intents'[i] = row
        /\ \A j \in DOMAIN intents : j # i => intents'[j] = intents[j]
    BY <2>2 DEF Added
  <2>5. \A j \in DOMAIN intents : intents[j].run = o.run => intents[j].status = "simulated"
    BY <2>1 DEF EntryInv, o
  <2>6. i \notin DOMAIN intents
    BY <2>2
  <2>7. OneEntryPerRun'
    BY <2>4, <2>5, <2>6 DEF EntryInv, OneEntryPerRun
  <2>8. QED
    BY <1>2, <2>3, <2>4, <2>7 DEF EntryInv
<1>13. CASE Refresh(s) \/ Record(s)
  <2>1. o \in IntentSteps /\ UNCHANGED intents
    BY <1>1, <1>13, EntryOpsAt DEF Refresh, Record, o
  <2>2. PICK at \in {"record", "submit"} : op'[s] = [o EXCEPT !.at = at]
    BY <1>1, <1>3, <1>13 DEF Refresh, Record
  <2>3. op'[s].at = at /\ op'[s].intent = o.intent
    BY <2>1, <2>2 DEF IntentSteps
  <2>4. QED
    BY <1>2, <2>1, <2>3 DEF EntryInv, OneEntryPerRun, o
<1>14. CASE Submit(s)
  <2>1. o \in IntentSteps
    BY <1>1, <1>14, EntryOpsAt DEF Submit, o
  <2>2. PICK out \in SubmitOutcomes :
            /\ intents' = [intents EXCEPT ![o.intent].status = out.status,
                                          ![o.intent].orders = out.orders]
            /\ Goto(s, [at |-> "report", run |-> o.run, pair |-> o.pair, intent |-> o.intent,
                        stage |-> out.stage])
    BY <1>14 DEF Submit, o
  <2>3. /\ o.intent \in DOMAIN intents /\ intents[o.intent] \in IntentRows
        /\ intents[o.intent].status = "created"
    BY <2>1 DEF EntryInv, CycleType, o
  <2>4. /\ DOMAIN intents' = DOMAIN intents
        /\ \A j \in DOMAIN intents : j # o.intent => intents'[j] = intents[j]
        /\ intents'[o.intent] = [[intents[o.intent] EXCEPT !.status = out.status] EXCEPT !.orders = out.orders]
    BY <2>2, <2>3
  <2>5. intents'[o.intent].run = intents[o.intent].run
    BY <2>3, <2>4 DEF IntentRows
  <2>6. OneEntryPerRun'
    <3>1. \A j \in DOMAIN intents :
              /\ intents'[j].run = intents[j].run
              /\ intents'[j].status # "simulated" => intents[j].status # "simulated"
      BY <2>3, <2>4, <2>5
    <3>2. OneEntryPerRun
      BY DEF EntryInv
    <3>3. SUFFICES ASSUME NEW i \in DOMAIN intents, NEW j \in DOMAIN intents,
                          intents'[i].run = intents'[j].run,
                          intents'[i].status # "simulated", intents'[j].status # "simulated"
                   PROVE  i = j
      BY <2>4 DEF OneEntryPerRun
    <3>4. QED
      BY <3>1, <3>2, <3>3 DEF OneEntryPerRun
  <2>7. op'[s].at = "report"
    BY <1>4, <2>2
  <2>8. QED
    BY <1>2, <1>6, <2>6, <2>7 DEF EntryInv
<1>15. CASE Report(s)
  <2>1. o \in ReportSteps /\ UNCHANGED intents /\ op'[s] = [o EXCEPT !.at = "relock"]
    BY <1>1, <1>3, <1>15, EntryOpsAt DEF Report, o
  <2>2. op'[s].at = "relock"
    BY <2>1 DEF ReportSteps
  <2>3. QED
    BY <1>5, <1>6, <2>1, <2>2
<1>16. CASE Relock(s)
  <2>1. UNCHANGED intents /\ (Goto(s, Idle) \/ (o.at = "relock" /\ GotoAt(s, "open_trace")))
    BY <1>16 DEF Relock, o
  <2>2. CASE o.at = "relock" /\ GotoAt(s, "open_trace")
    <3>1. o \in ReportSteps /\ op'[s] = [o EXCEPT !.at = "open_trace"]
      BY <1>1, <1>3, <2>2, EntryOpsAt
    <3>2. op'[s].at = "open_trace"
      BY <3>1 DEF ReportSteps
    <3>3. QED
      BY <1>5, <1>6, <2>1, <3>2
  <2>3. CASE Goto(s, Idle)
    BY <1>4, <1>5, <1>6, <2>1, <2>3 DEF Idle
  <2>4. QED
    BY <2>1, <2>2, <2>3
<1>17. CASE OpenTrace(s)
  <2>1. UNCHANGED intents /\ \E t : Goto(s, [at |-> "show_trace", run |-> o.run, pair |-> o.pair, trace |-> t])
    BY <1>17 DEF OpenTrace, o
  <2>2. op'[s].at = "show_trace"
    BY <1>4, <2>1
  <2>3. QED
    BY <1>5, <1>6, <2>1, <2>2
<1>18. CASE ShowTrace(s)
  <2>1. PICK stage, pair : Goto(s, [at |-> "relock_trace", run |-> o.run, stage |-> stage, pair |-> pair])
    BY <1>1, <1>18 DEF ShowTrace, o
  <2>2. op'[s].at = "relock_trace" /\ UNCHANGED intents
    BY <1>4, <1>18, <2>1 DEF ShowTrace
  <2>3. QED
    BY <1>5, <1>6, <2>2
<1>19. ~CheckEnded(s) /\ ~Close(s) /\ ~CheckOverdue(s)
  BY <1>1, EntryOpsAt DEF CheckEnded, Close, CheckOverdue, o
<1>20. CASE PersistRefused(s) \/ Unlock(s)
  <2>1. o \in EvaluateSteps /\ UNCHANGED intents /\ (Goto(s, Idle) \/ GotoAt(s, "unlock"))
    BY <1>1, <1>20, EntryOpsAt DEF PersistRefused, Unlock, o
  <2>2. [o EXCEPT !.at = "unlock"].at = "unlock"
    BY <2>1 DEF EvaluateSteps
  <2>3. Goto(s, Idle) => op'[s].at = "idle"
    BY <1>4 DEF Idle
  <2>4. QED
    BY <1>3, <1>5, <1>6, <2>1, <2>2, <2>3
<1>21. QED
  BY <1>7, <1>8, <1>9, <1>10, <1>11, <1>12, <1>13, <1>14, <1>15, <1>16, <1>17, <1>18, <1>19, <1>20
     DEF Continue, EntrySteps

LEMMA EntryInit ==
    ASSUME NEW s, Runtimes = {s}, Init
    PROVE  EntryInv(s)
<1>1. DOMAIN intents = {} /\ \A a \in Threads : op[a] = Idle
  BY DEF Init
<1>2. Idle \notin IntentSteps /\ Idle.at = "idle"
  BY DEF Idle, IntentSteps
<1>3. op[s] = Idle /\ \A h \in Handlers : op[h] = Idle
  BY <1>1 DEF Threads
<1>4. QED
  BY <1>1, <1>2, <1>3 DEF EntryInv, OneEntryPerRun

LEMMA EntryStep ==
    ASSUME NEW s, Runtimes = {s}, CycleType, CycleType', EntryInv(s),
           [Next \/ \E a \in Threads : Crash(a)]_vars
    PROVE  EntryInv(s)'
<1>1. CASE UNCHANGED vars
  BY <1>1 DEF vars, EntryInv, OneEntryPerRun
<1>2. CASE World
  <2>1. UNCHANGED op
    BY <1>2 DEF World, StartRun, StopRun, OrdersProgress, SubmitTimePasses, MoveTrace, ExpireLock
  <2>2. ASSUME NEW i, OrdersProgress(i) PROVE NoneBegins
    <3>1. /\ i \in DOMAIN intents /\ intents[i].orders = "open"
          /\ \/ intents' = [intents EXCEPT ![i].orders = "filled", ![i].status = "simulated"]
             \/ intents' = [intents EXCEPT ![i].orders = "ended"]
      BY <2>2 DEF OrdersProgress
    <3>2. ASSUME NEW j \in DOMAIN intents
          PROVE  /\ intents'[j].run = intents[j].run
                 /\ intents[j].status = "simulated" => intents'[j].status = "simulated"
                 /\ intents[j].orders = "none" => intents'[j] = intents[j]
      <4>1. intents[j] \in IntentRows
        BY DEF CycleType
      <4>2. \/ intents'[j] = intents[j]
            \/ /\ intents[j].orders = "open"
               /\ intents'[j] = [[intents[j] EXCEPT !.orders = "filled"] EXCEPT !.status = "simulated"]
            \/ intents[j].orders = "open" /\ intents'[j] = [intents[j] EXCEPT !.orders = "ended"]
        BY <3>1
      <4>3. QED
        BY <4>1, <4>2 DEF IntentRows
    <3>3. QED
      BY <3>1, <3>2 DEF NoneBegins
  <2>3. UNCHANGED intents => NoneBegins
    BY DEF NoneBegins
  <2>4. UNCHANGED intents \/ \E i \in Intents : OrdersProgress(i)
    BY <1>2 DEF World, StartRun, StopRun, SubmitTimePasses, MoveTrace, ExpireLock
  <2>5. \A h \in Handlers : op'[h] = Idle
    BY <2>1 DEF EntryInv
  <2>6. QED
    BY <2>1, <2>2, <2>3, <2>4, <2>5, EntryStepKept
<1>3. ASSUME NEW w \in Watchers, Continue(w) \/ BeginClose(w) \/ BeginWatch(w) \/ Crash(w)
      PROVE  EntryInv(s)'
  <2>1. w \in Threads /\ w \notin Runtimes \cup Handlers /\ op[w] \in SweepOps
    BY ThreadAssumption DEF Threads, CycleType, OpsOK
  <2>2. ~Persist(w) /\ ~Submit(w)
    BY <2>1, SweepOpsAt DEF Persist, Submit
  <2>3. UNCHANGED intents
    BY <1>3, <2>2 DEF Continue, EntrySteps, PersistRefused, Unlock, BeginClose, BeginWatch,
             Crash, ScanHandoffs, ScanActives, ReconcileLock, Load, Decide, CheckEnded,
             CheckOverdue, Close, Evaluate, Record, Report, ShowTrace, Refresh, Relock,
             OpenTrace
  <2>4. \A a \in Runtimes \cup Handlers : op'[a] = op[a]
    BY <1>3, <2>1, ActMovesOne DEF Act, Threads
  <2>5. op'[s] = op[s] /\ \A h \in Handlers : op'[h] = Idle
    BY <2>4 DEF EntryInv
  <2>6. QED
    BY <2>3, <2>5, EntryStepKept DEF NoneBegins
<1>4. \A h \in Handlers : ~Continue(h) /\ ~Crash(h)
  BY HandlersIdle DEF EntryInv, Crash
<1>5. CASE Continue(s) \/ BeginRun(s) \/ Crash(s)
  BY <1>5, EntryStepRuntime
<1>6. QED
  BY <1>1, <1>2, <1>3, <1>4, <1>5 DEF Next, Threads

LEMMA EntryInvariant ==
    ASSUME NEW s, Runtimes = {s}
    PROVE  (Spec => []EntryInv(s)) /\ (CrashingSpec => []EntryInv(s))
<1>1. Init => EntryInv(s)
  BY EntryInit
<1>2. EntryInv(s) /\ CycleType /\ CycleType' /\ [Next]_vars => EntryInv(s)'
  BY EntryStep
<1>3. /\ EntryInv(s) /\ CycleType /\ CycleType'
      /\ [(Next \/ \E a \in Threads : Crash(a)) /\ ScansUndisturbed]_vars
      => EntryInv(s)'
  BY EntryStep
<1>4. Spec => []EntryInv(s)
  BY <1>1, <1>2, CycleTypeInvariant, PTL DEF Spec
<1>5. CrashingSpec => []EntryInv(s)
  BY <1>1, <1>3, CycleTypeInvariant, PTL DEF CrashingSpec
<1>6. QED
  BY <1>4, <1>5

\* A run has at most one entry that is not over: with the one strategy runtime
\* thread of the program, whatever the sweeps of the recovery runtime do meanwhile
\* and wherever the threads are restarted.
THEOREM OneEntryPerRunAlways ==
    ASSUME NEW s, Runtimes = {s}
    PROVE  (Spec => []OneEntryPerRun) /\ (CrashingSpec => []OneEntryPerRun)
<1>1. EntryInv(s) => OneEntryPerRun
  BY DEF EntryInv
<1>2. Spec => []OneEntryPerRun
  BY <1>1, EntryInvariant, PTL
<1>3. CrashingSpec => []OneEntryPerRun
  BY <1>1, EntryInvariant, PTL
<1>4. QED
  BY <1>2, <1>3

-----------------------------------------------------------------------------
(* The pair lock, the evaluations and the traces agree, between the runtime  *)
(* thread and the operators                                                  *)

Entering == {"enter", "decide", "evaluate", "persist", "unlock", "refresh", "record", "submit", "report",
             "relock", "open_trace"}

\* The steps of an accepted entry, from the acquisition of the lock to the last use of it.
Owns(o) ==
    /\ \/ o.at \in {"persist", "refresh", "record", "submit", "report", "relock"}
       \/ o.at = "evaluate" /\ o.stage = "decision_accepted"
    /\ o.pair

\* What the runtime has seen still holds while it goes on.
StepOK(o) ==
    /\ o # Idle => runs[o.run] # "absent"
    /\ o.at \in Entering => Blocking(o.run) = {}
    /\ o.at = "actives" => \A t \in Blocking(o.run) : traces[t].status # "handoff_required"
    /\ Owns(o) => holder = o.run
    /\ o.at \in {"persist", "unlock"} => ~Holds(evaluation[o.run])
    /\ o.at \in {"relock", "open_trace"} => evaluation[o.run].stage = o.stage
    /\ o.at = "show_trace" => traces[o.trace].run = o.run /\ Blocking(o.run) \subseteq {o.trace}
    /\ o.at = "relock_trace" /\ o.stage = "closed" =>
           ~Holds(evaluation[o.run]) /\ Blocking(o.run) = {}

Unresolved(t) == traces[t].status \in BlockingStatuses

\* An unresolved trace is the only one of its bot and is what its run shows, and a
\* running run that shows an entry owns the lock.
PairOK ==
    /\ \A t \in DOMAIN traces :
           Unresolved(t) => evaluation[traces[t].run].stage = Preview(traces[t].status)
    /\ \A t, u \in DOMAIN traces :
           /\ Unresolved(t) /\ Unresolved(u)
           /\ BotOf[traces[t].run] = BotOf[traces[u].run]
           => t = u
    /\ \A r \in Runs : runs[r] = "absent" => evaluation[r] = NoEvaluation
    /\ \A r \in Runs : runs[r] = "running" /\ Holds(evaluation[r]) => holder = r

PairInv(s) == PairOK /\ StepOK(op[s])

LEMMA PreviewValues ==
    /\ Preview("resolved") = "closed"
    /\ \A status \in ActiveStatuses : Preview(status) = status
    /\ \A status \in BlockingStatuses :
           Preview(status) \in HeldStages /\ Preview(status) \in ActiveStatuses \cup {"manual_handoff"}
<1>1. Preview("resolved") = "closed"
  BY Zenon DEF Preview, ActiveStatuses
<1>2. Preview("handoff_required") = "manual_handoff"
  BY DEF Preview, ActiveStatuses
<1>3. ASSUME NEW status \in ActiveStatuses PROVE Preview(status) = status
  <2>1. status = "recovery_required" \/ status = "unwind_in_progress"
    BY <1>3 DEF ActiveStatuses
  <2>2. QED
    BY <2>1 DEF Preview, ActiveStatuses
<1>4. QED
  BY <1>1, <1>2, <1>3 DEF BlockingStatuses, ActiveStatuses, HeldStages

\* PairOK is about these variables alone.
LEMMA PairKept ==
    ASSUME PairOK, UNCHANGED <<runs, evaluation, traces, holder>>
    PROVE  PairOK'
BY DEF PairOK, Unresolved

\* Only a free lock is taken.
LEMMA LockTaken ==
    ASSUME CycleType, PairOK, NEW r \in Runs, TakeLock(r), UNCHANGED <<runs, evaluation, traces>>
    PROVE  PairOK'
<1>1. \A q \in Runs : runs[q] = "running" /\ Holds(evaluation[q]) => holder' = q
  BY NoneAssumption DEF PairOK, TakeLock, Free
<1>2. QED
  BY <1>1 DEF PairOK, Unresolved, Holds

\* The lock of a run that shows no entry may be released.
LEMMA LockReleased ==
    ASSUME CycleType, PairOK, NEW r \in Runs, ReleaseLock(r), ~Holds(evaluation[r]),
           UNCHANGED <<runs, evaluation, traces>>
    PROVE  PairOK'
<1>1. \A q \in Runs : runs[q] = "running" /\ Holds(evaluation[q]) => holder' = q
  BY DEF PairOK, ReleaseLock
<1>2. QED
  BY <1>1 DEF PairOK, Unresolved, Holds

\* An evaluation may be written when nothing blocks its bot.
LEMMA EvaluationWritten ==
    ASSUME CycleType, PairOK, NEW r \in Runs, NEW e,
           evaluation' = [evaluation EXCEPT ![r] = e],
           runs[r] # "absent", Blocking(r) = {}, Holds(e) => holder = r,
           UNCHANGED <<runs, traces, holder>>
    PROVE  PairOK' /\ evaluation'[r] = e
<1>1. evaluation'[r] = e /\ \A q \in Runs : q # r => evaluation'[q] = evaluation[q]
  BY DEF CycleType
<1>2. \A t \in DOMAIN traces : traces[t].run \in Runs
  BY DEF CycleType, TraceRows
<1>3. \A t \in DOMAIN traces : Unresolved(t) => traces[t].run # r
  BY DEF Unresolved, Blocking
<1>4. \A t \in DOMAIN traces :
          Unresolved(t) => evaluation'[traces[t].run].stage = Preview(traces[t].status)
  BY <1>1, <1>2, <1>3 DEF PairOK
<1>5. \A q \in Runs : runs[q] = "absent" => evaluation'[q] = NoEvaluation
  BY <1>1 DEF PairOK
<1>6. \A q \in Runs : runs[q] = "running" /\ Holds(evaluation'[q]) => holder = q
  BY <1>1 DEF PairOK
<1>7. QED
  BY <1>1, <1>4, <1>5, <1>6 DEF PairOK, Unresolved, Holds

\* Whatever a thread is in the middle of is about a run.
LEMMA OpRuns ==
    ASSUME CycleType, NEW a \in Threads, op[a] # Idle
    PROVE  op[a].run \in Runs
<1>1. op[a] \in EntryOps \cup SweepOps
  BY DEF CycleType, OpsOK, Threads
<1>2. QED
  BY <1>1 DEF EntryOps, SweepOps, LookSteps, EvaluateSteps, IntentSteps, ReportSteps, FailedSteps,
              ShowSteps, RelockSteps, CloseSteps, WatchSteps, TimeoutSteps

\* A step of the world leaves what the runtime holds sound.
LEMMA PairStepWorld ==
    ASSUME NEW s \in Threads, CycleType, PairInv(s), World, ScansUndisturbed
    PROVE  PairInv(s)'
<1> PICK o : o = op[s]
  OBVIOUS
<1>1. UNCHANGED op
  BY DEF World, StartRun, StopRun, OrdersProgress, SubmitTimePasses, MoveTrace, ExpireLock
<1>2. ASSUME PairOK', StepOK(o)' PROVE PairInv(s)'
  BY <1>1, <1>2 DEF PairInv, StepOK
<1>3. StepOK(o) /\ PairOK
  BY DEF PairInv
<1>4. ASSUME UNCHANGED <<runs, evaluation, traces, holder>> PROVE PairInv(s)'
  <2>1. StepOK(o)'
    BY <1>3, <1>4 DEF StepOK, Blocking, Holds
  <2>2. QED
    BY <1>2, <1>3, <1>4, <2>1, PairKept
<1>5. ASSUME NEW r \in Runs, StartRun(r) \/ StopRun(r) PROVE PairInv(s)'
  <2>1. /\ UNCHANGED <<evaluation, traces, holder>>
        /\ \A q \in Runs : q # r => runs'[q] = runs[q]
        /\ runs'[r] # "absent"
        /\ runs'[r] = "running" => runs[r] = "absent"
    BY <1>5 DEF StartRun, StopRun, CycleType
  <2>2. ~Holds(NoEvaluation)
    BY DEF Holds, NoEvaluation
  <2>3. \A q \in Runs : runs'[q] = "running" /\ Holds(evaluation[q]) => holder = q
    BY <1>3, <2>1, <2>2 DEF PairOK
  <2>4. PairOK'
    BY <1>3, <2>1, <2>3 DEF PairOK, Unresolved, Holds
  <2>5. \A q \in Runs : runs[q] # "absent" => runs'[q] # "absent"
    BY <2>1
  <2>6. o # Idle => o.run \in Runs
    BY OpRuns
  <2>7. StepOK(o)'
    BY <1>3, <2>1, <2>5, <2>6 DEF StepOK, Blocking, Holds
  <2>8. QED
    BY <1>2, <2>4, <2>7
<1>6. ASSUME NEW i, OrdersProgress(i) \/ SubmitTimePasses(i) PROVE PairInv(s)'
  BY <1>4, <1>6 DEF OrdersProgress, SubmitTimePasses
<1>7. ASSUME ExpireLock PROVE PairInv(s)'
  <2>1. /\ UNCHANGED <<runs, evaluation, traces>> /\ holder \in Runs
        /\ runs[holder] # "running" \/ ~Holds(evaluation[holder])
        /\ o # Idle => o.run # holder
    BY <1>7 DEF ExpireLock, CycleType
  <2>2. \A q \in Runs : ~(runs[q] = "running" /\ Holds(evaluation[q]))
    BY <1>3, <2>1 DEF PairOK
  <2>3. PairOK'
    BY <1>3, <2>1, <2>2 DEF PairOK, Unresolved, Holds
  <2>4. ~Owns(o)
    BY <1>3, <2>1 DEF Owns, StepOK, Idle
  <2>5. StepOK(o)'
    BY <1>3, <2>1, <2>4 DEF StepOK, Blocking, Holds
  <2>6. QED
    BY <1>2, <2>3, <2>5
<1>8. ASSUME NEW t \in Traces, MoveTrace(t) PROVE PairInv(s)'
  <2> DEFINE r == traces[t].run
  <2>1. t \in DOMAIN traces /\ traces[t] \in TraceRows /\ Unresolved(t) /\ r \in Runs
    BY <1>8 DEF MoveTrace, CycleType, TraceRows, Unresolved
  <2>2. PICK status \in BlockingStatuses \cup {"resolved"} :
            traces' = [traces EXCEPT ![t].status = status] /\ evaluation' = Synced(r, status)
    BY <1>8 DEF MoveTrace, BlockingStatuses, ActiveStatuses
  <2>3. UNCHANGED <<runs, holder>>
    BY <1>8 DEF MoveTrace
  <2>4. /\ DOMAIN traces' = DOMAIN traces
        /\ \A u \in DOMAIN traces : u # t => traces'[u] = traces[u]
        /\ traces'[t] = [traces[t] EXCEPT !.status = status]
    BY <2>1, <2>2
  <2>5. traces'[t].run = r /\ traces'[t].status = status
    BY <2>1, <2>4 DEF TraceRows
  <2> HIDE DEF r
  <2>6. \A u \in DOMAIN traces : traces'[u].run = traces[u].run
    BY <2>4, <2>5 DEF r
  <2>7. evaluation[r].stage = Preview(traces[t].status) /\ Preview(traces[t].status) \in HeldStages
    BY <1>3, <2>1, PreviewValues DEF PairOK, Unresolved, r
  <2>8. evaluation[r] # NoEvaluation
    BY <2>7 DEF NoEvaluation, HeldStages
  <2>9. /\ \A q \in Runs : q # r => evaluation'[q] = evaluation[q]
        /\ evaluation'[r] = [evaluation[r] EXCEPT !.stage = Preview(status)]
    BY <2>1, <2>2, <2>8 DEF Synced, CycleType
  <2>10. evaluation'[r].stage = Preview(status) /\ evaluation'[r].pair = evaluation[r].pair
    <3>1. evaluation[r] \in [stage : Stages, intent : Intents \cup {NoIntent}, pair : BOOLEAN]
      BY <2>1, <2>8 DEF CycleType, Evaluation
    <3>2. QED
      BY <2>9, <3>1
  <2>11. \A q : Blocking(q)' \subseteq Blocking(q)
    BY <2>1, <2>4, <2>6 DEF Blocking, Unresolved
  <2>12. \A q \in Runs : Blocking(q) = {} => q # r
    BY <2>1 DEF Blocking, Unresolved, r
  <2>13. PairOK'
    <3>1. \A u \in DOMAIN traces : traces'[u].status \in BlockingStatuses => Unresolved(u)
      BY <2>1, <2>4 DEF Unresolved
    <3>2. \A u \in DOMAIN traces : traces[u].run \in Runs
      BY DEF CycleType, TraceRows
    <3>3. ASSUME NEW u \in DOMAIN traces, traces'[u].status \in BlockingStatuses
          PROVE  evaluation'[traces'[u].run].stage = Preview(traces'[u].status)
      <4>1. CASE u = t
        BY <2>5, <2>10, <4>1
      <4>2. CASE u # t
        <5>1. traces[u].run # r
          BY <1>3, <2>1, <3>1, <3>3, <4>2 DEF PairOK, r
        <5>2. QED
          BY <1>3, <2>4, <2>9, <3>1, <3>2, <3>3, <4>2, <5>1 DEF PairOK
      <4>3. QED
        BY <4>1, <4>2
    <3>4. \A u, v \in DOMAIN traces :
              /\ traces'[u].status \in BlockingStatuses /\ traces'[v].status \in BlockingStatuses
              /\ BotOf[traces'[u].run] = BotOf[traces'[v].run]
              => u = v
      BY <1>3, <2>6, <3>1 DEF PairOK
    <3>5. \A q \in Runs : runs[q] = "absent" => evaluation'[q] = NoEvaluation
      BY <1>3, <2>8, <2>9 DEF PairOK
    <3>6. \A q \in Runs : Holds(evaluation'[q]) => Holds(evaluation[q])
      BY <2>7, <2>9, <2>10 DEF Holds
    <3>7. QED
      BY <1>3, <2>3, <2>4, <3>3, <3>4, <3>5, <3>6 DEF PairOK, Unresolved, Holds
  <2>14. StepOK(o)'
    <3>1. o # Idle => o.run \in Runs
      BY OpRuns
    <3>2. Owns(o) => o # Idle
      BY DEF Owns, Idle
    <3>3. o.at = "show_trace" => o.trace \in DOMAIN traces
      BY DEF CycleType
    <3>4. ASSUME o.at = "actives", NEW u \in Blocking(o.run)'
          PROVE  traces'[u].status # "handoff_required"
      <4>1. HandedOff' \subseteq HandedOff
        BY <3>4 DEF ScansUndisturbed
      <4>2. u \in Blocking(o.run) /\ u \in DOMAIN traces
        BY <2>11, <3>4 DEF Blocking
      <4>3. traces[u].status # "handoff_required"
        BY <1>3, <3>4, <4>2 DEF StepOK
      <4>4. QED
        BY <2>4, <4>1, <4>2, <4>3 DEF HandedOff
    <3>5. ASSUME o # Idle, Blocking(o.run) = {}
          PROVE  Blocking(o.run)' = {} /\ evaluation'[o.run] = evaluation[o.run]
      BY <2>9, <2>11, <2>12, <3>1, <3>5
    <3>6. \A at \in Entering \cup {"relock_trace"} : o.at = at => o # Idle
      BY DEF Entering, Idle
    <3>7. o.at \in {"relock", "open_trace"} => evaluation'[o.run].stage = o.stage
      BY <1>3, <3>5, <3>6 DEF StepOK, Entering
    <3>8. o.at = "relock_trace" /\ o.stage = "closed" =>
              ~Holds(evaluation'[o.run]) /\ Blocking(o.run)' = {}
      BY <1>3, <3>5, <3>6 DEF StepOK
    <3>9. o.at = "show_trace" => traces'[o.trace].run = o.run /\ Blocking(o.run)' \subseteq {o.trace}
      BY <1>3, <2>6, <2>11, <3>3 DEF StepOK
    <3>10. o.at \in Entering => Blocking(o.run)' = {}
      BY <1>3, <3>5, <3>6 DEF StepOK
    <3>11. (o # Idle => runs'[o.run] # "absent") /\ (Owns(o) => holder' = o.run)
      BY <1>3, <2>3 DEF StepOK
    <3>12. o.at \in {"persist", "unlock"} => ~Holds(evaluation'[o.run])
      BY <1>3, <3>5, <3>6 DEF StepOK, Entering
    <3>13. QED
      BY <3>4, <3>7, <3>8, <3>9, <3>10, <3>11, <3>12 DEF StepOK, Holds
  <2>15. QED
    BY <1>2, <2>13, <2>14
<1>9. QED
  BY <1>5, <1>6, <1>7, <1>8 DEF World

\* So does a step of the runtime itself.
LEMMA PairStepRuntime ==
    ASSUME NEW s \in Runtimes, CycleType, CycleType', PairInv(s), ScansUndisturbed,
           Continue(s) \/ BeginRun(s) \/ Crash(s)
    PROVE  PairInv(s)'
<1> PICK o : o = op[s]
  OBVIOUS
<1> PICK n : n = op'[s]
  OBVIOUS
<1>1. s \in Threads /\ s \notin Handlers \cup Watchers /\ o \in EntryOps /\ s \in DOMAIN op
  BY ThreadAssumption DEF CycleType, OpsOK, Threads
<1>2. ASSUME PairOK', StepOK(n)' PROVE PairInv(s)'
  BY <1>2 DEF PairInv, StepOK
<1>3. StepOK(o) /\ PairOK
  BY DEF PairInv
<1>4. \A at : GotoAt(s, at) => n = [o EXCEPT !.at = at]
  BY <1>1, GotoAtStep, GotoStep
<1>5. \A step : Goto(s, step) => n = step
  BY <1>1, GotoStep
<1>6. o # Idle => o.run \in Runs
  BY <1>1, OpRuns
<1>7. ASSUME NEW x, x = Idle PROVE StepOK(x)'
  BY <1>7 DEF StepOK, Idle, Entering, Owns
<1>8. UNCHANGED runs
  BY DEF Continue, EntrySteps, PersistRefused, Unlock, BeginRun, Crash, Evaluate, Persist,
         Refresh, Record, Submit, Report, Relock, OpenTrace, ShowTrace, ScanHandoffs,
         ScanActives, ReconcileLock, Load, Decide, CheckEnded, Close, CheckOverdue
\* A step that only looks.
<1>9. ASSUME UNCHANGED <<evaluation, traces, holder>>, StepOK(n) PROVE PairInv(s)'
  <2>1. StepOK(n)'
    BY <1>8, <1>9 DEF StepOK, Blocking, Holds
  <2>2. QED
    BY <1>2, <1>3, <1>8, <1>9, <2>1, PairKept
<1>10. StepOK(Idle)
  BY DEF StepOK, Idle, Entering, Owns
<1>11. CASE Crash(s)
  BY <1>5, <1>9, <1>10, <1>11 DEF Crash
<1>12. CASE BeginRun(s)
  <2>1. PICK r \in Runs : runs[r] = "running" /\ Goto(s, [at |-> "reconcile", run |-> r])
    BY <1>12 DEF BeginRun
  <2>2. n = [at |-> "reconcile", run |-> r]
    BY <1>5, <2>1
  <2>3. StepOK(n)
    BY <2>1, <2>2 DEF StepOK, Entering, Owns
  <2>4. QED
    BY <1>9, <1>12, <2>3 DEF BeginRun
<1>13. CASE ReconcileLock(s)
  <2>1. o \in [at : {"reconcile"}, run : Runs] /\ o.at = "reconcile"
    BY <1>1, <1>13, EntryOpsAt DEF ReconcileLock
  <2>2. o.run \in Runs /\ o # Idle
    BY <2>1 DEF Idle
  <2>3. n = [at |-> "handoffs", run |-> o.run, goal |-> "enter", blocking |-> Blocking(o.run)]
    BY <1>5, <1>13 DEF ReconcileLock
  <2>4. UNCHANGED <<evaluation, traces>>
    BY <1>13 DEF ReconcileLock
  <2>5. StepOK(n)'
    <3>1. runs'[n.run] # "absent" /\ n.at = "handoffs"
      BY <1>3, <1>8, <2>2, <2>3 DEF StepOK
    <3>2. QED
      BY <3>1 DEF StepOK, Entering, Owns
  <2>6. evaluation[o.run].pair \in BOOLEAN
    BY <2>2, EvaluationFields DEF CycleType
  <2>7. \/ TakeLock(o.run)
        \/ ReleaseLock(o.run) /\ ~Holds(evaluation[o.run])
        \/ UNCHANGED holder
    <3>1. CASE Holds(evaluation[o.run])
      BY Zenon, <1>13, <3>1 DEF ReconcileLock, Holds
    <3>2. CASE evaluation[o.run].pair /\ ~Holds(evaluation[o.run])
      BY Zenon, <1>13, <3>2 DEF ReconcileLock
    <3>3. CASE ~evaluation[o.run].pair
      BY Zenon, <1>13, <3>3 DEF ReconcileLock, Holds
    <3>4. QED
      BY <2>6, <3>1, <3>2, <3>3
  <2>8. PairOK'
    BY <1>3, <1>8, <2>2, <2>4, <2>7, LockTaken, LockReleased, PairKept
  <2>9. QED
    BY <1>2, <2>5, <2>8
<1>14. CASE ScanHandoffs(s)
  <2>1. o \in LookSteps /\ o.at = "handoffs" /\ o # Idle
    BY <1>1, <1>14, EntryOpsAt DEF ScanHandoffs, Idle
  <2>2. UNCHANGED <<evaluation, traces, holder>>
    BY <1>14 DEF ScanHandoffs
  <2>3. CASE Asked(s, {"handoff_required"}) # {}
    BY <1>5, <1>9, <1>10, <1>14, <2>2, <2>3 DEF ScanHandoffs
  <2>4. CASE Asked(s, {"handoff_required"}) = {}
    <3>1. n = [o EXCEPT !.at = "actives"]
      BY <1>4, <1>14, <2>4 DEF ScanHandoffs
    <3>2. n.at = "actives" /\ n.run = o.run
      BY <2>1, <3>1 DEF LookSteps
    <3>3. \A t \in Blocking(o.run) : traces[t].status # "handoff_required"
      BY <1>1, <2>4 DEF Asked, Blocking
    <3>4. QED
      BY <1>3, <1>9, <2>1, <2>2, <3>2, <3>3 DEF StepOK, Entering, Owns
  <2>5. QED
    BY <2>3, <2>4
<1>15. CASE ScanActives(s)
  <2>1. o \in LookSteps /\ o.at = "actives" /\ o # Idle
    BY <1>1, <1>15, EntryOpsAt DEF ScanActives, Idle
  <2>2. UNCHANGED <<evaluation, traces, holder>>
    BY <1>15 DEF ScanActives
  <2>3. CASE Asked(s, ActiveStatuses) # {}
    BY <1>5, <1>9, <1>10, <1>15, <2>2, <2>3 DEF ScanActives
  <2>4. CASE Asked(s, ActiveStatuses) = {}
    <3>1. n = [o EXCEPT !.at = o.goal] /\ o.goal = "enter"
      BY <1>4, <1>15, <2>1, <2>4 DEF ScanActives, LookSteps
    <3>2. n.at = "enter" /\ n.run = o.run
      BY <2>1, <3>1 DEF LookSteps
    <3>3. \A t \in Blocking(o.run) : traces[t].status # "handoff_required"
      BY <1>3, <2>1 DEF StepOK
    <3>4. Blocking(o.run) = {}
      BY <1>1, <2>4, <3>3 DEF Asked, Blocking, BlockingStatuses
    <3>5. QED
      BY <1>3, <1>9, <2>1, <2>2, <3>2, <3>4 DEF StepOK, Entering, Owns
  <2>5. QED
    BY <2>3, <2>4
<1>16. CASE Load(s)
  <2>1. o \in LookSteps /\ o.at = "enter" /\ o # Idle /\ UNCHANGED <<evaluation, traces, holder>>
    BY <1>1, <1>16, EntryOpsAt DEF Load, Idle
  <2>2. CASE Goto(s, Idle)
    BY <1>5, <1>9, <1>10, <2>1, <2>2
  <2>3. CASE GotoAt(s, "decide")
    <3>1. n = [o EXCEPT !.at = "decide"]
      BY <1>4, <2>3
    <3>2. n.at = "decide" /\ n.run = o.run
      BY <2>1, <3>1 DEF LookSteps
    <3>3. Blocking(o.run) = {}
      BY <1>3, <2>1 DEF StepOK, Entering
    <3>4. QED
      BY <1>3, <1>9, <2>1, <3>2, <3>3 DEF StepOK, Owns
  <2>4. QED
    BY <1>16, <2>2, <2>3 DEF Load
<1>17. CASE Decide(s)
  <2>1. /\ o \in LookSteps /\ o.at = "decide" /\ o # Idle /\ o.run \in Runs
        /\ UNCHANGED <<evaluation, traces>>
    BY <1>1, <1>6, <1>17, EntryOpsAt DEF Decide, Idle
  <2>2. PICK stage, pair :
            /\ Goto(s, Evaluating(s, stage, pair))
            /\ \/ stage = "decision_rejected" /\ UNCHANGED holder
               \/ stage = "decision_accepted" /\ TakeLock(o.run) /\ Free(o.run)
    BY <1>17 DEF Decide, DecideLocked, DecideBlocked
  <2>3. n = Evaluating(s, stage, pair)
    BY <1>5, <2>2
  <2>4. n.at = "evaluate" /\ n.run = o.run /\ n.stage = stage
    BY <2>3 DEF Evaluating
  <2>5. stage = "decision_accepted" => holder' = o.run
    BY <2>2 DEF TakeLock
  <2>6. Blocking(o.run)' = {} /\ runs'[o.run] # "absent"
    BY <1>3, <1>8, <2>1 DEF StepOK, Entering, Blocking
  <2>7. StepOK(n)'
    BY <2>4, <2>5, <2>6 DEF StepOK, Owns
  <2>8. PairOK'
    BY <1>3, <1>8, <2>1, <2>2, LockTaken, PairKept
  <2>9. QED
    BY <1>2, <2>7, <2>8
<1>18. CASE Evaluate(s)
  <2> DEFINE e == [stage |-> o.stage, intent |-> NoIntent, pair |-> o.pair]
  <2>1. /\ o \in EvaluateSteps /\ o.at = "evaluate" /\ o # Idle /\ o.run \in Runs
        /\ UNCHANGED <<traces, holder>> /\ evaluation' = [evaluation EXCEPT ![o.run] = e]
    BY <1>1, <1>6, <1>18, EntryOpsAt DEF Evaluate, Idle
  <2>2. e.stage \in {"decision_accepted", "decision_rejected"}
    BY <2>1 DEF EvaluateSteps
  <2> HIDE DEF e
  <2>3. ~Holds(e)
    BY <2>2 DEF Holds, HeldStages
  <2>4. Blocking(o.run) = {} /\ runs[o.run] # "absent"
    BY <1>3, <2>1 DEF StepOK, Entering
  <2>5. PairOK'
    BY <1>3, <1>8, <2>1, <2>3, <2>4, EvaluationWritten
  <2>6. CASE o.stage = "decision_accepted" /\ GotoAt(s, "persist")
    <3>1. n = [o EXCEPT !.at = "persist"]
      BY <1>4, <2>6
    <3>2. n.at = "persist" /\ n.run = o.run /\ n.pair = o.pair
      BY <2>1, <3>1 DEF EvaluateSteps
    <3>3. n.pair => holder' = o.run
      BY <1>3, <2>1, <2>6, <3>2 DEF StepOK, Owns
    <3>4. Blocking(o.run)' = {} /\ runs'[o.run] # "absent"
      BY <1>8, <2>1, <2>4 DEF Blocking
    <3>5. ~Holds(evaluation'[o.run])
      BY <1>3, <1>8, <2>1, <2>3, <2>4, EvaluationWritten
    <3>6. StepOK(n)'
      BY <3>2, <3>3, <3>4, <3>5 DEF StepOK, Owns, Holds
    <3>7. QED
      BY <1>2, <2>5, <3>6
  <2>7. CASE Goto(s, Idle)
    BY <1>2, <1>5, <1>7, <2>5, <2>7
  <2>8. QED
    BY <1>18, <2>6, <2>7 DEF Evaluate
<1>19. CASE Persist(s)
  <2>1. o \in EvaluateSteps /\ o.at = "persist" /\ o # Idle /\ UNCHANGED <<evaluation, traces, holder>>
    BY <1>1, <1>19, EntryOpsAt DEF Persist, Idle
  <2>2. PICK at \in {"refresh", "record"} : \E i :
            Goto(s, [at |-> at, run |-> o.run, pair |-> o.pair, intent |-> i])
    BY <1>19 DEF Persist
  <2>3. n.at \in {"refresh", "record"} /\ n.run = o.run /\ n.pair = o.pair
    BY <1>5, <2>2
  <2>4. /\ Blocking(o.run) = {} /\ runs[o.run] # "absent"
        /\ o.pair => holder = o.run
    BY <1>3, <2>1 DEF StepOK, Entering, Owns
  <2>5. QED
    BY <1>9, <2>1, <2>3, <2>4 DEF StepOK, Owns
<1>20. CASE Refresh(s)
  <2>1. /\ o \in IntentSteps /\ o.at = "refresh" /\ o # Idle /\ o.run \in Runs
        /\ UNCHANGED <<evaluation, traces>> /\ TakeLock(o.run) /\ n = [o EXCEPT !.at = "record"]
    BY <1>1, <1>4, <1>6, <1>20, EntryOpsAt DEF Refresh, Idle
  <2>2. n.at = "record" /\ n.run = o.run /\ n.pair = o.pair
    BY <2>1 DEF IntentSteps
  <2>3. o.pair => holder' = o.run
    BY <1>3, <2>1 DEF StepOK, Owns, TakeLock
  <2>4. Blocking(o.run)' = {} /\ runs'[o.run] # "absent"
    BY <1>3, <1>8, <2>1 DEF StepOK, Entering, Blocking
  <2>5. StepOK(n)'
    BY <2>2, <2>3, <2>4 DEF StepOK, Owns
  <2>6. QED
    BY <1>2, <1>3, <1>8, <2>1, <2>5, LockTaken
<1>21. CASE Record(s)
  <2> DEFINE e == [stage |-> "intent_created", intent |-> o.intent, pair |-> o.pair]
  <2>1. /\ o \in IntentSteps /\ o.at = "record" /\ o # Idle /\ o.run \in Runs
        /\ UNCHANGED <<traces, holder>> /\ evaluation' = [evaluation EXCEPT ![o.run] = e]
        /\ n = [o EXCEPT !.at = "submit"]
    BY <1>1, <1>4, <1>6, <1>21, EntryOpsAt DEF Record, Shown, Idle
  <2>2. n.at = "submit" /\ n.run = o.run /\ n.pair = o.pair
    BY <2>1 DEF IntentSteps
  <2>3. e.pair = o.pair
    OBVIOUS
  <2> HIDE DEF e
  <2>4. /\ Blocking(o.run) = {} /\ runs[o.run] # "absent"
        /\ o.pair => holder = o.run
    BY <1>3, <2>1 DEF StepOK, Entering, Owns
  <2>5. PairOK'
    BY <1>3, <1>8, <2>1, <2>3, <2>4, EvaluationWritten DEF Holds
  <2>6. Blocking(o.run)' = {} /\ runs'[o.run] # "absent" /\ (o.pair => holder' = o.run)
    BY <1>8, <2>1, <2>4 DEF Blocking
  <2>7. StepOK(n)'
    BY <2>2, <2>6 DEF StepOK, Owns
  <2>8. QED
    BY <1>2, <2>5, <2>7
<1>22. CASE Submit(s)
  <2>1. o \in IntentSteps /\ o.at = "submit" /\ o # Idle /\ UNCHANGED <<evaluation, traces, holder>>
    BY <1>1, <1>22, EntryOpsAt DEF Submit, Idle
  <2>2. PICK out \in SubmitOutcomes :
            Goto(s, [at |-> "report", run |-> o.run, pair |-> o.pair, intent |-> o.intent,
                     stage |-> out.stage])
    BY <1>22 DEF Submit
  <2>3. n.at = "report" /\ n.run = o.run /\ n.pair = o.pair
    BY <1>5, <2>2
  <2>4. /\ Blocking(o.run) = {} /\ runs[o.run] # "absent"
        /\ o.pair => holder = o.run
    BY <1>3, <2>1 DEF StepOK, Entering, Owns
  <2>5. QED
    BY <1>9, <2>1, <2>3, <2>4 DEF StepOK, Owns
<1>23. CASE Report(s)
  <2> DEFINE e == [stage |-> o.stage, intent |-> o.intent, pair |-> o.pair]
  <2>1. /\ o \in ReportSteps /\ o.at = "report" /\ o # Idle /\ o.run \in Runs
        /\ UNCHANGED <<traces, holder>> /\ evaluation' = [evaluation EXCEPT ![o.run] = e]
        /\ n = [o EXCEPT !.at = "relock"]
    BY <1>1, <1>4, <1>6, <1>23, EntryOpsAt DEF Report, Shown, Idle
  <2>2. n.at = "relock" /\ n.run = o.run /\ n.pair = o.pair /\ n.stage = o.stage
    BY <2>1 DEF ReportSteps
  <2>3. e.pair = o.pair /\ e.stage = o.stage
    OBVIOUS
  <2> HIDE DEF e
  <2>4. /\ Blocking(o.run) = {} /\ runs[o.run] # "absent"
        /\ o.pair => holder = o.run
    BY <1>3, <2>1 DEF StepOK, Entering, Owns
  <2>5. PairOK' /\ evaluation'[o.run] = e
    BY <1>3, <1>8, <2>1, <2>3, <2>4, EvaluationWritten DEF Holds
  <2>6. Blocking(o.run)' = {} /\ runs'[o.run] # "absent" /\ (o.pair => holder' = o.run)
    BY <1>8, <2>1, <2>4 DEF Blocking
  <2>7. StepOK(n)'
    BY <2>2, <2>3, <2>5, <2>6 DEF StepOK, Owns
  <2>8. QED
    BY <1>2, <2>5, <2>7
<1>24. CASE Relock(s)
  <2>1. /\ o.at \in {"relock", "relock_trace"} /\ o \in ReportSteps \cup RelockSteps
        /\ o # Idle /\ o.run \in Runs /\ UNCHANGED <<evaluation, traces>>
    BY <1>1, <1>6, <1>24, EntryOpsAt DEF Relock, Idle
  <2>2. o.stage \in HeldStages \cup {"closed"} /\ o.pair \in BOOLEAN
    BY <2>1 DEF ReportSteps, RelockSteps
  <2>3. o.stage = "closed" => ~Holds(evaluation[o.run])
    BY <1>3, <2>1 DEF StepOK, Holds, HeldStages
  <2>4. "closed" \notin HeldStages
    BY DEF HeldStages
  <2>5. \/ ~o.pair /\ UNCHANGED holder
        \/ o.pair /\ o.stage \in HeldStages /\ TakeLock(o.run)
        \/ ReleaseLock(o.run) /\ ~Holds(evaluation[o.run]) /\ o.stage = "closed"
    BY <1>24, <2>2, <2>3, <2>4 DEF Relock
  <2>6. PairOK'
    BY <1>3, <1>8, <2>1, <2>5, LockTaken, LockReleased, PairKept
  <2>7. CASE Goto(s, Idle)
    BY <1>2, <1>5, <1>7, <2>6, <2>7
  <2>8. CASE o.at = "relock" /\ GotoAt(s, "open_trace")
    <3>1. o \in ReportSteps /\ n = [o EXCEPT !.at = "open_trace"]
      BY <1>1, <1>4, <2>8, EntryOpsAt
    <3>2. n.at = "open_trace" /\ n.run = o.run /\ n.stage = o.stage
      BY <3>1 DEF ReportSteps
    <3>3. /\ Blocking(o.run)' = {} /\ runs'[o.run] # "absent"
          /\ evaluation'[o.run].stage = o.stage
      BY <1>3, <1>8, <2>1, <2>8 DEF StepOK, Entering, Blocking
    <3>4. StepOK(n)'
      BY <3>2, <3>3 DEF StepOK, Owns
    <3>5. QED
      BY <1>2, <2>6, <3>4
  <2>9. QED
    BY <1>24, <2>7, <2>8 DEF Relock
<1>25. CASE OpenTrace(s)
  <2>1. /\ o \in FailedSteps /\ o.at = "open_trace" /\ o # Idle /\ o.run \in Runs
        /\ UNCHANGED <<evaluation, holder>>
    BY <1>1, <1>6, <1>25, EntryOpsAt DEF OpenTrace, Idle
  <2>2. PICK t \in Traces \ DOMAIN traces :
            /\ traces' = Added(traces, t, [run |-> o.run, status |-> o.stage])
            /\ Goto(s, [at |-> "show_trace", run |-> o.run, pair |-> o.pair, trace |-> t])
    BY <1>25 DEF OpenTrace
  <2>3. n.at = "show_trace" /\ n.run = o.run /\ n.trace = t
    BY <1>5, <2>2
  <2>4. /\ DOMAIN traces' = DOMAIN traces \cup {t} /\ t \notin DOMAIN traces
        /\ traces'[t].run = o.run /\ traces'[t].status = o.stage
        /\ \A u \in DOMAIN traces : traces'[u] = traces[u]
    BY <2>2 DEF Added
  <2>5. o.stage \in ActiveStatuses
    BY <2>1 DEF FailedSteps
  <2>6. Blocking(o.run) = {} /\ runs[o.run] # "absent" /\ evaluation[o.run].stage = o.stage
    BY <1>3, <2>1 DEF StepOK, Entering
  <2>7. \A u \in DOMAIN traces : Unresolved(u) => BotOf[traces[u].run] # BotOf[o.run]
    BY <2>6 DEF Blocking, Unresolved
  <2>8. PairOK'
    <3>1. ASSUME NEW u \in DOMAIN traces', traces'[u].status \in BlockingStatuses
          PROVE  evaluation[traces'[u].run].stage = Preview(traces'[u].status)
      BY <1>3, <2>4, <2>5, <2>6, <3>1, PreviewValues DEF PairOK, Unresolved
    <3>2. ASSUME NEW u \in DOMAIN traces', NEW v \in DOMAIN traces',
                 traces'[u].status \in BlockingStatuses, traces'[v].status \in BlockingStatuses,
                 BotOf[traces'[u].run] = BotOf[traces'[v].run]
          PROVE  u = v
      BY <1>3, <2>4, <2>7, <3>2 DEF PairOK, Unresolved
    <3>3. QED
      BY <1>3, <1>8, <2>1, <3>1, <3>2 DEF PairOK, Unresolved, Holds
  <2>9. Blocking(o.run)' \subseteq {t}
    BY <2>4, <2>7 DEF Blocking, Unresolved
  <2>10. StepOK(n)'
    BY <1>8, <2>3, <2>4, <2>6, <2>9 DEF StepOK, Entering, Owns
  <2>11. QED
    BY <1>2, <2>8, <2>10
<1>26. CASE ShowTrace(s)
  <2> DEFINE status == traces[o.trace].status
  <2>1. /\ o \in ShowSteps /\ o.at = "show_trace" /\ o # Idle /\ o.run \in Runs
        /\ UNCHANGED <<traces, holder>> /\ evaluation' = Synced(o.run, status)
        /\ n = [at |-> "relock_trace", run |-> o.run, stage |-> Preview(status),
                pair |-> evaluation[o.run].pair]
    BY <1>1, <1>5, <1>6, <1>26, EntryOpsAt DEF ShowTrace, Idle
  <2>2. o.trace \in DOMAIN traces /\ status \in BlockingStatuses \cup {"resolved"}
    <3>1. o.trace \in DOMAIN traces
      BY <1>1, <2>1 DEF CycleType
    <3>2. QED
      BY <3>1 DEF CycleType, TraceRows
  <2>3. n.at = "relock_trace" /\ n.run = o.run /\ n.stage = Preview(status)
    BY <2>1
  <2>4. /\ traces[o.trace].run = o.run /\ Blocking(o.run) \subseteq {o.trace}
        /\ runs[o.run] # "absent"
    BY <1>3, <2>1 DEF StepOK
  <2>5. CASE status \in BlockingStatuses
    <3>1. evaluation[o.run].stage = Preview(status) /\ Preview(status) # "closed"
      BY <1>3, <2>2, <2>4, <2>5, PreviewValues DEF PairOK, Unresolved, HeldStages
    <3>2. evaluation' = evaluation
      <4>1. CASE evaluation[o.run] = NoEvaluation
        BY <2>1, <4>1 DEF Synced
      <4>2. CASE evaluation[o.run] # NoEvaluation
        <5>1. evaluation' = [evaluation EXCEPT ![o.run].stage = Preview(status)]
          BY <2>1, <4>2 DEF Synced
        <5>2. evaluation[o.run] \in [stage : Stages, intent : Intents \cup {NoIntent}, pair : BOOLEAN]
          BY <2>1, <4>2 DEF CycleType, Evaluation
        <5>3. evaluation'[o.run] = [evaluation[o.run] EXCEPT !.stage = Preview(status)]
          BY <2>1, <5>1 DEF CycleType
        <5>4. evaluation'[o.run] = evaluation[o.run]
          BY <3>1, <5>2, <5>3
        <5>5. evaluation \in [Runs -> Evaluation] /\ \A q \in Runs : evaluation'[q] = evaluation[q]
          BY <5>1, <5>4 DEF CycleType
        <5>6. evaluation' \in [Runs -> Evaluation]
          BY DEF CycleType
        <5>7. QED
          BY <5>5, <5>6
      <4>3. QED
        BY <4>1, <4>2
    <3>3. StepOK(n)'
      BY <1>8, <2>3, <2>4, <3>1 DEF StepOK, Entering, Owns
    <3>4. QED
      BY <1>2, <1>3, <1>8, <2>1, <3>2, <3>3, PairKept
  <2>6. CASE status = "resolved"
    <3>1. Blocking(o.run) = {}
      BY <2>4, <2>6 DEF Blocking, BlockingStatuses, ActiveStatuses
    <3>2. ASSUME evaluation' = evaluation, ~Holds(evaluation[o.run]) PROVE PairInv(s)'
      <4>1. StepOK(n)'
        BY <1>8, <2>1, <2>3, <2>4, <3>1, <3>2 DEF StepOK, Entering, Owns, Blocking, Holds
      <4>2. QED
        BY <1>2, <1>3, <1>8, <2>1, <3>2, <4>1, PairKept
    <3>3. CASE evaluation[o.run] = NoEvaluation
      BY <2>1, <3>2, <3>3 DEF Synced, Holds, NoEvaluation
    <3>4. CASE evaluation[o.run] # NoEvaluation
      <4> DEFINE e == [evaluation[o.run] EXCEPT !.stage = "closed"]
      <4>1. evaluation' = [evaluation EXCEPT ![o.run].stage = "closed"]
        BY <2>1, <2>6, <3>4, PreviewValues DEF Synced
      <4>2. evaluation' = [evaluation EXCEPT ![o.run] = e]
        BY <4>1
      <4>3. evaluation[o.run] \in [stage : Stages, intent : Intents \cup {NoIntent}, pair : BOOLEAN]
        BY <2>1, <3>4 DEF CycleType, Evaluation
      <4>4. ~Holds(e)
        BY <4>3 DEF Holds, HeldStages
      <4> HIDE DEF e
      <4>5. PairOK' /\ evaluation'[o.run] = e
        BY <1>3, <1>8, <2>1, <2>4, <3>1, <4>2, <4>4, EvaluationWritten
      <4>6. StepOK(n)'
        <5>1. ~Holds(evaluation'[o.run]) /\ Blocking(o.run)' = {} /\ runs'[o.run] # "absent"
          BY <1>8, <2>1, <2>4, <3>1, <4>4, <4>5 DEF Blocking
        <5>2. QED
          BY <2>3, <5>1 DEF StepOK, Entering, Owns, Holds
      <4>7. QED
        BY <1>2, <4>5, <4>6
    <3>5. QED
      BY <3>3, <3>4
  <2>7. QED
    BY <2>2, <2>5, <2>6
<1>27. ~CheckEnded(s) /\ ~Close(s) /\ ~CheckOverdue(s)
  BY <1>1, EntryOpsAt DEF CheckEnded, Close, CheckOverdue
<1>28. CASE PersistRefused(s)
  <2>1. o \in EvaluateSteps /\ o.at = "persist" /\ o # Idle /\ UNCHANGED <<evaluation, traces, holder>>
    BY <1>1, <1>28, EntryOpsAt DEF PersistRefused, Idle
  <2>2. CASE Goto(s, Idle)
    <3>1. n = Idle /\ StepOK(n)
      BY <1>5, <1>10, <2>2
    <3>2. QED
      BY <1>9, <2>1, <3>1
  <2>3. CASE GotoAt(s, "unlock")
    <3>1. n.at = "unlock" /\ n.run = o.run
      <4>1. n = [o EXCEPT !.at = "unlock"]
        BY <1>4, <2>3
      <4>2. QED
        BY <2>1, <4>1 DEF EvaluateSteps
    <3>2. Blocking(o.run) = {} /\ runs[o.run] # "absent" /\ ~Holds(evaluation[o.run])
      BY <1>3, <2>1 DEF StepOK, Entering
    <3>3. StepOK(n)
      BY <3>1, <3>2 DEF StepOK, Owns
    <3>4. QED
      BY <1>9, <2>1, <3>3
  <2>4. QED
    BY <1>28, <2>2, <2>3 DEF PersistRefused
<1>29. CASE Unlock(s)
  <2>1. /\ o.at = "unlock" /\ o # Idle /\ o.run \in Runs /\ n = Idle
        /\ UNCHANGED <<evaluation, traces>> /\ ReleaseLock(o.run)
    BY <1>5, <1>6, <1>29 DEF Unlock, Idle
  <2>2. ~Holds(evaluation[o.run])
    BY <1>3, <2>1 DEF StepOK
  <2>3. PairOK'
    BY <1>3, <1>8, <2>1, <2>2, LockReleased
  <2>4. QED
    BY <1>2, <1>7, <2>1, <2>3
<1>30. QED
  BY <1>11, <1>12, <1>13, <1>14, <1>15, <1>16, <1>17, <1>18, <1>19, <1>20, <1>21, <1>22, <1>23, <1>24,
     <1>25, <1>26, <1>27, <1>28, <1>29 DEF Continue, EntrySteps

LEMMA PairInvariant ==
    ASSUME NEW s, Runtimes = {s}, Watchers = {}
    PROVE  CrashingSpec => []PairInv(s)
<1>1. s \in Runtimes /\ s \in Threads
  BY DEF Threads
<1>2. Init => EntryInv(s) /\ PairInv(s)
  <2>1. SUFFICES ASSUME Init PROVE EntryInv(s) /\ PairInv(s)
    OBVIOUS
  <2>2. EntryInv(s)
    BY <2>1, EntryInit
  <2>3. op[s] = Idle
    BY <1>1, <2>1 DEF Init
  <2>4. StepOK(op[s])
    BY <2>3 DEF StepOK, Idle, Entering, Owns
  <2>5. PairOK
    BY <2>1 DEF Init, PairOK
  <2>6. QED
    BY <2>2, <2>4, <2>5 DEF PairInv
<1>3. ASSUME EntryInv(s), PairInv(s), CycleType, CycleType',
             [(Next \/ \E a \in Threads : Crash(a)) /\ ScansUndisturbed]_vars
      PROVE  EntryInv(s)' /\ PairInv(s)'
  <2>1. EntryInv(s)'
    BY <1>3, EntryStep
  <2>2. CASE UNCHANGED vars
    BY <1>3, <2>1, <2>2 DEF vars, PairInv, PairOK, StepOK, Unresolved, Blocking, Holds
  <2>3. CASE World /\ ScansUndisturbed
    BY <1>1, <1>3, <2>1, <2>3, PairStepWorld
  <2>4. CASE (Continue(s) \/ BeginRun(s) \/ Crash(s)) /\ ScansUndisturbed
    BY <1>1, <1>3, <2>1, <2>4, PairStepRuntime
  <2>5. \A h \in Handlers : ~Continue(h) /\ ~Crash(h)
    BY <1>3, HandlersIdle DEF EntryInv, Crash
  <2>6. QED
    BY <1>3, <2>1, <2>2, <2>3, <2>4, <2>5 DEF Next, Threads
<1>4. QED
  BY <1>2, <1>3, CycleTypeInvariant, PTL DEF CrashingSpec

\* Two running runs never show an entry on the pair at the same time, whatever the
\* bots and the runs, with restarts at any point and operators at work on the traces:
\* with the one runtime thread, and while no sweep of the recovery runtime writes
\* back an evaluation that it read earlier.
THEOREM OneEntryPerPairAlways ==
    ASSUME NEW s, Runtimes = {s}, Watchers = {}
    PROVE  CrashingSpec => []OneEntryPerPair
<1>1. PairInv(s) => OneEntryPerPair
  BY DEF PairInv, PairOK, OneEntryPerPair
<1>2. QED
  BY <1>1, PairInvariant, PTL

\* A run with a trace that is not resolved shows it, once nobody is at work on the run:
\* with the one runtime thread, and while no sweep closes an evaluation that it read
\* before the trace was opened.
THEOREM ActiveTraceAlwaysShown ==
    ASSUME NEW s, Runtimes = {s}, Watchers = {}
    PROVE  CrashingSpec => []ActiveTraceShown
<1>1. PairInv(s) => ActiveTraceShown
  BY PreviewValues DEF PairInv, PairOK, ActiveTraceShown, Unresolved
<1>2. QED
  BY <1>1, PairInvariant, PTL

-----------------------------------------------------------------------------
(* The lock is used as RunLock says                                          *)

\* A run that is in an entry owns the lock.
LEMMA EntryOwnsLock ==
    ASSUME NEW s, Runtimes = {s}, PairInv(s)
    PROVE  InEntry \subseteq {holder}
<1>1. CountsOnLock(s) => Owns(op[s])
  BY DEF CountsOnLock, Owns
<1>2. CountsOnLock(s) => holder = op[s].run
  BY <1>1 DEF PairInv, StepOK
<1>3. \A r \in Runs : runs[r] = "running" /\ Holds(evaluation[r]) => holder = r
  BY DEF PairInv, PairOK
<1>4. QED
  BY <1>2, <1>3 DEF InEntry

\* The lock changes hands through nobody, and is given back when no run counts on it.
LEMMA LockGivenBackFirst ==
    ASSUME NEW s, Runtimes = {s}, Watchers = {}, CycleType, PairInv(s), holder' # holder,
           Continue(s) \/ BeginRun(s) \/ Crash(s) \/ World
    PROVE  \/ holder = NoRun
           \/ holder' = NoRun /\ InEntry = {}
<1>1. op[s] \in EntryOps /\ s \in Threads
  BY DEF CycleType, OpsOK, Threads
<1>2. InEntry \subseteq {holder}
  BY EntryOwnsLock
<1>3. ASSUME NEW r, TakeLock(r) PROVE holder = NoRun
  BY <1>3 DEF TakeLock, Free
<1>4. ASSUME NEW r, ReleaseLock(r), ~(runs[r] = "running" /\ Holds(evaluation[r])),
             ~(CountsOnLock(s) /\ op[s].run = r)
      PROVE  holder' = NoRun /\ InEntry = {}
  <2>1. holder = r /\ holder' = NoRun
    BY <1>4 DEF ReleaseLock
  <2>2. r \notin InEntry
    BY <1>4 DEF InEntry
  <2>3. QED
    BY <1>2, <2>1, <2>2
<1>5. CASE ReconcileLock(s)
  <2>1. op[s].at = "reconcile"
    BY <1>5 DEF ReconcileLock
  <2>2. ~CountsOnLock(s)
    BY <2>1 DEF CountsOnLock
  <2>3. \/ TakeLock(op[s].run)
        \/ ReleaseLock(op[s].run) /\ ~Holds(evaluation[op[s].run])
        \/ UNCHANGED holder
    BY <1>5 DEF ReconcileLock, Holds
  <2>4. QED
    BY <1>3, <1>4, <2>2, <2>3
<1>6. CASE Decide(s)
  BY <1>3, <1>6 DEF Decide, DecideLocked, DecideBlocked
<1>7. CASE Refresh(s)
  BY <1>3, <1>7 DEF Refresh
<1>8. CASE Relock(s)
  <2>1. CASE op[s].pair => op[s].stage \in HeldStages
    BY <1>3, <1>8, <2>1 DEF Relock
  <2>2. CASE op[s].stage \notin HeldStages
    <3>1. ReleaseLock(op[s].run)
      BY <1>8, <2>2 DEF Relock
    <3>2. op[s] \in ReportSteps \cup RelockSteps /\ op[s].at \in {"relock", "relock_trace"}
      BY <1>1, <1>8, EntryOpsAt DEF Relock
    <3>3. op[s].stage = "closed"
      BY <2>2, <3>2 DEF ReportSteps, RelockSteps
    <3>4. ~CountsOnLock(s)
      BY <2>2, <3>2 DEF CountsOnLock
    <3>5. CASE op[s].at = "relock"
      <4>1. evaluation[op[s].run].stage = "closed"
        BY <3>3, <3>5 DEF PairInv, StepOK
      <4>2. ~Holds(evaluation[op[s].run])
        BY <4>1 DEF Holds, HeldStages
      <4>3. QED
        BY <1>4, <3>1, <3>4, <4>2
    <3>6. CASE op[s].at = "relock_trace"
      <4>1. ~Holds(evaluation[op[s].run])
        BY <3>3, <3>6 DEF PairInv, StepOK
      <4>2. QED
        BY <1>4, <3>1, <3>4, <4>1
    <3>7. QED
      BY <3>2, <3>5, <3>6
  <2>3. QED
    BY <2>1, <2>2
<1>9. CASE ExpireLock
  <2>1. CountsOnLock(s) => op[s] # Idle
    BY DEF CountsOnLock, Idle
  <2>2. CountsOnLock(s) => op[s].run # holder
    BY <1>1, <1>9, <2>1 DEF ExpireLock
  <2>3. holder \notin InEntry
    BY <1>9, <2>2 DEF ExpireLock, InEntry
  <2>4. QED
    BY <1>2, <1>9, <2>3 DEF ExpireLock
<1>10. CASE World /\ ~ExpireLock
  BY <1>10 DEF World, StartRun, StopRun, OrdersProgress, SubmitTimePasses, MoveTrace
<1>11. CASE BeginRun(s) \/ Crash(s)
  BY <1>11 DEF BeginRun, Crash
<1>12. CASE Unlock(s)
  <2>1. ReleaseLock(op[s].run) /\ ~CountsOnLock(s)
    BY <1>12 DEF Unlock, CountsOnLock
  <2>2. ~Holds(evaluation[op[s].run])
    BY <1>12 DEF Unlock, PairInv, StepOK
  <2>3. QED
    BY <1>4, <2>1, <2>2
<1>13. CASE /\ Continue(s) /\ ~ReconcileLock(s) /\ ~Decide(s) /\ ~Refresh(s) /\ ~Relock(s)
            /\ ~Unlock(s)
  BY <1>13 DEF Continue, EntrySteps, PersistRefused, Evaluate, Persist, Record, Submit, Report, OpenTrace, ShowTrace,
               ScanHandoffs, ScanActives, Load, CheckEnded, Close, CheckOverdue
<1>14. QED
  BY <1>5, <1>6, <1>7, <1>8, <1>9, <1>10, <1>11, <1>12, <1>13

\* A step between two states in each of which an entry owns the lock is one of RunLock's,
\* if the lock only moves from or to nobody.
LEMMA StepOfRunLock ==
    ASSUME CycleType, CycleType', InEntry \subseteq {holder}, (InEntry \subseteq {holder})',
           \/ holder' = holder \/ holder = NoRun
           \/ holder' = NoRun /\ InEntry = {}
    PROVE  [Lock!LockNext]_(Lock!lockVars)
<1> DEFINE I == InEntry
           J == InEntry'
<1>1. I \subseteq Runs /\ J \subseteq Runs /\ NoRun \notin Runs /\ holder' \in Runs \cup {NoRun}
      /\ I \subseteq {holder} /\ J \subseteq {holder'}
  BY NoneAssumption DEF InEntry, CycleType
<1>2. /\ holder # NoRun /\ holder' = NoRun /\ I = {} /\ J = {} => Lock!LockNext
      /\ \A c \in Runs :
             /\ holder \in {NoRun, c} /\ holder' = c /\ J = I \cup {c} => Lock!LockNext
             /\ holder \in {NoRun, c} /\ holder' = c /\ J = I => Lock!LockNext
             /\ holder' = holder /\ J = I \ {c} => Lock!LockNext
  BY DEF Lock!LockNext, Lock!Free, Lock!Grant, Lock!GrantUnseen, Lock!GiveUp
<1>3. holder' = holder /\ J = I => UNCHANGED Lock!lockVars
  BY DEF Lock!lockVars
<1> HIDE DEF I, J
<1>4. CASE holder' = holder
  <2>1. CASE J = I
    BY <1>3, <1>4, <2>1
  <2>2. CASE J # I
    <3>1. holder \in Runs /\ ((I = {} /\ J = {holder}) \/ (I = {holder} /\ J = {}))
      BY <1>1, <1>4, <2>2
    <3>2. QED
      BY <1>2, <1>4, <3>1
  <2>3. QED
    BY <2>1, <2>2
<1>5. CASE holder = NoRun /\ holder' # NoRun
  <2>1. holder' \in Runs /\ I = {} /\ J \in {{}, {holder'}}
    BY <1>1, <1>5
  <2>2. QED
    BY <1>2, <1>5, <2>1
<1>6. CASE holder # NoRun /\ holder' = NoRun /\ I = {}
  <2>1. J = {}
    BY <1>1, <1>6
  <2>2. QED
    BY <1>2, <1>6, <2>1
<1>7. QED
  BY <1>4, <1>5, <1>6 DEF I

\* The steps of the entries implement the abstract lock: from its acquisition until the
\* entry is given up or shows its end, nothing that the runtime, a restart, an operator or
\* the passing of time does takes the lock from a run or lets another one have it.  With
\* the one runtime thread, and while no sweep writes back an evaluation that it read earlier.
THEOREM EntriesImplementRunLock ==
    ASSUME NEW s, Runtimes = {s}, Watchers = {}
    PROVE  CrashingSpec => EntriesKeepLock
<1>1. s \in Threads /\ s \in Runtimes
  BY DEF Threads
<1>2. Init => Lock!LockInit
  <2>1. SUFFICES ASSUME Init PROVE holder = NoRun /\ InEntry = {}
    BY DEF Lock!LockInit
  <2>2. \A r \in Runs : runs[r] # "running"
    BY <2>1 DEF Init
  <2>3. op[s] = Idle
    BY <1>1, <2>1 DEF Init
  <2>4. ~CountsOnLock(s)
    BY <2>3 DEF CountsOnLock, Idle
  <2>5. QED
    BY <2>1, <2>2, <2>4 DEF Init, InEntry
<1>3. PairInv(s) => InEntry \subseteq {holder}
  BY EntryOwnsLock
<1>4. ASSUME CycleType, CycleType', EntryInv(s), PairInv(s), InEntry \subseteq {holder},
             (InEntry \subseteq {holder})',
             [(Next \/ \E a \in Threads : Crash(a)) /\ ScansUndisturbed]_vars
      PROVE  [Lock!LockNext]_(Lock!lockVars)
  <2>1. \A h \in Handlers : ~Continue(h) /\ ~Crash(h)
    BY <1>4, HandlersIdle DEF EntryInv, Crash
  <2>2. holder' = holder \/ Continue(s) \/ BeginRun(s) \/ Crash(s) \/ World
    BY <1>4, <2>1 DEF Next, Threads, vars
  <2>3. QED
    BY <1>4, <2>2, LockGivenBackFirst, StepOfRunLock
<1>5. CrashingSpec => []EntryInv(s)
  BY EntryInvariant
<1>6. QED
  BY <1>2, <1>3, <1>4, <1>5, PairInvariant, CycleTypeInvariant, PTL
     DEF CrashingSpec, EntriesKeepLock, Lock!LockSpec

-----------------------------------------------------------------------------
(* No entry while a trace blocks the bot: any number of runtimes and sweeps  *)

LookingOn == {"enter", "decide", "evaluate", "persist"}

\* Of the traces that blocked the bot when the runtime looked, none is handed off
\* once the first half of the scan has passed, and all are resolved after the second.
Cleared(o) ==
    /\ o.at \in {"handoffs", "actives"} \cup LookingOn =>
           \A t \in o.blocking : t \in DOMAIN traces /\ BotOf[traces[t].run] = BotOf[o.run]
    /\ o.at = "actives" => \A t \in o.blocking : traces[t].status # "handoff_required"
    /\ o.at \in LookingOn => \A t \in o.blocking : traces[t].status = "resolved"

ScanInv == \A s \in Runtimes : Cleared(op[s])

LEMMA ResolvedKept ==
    ASSUME AnyNext, NEW t \in DOMAIN traces, traces[t].status = "resolved"
    PROVE  traces'[t].status = "resolved"
<1>1. CASE UNCHANGED traces
  BY <1>1
<1>2. ASSUME NEW a, OpenTrace(a) PROVE traces'[t] = traces[t]
  <2>1. PICK u \in Traces \ DOMAIN traces : \E row : traces' = Added(traces, u, row)
    BY <1>2 DEF OpenTrace
  <2>2. PICK row : traces' = Added(traces, u, row)
    BY <2>1
  <2>3. QED
    BY <2>2 DEF Added
<1>3. ASSUME NEW u, MoveTrace(u) PROVE traces'[t] = traces[t]
  <2>1. u # t /\ \E status : traces' = [traces EXCEPT ![u].status = status]
    BY <1>3 DEF MoveTrace
  <2>2. QED
    BY <2>1
<1>4. CASE World
  <2>1. UNCHANGED traces \/ \E u \in Traces : MoveTrace(u)
    BY <1>4 DEF World, StartRun, StopRun, OrdersProgress, SubmitTimePasses, ExpireLock
  <2>2. QED
    BY <1>1, <1>3, <2>1
<1>5. ASSUME NEW a \in Threads, Act(a) PROVE traces'[t].status = "resolved"
  <2>1. UNCHANGED traces \/ OpenTrace(a)
    BY <1>5 DEF Act, Continue, EntrySteps, PersistRefused, Unlock, Crash, BeginRun, Request,
             BeginClose, BeginWatch, ScanHandoffs, ScanActives, ReconcileLock, Load, Decide,
             CheckEnded, CheckOverdue, Close, Evaluate, Persist, Record, Submit, Report,
             ShowTrace, Refresh, Relock
  <2>2. QED
    BY <1>1, <1>2, <2>1
<1>6. QED
  BY <1>4, <1>5 DEF AnyNext

\* What a runtime has seen outlives the steps of the others.
LEMMA ClearedKept ==
    ASSUME CycleType, NEW s \in Runtimes, Cleared(op[s]), op'[s] = op[s],
           \/ UNCHANGED traces
           \/ AnyNext /\ ScansUndisturbed
    PROVE  Cleared(op[s])'
<1>1. CASE UNCHANGED traces
  BY <1>1 DEF Cleared
<1>2. CASE AnyNext /\ ScansUndisturbed
  <2>1. \A t \in DOMAIN traces :
            /\ t \in DOMAIN traces' /\ traces'[t].run = traces[t].run
            /\ traces[t].status = "resolved" => traces'[t].status = "resolved"
    BY <1>2, TracesKept, ResolvedKept
  <2>2. op[s].at = "actives" =>
            \A t \in DOMAIN traces :
                traces[t].status # "handoff_required" => traces'[t].status # "handoff_required"
    BY <1>2, <2>1 DEF ScansUndisturbed, HandedOff, Threads
  <2>3. PICK o : o = op[s]
    OBVIOUS
  <2>4. op'[s] = o /\ Cleared(o)
    BY <2>3
  <2>5. o.at \in {"handoffs", "actives"} \cup LookingOn =>
            \A t \in o.blocking :
                /\ t \in DOMAIN traces' /\ BotOf[traces'[t].run] = BotOf[o.run]
                /\ o.at = "actives" => traces'[t].status # "handoff_required"
                /\ o.at \in LookingOn => traces'[t].status = "resolved"
    BY <2>1, <2>2, <2>3, <2>4 DEF Cleared
  <2>6. QED
    BY <2>4, <2>5 DEF Cleared
<1>3. QED
  BY <1>1, <1>2

\* The runtime's own steps.
LEMMA ClearedNext ==
    ASSUME CycleType, NEW s \in Runtimes, Cleared(op[s]), Continue(s) \/ BeginRun(s) \/ Crash(s)
    PROVE  Cleared(op[s])'
<1> PICK o : o = op[s]
  OBVIOUS
<1>1. /\ s \in DOMAIN op /\ s \notin Watchers /\ s \notin Handlers /\ o \in EntryOps
      /\ \A t \in DOMAIN traces : traces[t] \in TraceRows
  BY ThreadAssumption DEF CycleType, OpsOK, Threads
<1>2. \A step : Goto(s, step) => op'[s] = step
  BY <1>1, GotoStep
<1>3. \A at : GotoAt(s, at) => op'[s] = [o EXCEPT !.at = at]
  BY <1>1, <1>2, GotoAtStep
<1>4. ASSUME op'[s].at \notin {"handoffs", "actives"} \cup LookingOn PROVE Cleared(op[s])'
  BY <1>4 DEF Cleared, LookingOn
<1>5. CASE op'[s] = Idle
  BY <1>4, <1>5 DEF Idle, LookingOn
<1>6. CASE BeginRun(s) \/ Crash(s)
  <2>1. op'[s] = Idle \/ \E r : op'[s] = [at |-> "reconcile", run |-> r]
    BY <1>2, <1>6 DEF BeginRun, Crash
  <2>2. ASSUME NEW r, op'[s] = [at |-> "reconcile", run |-> r] PROVE Cleared(op[s])'
    <3>1. op'[s].at = "reconcile"
      BY <2>2
    <3>2. QED
      BY <1>4, <3>1 DEF LookingOn
  <2>3. QED
    BY <1>5, <2>1, <2>2
<1>7. CASE ReconcileLock(s)
  <2>1. PICK b : b = Blocking(o.run)
    OBVIOUS
  <2>2. op'[s] = [at |-> "handoffs", run |-> o.run, goal |-> "enter", blocking |-> b]
        /\ UNCHANGED traces
    BY <1>2, <1>7, <2>1 DEF ReconcileLock
  <2>3. \A t \in b : t \in DOMAIN traces /\ BotOf[traces[t].run] = BotOf[o.run]
    BY <2>1 DEF Blocking
  <2>4. op'[s].at = "handoffs" /\ op'[s].run = o.run /\ op'[s].blocking = b
    BY <2>2
  <2>5. QED
    BY <2>2, <2>3, <2>4 DEF Cleared, LookingOn
<1>8. CASE ScanHandoffs(s) /\ op'[s] # Idle
  <2>1. /\ o.at = "handoffs" /\ UNCHANGED traces /\ Asked(s, {"handoff_required"}) = {}
        /\ op'[s] = [o EXCEPT !.at = "actives"]
    BY <1>2, <1>3, <1>8 DEF ScanHandoffs
  <2>2. op'[s].at = "actives" /\ op'[s].run = o.run /\ op'[s].blocking = o.blocking
    BY <1>1, <2>1, EntryOpsAt DEF LookSteps
  <2>3. \A t \in o.blocking : /\ t \in DOMAIN traces /\ BotOf[traces[t].run] = BotOf[o.run]
                             /\ traces[t].status # "handoff_required"
    BY <1>1, <2>1 DEF Cleared, Asked
  <2>4. QED
    BY <2>1, <2>2, <2>3 DEF Cleared, LookingOn
<1>9. CASE ScanActives(s) /\ op'[s] # Idle
  <2>1. /\ o.at = "actives" /\ UNCHANGED traces /\ Asked(s, ActiveStatuses) = {}
        /\ op'[s] = [o EXCEPT !.at = o.goal]
    BY <1>2, <1>3, <1>9 DEF ScanActives
  <2>2. op'[s].at = "enter" /\ op'[s].run = o.run /\ op'[s].blocking = o.blocking
    BY <1>1, <2>1, EntryOpsAt DEF LookSteps
  <2>3. \A t \in o.blocking : /\ t \in DOMAIN traces /\ BotOf[traces[t].run] = BotOf[o.run]
                             /\ traces[t].status = "resolved"
    BY <1>1, <2>1 DEF Cleared, Asked, TraceRows, BlockingStatuses
  <2>4. QED
    BY <2>1, <2>2, <2>3 DEF Cleared, LookingOn
<1>10. ASSUME o.at \in LookingOn, UNCHANGED traces, op'[s].at \in LookingOn,
              op'[s].run = o.run, op'[s].blocking = o.blocking
       PROVE  Cleared(op[s])'
  BY <1>10 DEF Cleared, LookingOn
<1>11. CASE Load(s) /\ op'[s] # Idle
  <2>1. o.at = "enter" /\ UNCHANGED traces /\ op'[s] = [o EXCEPT !.at = "decide"]
    BY <1>2, <1>3, <1>11 DEF Load
  <2>2. op'[s].at = "decide" /\ op'[s].run = o.run /\ op'[s].blocking = o.blocking
    BY <1>1, <2>1, EntryOpsAt DEF LookSteps
  <2>3. QED
    BY <1>10, <2>1, <2>2 DEF LookingOn
<1>12. CASE Decide(s)
  <2>1. o.at = "decide" /\ UNCHANGED traces /\ \E stage, pair : op'[s] = Evaluating(s, stage, pair)
    BY <1>2, <1>12 DEF Decide, DecideLocked, DecideBlocked
  <2>2. op'[s].at = "evaluate" /\ op'[s].run = o.run /\ op'[s].blocking = o.blocking
    BY <2>1 DEF Evaluating
  <2>3. QED
    BY <1>10, <2>1, <2>2 DEF LookingOn
<1>13. CASE Evaluate(s) /\ op'[s] # Idle
  <2>1. o.at = "evaluate" /\ UNCHANGED traces /\ op'[s] = [o EXCEPT !.at = "persist"]
    BY <1>2, <1>3, <1>13 DEF Evaluate
  <2>2. op'[s].at = "persist" /\ op'[s].run = o.run /\ op'[s].blocking = o.blocking
    BY <1>1, <2>1, EntryOpsAt DEF EvaluateSteps
  <2>3. QED
    BY <1>10, <2>1, <2>2 DEF LookingOn
<1>14. CASE Persist(s) \/ Refresh(s) \/ Record(s) \/ Submit(s) \/ Report(s)
  <2>1. op'[s].at \in {"refresh", "record", "submit", "report", "relock"}
    <3>1. \A at : o.at \in {"refresh", "record", "report"} => [o EXCEPT !.at = at].at = at
      BY <1>1, EntryOpsAt DEF IntentSteps, ReportSteps
    <3>2. CASE Persist(s)
      <4>1. \E at \in {"refresh", "record"} : \E i :
                op'[s] = [at |-> at, run |-> o.run, pair |-> o.pair, intent |-> i]
        BY <1>2, <3>2 DEF Persist
      <4>2. QED
        BY <4>1
    <3>3. CASE Submit(s)
      BY <1>2, <3>3 DEF Submit
    <3>4. CASE Refresh(s)
      BY <1>3, <3>1, <3>4 DEF Refresh
    <3>5. CASE Record(s)
      <4>1. o.at = "record" /\ op'[s] = [o EXCEPT !.at = "submit"]
        BY <1>1, <1>3, <3>5 DEF Record
      <4>2. op'[s].at = "submit"
        BY <3>1, <4>1
      <4>3. QED
        BY <4>2
    <3>6. CASE Report(s)
      <4>1. o.at = "report" /\ op'[s] = [o EXCEPT !.at = "relock"]
        BY <1>3, <3>6 DEF Report
      <4>2. op'[s].at = "relock"
        BY <3>1, <4>1
      <4>3. QED
        BY <4>2
    <3>7. QED
      BY <1>14, <3>2, <3>3, <3>4, <3>5, <3>6
  <2>2. QED
    BY <1>4, <2>1 DEF LookingOn
<1>15. CASE (Relock(s) \/ OpenTrace(s) \/ ShowTrace(s)) /\ op'[s] # Idle
  <2>1. op'[s].at \in {"open_trace", "show_trace", "relock_trace"}
    <3>1. o.at = "relock" => [o EXCEPT !.at = "open_trace"].at = "open_trace"
      BY <1>1, EntryOpsAt DEF ReportSteps
    <3>2. CASE Relock(s)
      BY <1>2, <1>3, <1>15, <3>1, <3>2 DEF Relock
    <3>3. CASE OpenTrace(s)
      BY <1>2, <3>3 DEF OpenTrace
    <3>4. CASE ShowTrace(s)
      BY <1>1, <1>2, <3>4 DEF ShowTrace
    <3>5. QED
      BY <1>15, <3>2, <3>3, <3>4
  <2>2. QED
    BY <1>4, <2>1 DEF LookingOn
<1>16. ~(CheckEnded(s) \/ Close(s) \/ CheckOverdue(s))
  BY <1>1, EntryOpsAt DEF CheckEnded, Close, CheckOverdue
<1>17. CASE (PersistRefused(s) \/ Unlock(s)) /\ op'[s] # Idle
  <2>1. o.at = "persist" /\ op'[s] = [o EXCEPT !.at = "unlock"]
    BY <1>2, <1>3, <1>17 DEF PersistRefused, Unlock
  <2>2. op'[s].at = "unlock"
    BY <1>1, <2>1, EntryOpsAt DEF EvaluateSteps
  <2>3. QED
    BY <1>4, <2>2 DEF LookingOn
<1>18. QED
  BY <1>5, <1>6, <1>7, <1>8, <1>9, <1>11, <1>12, <1>13, <1>14, <1>15, <1>16, <1>17 DEF Continue, EntrySteps

LEMMA ScanStep ==
    ASSUME CycleType, ScanInv,
           [(Next \/ \E a \in Threads : Crash(a)) /\ ScansUndisturbed]_vars
    PROVE  ScanInv'
<1>1. SUFFICES ASSUME NEW s \in Runtimes PROVE Cleared(op[s])'
  BY DEF ScanInv
<1>2. Cleared(op[s]) /\ s \in Threads
  BY DEF ScanInv, Threads
<1>3. CASE UNCHANGED vars
  BY <1>2, <1>3, ClearedKept DEF vars
<1>4. CASE World /\ ScansUndisturbed
  <2>1. op'[s] = op[s]
    BY <1>4 DEF World, StartRun, StopRun, OrdersProgress, SubmitTimePasses, MoveTrace, ExpireLock
  <2>2. QED
    BY <1>2, <1>4, <2>1, ClearedKept DEF AnyNext
<1>5. ASSUME NEW a \in Threads, a # s, ScansUndisturbed,
             \/ Continue(a) \/ Crash(a) \/ (a \in Runtimes /\ BeginRun(a))
             \/ (a \in Watchers /\ (BeginClose(a) \/ BeginWatch(a)))
      PROVE  Cleared(op[s])'
  <2>1. Act(a)
    BY <1>5 DEF Act
  <2>2. op'[s] = op[s] /\ AnyNext
    BY <1>2, <1>5, <2>1, ActMovesOne DEF AnyNext
  <2>3. QED
    BY <1>2, <1>5, <2>2, ClearedKept
<1>6. CASE Continue(s) \/ BeginRun(s) \/ Crash(s)
  BY <1>2, <1>6, ClearedNext
<1>7. s \notin Watchers
  BY ThreadAssumption
<1>8. QED
  BY <1>3, <1>4, <1>5, <1>6, <1>7 DEF Next, Threads

\* However many runtimes and sweeps there are, and wherever they are restarted, no
\* runtime persists an entry while a trace blocks its bot that already blocked it
\* when the runtime looked, if no trace is handed off between the halves of a scan.
THEOREM NoEntryEverDuringRecovery == CrashingSpec => []NoEntryDuringRecovery
<1>1. Init => ScanInv
  BY DEF Init, ScanInv, Cleared, Idle, LookingOn, Threads
<1>2. CycleType /\ ScanInv /\ [(Next \/ \E a \in Threads : Crash(a)) /\ ScansUndisturbed]_vars
          => ScanInv'
  BY ScanStep
<1>3. ScanInv => NoEntryDuringRecovery
  BY DEF ScanInv, Cleared, LookingOn, NoEntryDuringRecovery, Blocking, BlockingStatuses, ActiveStatuses
<1>4. QED
  BY <1>1, <1>2, <1>3, CycleTypeInvariant, PTL DEF CrashingSpec
-----------------------------------------------------------------------------
(* One trace per entry, with one runtime thread and one sweep at a time.     *)
(* Two threads can open a trace for the entry of a run: the runtime, when    *)
(* the entry fails, and the sweep, when its orders stay open.  What keeps    *)
(* them apart is the evaluation: the sweep looks at a run from the moment    *)
(* the runtime has reported entry_submitting, and then it has not failed;    *)
(* and the sweep's own trace moves the evaluation on before its next pass.   *)

TracesOf(r) == {t \in DOMAIN traces : traces[t].run = r}
Unentered(r) == \A i \in DOMAIN intents : intents[i].run # r
OneEntry(r) ==
    \A i, j \in DOMAIN intents : intents[i].run = r /\ intents[j].run = r => i = j
Due(r) == evaluation[r].stage = "entry_submitting"

\* The runtime may still open a trace for the entry it is in.
Failing(o, r) ==
    /\ \/ o.at \in {"refresh", "record", "submit", "report", "open_trace"}
       \/ o.at = "relock" /\ o.stage \in ActiveStatuses
    /\ o.run = r

\* The sweep may open a trace for the run; it has opened one and not shown it.
Watching(o, r) ==
    /\ \/ o.at \in {"handoffs", "actives"} /\ o.goal = "overdue"
       \/ o.at \in {"overdue", "open_trace"}
    /\ o.run = r
Showing(o, r) == o.at = "show_trace" /\ o.run = r

Sole(o, v, r) ==
    /\ Unentered(r) \/ Failing(o, r) => TracesOf(r) = {} /\ ~Due(r) /\ ~Watching(v, r)
    /\ Watching(v, r) => TracesOf(r) = {}
    /\ Due(r) => TracesOf(r) = {} \/ Showing(v, r)
    /\ \A t, u \in TracesOf(r) : t = u

SoleInv(s, w) == \A r \in Runs : OneEntry(r) => Sole(op[s], op[w], r)

\* Only the report of a submit makes a run due.
LEMMA NotMadeDue ==
    ASSUME CycleType, NEW r \in Runs,
           World \/ \E a \in Threads : Act(a) /\ (Report(a) => op[a].stage # "entry_submitting" \/ op[a].run # r),
           Due(r)'
    PROVE  Due(r)
<1>1. evaluation \in [Runs -> Evaluation]
  BY DEF CycleType
<1>2. ASSUME NEW q, NEW e, evaluation' = [evaluation EXCEPT ![q] = e],
             e.stage # "entry_submitting" \/ q # r
      PROVE  Due(r)
  <2>1. evaluation'[r] = IF q = r THEN e ELSE evaluation[r]
    BY <1>1, <1>2
  <2>2. QED
    BY <1>2, <2>1 DEF Due
<1>3. ASSUME UNCHANGED evaluation PROVE Due(r)
  BY <1>3 DEF Due
<1>4. ASSUME NEW q \in Runs, NEW status \in BlockingStatuses \cup {"resolved"}, evaluation' = Synced(q, status)
      PROVE  Due(r)
  <2>1. Preview(status) # "entry_submitting"
    BY PreviewValues DEF ActiveStatuses
  <2>2. CASE evaluation[q] = NoEvaluation
    BY <1>3, <1>4, <2>2 DEF Synced
  <2>3. CASE evaluation[q] # NoEvaluation
    <3> DEFINE e == [evaluation[q] EXCEPT !.stage = Preview(status)]
    <3>1. evaluation[q] \in [stage : Stages, intent : Intents \cup {NoIntent}, pair : BOOLEAN]
      BY <1>1, <2>3 DEF Evaluation
    <3>2. e.stage # "entry_submitting"
      BY <2>1, <3>1
    <3>3. evaluation' = [evaluation EXCEPT ![q] = e]
      BY <1>4, <2>3 DEF Synced
    <3> HIDE DEF e
    <3>4. QED
      BY <1>2, <3>2, <3>3
  <2>4. QED
    BY <2>2, <2>3
<1>5. CASE World
  <2>1. UNCHANGED evaluation \/ \E t : MoveTrace(t)
    BY <1>5 DEF World, StartRun, StopRun, OrdersProgress, SubmitTimePasses, ExpireLock
  <2>2. ASSUME NEW t, MoveTrace(t) PROVE Due(r)
    <3>1. traces[t].run \in Runs
      BY <2>2 DEF MoveTrace, CycleType, TraceRows
    <3>2. PICK status \in {"unwind_in_progress", "handoff_required", "resolved"} :
              evaluation' = Synced(traces[t].run, status)
      BY <2>2 DEF MoveTrace
    <3>3. status \in BlockingStatuses \cup {"resolved"}
      BY <3>2 DEF BlockingStatuses, ActiveStatuses
    <3>4. QED
      BY <1>4, <3>1, <3>2, <3>3
  <2>3. QED
    BY <1>3, <2>1, <2>2
<1>6. ASSUME NEW a \in Threads, Act(a),
             Report(a) => op[a].stage # "entry_submitting" \/ op[a].run # r
      PROVE  Due(r)
  <2>1. CASE Evaluate(a)
    <3>1. op[a] \in EvaluateSteps
      BY <2>1, OpsAt DEF Evaluate
    <3>2. op[a].stage # "entry_submitting"
      BY <3>1 DEF EvaluateSteps
    <3>3. QED
      BY <1>2, <2>1, <3>2 DEF Evaluate
  <2>2. CASE Record(a)
    BY <1>2, <2>2 DEF Record, Shown
  <2>3. CASE Report(a)
    BY <1>2, <1>6, <2>3 DEF Report, Shown
  <2>4. CASE ShowTrace(a)
    <3>1. op[a] \in ShowSteps /\ op[a].trace \in DOMAIN traces
      BY <2>4, OpsAt DEF ShowTrace, CycleType
    <3>2. op[a].run \in Runs /\ traces[op[a].trace].status \in BlockingStatuses \cup {"resolved"}
      BY <3>1 DEF ShowSteps, CycleType, TraceRows
    <3>3. QED
      BY <1>4, <2>4, <3>2 DEF ShowTrace
  <2>5. CASE Close(a)
    <3> DEFINE e == [op[a].item EXCEPT !.stage = "closed"]
    <3>1. op[a] \in CloseSteps
      BY <2>5, OpsAt DEF Close
    <3>2. op[a].item \in Evaluation
      BY <3>1 DEF CloseSteps
    <3>3. e.stage = "closed"
      BY <3>2 DEF Evaluation, NoEvaluation
    <3>4. evaluation' = [evaluation EXCEPT ![op[a].run] = e]
      BY <2>5 DEF Close
    <3> HIDE DEF e
    <3>5. QED
      BY <1>2, <3>3, <3>4
  <2>6. QED
    BY <1>3, <1>6, <2>1, <2>2, <2>3, <2>4, <2>5
       DEF Act, Continue, EntrySteps, PersistRefused, Unlock, Crash, BeginRun, Request,
           BeginClose, BeginWatch, ScanHandoffs, ScanActives, ReconcileLock, Load, Decide,
           CheckEnded, CheckOverdue, Persist, Refresh, Submit, Relock, OpenTrace
<1>7. QED
  BY <1>5, <1>6

\* A run gets a trace when a thread opens one for it, and only then.
LEMMA TraceOpened ==
    ASSUME CycleType, NEW a, OpenTrace(a), NEW r
    PROVE  /\ op[a].run = r => \E t : TracesOf(r)' = TracesOf(r) \cup {t}
           /\ op[a].run # r => TracesOf(r)' = TracesOf(r)
<1>1. PICK t \in Traces \ DOMAIN traces :
          \E row : row.run = op[a].run /\ traces' = Added(traces, t, row)
  BY DEF OpenTrace
<1>2. PICK row : row.run = op[a].run /\ traces' = Added(traces, t, row)
  BY <1>1
<1>3. /\ DOMAIN traces' = DOMAIN traces \cup {t}
      /\ traces'[t] = row
      /\ \A x \in DOMAIN traces : x # t => traces'[x] = traces[x]
  BY <1>2 DEF Added
<1>4. t \notin DOMAIN traces
  BY <1>1
<1>5. \A x : x \in TracesOf(r)' <=> (x \in TracesOf(r) \/ (x = t /\ op[a].run = r))
  BY <1>2, <1>3, <1>4 DEF TracesOf
<1>6. op[a].run = r => TracesOf(r)' = TracesOf(r) \cup {t}
  BY <1>5
<1>7. op[a].run # r => TracesOf(r)' = TracesOf(r)
  BY <1>5
<1>8. QED
  BY <1>6, <1>7

LEMMA TracesSame ==
    ASSUME CycleType, NEW r,
           World \/ \E a \in Threads : Act(a) /\ (OpenTrace(a) => op[a].run # r)
    PROVE  TracesOf(r)' = TracesOf(r)
<1>1. CASE UNCHANGED traces
  BY <1>1 DEF TracesOf
<1>2. ASSUME NEW u, MoveTrace(u) PROVE TracesOf(r)' = TracesOf(r)
  <2>1. PICK status : traces' = [traces EXCEPT ![u].status = status]
    BY <1>2 DEF MoveTrace
  <2>2. ASSUME NEW t \in DOMAIN traces PROVE traces'[t].run = traces[t].run
    <3>1. traces[t] \in TraceRows
      BY DEF CycleType
    <3>2. traces'[t] = traces[t] \/ traces'[t] = [traces[t] EXCEPT !.status = status]
      BY <2>1
    <3>3. QED
      BY <3>1, <3>2 DEF TraceRows
  <2>3. DOMAIN traces' = DOMAIN traces
    BY <2>1
  <2>4. QED
    BY <2>2, <2>3 DEF TracesOf
<1>3. CASE World
  <2>1. UNCHANGED traces \/ \E u \in Traces : MoveTrace(u)
    BY <1>3 DEF World, StartRun, StopRun, OrdersProgress, SubmitTimePasses, ExpireLock
  <2>2. QED
    BY <1>1, <1>2, <2>1
<1>4. ASSUME NEW a \in Threads, Act(a), OpenTrace(a) => op[a].run # r
      PROVE  TracesOf(r)' = TracesOf(r)
  <2>1. UNCHANGED traces \/ OpenTrace(a)
    BY <1>4 DEF Act, Continue, EntrySteps, PersistRefused, Unlock, Crash, BeginRun, Request,
             BeginClose, BeginWatch, ScanHandoffs, ScanActives, ReconcileLock, Load, Decide,
             CheckEnded, CheckOverdue, Close, Evaluate, Persist, Record, Submit, Report,
             ShowTrace, Refresh, Relock
  <2>2. QED
    BY <1>1, <1>4, <2>1, TraceOpened
<1>5. QED
  BY <1>3, <1>4

\* An entry that may fail was persisted before, or is now.
LEMMA FailingNext ==
    ASSUME CycleType, NEW s \in Runtimes, Continue(s) \/ BeginRun(s), NEW r, Failing(op'[s], r)
    PROVE  /\ Failing(op[s], r) \/ (Persist(s) /\ op[s].run = r)
           /\ ~OpenTrace(s)
           /\ Report(s) => op[s].stage \in ActiveStatuses
<1> PICK o : o = op[s]
  OBVIOUS
<1>1. /\ s \in Threads /\ s \notin Handlers \cup Watchers /\ o \in EntryOps
      /\ s \in DOMAIN op /\ DOMAIN op = Threads
  BY ThreadAssumption DEF CycleType, OpsOK, Threads
<1>2. \A at : GotoAt(s, at) => op'[s] = [o EXCEPT !.at = at]
  BY <1>1, GotoAtStep, GotoStep
<1>3. \A step : Goto(s, step) => op'[s] = step
  BY <1>1, GotoStep
<1>4. /\ op'[s].at \in {"refresh", "record", "submit", "report", "open_trace", "relock"}
      /\ op'[s].run = r /\ ~Goto(s, Idle)
  BY <1>3 DEF Failing, Idle
<1>5. ~BeginRun(s) /\ ~ReconcileLock(s)
  <2>1. ASSUME BeginRun(s) PROVE FALSE
    <3>1. PICK q \in Runs : Goto(s, [at |-> "reconcile", run |-> q])
      BY <2>1 DEF BeginRun
    <3>2. QED
      BY <1>3, <1>4, <3>1
  <2>2. ASSUME ReconcileLock(s) PROVE FALSE
    <3>1. Goto(s, [at |-> "handoffs", run |-> o.run, goal |-> "enter", blocking |-> Blocking(o.run)])
      BY <2>2 DEF ReconcileLock
    <3>2. QED
      BY <1>3, <1>4, <3>1
  <2>3. QED
    BY <2>1, <2>2
<1>6. ~ScanHandoffs(s) /\ ~ScanActives(s) /\ ~Load(s)
  <2>1. SUFFICES ASSUME ScanHandoffs(s) \/ ScanActives(s) \/ Load(s) PROVE FALSE
    OBVIOUS
  <2>2. o \in LookSteps
    BY <1>1, <2>1, EntryOpsAt DEF ScanHandoffs, ScanActives, Load
  <2>3. PICK at \in {"actives", "enter", "decide"} : Goto(s, Idle) \/ GotoAt(s, at)
    BY <2>1, <2>2 DEF ScanHandoffs, ScanActives, Load, LookSteps
  <2>4. [o EXCEPT !.at = at].at = at
    BY <2>2 DEF LookSteps
  <2>5. QED
    BY <1>2, <1>4, <2>3, <2>4
<1>7. ~Decide(s)
  <2>1. SUFFICES ASSUME Decide(s) PROVE FALSE
    OBVIOUS
  <2>2. PICK stage, pair : Goto(s, Evaluating(s, stage, pair))
    BY <2>1 DEF Decide, DecideLocked, DecideBlocked
  <2>3. QED
    BY <1>3, <1>4, <2>2 DEF Evaluating
<1>8. ~Evaluate(s)
  <2>1. SUFFICES ASSUME Evaluate(s) PROVE FALSE
    OBVIOUS
  <2>2. o \in EvaluateSteps /\ (Goto(s, Idle) \/ GotoAt(s, "persist"))
    BY <1>1, <2>1, EntryOpsAt DEF Evaluate
  <2>3. [o EXCEPT !.at = "persist"].at = "persist"
    BY <2>2 DEF EvaluateSteps
  <2>4. QED
    BY <1>2, <1>4, <2>2, <2>3
<1>9. CASE Persist(s)
  <2>1. PICK i \in Intents, at \in {"refresh", "record"} :
            Goto(s, [at |-> at, run |-> o.run, pair |-> o.pair, intent |-> i])
    BY <1>9 DEF Persist
  <2>2. o.run = r
    BY <1>3, <1>4, <2>1
  <2>3. QED
    BY <1>9, <2>2 DEF Persist, OpenTrace, Report
<1>10. CASE Refresh(s) \/ Record(s)
  <2>1. o \in IntentSteps /\ o.at \in {"refresh", "record"}
    BY <1>1, <1>10, EntryOpsAt DEF Refresh, Record
  <2>2. PICK at \in {"record", "submit"} : op'[s] = [o EXCEPT !.at = at]
    BY <1>1, <1>2, <1>10 DEF Refresh, Record
  <2>3. o.run = r
    BY <1>4, <2>1, <2>2 DEF IntentSteps
  <2>4. QED
    BY <2>1, <2>3 DEF Failing, OpenTrace, Report
<1>11. CASE Submit(s)
  <2>1. o.at = "submit"
    BY <1>11 DEF Submit
  <2>2. PICK stage : Goto(s, [at |-> "report", run |-> o.run, pair |-> o.pair,
                              intent |-> o.intent, stage |-> stage])
    BY <1>11 DEF Submit
  <2>3. o.run = r
    BY <1>3, <1>4, <2>2
  <2>4. QED
    BY <2>1, <2>3 DEF Failing, OpenTrace, Report
<1>12. CASE Report(s)
  <2>1. o \in ReportSteps /\ o.at = "report" /\ op'[s] = [o EXCEPT !.at = "relock"]
    BY <1>1, <1>2, <1>12, EntryOpsAt DEF Report
  <2>2. op'[s].at = "relock" /\ op'[s].run = o.run /\ op'[s].stage = o.stage
    BY <2>1 DEF ReportSteps
  <2>3. o.run = r /\ o.stage \in ActiveStatuses
    BY <2>2 DEF Failing
  <2>4. QED
    BY <2>1, <2>3 DEF Failing, OpenTrace
<1>13. CASE Relock(s)
  <2>1. o.at = "relock" /\ o.stage \in ActiveStatuses /\ GotoAt(s, "open_trace")
    BY <1>4, <1>13 DEF Relock
  <2>2. o \in ReportSteps /\ op'[s] = [o EXCEPT !.at = "open_trace"]
    BY <1>1, <1>2, <2>1, EntryOpsAt
  <2>3. o.run = r
    BY <1>4, <2>2 DEF ReportSteps
  <2>4. QED
    BY <2>1, <2>3 DEF Failing, OpenTrace, Report
<1>14. ~OpenTrace(s)
  <2>1. SUFFICES ASSUME OpenTrace(s) PROVE FALSE
    OBVIOUS
  <2>2. PICK t : Goto(s, [at |-> "show_trace", run |-> o.run, pair |-> o.pair, trace |-> t])
    BY <2>1 DEF OpenTrace
  <2>3. QED
    BY <1>3, <1>4, <2>2
<1>15. ~ShowTrace(s)
  <2>1. SUFFICES ASSUME ShowTrace(s) PROVE FALSE
    OBVIOUS
  <2>2. PICK stage, pair : Goto(s, [at |-> "relock_trace", run |-> o.run, stage |-> stage, pair |-> pair])
    BY <1>1, <2>1 DEF ShowTrace
  <2>3. QED
    BY <1>3, <1>4, <2>2
<1>16. ~CheckEnded(s) /\ ~Close(s) /\ ~CheckOverdue(s)
  BY <1>1, EntryOpsAt DEF CheckEnded, Close, CheckOverdue
<1>17. ~PersistRefused(s) /\ ~Unlock(s)
  <2>1. SUFFICES ASSUME PersistRefused(s) \/ Unlock(s) PROVE FALSE
    OBVIOUS
  <2>2. o \in EvaluateSteps /\ (Goto(s, Idle) \/ GotoAt(s, "unlock"))
    BY <1>1, <2>1, EntryOpsAt DEF PersistRefused, Unlock
  <2>3. [o EXCEPT !.at = "unlock"].at = "unlock"
    BY <2>2 DEF EvaluateSteps
  <2>4. QED
    BY <1>2, <1>4, <2>2, <2>3
<1>18. QED
  BY <1>5, <1>6, <1>7, <1>8, <1>9, <1>10, <1>11, <1>12, <1>13, <1>14, <1>15, <1>16, <1>17
     DEF Continue, EntrySteps

\* A sweep that watches a run was begun when the run was due; one that has opened
\* a trace shows it next.
LEMMA WatchingNext ==
    ASSUME CycleType, NEW w \in Watchers, Continue(w) \/ BeginClose(w) \/ BeginWatch(w), NEW r
    PROVE  /\ Watching(op'[w], r) =>
                  /\ Watching(op[w], r) \/ (op[w] = Idle /\ Due(r) /\ UNCHANGED evaluation)
                  /\ ~OpenTrace(w)
           /\ OpenTrace(w) =>
                  op'[w].at = "show_trace" /\ op'[w].run = op[w].run /\ Watching(op[w], op[w].run)
           /\ op[w].at = "show_trace" => ShowTrace(w)
           /\ ~Report(w) /\ ~Persist(w) /\ ~Submit(w)
<1> PICK o : o = op[w]
  OBVIOUS
<1>1. /\ w \in Threads /\ w \notin Runtimes \cup Handlers /\ o \in SweepOps
      /\ DOMAIN op = Threads /\ w \in DOMAIN op
  BY ThreadAssumption DEF CycleType, OpsOK, Threads
<1>2. \A at : GotoAt(w, at) => op'[w] = [o EXCEPT !.at = at]
  BY <1>1, GotoAtStep, GotoStep
<1>3. \A step : Goto(w, step) => op'[w] = step
  BY <1>1, GotoStep
<1>4. o.at \notin {"reconcile", "enter", "decide", "evaluate", "persist", "unlock", "refresh", "record",
                   "submit", "report", "relock", "relock_trace"}
  BY <1>1, SweepOpsAt
<1>5. ~Report(w) /\ ~Persist(w) /\ ~Submit(w)
  BY <1>4 DEF Report, Persist, Submit
<1>6. ~Watching(Idle, r)
  BY DEF Watching, Idle
<1>7. CASE BeginClose(w)
  <2>1. PICK q, item : Goto(w, [at |-> "handoffs", run |-> q, goal |-> "ended", item |-> item])
    BY <1>7 DEF BeginClose
  <2>2. ~Watching(op'[w], r)
    BY <1>3, <2>1 DEF Watching
  <2>3. o.at = "idle"
    BY <1>7 DEF BeginClose, Idle
  <2>4. QED
    BY <1>5, <2>2, <2>3 DEF OpenTrace
<1>8. CASE BeginWatch(w)
  <2>1. PICK q \in Runs :
            /\ evaluation[q].stage = "entry_submitting"
            /\ Goto(w, [at |-> "handoffs", run |-> q, goal |-> "overdue"])
    BY <1>8 DEF BeginWatch
  <2>2. Watching(op'[w], r) => q = r
    BY <1>3, <2>1 DEF Watching
  <2>3. o = Idle /\ o.at = "idle" /\ UNCHANGED evaluation
    BY <1>8 DEF BeginWatch, Idle
  <2>4. QED
    BY <1>5, <2>1, <2>2, <2>3 DEF OpenTrace, Due
<1>9. CASE ScanHandoffs(w) \/ ScanActives(w)
  <2>1. o.at \in {"handoffs", "actives"} /\ o \in CloseSteps \cup WatchSteps
    BY <1>1, <1>9, SweepOpsAt DEF ScanHandoffs, ScanActives
  <2>2. Goto(w, Idle) \/ GotoAt(w, "actives") \/ GotoAt(w, o.goal)
    BY <1>9 DEF ScanHandoffs, ScanActives
  <2>3. Watching(op'[w], r) => Watching(o, r)
    <3>1. CASE o \in CloseSteps
      <4>1. o.goal = "ended"
        BY <3>1 DEF CloseSteps
      <4>2. \A at \in {"actives", "ended"} : ~Watching([o EXCEPT !.at = at], r)
        BY <3>1 DEF CloseSteps, Watching
      <4>3. QED
        BY <1>2, <1>3, <1>6, <2>2, <4>1, <4>2
    <3>2. CASE o \in WatchSteps
      <4>1. o.goal = "overdue"
        BY <3>2 DEF WatchSteps
      <4>2. \A at \in {"actives", "overdue"} : [o EXCEPT !.at = at].run = o.run
        BY <3>2 DEF WatchSteps
      <4>3. ASSUME Watching(op'[w], r) PROVE o.run = r
        <5>1. op'[w] # Idle /\ op'[w].run = r
          BY <1>6, <4>3 DEF Watching
        <5>2. QED
          BY <1>2, <1>3, <2>2, <4>1, <4>2, <5>1
      <4>4. QED
        BY <2>1, <4>1, <4>3 DEF Watching
    <3>3. QED
      BY <2>1, <3>1, <3>2
  <2>4. QED
    BY <1>5, <2>1, <2>3 DEF OpenTrace
<1>10. CASE CheckEnded(w)
  <2>1. o.at = "ended" /\ o \in CloseSteps /\ (Goto(w, Idle) \/ GotoAt(w, "close"))
    BY <1>1, <1>10, SweepOpsAt DEF CheckEnded
  <2>2. ~Watching([o EXCEPT !.at = "close"], r)
    BY <2>1 DEF CloseSteps, Watching
  <2>3. ~Watching(op'[w], r)
    BY <1>2, <1>3, <1>6, <2>1, <2>2
  <2>4. QED
    BY <1>5, <2>1, <2>3 DEF OpenTrace
<1>11. CASE Close(w)
  <2>1. o.at = "close" /\ Goto(w, Idle)
    BY <1>11 DEF Close
  <2>2. QED
    BY <1>3, <1>5, <1>6, <2>1 DEF OpenTrace
<1>12. CASE CheckOverdue(w)
  <2>1. /\ o.at = "overdue"
        /\ \/ Goto(w, Idle)
           \/ Goto(w, [at |-> "open_trace", run |-> o.run, pair |-> FALSE,
                       stage |-> "recovery_required"])
    BY <1>12 DEF CheckOverdue
  <2>2. Watching(op'[w], r) => Watching(o, r)
    BY <1>3, <1>6, <2>1 DEF Watching
  <2>3. QED
    BY <1>5, <2>1, <2>2 DEF OpenTrace
<1>13. CASE OpenTrace(w)
  <2>1. PICK t : Goto(w, [at |-> "show_trace", run |-> o.run, pair |-> o.pair, trace |-> t])
    BY <1>13 DEF OpenTrace
  <2>2. op'[w].at = "show_trace" /\ op'[w].run = o.run
    BY <1>3, <2>1
  <2>3. o.at = "open_trace"
    BY <1>13 DEF OpenTrace
  <2>4. QED
    BY <1>5, <2>2, <2>3 DEF Watching
<1>14. CASE ShowTrace(w)
  <2>1. o.at = "show_trace" /\ Goto(w, Idle)
    BY <1>1, <1>14 DEF ShowTrace
  <2>2. QED
    BY <1>3, <1>5, <1>6, <1>14, <2>1 DEF OpenTrace
<1>15. /\ ~ReconcileLock(w) /\ ~Load(w) /\ ~Decide(w) /\ ~Evaluate(w) /\ ~Refresh(w) /\ ~Record(w)
       /\ ~Relock(w) /\ ~PersistRefused(w) /\ ~Unlock(w)
  BY <1>4 DEF ReconcileLock, Load, Decide, Evaluate, Refresh, Record, Relock, PersistRefused,
             Unlock
<1>16. QED
  BY <1>5, <1>7, <1>8, <1>9, <1>10, <1>11, <1>12, <1>13, <1>14, <1>15 DEF Continue, EntrySteps

\* An entry that is there already is not added to: the run had none before.
LEMMA FirstEntry ==
    ASSUME CycleType, NEW a, Persist(a), NEW r, op[a].run = r, OneEntry(r)'
    PROVE  Unentered(r)
<1>1. PICK i \in Intents \ DOMAIN intents :
          \E row : row.run = r /\ intents' = Added(intents, i, row)
  BY DEF Persist
<1>2. PICK row : row.run = r /\ intents' = Added(intents, i, row)
  BY <1>1
<1>3. /\ DOMAIN intents' = DOMAIN intents \cup {i} /\ intents'[i] = row
      /\ \A j \in DOMAIN intents : j # i => intents'[j] = intents[j]
  BY <1>2 DEF Added
<1>4. i \notin DOMAIN intents
  BY <1>1
<1>5. QED
  BY <1>2, <1>3, <1>4 DEF OneEntry, Unentered

\* What a trace being shown does to the run: it is not due any more.
LEMMA ShownNotDue ==
    ASSUME CycleType, NEW a \in Threads, ShowTrace(a), NEW r, op[a].run = r
    PROVE  ~Due(r)'
<1>1. op[a] \in ShowSteps /\ op[a].trace \in DOMAIN traces
  BY OpsAt DEF ShowTrace, CycleType
<1>2. r \in Runs
  BY <1>1 DEF ShowSteps
<1>3. PICK status \in BlockingStatuses \cup {"resolved"} : evaluation' = Synced(r, status)
  BY <1>1 DEF CycleType, TraceRows, ShowTrace
<1>4. Preview(status) # "entry_submitting"
  BY PreviewValues DEF ActiveStatuses
<1>5. CASE evaluation[r] = NoEvaluation
  <2>1. evaluation'[r] = NoEvaluation
    BY <1>3, <1>5 DEF Synced
  <2>2. QED
    BY <2>1 DEF NoEvaluation, Due
<1>6. CASE evaluation[r] # NoEvaluation
  <2> DEFINE e == [evaluation[r] EXCEPT !.stage = Preview(status)]
  <2>1. evaluation[r] \in [stage : Stages, intent : Intents \cup {NoIntent}, pair : BOOLEAN]
    BY <1>2, <1>6 DEF CycleType, Evaluation
  <2>2. e.stage # "entry_submitting"
    BY <1>4, <2>1
  <2>3. evaluation' = [evaluation EXCEPT ![r] = e]
    BY <1>3, <1>6 DEF Synced
  <2> HIDE DEF e
  <2>4. evaluation'[r] = e
    BY <1>2, <2>3 DEF CycleType
  <2>5. QED
    BY <2>2, <2>4 DEF Due
<1>7. QED
  BY <1>5, <1>6

LEMMA SoleStep ==
    ASSUME NEW s, NEW w, Runtimes = {s}, Watchers = {w}, CycleType, CycleType', FailInv,
           SoleInv(s, w), Next
    PROVE  SoleInv(s, w)'
<1>1. SUFFICES ASSUME NEW r \in Runs, OneEntry(r)' PROVE Sole(op[s], op[w], r)'
  BY DEF SoleInv
<1>2. IntentsKept /\ s \in Runtimes /\ w \in Watchers /\ s \in Threads /\ w \in Threads /\ s # w
  BY IntentsGrow, AnyNextCovers, ThreadAssumption DEF Threads
<1>3. Sole(op[s], op[w], r)
  BY <1>1, <1>2 DEF SoleInv, OneEntry, IntentsKept
<1>4. Unentered(r)' => Unentered(r)
  BY <1>2 DEF Unentered, IntentsKept
<1>5. CASE World
  <2>1. UNCHANGED op
    BY <1>5 DEF World, StartRun, StopRun, OrdersProgress, SubmitTimePasses, MoveTrace, ExpireLock
  <2>2. TracesOf(r)' = TracesOf(r) /\ (Due(r)' => Due(r))
    BY <1>5, TracesSame, NotMadeDue
  <2>3. QED
    BY <1>3, <1>4, <2>1, <2>2 DEF Sole, Failing, Watching, Showing
<1>6. CASE Continue(s) \/ BeginRun(s)
  <2>1. op'[w] = op[w]
    BY <1>2, <1>6, ActMovesOne DEF Act
  <2>2. Act(s)
    BY <1>2, <1>6 DEF Act
  <2>3. ASSUME op[s].at \in {"report", "open_trace"} PROVE ~Unentered(op[s].run)
    <3>1. op[s] \in EntryOps
      BY <1>2 DEF CycleType, OpsOK
    <3>2. op[s] \in ReportSteps \cup FailedSteps
      BY <2>3, <3>1, EntryOpsAt
    <3>3. QED
      BY <1>2, <3>2 DEF FailInv, Unentered
  <2>4. CASE Report(s) /\ op[s].stage = "entry_submitting" /\ op[s].run = r
    <3>1. Failing(op[s], r) /\ ~Unentered(r) /\ ~OpenTrace(s)
      BY <2>3, <2>4 DEF Report, Failing, OpenTrace
    <3>2. TracesOf(r)' = TracesOf(r)
      BY <1>2, <2>2, <3>1, TracesSame
    <3>3. ~Failing(op'[s], r)
      BY <1>2, <1>6, <2>4, FailingNext DEF ActiveStatuses
    <3>4. QED
      BY <1>3, <1>4, <2>1, <3>1, <3>2, <3>3 DEF Sole
  <2>5. CASE OpenTrace(s) /\ op[s].run = r
    <3>1. Failing(op[s], r) /\ ~Unentered(r) /\ ~Report(s)
      BY <2>3, <2>5 DEF OpenTrace, Failing, Report
    <3>2. PICK t : TracesOf(r)' = TracesOf(r) \cup {t}
      BY <2>5, TraceOpened
    <3>3. Due(r)' => Due(r)
      BY <1>2, <2>2, <3>1, NotMadeDue
    <3>4. ~Failing(op'[s], r)
      BY <1>2, <1>6, <2>5, FailingNext
    <3>5. QED
      BY <1>3, <1>4, <2>1, <3>1, <3>2, <3>3, <3>4 DEF Sole
  <2>6. CASE /\ Report(s) => op[s].stage # "entry_submitting" \/ op[s].run # r
             /\ OpenTrace(s) => op[s].run # r
    <3>1. TracesOf(r)' = TracesOf(r) /\ (Due(r)' => Due(r))
      BY <1>2, <2>2, <2>6, TracesSame, NotMadeDue
    <3>2. Failing(op'[s], r) => Unentered(r) \/ Failing(op[s], r)
      BY <1>1, <1>2, <1>6, FailingNext, FirstEntry
    <3>3. QED
      BY <1>3, <1>4, <2>1, <3>1, <3>2 DEF Sole
  <2>7. QED
    BY <2>4, <2>5, <2>6
<1>7. CASE Continue(w) \/ BeginClose(w) \/ BeginWatch(w)
  <2>1. op'[s] = op[s] /\ Act(w)
    BY <1>2, <1>7, ActMovesOne DEF Act
  <2>2. Due(r)' => Due(r)
    BY <1>2, <1>7, <2>1, NotMadeDue, WatchingNext
  <2>3. Failing(op'[s], r) => Failing(op[s], r)
    BY <2>1
  <2>4. Watching(op'[w], r) =>
            Watching(op[w], r) \/ (Due(r) /\ ~Showing(op[w], r))
    BY <1>2, <1>7, WatchingNext DEF Showing, Idle
  <2>5. CASE OpenTrace(w) /\ op[w].run = r
    <3>1. Watching(op[w], r) /\ Showing(op'[w], r) /\ ~Watching(op'[w], r)
      BY <1>2, <1>7, <2>5, WatchingNext DEF Showing
    <3>2. PICK t : TracesOf(r)' = TracesOf(r) \cup {t}
      BY <2>5, TraceOpened
    <3>3. QED
      BY <1>3, <1>4, <2>2, <2>3, <3>1, <3>2 DEF Sole
  <2>6. CASE OpenTrace(w) => op[w].run # r
    <3>1. TracesOf(r)' = TracesOf(r)
      BY <1>2, <2>1, <2>6, TracesSame
    <3>2. Showing(op[w], r) => ~Due(r)'
      BY <1>2, <1>7, WatchingNext, ShownNotDue DEF Showing
    <3>3. QED
      BY <1>3, <1>4, <2>2, <2>3, <2>4, <3>1, <3>2 DEF Sole
  <2>7. QED
    BY <2>5, <2>6
<1>8. \A h \in Handlers : ~Continue(h)
  BY HandlersIdle DEF FailInv
<1>9. QED
  BY <1>5, <1>6, <1>7, <1>8 DEF Next, Threads

\* An entry has one active recovery trace at most, although the runtime and the
\* sweep both open traces, and neither holds a lock or looks again before it
\* writes: with one sweep at a time, as the recovery thread makes them.  A second
\* sweep, from a handler that calls run_once, breaks it.
THEOREM OneTracePerEntryAlways ==
    ASSUME NEW s, NEW w, Runtimes = {s}, Watchers = {w}
    PROVE  Spec => []OneTracePerEntry
<1>1. Init => SoleInv(s, w)
  <2>1. SUFFICES ASSUME Init PROVE SoleInv(s, w)
    OBVIOUS
  <2>2. op[s] = Idle /\ op[w] = Idle /\ DOMAIN traces = {}
        /\ \A r \in Runs : evaluation[r] = NoEvaluation
    BY <2>1 DEF Init, Threads
  <2>3. \A r \in Runs : TracesOf(r) = {}
    BY <2>2 DEF TracesOf
  <2>4. \A r \in Runs : ~Due(r)
    <3>1. NoEvaluation.stage = "none"
      BY DEF NoEvaluation
    <3>2. QED
      BY <2>2, <3>1 DEF Due
  <2>5. \A r \in Runs : ~Watching(op[w], r)
    <3>1. Idle.at = "idle"
      BY DEF Idle
    <3>2. QED
      BY <2>2, <3>1 DEF Watching
  <2>6. QED
    BY <2>3, <2>4, <2>5 DEF SoleInv, Sole
<1>2. SoleInv(s, w) /\ FailInv /\ CycleType /\ CycleType' /\ [Next]_vars => SoleInv(s, w)'
  <2>1. SUFFICES ASSUME SoleInv(s, w), UNCHANGED vars PROVE SoleInv(s, w)'
    BY SoleStep
  <2>2. QED
    BY <2>1 DEF vars, SoleInv, Sole, OneEntry, Unentered, Failing, Watching, Showing, TracesOf, Due
<1>3. SoleInv(s, w) /\ CycleType => OneTracePerEntry
  <2>1. SUFFICES ASSUME SoleInv(s, w), CycleType, NEW t \in DOMAIN traces, NEW u \in DOMAIN traces,
                        traces[t].run = traces[u].run, OneEntry(traces[t].run)
                 PROVE  t = u
    BY DEF OneTracePerEntry, OneEntry
  <2>2. traces[t].run \in Runs
    BY <2>1 DEF CycleType, TraceRows
  <2>3. t \in TracesOf(traces[t].run) /\ u \in TracesOf(traces[t].run)
    BY <2>1 DEF TracesOf
  <2>4. QED
    BY <2>1, <2>2, <2>3 DEF SoleInv, Sole
<1>4. QED
  BY <1>1, <1>2, <1>3, CycleTypeInvariant, FailInvariant, PTL DEF Spec
=============================================================================
