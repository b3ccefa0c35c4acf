------------------------- MODULE RecoveryTraceProofs -------------------------
(***************************************************************************)
(* Proofs about RecoveryTrace: the cascade of reconciliation checks, for   *)
(* any observed orders, open-order counts and limits on mismatches, and    *)
(* what any number of threads, overwriting each other, keep of the trace.  *)
(***************************************************************************)
EXTENDS RecoveryTrace, FiniteSetTheorems, TLAPS

\* A status list without open and failed orders has filled ones only.
LEMMA ObservedIsFilled ==
    ASSUME NEW r \in Results
    PROVE  Observed(r) \cap {"failed", "open"} = {} <=> Observed(r) \subseteq {"filled"}
<1>1. Observed(r) \subseteq {"open", "filled", "failed"}
  BY DEF Observed, Results, StatusClasses
<1>2. QED
  BY <1>1

\* The cascade says "resolve" of a trustworthy match and of nothing else.
LEMMA VerdictResolves ==
    ASSUME NEW r \in Results, NEW known \in BOOLEAN, NEW streak \in 0 .. MismatchLimit
    PROVE  Verdict(r, known, streak) = "resolve" <=> TrustworthyMatch(r, known)
<1>1. /\ r.observedAt \in {"missing", "future", "fresh", "old"}
      /\ r.balances \in {"none", "partial", "locked", "free"}
      /\ r.wellFormed \in BOOLEAN
  BY DEF Results
<1>2. CASE ~ClaimsClean(r)
  BY <1>2 DEF Verdict, TrustworthyMatch
<1>3. CASE ClaimsClean(r)
  <2>1. StatusConflict(r) <=> ~(Observed(r) \subseteq {"filled"})
    BY <1>3, ObservedIsFilled DEF StatusConflict
  <2>2. InvalidResult(r) \/ StaleObservation(r) <=> r.observedAt # "fresh"
    BY <1>1, <1>3 DEF InvalidResult, StaleObservation
  <2>3. BalanceConflict(r, known) <=> ~known \/ r.balances # "free"
    BY <1>1, <1>3 DEF BalanceConflict
  <2>4. EvidenceMissing(r) => r.balances # "free"
    BY DEF EvidenceMissing
  <2>5. QED
    BY <1>1, <1>3, <2>1, <2>2, <2>3, <2>4 DEF Verdict, TrustworthyMatch, InvalidEvidence
<1>4. QED
  BY <1>2, <1>3

\* _process_trace resolves a trace on its reconciliation result exactly when the
\* result is a trustworthy match.
THEOREM ResolvesExactly == Spec => []ResolvesExactlyOnTrustworthyMatch
<1>1. ResolvesExactlyOnTrustworthyMatch
  BY VerdictResolves DEF ResolvesExactlyOnTrustworthyMatch
<1>2. QED
  BY <1>1, PTL

\* The cascade says nothing of a result only if an order or a residual is left.
LEMMA VerdictUndecided ==
    ASSUME NEW r \in Results, NEW known \in BOOLEAN, NEW streak \in 0 .. MismatchLimit,
           Verdict(r, known, streak) = "undecided"
    PROVE  r.openOrders > 0 \/ (r.result = "matched" /\ r.residual = "open")
<1>1. ~ClaimsClean(r) /\ ~MismatchHopeless(r, streak)
  BY DEF Verdict
<1>2. /\ r.result \in {"matched", "mismatch"} /\ r.residual \in {"zero", "open"}
  BY DEF Results
<1>3. r.openOrders # 0 => r.openOrders > 0
  <2>1. r.openOrders \in 0 .. MaxOpenOrders
    BY DEF Results
  <2>2. QED
    BY <2>1
<1>4. QED
  BY <1>1, <1>2, <1>3 DEF ClaimsClean, MismatchHopeless

\* A trace is left without a verdict only while there is an order or a residual
\* to wait for.
THEOREM UndecidedWaits == Spec => []UndecidedHasWorkLeft
<1>1. UndecidedHasWorkLeft
  BY VerdictUndecided DEF UndecidedHasWorkLeft
<1>2. QED
  BY <1>1, PTL

-----------------------------------------------------------------------------
(* Status, lifecycle and residual agree, whichever threads write the trace,  *)
(* from however old copies, and wherever they stop.                          *)

Told == {"status", "lifecycle", "residual"}

\* A trace, or a copy of it, of which StatusAgrees holds.
Agreeing(t) ==
    /\ Told \subseteq DOMAIN t
    /\ t.status = "resolved" => t.lifecycle = "closed" /\ t.residual = "zero"
    /\ t.status = "handoff_required" <=> t.lifecycle = "manual_handoff"
    /\ t.lifecycle = "closed" => t.status = "resolved"

\* A patch that says status and lifecycle together, and the residual with
\* them when it resolves the trace.
Complete(patch) ==
    /\ {"status", "lifecycle"} \subseteq DOMAIN patch
    /\ patch.status = "resolved" =>
           patch.lifecycle = "closed" /\ "residual" \in DOMAIN patch /\ patch.residual = "zero"
    /\ patch.status = "handoff_required" <=> patch.lifecycle = "manual_handoff"
    /\ patch.lifecycle = "closed" => patch.status = "resolved"

\* What an agent holds in the middle of a request or a pass.
Sound(o) ==
    /\ o.at = "transition" => Complete(o.patch)
    /\ o.at \in {"write", "sync", "evaluate"} => Agreeing(o.copy)
    /\ o.at \in {"orders", "decide", "cancel"} => Agreeing(o.seen)
    /\ o.at = "cancel" => ~IsTerminal(o.seen)

AgreeInv ==
    /\ Agreeing(trace)
    /\ DOMAIN op = Agents /\ \A a \in Agents : Sound(op[a])

\* A complete patch makes of any agreeing copy another one; a patch of other
\* fields leaves it agreeing.
LEMMA PatchedAgrees ==
    ASSUME NEW t, Agreeing(t), NEW patch, Complete(patch) \/ Told \cap DOMAIN patch = {}
    PROVE  Agreeing(Patched(t, patch))
<1>1. /\ DOMAIN Patched(t, patch) = DOMAIN t
      /\ \A field \in Told :
             Patched(t, patch)[field] =
                 IF field \in DOMAIN patch THEN patch[field] ELSE t[field]
  BY DEF Patched, Agreeing, Told
<1> HIDE DEF Patched
<1>2. QED
  BY <1>1 DEF Agreeing, Complete, Told

\* Every patch that a handler or a pass makes is complete.
LEMMA PatchesComplete ==
    /\ Complete(ResolvedPatch("zero")) /\ Complete(HandoffPatch)
    /\ \A residual : Complete(StartedPatch(residual))
    /\ \A residual, i : Complete(Merged(StartedPatch(residual), [action |-> i]))
    /\ \A o : Complete(Merged(UnwindPatch, [order |-> o]))
BY DEF Complete, ResolvedPatch, HandoffPatch, StartedPatch, UnwindPatch, Merged

\* Recording a result says nothing of the three fields.
LEMMA RecordingApart == \A t, r : Told \cap DOMAIN Recording(t, r) = {}
BY DEF Recording, Told

\* An agent that holds something sound next, beside a trace that still agrees.
LEMMA GotoSound ==
    ASSUME AgreeInv, NEW a \in Agents, NEW o, Goto(a, o), Sound(o), Agreeing(trace')
    PROVE  AgreeInv'
<1>1. DOMAIN op' = Agents /\ \A b \in Agents : op'[b] = IF b = a THEN o ELSE op[b]
  BY DEF Goto, AgreeInv
<1>2. \A b \in Agents : Sound(op[b])'
  BY <1>1 DEF AgreeInv, Sound, IsTerminal
<1>3. QED
  BY <1>1, <1>2 DEF AgreeInv, Agreeing

\* What is put into op next in each step of an agent, and what becomes of the
\* trace: everything that is put there is sound.
LEMMA ContinueSound ==
    ASSUME AgreeInv, NEW a \in Agents, Continue(a)
    PROVE  AgreeInv'
<1>1. Sound(op[a]) /\ Agreeing(trace) /\ Sound(Idle)
  BY DEF AgreeInv, Sound, Idle
<1>2. CASE ReadForTransition(a)
  <2>1. trace' = trace /\ op[a].at = "transition"
        /\ Goto(a, IF IsTerminal(trace) THEN Idle ELSE Writing(trace, op[a].patch))
    BY <1>2 DEF ReadForTransition
  <2>2. Sound(Writing(trace, op[a].patch))
    BY <1>1, <2>1, PatchedAgrees DEF Sound, Writing
  <2>3. QED
    BY <1>1, <2>1, <2>2, GotoSound
<1>3. CASE Write(a)
  <2>1. trace' = op[a].copy /\ Agreeing(op[a].copy) /\ Goto(a, [op[a] EXCEPT !.at = "sync"])
    BY <1>1, <1>3 DEF Write, Sound
  <2>2. Sound([op[a] EXCEPT !.at = "sync"])
    BY <1>1, <2>1, <1>3 DEF Sound, Write
  <2>3. QED
    BY <2>1, <2>2, GotoSound
<1>4. CASE ReadBack(a)
  <2>1. trace' = trace /\ Goto(a, [op[a] EXCEPT !.at = "evaluate", !.copy = trace])
    BY <1>4 DEF ReadBack
  <2>2. Sound([op[a] EXCEPT !.at = "evaluate", !.copy = trace])
    BY <1>1, <1>4 DEF Sound, ReadBack
  <2>3. QED
    BY <1>1, <2>1, <2>2, GotoSound
<1>5. CASE SyncEvaluation(a)
  <2> DEFINE next == [at |-> "decide", seen |-> op[a].copy, active |-> op[a].active]
  <2>1. trace' = trace /\ op[a].at = "evaluate" /\ Goto(a, IF op[a].resume THEN next ELSE Idle)
    BY <1>5 DEF SyncEvaluation
  <2>2. Sound(next)
    BY <1>1, <2>1 DEF Sound
  <2>3. QED
    BY <1>1, <2>1, <2>2, GotoSound
<1>6. CASE RecordOwnResult(a)
  <2>1. PICK r \in OwnResults :
            Goto(a, [at |-> "write", copy |-> Patched(op[a].seen, Recording(op[a].seen, r)),
                     resume |-> TRUE, active |-> HasActiveOrders(op[a].seen)])
    BY <1>6 DEF RecordOwnResult
  <2>2. Agreeing(Patched(op[a].seen, Recording(op[a].seen, r)))
    BY <1>1, <1>6, PatchedAgrees, RecordingApart DEF RecordOwnResult, Sound
  <2>3. trace' = trace
    BY <1>6 DEF RecordOwnResult
  <2>4. Sound([at |-> "write", copy |-> Patched(op[a].seen, Recording(op[a].seen, r)),
               resume |-> TRUE, active |-> HasActiveOrders(op[a].seen)])
    BY <2>2 DEF Sound
  <2>5. QED
    BY <1>1, <2>1, <2>3, <2>4, GotoSound
<1>7. CASE RecordNothing(a)
  <2> DEFINE next == [at |-> "decide", seen |-> op[a].seen,
                      active |-> HasActiveOrders(op[a].seen)]
  <2>1. trace' = trace /\ Goto(a, next) /\ Sound(next)
    BY <1>1, <1>7 DEF RecordNothing, Sound
  <2>2. QED
    BY <1>1, <2>1, GotoSound
<1>8. CASE Decide(a)
  <2>1. PICK next \in {Writing(op[a].seen, ResolvedPatch("zero")),
                       Writing(op[a].seen, HandoffPatch), Idle} : Goto(a, next)
    <3>1. PICK verdict \in ResultVerdicts(op[a].seen) :
              LET decision == Decision(op[a].seen, op[a].active, verdict)
              IN  Goto(a, CASE decision = "resolve" -> Writing(op[a].seen, ResolvedPatch("zero"))
                            [] decision = "handoff" -> Writing(op[a].seen, HandoffPatch)
                            [] decision = "skip" -> Idle)
      BY <1>8 DEF Decide
    <3>2. Decision(op[a].seen, op[a].active, verdict) \in {"resolve", "handoff", "skip"}
      BY <3>1 DEF Decision, ResultVerdicts, Verdict
    <3>3. QED
      BY <3>1, <3>2
  <2>2. Sound(next)
    BY <1>1, <1>8, PatchedAgrees, PatchesComplete DEF Decide, Sound, Writing, Idle
  <2>3. trace' = trace
    BY <1>8 DEF Decide
  <2>4. QED
    BY <1>1, <2>1, <2>2, <2>3, GotoSound
<1>9. CASE CreateUnwindIntent(a)
  <2>1. PICK i : Goto(a, Transition(Merged(StartedPatch(op[a].residual), [action |-> i])))
    BY <1>9 DEF CreateUnwindIntent
  <2>2. Sound(Transition(Merged(StartedPatch(op[a].residual), [action |-> i])))
    BY PatchesComplete DEF Sound, Transition
  <2>3. QED
    BY <1>1, <1>9, <2>1, <2>2, GotoSound DEF CreateUnwindIntent
<1>10. CASE CreateUnwindOrder(a)
  <2>1. Goto(a, Idle) \/ \E o : Goto(a, Transition(Merged(UnwindPatch, [order |-> o])))
    BY <1>10 DEF CreateUnwindOrder
  <2>2. \A o : Sound(Transition(Merged(UnwindPatch, [order |-> o])))
    BY PatchesComplete DEF Sound, Transition
  <2>3. QED
    BY <1>1, <1>10, <2>1, <2>2, GotoSound DEF CreateUnwindOrder
<1>11. CASE CancelOrder(a)
  <2>1. PICK o : Goto(a, [op[a] EXCEPT !.left = @ \ {o}])
    BY <1>11 DEF CancelOrder
  <2>2. Sound([op[a] EXCEPT !.left = @ \ {o}])
    BY <1>1 DEF Sound
  <2>3. QED
    BY <1>1, <1>11, <2>1, <2>2, GotoSound DEF CancelOrder
<1>12. CASE FinishCancel(a)
  <2> DEFINE next == Transition([status |-> op[a].seen.status, lifecycle |-> op[a].seen.lifecycle])
  <2>1. trace' = trace /\ Goto(a, next) /\ Agreeing(op[a].seen) /\ ~IsTerminal(op[a].seen)
    BY <1>1, <1>12 DEF FinishCancel, Sound
  <2>2. Sound(next)
    BY <2>1 DEF Sound, Transition, Complete, Agreeing, IsTerminal
  <2>3. QED
    BY <1>1, <2>1, <2>2, GotoSound
<1>13. CASE CreateUnwindFill(a)
  <2>1. \E next \in {Idle, Transition(StartedPatch("zero")),
                     Transition(StartedPatch(op[a].seen.residual))} : Goto(a, next)
    BY <1>13 DEF CreateUnwindFill
  <2>2. \A residual : Sound(Transition(StartedPatch(residual)))
    BY PatchesComplete DEF Sound, Transition
  <2>3. QED
    BY <1>1, <1>13, <2>1, <2>2, GotoSound DEF CreateUnwindFill
<1>14. QED
  BY <1>2, <1>3, <1>4, <1>5, <1>6, <1>7, <1>8, <1>9, <1>10, <1>11, <1>12, <1>13 DEF Continue

\* A pass or a request begins with the trace as it is.
LEMMA BeginSound ==
    ASSUME AgreeInv, NEW a \in Agents, BeginPass(a) \/ Request(a) \/ Fail(a)
    PROVE  AgreeInv'
<1>1. Agreeing(trace) /\ trace' = trace
  BY DEF AgreeInv, BeginPass, Request, Fail, Resolve, Handoff, StartUnwind,
         SubmitUnwindOrder, CancelOpenOrders, RecordUnwindFill, RecordReconciliation
<1>2. ASSUME NEW o, Goto(a, o), Sound(o) PROVE AgreeInv'
  BY <1>1, <1>2, GotoSound
<1>3. CASE BeginPass(a) \/ Fail(a)
  <2>1. Sound([at |-> "orders", seen |-> trace]) /\ Sound(Idle)
    BY <1>1 DEF Sound, Idle
  <2>2. QED
    BY <1>2, <1>3, <2>1 DEF BeginPass, Fail
<1>4. CASE Resolve(a) \/ Handoff(a)
  <2>1. Sound(Transition(ResolvedPatch("zero"))) /\ Sound(Transition(HandoffPatch))
    BY PatchesComplete DEF Sound, Transition
  <2>2. QED
    BY <1>2, <1>4, <2>1 DEF Resolve, Handoff
<1>5. CASE StartUnwind(a)
  <2>1. \A residual : /\ Sound(Transition(StartedPatch(residual)))
                      /\ Sound([at |-> "intent", residual |-> residual])
    BY PatchesComplete DEF Sound, Transition
  <2>2. QED
    BY <1>2, <1>5, <2>1 DEF StartUnwind
<1>6. CASE SubmitUnwindOrder(a)
  <2>1. Sound([at |-> "submit", intent |-> trace.action])
    BY DEF Sound
  <2>2. QED
    BY <1>2, <1>6, <2>1 DEF SubmitUnwindOrder
<1>7. CASE CancelOpenOrders(a)
  <2> DEFINE next == [at |-> "cancel", seen |-> trace, left |-> CancelCandidates(trace)]
  <2>1. Goto(a, next) /\ ~IsTerminal(trace)
    BY <1>7 DEF CancelOpenOrders
  <2>2. Sound(next)
    BY <1>1, <2>1 DEF Sound
  <2>3. QED
    BY <1>2, <2>1, <2>2
<1>8. CASE RecordUnwindFill(a)
  <2>1. Sound([at |-> "fill", seen |-> trace])
    BY DEF Sound
  <2>2. QED
    BY <1>2, <1>8, <2>1 DEF RecordUnwindFill
<1>9. CASE RecordReconciliation(a)
  <2>1. \A r : Sound(Writing(trace, Recording(trace, r)))
    BY <1>1, PatchedAgrees, RecordingApart DEF Sound, Writing
  <2>2. QED
    BY <1>2, <1>9, <2>1 DEF RecordReconciliation
<1>10. QED
  BY <1>3, <1>4, <1>5, <1>6, <1>7, <1>8, <1>9 DEF Request

LEMMA AgreeInvariant == FailingSpec => []AgreeInv
<1>1. Init => AgreeInv
  BY DEF Init, AgreeInv, Agreeing, Told, Sound, Idle
<1>2. AgreeInv /\ [Next \/ \E a \in Agents : Fail(a)]_vars => AgreeInv'
  <2>1. SUFFICES ASSUME AgreeInv, [Next \/ \E a \in Agents : Fail(a)]_vars PROVE AgreeInv'
    OBVIOUS
  <2>2. CASE UNCHANGED <<trace, op>>
    BY <2>1, <2>2 DEF AgreeInv, Agreeing, Sound, IsTerminal
  <2>3. QED
    BY <2>1, <2>2, ContinueSound, BeginSound DEF Next, World, UpdateOrder, Expire, vars
<1>3. QED
  BY <1>1, <1>2, PTL DEF FailingSpec

\* However many threads and operators work on a trace at a time, overwrite each
\* other's writes from old copies and stop in the middle: its status, lifecycle
\* and residual never contradict each other.
THEOREM StatusAlwaysAgrees == FailingSpec => []StatusAgrees
<1>1. AgreeInv => StatusAgrees
  BY DEF AgreeInv, Agreeing, StatusAgrees
<1>2. QED
  BY <1>1, AgreeInvariant, PTL

-----------------------------------------------------------------------------
(* The trace's links to the order store, for the same threads.               *)

\* The links of a trace or a copy, in a store with intents I and orders B.
LinkedIn(t, I, B) ==
    /\ {"action", "order"} \subseteq DOMAIN t
    /\ t.action # Missing => t.action \in I
    /\ t.order # Missing => t.order \in DOMAIN B /\ B[t.order].intent \in I

PatchLinkedIn(patch, I, B) ==
    /\ "action" \in DOMAIN patch => patch.action \in I
    /\ "order" \in DOMAIN patch => patch.order \in DOMAIN B /\ B[patch.order].intent \in I

\* What an agent holds is linked to what the store has.
HeldIn(o, I, B) ==
    /\ o.at = "transition" => PatchLinkedIn(o.patch, I, B)
    /\ o.at \in {"write", "sync", "evaluate"} => LinkedIn(o.copy, I, B)
    /\ o.at \in {"orders", "decide", "cancel", "fill"} => LinkedIn(o.seen, I, B)
    /\ o.at = "submit" => o.intent \in I

LinkInv ==
    /\ LinkedIn(trace, intents, orders)
    /\ DOMAIN op = Agents /\ \A a \in Agents : HeldIn(op[a], intents, orders)

\* The order store only grows, and an order keeps its intent.
Grows ==
    /\ intents \subseteq intents' /\ DOMAIN orders \subseteq DOMAIN orders'
    /\ \A o \in DOMAIN orders : orders'[o].intent = orders[o].intent

LEMMA StoreGrows ==
    ASSUME NEW a \in Agents,
           BeginPass(a) \/ Request(a) \/ Continue(a) \/ Fail(a) \/ World
    PROVE  Grows
<1>1. CASE CreateUnwindIntent(a)
  BY <1>1 DEF CreateUnwindIntent, Grows
<1>2. CASE CreateUnwindOrder(a)
  BY <1>2 DEF CreateUnwindOrder, Merged, Grows
<1>3. ASSUME NEW o, NEW class, orders' = [orders EXCEPT ![o].class = class], UNCHANGED intents
      PROVE  Grows
  BY <1>3 DEF Grows
<1>4. CASE CancelOrder(a) \/ CreateUnwindFill(a) \/ World
  <2>1. UNCHANGED intents
    BY <1>4 DEF CancelOrder, CreateUnwindFill, World, UpdateOrder, Expire
  <2>2. UNCHANGED orders \/ \E o, class : orders' = [orders EXCEPT ![o].class = class]
    BY <1>4 DEF CancelOrder, CreateUnwindFill, World, UpdateOrder, Expire
  <2>3. QED
    BY <1>3, <2>1, <2>2 DEF Grows
<1>5. QED
  BY <1>1, <1>2, <1>4
     DEF Continue, Request, BeginPass, Fail, ReadForTransition, Write, ReadBack, SyncEvaluation,
         RecordOwnResult, RecordNothing, Decide, FinishCancel, Resolve, Handoff, StartUnwind,
         SubmitUnwindOrder, CancelOpenOrders, RecordUnwindFill, RecordReconciliation, Grows

\* What was linked stays linked as the store grows.
LEMMA HeldAsStoreGrows ==
    ASSUME Grows, NEW o
    PROVE  /\ LinkedIn(o, intents, orders) => LinkedIn(o, intents', orders')
           /\ HeldIn(o, intents, orders) => HeldIn(o, intents', orders')
BY DEF Grows, LinkedIn, PatchLinkedIn, HeldIn

\* An agent that holds something linked next, beside a trace that still is.
LEMMA GotoLinked ==
    ASSUME LinkInv, Grows, NEW a \in Agents, NEW o, Goto(a, o), HeldIn(o, intents', orders'),
           LinkedIn(trace', intents', orders')
    PROVE  LinkInv'
<1>1. DOMAIN op' = Agents /\ \A b \in Agents : op'[b] = IF b = a THEN o ELSE op[b]
  BY DEF Goto, LinkInv
<1>2. \A b \in Agents : HeldIn(op'[b], intents', orders')
  BY <1>1, HeldAsStoreGrows DEF LinkInv
<1>3. QED
  BY <1>1, <1>2 DEF LinkInv

\* A patch with known links, or with none.
LEMMA PatchedLinked ==
    ASSUME NEW I, NEW B, NEW t, LinkedIn(t, I, B), NEW patch, PatchLinkedIn(patch, I, B)
    PROVE  LinkedIn(Patched(t, patch), I, B)
<1>1. /\ DOMAIN Patched(t, patch) = DOMAIN t
      /\ \A field \in {"action", "order"} :
             Patched(t, patch)[field] =
                 IF field \in DOMAIN patch THEN patch[field] ELSE t[field]
  BY DEF Patched, LinkedIn
<1> HIDE DEF Patched
<1>2. QED
  BY <1>1 DEF LinkedIn, PatchLinkedIn

LEMMA PatchesLinked ==
    ASSUME NEW I, NEW B
    PROVE  /\ PatchLinkedIn(ResolvedPatch("zero"), I, B) /\ PatchLinkedIn(HandoffPatch, I, B)
           /\ \A residual : PatchLinkedIn(StartedPatch(residual), I, B)
           /\ \A residual, i :
                  i \in I => PatchLinkedIn(Merged(StartedPatch(residual), [action |-> i]), I, B)
           /\ \A o : o \in DOMAIN B /\ B[o].intent \in I
                         => PatchLinkedIn(Merged(UnwindPatch, [order |-> o]), I, B)
           /\ \A t, r : PatchLinkedIn(Recording(t, r), I, B)
           /\ \A s, l : PatchLinkedIn([status |-> s, lifecycle |-> l], I, B)
BY DEF PatchLinkedIn, ResolvedPatch, HandoffPatch, StartedPatch, UnwindPatch, Merged, Recording

-----------------------------------------------------------------------------
\* Every step in the middle of a request or a pass keeps the links.
LEMMA ContinueLinked ==
    ASSUME LinkInv, NEW a \in Agents, Continue(a)
    PROVE  LinkInv'
<1> DEFINE Held(o) == HeldIn(o, intents, orders)
<1>1. Grows
  BY StoreGrows
<1>2. Held(op[a]) /\ LinkedIn(trace, intents, orders) /\ Held(Idle)
  BY DEF LinkInv, HeldIn, Idle
<1>3. ASSUME NEW o, Goto(a, o), Held(o), trace' = trace PROVE LinkInv'
  BY <1>1, <1>2, <1>3, GotoLinked, HeldAsStoreGrows
<1>4. CASE ReadForTransition(a)
  <2>1. trace' = trace /\ op[a].at = "transition"
        /\ Goto(a, IF IsTerminal(trace) THEN Idle ELSE Writing(trace, op[a].patch))
    BY <1>4 DEF ReadForTransition
  <2>2. Held(Writing(trace, op[a].patch))
    BY <1>2, <2>1, PatchedLinked DEF HeldIn, Writing
  <2> HIDE DEF Held
  <2>3. QED
    BY <1>2, <1>3, <2>1, <2>2
<1>5. CASE Write(a)
  <2> DEFINE next == [op[a] EXCEPT !.at = "sync"]
  <2>1. /\ trace' = op[a].copy /\ op[a].at = "write" /\ Goto(a, next)
        /\ UNCHANGED <<intents, orders>>
    BY <1>5 DEF Write
  <2>2. LinkedIn(op[a].copy, intents, orders)
    BY <1>2, <2>1 DEF HeldIn
  <2>3. Held(next)
    BY <1>2, <2>1, <2>2 DEF HeldIn
  <2>4. QED
    BY <1>1, <2>1, <2>2, <2>3, GotoLinked
<1>6. CASE ReadBack(a)
  <2> DEFINE next == [op[a] EXCEPT !.at = "evaluate", !.copy = trace]
  <2>1. trace' = trace /\ Goto(a, next) /\ op[a].at = "sync"
    BY <1>6 DEF ReadBack
  <2>2. Held(next)
    BY <1>2, <2>1 DEF HeldIn
  <2> HIDE DEF Held, next
  <2>3. QED
    BY <1>3, <2>1, <2>2
<1>7. CASE SyncEvaluation(a)
  <2> DEFINE next == [at |-> "decide", seen |-> op[a].copy, active |-> op[a].active]
  <2>1. trace' = trace /\ op[a].at = "evaluate" /\ Goto(a, IF op[a].resume THEN next ELSE Idle)
    BY <1>7 DEF SyncEvaluation
  <2>2. Held(next)
    BY <1>2, <2>1 DEF HeldIn
  <2> HIDE DEF Held, next
  <2>3. QED
    BY <1>2, <1>3, <2>1, <2>2
<1>8. CASE RecordOwnResult(a)
  <2> DEFINE next(r) == [at |-> "write", copy |-> Patched(op[a].seen, Recording(op[a].seen, r)),
                         resume |-> TRUE, active |-> HasActiveOrders(op[a].seen)]
  <2>1. PICK r \in OwnResults : Goto(a, next(r))
    BY <1>8 DEF RecordOwnResult
  <2>2. LinkedIn(Patched(op[a].seen, Recording(op[a].seen, r)), intents, orders)
    BY <1>2, <1>8, PatchedLinked, PatchesLinked DEF RecordOwnResult, HeldIn
  <2>3. Held(next(r)) /\ trace' = trace
    BY <1>8, <2>2 DEF HeldIn, RecordOwnResult
  <2> HIDE DEF Held, next
  <2>4. QED
    BY <1>3, <2>1, <2>3
<1>9. CASE RecordNothing(a)
  <2> DEFINE next == [at |-> "decide", seen |-> op[a].seen,
                      active |-> HasActiveOrders(op[a].seen)]
  <2>1. trace' = trace /\ Goto(a, next) /\ Held(next)
    BY <1>2, <1>9 DEF RecordNothing, HeldIn
  <2> HIDE DEF Held, next
  <2>2. QED
    BY <1>3, <2>1
<1>10. CASE Decide(a)
  <2>1. PICK next \in {Writing(op[a].seen, ResolvedPatch("zero")),
                       Writing(op[a].seen, HandoffPatch), Idle} : Goto(a, next)
    <3>1. PICK verdict \in ResultVerdicts(op[a].seen) :
              LET decision == Decision(op[a].seen, op[a].active, verdict)
              IN  Goto(a, CASE decision = "resolve" -> Writing(op[a].seen, ResolvedPatch("zero"))
                            [] decision = "handoff" -> Writing(op[a].seen, HandoffPatch)
                            [] decision = "skip" -> Idle)
      BY <1>10 DEF Decide
    <3>2. Decision(op[a].seen, op[a].active, verdict) \in {"resolve", "handoff", "skip"}
      BY <3>1 DEF Decision, ResultVerdicts, Verdict
    <3>3. QED
      BY <3>1, <3>2
  <2>2. Held(next) /\ trace' = trace
    BY <1>2, <1>10, PatchedLinked, PatchesLinked DEF Decide, HeldIn, Writing, Idle
  <2> HIDE DEF Held
  <2>3. QED
    BY <1>3, <2>1, <2>2
<1>11. CASE CreateUnwindIntent(a)
  <2>1. PICK i \in UnwindIntents :
            /\ intents' = intents \cup {i} /\ UNCHANGED <<trace, orders>>
            /\ Goto(a, Transition(Merged(StartedPatch(op[a].residual), [action |-> i])))
    BY <1>11 DEF CreateUnwindIntent
  <2>2. HeldIn(Transition(Merged(StartedPatch(op[a].residual), [action |-> i])), intents', orders')
    BY <2>1, PatchesLinked DEF HeldIn, Transition
  <2>3. LinkedIn(trace', intents', orders')
    BY <1>1, <1>2, <2>1, HeldAsStoreGrows
  <2>4. QED
    BY <1>1, <2>1, <2>2, <2>3, GotoLinked
<1>12. CASE CreateUnwindOrder(a)
  <2>1. trace' = trace
    BY <1>12 DEF CreateUnwindOrder
  <2>2. CASE Goto(a, Idle)
    BY <1>2, <1>3, <2>1, <2>2
  <2>3. ASSUME NEW o, NEW class,
               orders' = Merged(orders, [x \in {o} |-> [intent |-> op[a].intent, class |-> class]]),
               Goto(a, Transition(Merged(UnwindPatch, [order |-> o]))), UNCHANGED intents
        PROVE  LinkInv'
    <3>1. o \in DOMAIN orders' /\ orders'[o].intent = op[a].intent
      BY <2>3 DEF Merged
    <3>2. op[a].intent \in intents
      BY <1>2, <1>12 DEF CreateUnwindOrder, HeldIn
    <3>3. HeldIn(Transition(Merged(UnwindPatch, [order |-> o])), intents', orders')
      BY <2>3, <3>1, <3>2, PatchesLinked DEF HeldIn, Transition
    <3>4. LinkedIn(trace', intents', orders')
      BY <1>1, <1>2, <2>1, HeldAsStoreGrows
    <3>5. QED
      BY <1>1, <2>3, <3>3, <3>4, GotoLinked
  <2>4. QED
    BY <1>12, <2>2, <2>3 DEF CreateUnwindOrder
<1>13. CASE CancelOrder(a)
  <2>1. PICK o : Goto(a, [op[a] EXCEPT !.left = @ \ {o}])
    BY <1>13 DEF CancelOrder
  <2> DEFINE next == [op[a] EXCEPT !.left = @ \ {o}]
  <2>2. Held(next) /\ trace' = trace
    BY <1>2, <1>13 DEF HeldIn, CancelOrder
  <2> HIDE DEF Held
  <2>3. QED
    BY <1>3, <2>1, <2>2
<1>14. CASE FinishCancel(a)
  <2> DEFINE next == Transition([status |-> op[a].seen.status, lifecycle |-> op[a].seen.lifecycle])
  <2>1. Held(next) /\ trace' = trace /\ Goto(a, next)
    BY <1>14, PatchesLinked DEF HeldIn, Transition, FinishCancel
  <2> HIDE DEF Held, next
  <2>2. QED
    BY <1>3, <2>1
<1>15. CASE CreateUnwindFill(a)
  <2>1. \E next \in {Idle, Transition(StartedPatch("zero")),
                     Transition(StartedPatch(op[a].seen.residual))} : Goto(a, next)
    BY <1>15 DEF CreateUnwindFill
  <2>2. \A residual : Held(Transition(StartedPatch(residual)))
    BY PatchesLinked DEF HeldIn, Transition
  <2>3. trace' = trace
    BY <1>15 DEF CreateUnwindFill
  <2> HIDE DEF Held
  <2>4. QED
    BY <1>2, <1>3, <2>1, <2>2, <2>3
<1>16. QED
  BY <1>4, <1>5, <1>6, <1>7, <1>8, <1>9, <1>10, <1>11, <1>12, <1>13, <1>14, <1>15 DEF Continue

\* So does the beginning or the end of one.
LEMMA BeginLinked ==
    ASSUME LinkInv, NEW a \in Agents, BeginPass(a) \/ Request(a) \/ Fail(a)
    PROVE  LinkInv'
<1> DEFINE Held(o) == HeldIn(o, intents, orders)
<1>1. LinkedIn(trace, intents, orders) /\ UNCHANGED <<trace, intents, orders>>
  BY DEF LinkInv, BeginPass, Request, Fail, Resolve, Handoff, StartUnwind,
         SubmitUnwindOrder, CancelOpenOrders, RecordUnwindFill, RecordReconciliation
<1>2. ASSUME NEW o, Goto(a, o), Held(o) PROVE LinkInv'
  BY <1>1, <1>2, GotoLinked DEF Grows
<1>3. Held(Idle) /\ Held([at |-> "orders", seen |-> trace]) /\ Held([at |-> "fill", seen |-> trace])
  BY <1>1 DEF HeldIn, Idle
<1>4. \A patch : PatchLinkedIn(patch, intents, orders) => Held(Transition(patch))
  BY DEF HeldIn, Transition
<1>5. \A residual : Held([at |-> "intent", residual |-> residual])
  BY DEF HeldIn
<1>6. trace.action # Missing => Held([at |-> "submit", intent |-> trace.action])
  BY <1>1 DEF HeldIn, LinkedIn
<1>7. Held([at |-> "cancel", seen |-> trace, left |-> CancelCandidates(trace)])
  BY <1>1 DEF HeldIn
<1>8. \A r : Held(Writing(trace, Recording(trace, r)))
  BY <1>1, PatchedLinked, PatchesLinked DEF HeldIn, Writing
<1> HIDE DEF Held
<1>9. CASE BeginPass(a) \/ Fail(a) \/ RecordUnwindFill(a) \/ SubmitUnwindOrder(a)
  BY <1>2, <1>3, <1>6, <1>9 DEF BeginPass, Fail, RecordUnwindFill, SubmitUnwindOrder
<1>10. CASE Resolve(a) \/ Handoff(a) \/ StartUnwind(a)
  BY <1>2, <1>4, <1>5, <1>10, PatchesLinked DEF Resolve, Handoff, StartUnwind
<1>11. CASE CancelOpenOrders(a) \/ RecordReconciliation(a)
  BY <1>2, <1>7, <1>8, <1>11 DEF CancelOpenOrders, RecordReconciliation
<1>12. QED
  BY <1>9, <1>10, <1>11 DEF Request

\* The unwind order and the unwind intent that a trace names are in the order
\* store, although links are written by whole-trace writes from old copies and
\* an agent may stop between creating an order and linking it.
THEOREM LinksAlwaysHold == FailingSpec => []LinksHold
<1>1. Init => LinkInv
  BY DEF Init, LinkInv, LinkedIn, HeldIn, Idle
<1>2. LinkInv /\ [Next \/ \E a \in Agents : Fail(a)]_vars => LinkInv'
  <2>1. SUFFICES ASSUME LinkInv, [Next \/ \E a \in Agents : Fail(a)]_vars PROVE LinkInv'
    OBVIOUS
  <2>2. CASE UNCHANGED vars
    BY <2>1, <2>2 DEF vars, LinkInv
  <2>3. CASE World
    <3>1. UNCHANGED <<trace, op, intents>> /\ Grows
      <4>1. UNCHANGED <<trace, op, intents>>
        BY <2>3 DEF World, UpdateOrder, Expire
      <4>2. UNCHANGED orders \/ \E o, class : orders' = [orders EXCEPT ![o].class = class]
        BY <2>3 DEF World, UpdateOrder, Expire
      <4>3. ASSUME NEW o, NEW class, orders' = [orders EXCEPT ![o].class = class] PROVE Grows
        BY <4>1, <4>3 DEF Grows
      <4>4. QED
        BY <4>1, <4>2, <4>3 DEF Grows
    <3>2. QED
      BY <2>1, <3>1, HeldAsStoreGrows DEF LinkInv
  <2>4. QED
    BY <2>1, <2>2, <2>3, ContinueLinked, BeginLinked DEF Next
<1>3. LinkInv => LinksHold
  BY DEF LinkInv, LinkedIn, LinksHold
<1>4. QED
  BY <1>1, <1>2, <1>3, PTL DEF FailingSpec

-----------------------------------------------------------------------------
(* One thread works on the trace at a time: what it read is what is there,   *)
(* and nothing comes between its reading and its writing.                    *)

Fields == {"status", "lifecycle", "order"}
Submitted == UnwindOrders \cap DOMAIN orders

\* What the thread holds agrees with the trace, whose order and whose end it
\* never loses.
UpToDate(o) ==
    /\ o.at \in {"orders", "decide", "cancel", "fill"} => o.seen = trace /\ ~IsTerminal(trace)
    /\ o.at = "submit" => trace.order = Missing /\ ~IsTerminal(trace)
    /\ o.at = "transition" =>
           ("order" \in DOMAIN o.patch => o.patch.order # Missing /\ ~IsTerminal(trace))
    /\ o.at = "write" =>
           /\ ~IsTerminal(trace) /\ Fields \subseteq DOMAIN o.copy
           /\ trace.order # Missing => o.copy.order # Missing
           /\ o.resume => ~IsTerminal(o.copy)
    /\ o.at \in {"sync", "evaluate"} =>
           o.copy = trace /\ (o.resume => ~IsTerminal(trace))

\* An unwind order that the thread has submitted and not linked yet.
Carries(o) ==
    \/ o.at = "transition" /\ "order" \in DOMAIN o.patch
    \/ o.at = "write" /\ o.copy.order # Missing

AloneInv(a) ==
    /\ DOMAIN op = {a} /\ Fields \subseteq DOMAIN trace
    /\ UpToDate(op[a])
    /\ Submitted # {} => trace.order # Missing \/ Carries(op[a])
    /\ \E o : Submitted \subseteq {o}
    /\ op[a].at \notin {"sync", "evaluate"} => preview = Preview(trace)

\* The thread reads, decides or answers: it holds something up to date next and
\* drops no order; trace and evaluation stay.
LEMMA GotoAlone ==
    ASSUME NEW a, AloneInv(a), NEW o, Goto(a, o), UNCHANGED <<trace, preview>>,
           Submitted' = Submitted, UpToDate(o),
           Carries(op[a]) => Carries(o) \/ trace.order # Missing,
           op[a].at \notin {"sync", "evaluate"}
    PROVE  AloneInv(a)'
<1>1. DOMAIN op' = {a} /\ op'[a] = o
  BY DEF Goto, AloneInv
<1>2. UpToDate(op[a])' /\ (Carries(op[a])' <=> Carries(o))
  BY <1>1 DEF UpToDate, Carries, IsTerminal
<1>3. QED
  BY <1>1, <1>2 DEF AloneInv, Preview

\* A patch that names the order it links, or none.
LEMMA PatchedFields ==
    ASSUME NEW t, Fields \subseteq DOMAIN t, NEW patch
    PROVE  /\ Fields \subseteq DOMAIN Patched(t, patch)
           /\ "order" \notin DOMAIN patch => Patched(t, patch).order = t.order
           /\ "order" \in DOMAIN patch => Patched(t, patch).order = patch.order
           /\ "status" \notin DOMAIN patch => Patched(t, patch).status = t.status
BY DEF Patched, Fields

LEMMA PatchesKeepOrder ==
    /\ "order" \notin DOMAIN ResolvedPatch("zero") /\ "order" \notin DOMAIN HandoffPatch
    /\ \A residual : "order" \notin DOMAIN StartedPatch(residual)
    /\ \A residual, i : "order" \notin DOMAIN Merged(StartedPatch(residual), [action |-> i])
    /\ \A o : LET patch == Merged(UnwindPatch, [order |-> o])
              IN  "order" \in DOMAIN patch /\ patch.order = o
    /\ \A t, r : DOMAIN Recording(t, r) = {"result", "streak"}
BY DEF ResolvedPatch, HandoffPatch, StartedPatch, UnwindPatch, Merged, Recording

-----------------------------------------------------------------------------
LEMMA BeginAlone ==
    ASSUME NEW a, AloneInv(a), BeginPass(a) \/ Request(a)
    PROVE  AloneInv(a)'
<1>1. /\ op[a] = Idle /\ UNCHANGED <<trace, preview, orders>>
      /\ Submitted' = Submitted /\ ~Carries(op[a]) /\ op[a].at \notin {"sync", "evaluate"}
  BY DEF BeginPass, Request, Resolve, Handoff, StartUnwind, SubmitUnwindOrder, CancelOpenOrders,
         RecordUnwindFill, RecordReconciliation, Submitted, Carries, Idle
<1>2. ASSUME NEW o, Goto(a, o), UpToDate(o) PROVE AloneInv(a)'
  BY <1>1, <1>2, GotoAlone
<1>3. CASE BeginPass(a)
  <2>1. Goto(a, [at |-> "orders", seen |-> trace]) /\ trace.status = "active"
    BY <1>3 DEF BeginPass
  <2>2. UpToDate([at |-> "orders", seen |-> trace])
    BY <2>1 DEF UpToDate, IsTerminal
  <2>3. QED
    BY <1>2, <2>1, <2>2
<1>4. ASSUME NEW patch, "order" \notin DOMAIN patch, Goto(a, Transition(patch)) PROVE AloneInv(a)'
  <2>1. UpToDate(Transition(patch))
    BY <1>4 DEF UpToDate, Transition
  <2>2. QED
    BY <1>2, <1>4, <2>1
<1>5. CASE Resolve(a) \/ Handoff(a)
  BY <1>4, <1>5, PatchesKeepOrder DEF Resolve, Handoff
<1>6. CASE StartUnwind(a)
  <2>1. \A residual : UpToDate([at |-> "intent", residual |-> residual])
    BY DEF UpToDate
  <2>2. QED
    BY <1>2, <1>4, <1>6, <2>1, PatchesKeepOrder DEF StartUnwind
<1>7. CASE SubmitUnwindOrder(a)
  <2>1. /\ ~IsTerminal(trace) /\ trace.order = Missing
        /\ Goto(a, [at |-> "submit", intent |-> trace.action])
    BY <1>7 DEF SubmitUnwindOrder
  <2>2. UpToDate([at |-> "submit", intent |-> trace.action])
    BY <2>1 DEF UpToDate
  <2>3. QED
    BY <1>2, <2>1, <2>2
<1>8. CASE CancelOpenOrders(a)
  <2>1. /\ ~IsTerminal(trace)
        /\ Goto(a, [at |-> "cancel", seen |-> trace, left |-> CancelCandidates(trace)])
    BY <1>8 DEF CancelOpenOrders
  <2>2. UpToDate([at |-> "cancel", seen |-> trace, left |-> CancelCandidates(trace)])
    BY <2>1 DEF UpToDate
  <2>3. QED
    BY <1>2, <2>1, <2>2
<1>9. CASE RecordUnwindFill(a)
  <2>1. ~IsTerminal(trace) /\ Goto(a, [at |-> "fill", seen |-> trace])
    BY <1>9 DEF RecordUnwindFill
  <2>2. UpToDate([at |-> "fill", seen |-> trace])
    BY <2>1 DEF UpToDate
  <2>3. QED
    BY <1>2, <2>1, <2>2
<1>10. CASE RecordReconciliation(a)
  <2>1. PICK r : ~IsTerminal(trace) /\ Goto(a, Writing(trace, Recording(trace, r)))
    BY <1>10 DEF RecordReconciliation
  <2>2. UpToDate(Writing(trace, Recording(trace, r)))
    BY <2>1, PatchedFields, PatchesKeepOrder DEF UpToDate, Writing, AloneInv
  <2>3. QED
    BY <1>2, <2>1, <2>2
<1>11. QED
  BY <1>3, <1>5, <1>6, <1>7, <1>8, <1>9, <1>10 DEF Request

\* The transition and the three steps of a write.
LEMMA WriteAlone ==
    ASSUME NEW a, AloneInv(a),
           ReadForTransition(a) \/ Write(a) \/ ReadBack(a) \/ SyncEvaluation(a)
    PROVE  AloneInv(a)'
<1>1. UNCHANGED orders /\ Submitted' = Submitted
  BY DEF ReadForTransition, Write, ReadBack, SyncEvaluation, Submitted
<1>2. CASE ReadForTransition(a)
  <2> DEFINE next == Writing(trace, op[a].patch)
  <2>1. /\ op[a].at = "transition" /\ UNCHANGED <<trace, preview>>
        /\ Goto(a, IF IsTerminal(trace) THEN Idle ELSE next)
    BY <1>2 DEF ReadForTransition
  <2>2. CASE IsTerminal(trace)
    <3>1. UpToDate(Idle) /\ ~Carries(op[a])
      BY <2>1, <2>2 DEF UpToDate, Idle, AloneInv, Carries
    <3>2. QED
      BY <1>1, <2>1, <2>2, <3>1, GotoAlone
  <2>3. CASE ~IsTerminal(trace)
    <3>1. UpToDate(next)
      BY <2>1, <2>3, PatchedFields DEF UpToDate, Writing, AloneInv
    <3>2. Carries(op[a]) => Carries(next)
      BY <2>1, PatchedFields DEF UpToDate, Carries, Writing, AloneInv
    <3> HIDE DEF next
    <3>3. QED
      BY <1>1, <2>1, <2>3, <3>1, <3>2, GotoAlone
  <2>4. QED
    BY <2>2, <2>3
<1>3. CASE Write(a)
  <2>1. op[a].at = "write" /\ trace' = op[a].copy /\ op' = [op EXCEPT ![a] = [op[a] EXCEPT !.at = "sync"]]
    BY <1>3 DEF Write, Goto
  <2>2. /\ Fields \subseteq DOMAIN op[a].copy /\ (op[a].resume => ~IsTerminal(op[a].copy))
        /\ trace.order # Missing => op[a].copy.order # Missing
    BY <2>1 DEF AloneInv, UpToDate
  <2>3. DOMAIN op' = {a} /\ op'[a].at = "sync" /\ op'[a].copy = op[a].copy /\ op'[a].resume = op[a].resume
    BY <2>1 DEF AloneInv
  <2>4. UpToDate(op[a])'
    BY <2>1, <2>2, <2>3 DEF UpToDate, IsTerminal
  <2>5. Submitted # {} => op[a].copy.order # Missing
    BY <2>1, <2>2 DEF AloneInv, Carries
  <2>6. QED
    BY <1>1, <2>1, <2>2, <2>3, <2>4, <2>5 DEF AloneInv
<1>4. CASE ReadBack(a)
  <2>1. /\ op[a].at = "sync" /\ UNCHANGED <<trace, preview>>
        /\ op' = [op EXCEPT ![a] = [op[a] EXCEPT !.at = "evaluate", !.copy = trace]]
    BY <1>4 DEF ReadBack, Goto
  <2>2. op[a].copy = trace /\ (op[a].resume => ~IsTerminal(trace)) /\ ~Carries(op[a])
    BY <2>1 DEF AloneInv, UpToDate, Carries
  <2>3. DOMAIN op' = {a} /\ op'[a].at = "evaluate" /\ op'[a].copy = trace /\ op'[a].resume = op[a].resume
    BY <2>1, <2>2 DEF AloneInv
  <2>4. UpToDate(op[a])'
    BY <2>1, <2>2, <2>3 DEF UpToDate, IsTerminal
  <2>5. QED
    BY <1>1, <2>1, <2>2, <2>3, <2>4 DEF AloneInv
<1>5. CASE SyncEvaluation(a)
  <2> DEFINE next == [at |-> "decide", seen |-> op[a].copy, active |-> op[a].active]
  <2>1. /\ op[a].at = "evaluate" /\ trace' = trace /\ preview' = Preview(op[a].copy)
        /\ op' = [op EXCEPT ![a] = IF op[a].resume THEN next ELSE Idle]
    BY <1>5 DEF SyncEvaluation, Goto
  <2>2. op[a].copy = trace /\ (op[a].resume => ~IsTerminal(trace)) /\ ~Carries(op[a])
    BY <2>1 DEF AloneInv, UpToDate, Carries
  <2>3. DOMAIN op' = {a} /\ op'[a] = IF op[a].resume THEN next ELSE Idle
    BY <2>1 DEF AloneInv
  <2>4. UpToDate(op[a])'
    <3>1. CASE op[a].resume
      BY <2>1, <2>2, <2>3, <3>1 DEF UpToDate, IsTerminal
    <3>2. CASE ~op[a].resume
      BY <2>1, <2>2, <2>3, <3>2 DEF UpToDate, Idle
    <3>3. QED
      BY <3>1, <3>2
  <2>5. preview' = Preview(trace)' /\ trace' = trace
    BY <2>1, <2>2 DEF Preview
  <2>6. QED
    BY <1>1, <2>2, <2>3, <2>4, <2>5 DEF AloneInv
<1>6. QED
  BY <1>2, <1>3, <1>4, <1>5

\* The steps of a pass, and of the handlers before their transition.
LEMMA WorkAlone ==
    ASSUME NEW a, AloneInv(a),
           \/ RecordOwnResult(a) \/ RecordNothing(a) \/ Decide(a)
           \/ CreateUnwindIntent(a) \/ CancelOrder(a) \/ FinishCancel(a) \/ CreateUnwindFill(a)
    PROVE  AloneInv(a)'
<1>1. UNCHANGED <<trace, preview>>
  BY DEF RecordOwnResult, RecordNothing, Decide, CreateUnwindIntent, CancelOrder,
         FinishCancel, CreateUnwindFill
<1>2. op[a].at \in {"orders", "decide", "intent", "cancel", "fill"}
  BY DEF RecordOwnResult, RecordNothing, Decide, CreateUnwindIntent, CancelOrder,
         FinishCancel, CreateUnwindFill
<1>3. Submitted' = Submitted
  <2>1. UNCHANGED orders \/ \E o, class : orders' = [orders EXCEPT ![o].class = class]
    BY DEF RecordOwnResult, RecordNothing, Decide, CreateUnwindIntent, CancelOrder,
           FinishCancel, CreateUnwindFill
  <2>2. DOMAIN orders' = DOMAIN orders
    BY <2>1
  <2>3. QED
    BY <2>2 DEF Submitted
<1>4. ASSUME NEW o, Goto(a, o), UpToDate(o) PROVE AloneInv(a)'
  BY <1>1, <1>2, <1>3, <1>4, GotoAlone DEF Carries
<1>5. op[a].at # "intent" => op[a].seen = trace /\ ~IsTerminal(trace)
  BY <1>2 DEF AloneInv, UpToDate
<1>6. CASE RecordOwnResult(a)
  <2> DEFINE next(r) == [at |-> "write", copy |-> Patched(op[a].seen, Recording(op[a].seen, r)),
                         resume |-> TRUE, active |-> HasActiveOrders(op[a].seen)]
  <2>1. PICK r \in OwnResults : Goto(a, next(r)) /\ op[a].at = "orders"
    BY <1>6 DEF RecordOwnResult
  <2>2. UpToDate(next(r))
    BY <1>5, <2>1, PatchedFields, PatchesKeepOrder DEF AloneInv, UpToDate, IsTerminal
  <2> HIDE DEF next
  <2>3. QED
    BY <1>4, <2>1, <2>2
<1>7. CASE RecordNothing(a)
  <2> DEFINE next == [at |-> "decide", seen |-> op[a].seen,
                      active |-> HasActiveOrders(op[a].seen)]
  <2>1. Goto(a, next) /\ op[a].at = "orders"
    BY <1>7 DEF RecordNothing
  <2>2. UpToDate(next)
    BY <1>5, <2>1 DEF UpToDate
  <2> HIDE DEF next
  <2>3. QED
    BY <1>4, <2>1, <2>2
<1>8. CASE Decide(a)
  <2>1. PICK next \in {Writing(op[a].seen, ResolvedPatch("zero")),
                       Writing(op[a].seen, HandoffPatch), Idle} : Goto(a, next)
    <3>1. PICK verdict \in ResultVerdicts(op[a].seen) :
              LET decision == Decision(op[a].seen, op[a].active, verdict)
              IN  Goto(a, CASE decision = "resolve" -> Writing(op[a].seen, ResolvedPatch("zero"))
                            [] decision = "handoff" -> Writing(op[a].seen, HandoffPatch)
                            [] decision = "skip" -> Idle)
      BY <1>8 DEF Decide
    <3>2. Decision(op[a].seen, op[a].active, verdict) \in {"resolve", "handoff", "skip"}
      BY <3>1 DEF Decision, ResultVerdicts, Verdict
    <3>3. QED
      BY <3>1, <3>2
  <2>2. op[a].seen = trace /\ ~IsTerminal(trace)
    BY <1>5, <1>8 DEF Decide
  <2>3. UpToDate(Writing(trace, ResolvedPatch("zero"))) /\ UpToDate(Writing(trace, HandoffPatch))
    BY <2>2, PatchedFields, PatchesKeepOrder DEF UpToDate, Writing, AloneInv
  <2>4. UpToDate(Idle)
    BY DEF UpToDate, Idle
  <2>5. QED
    BY <1>4, <2>1, <2>2, <2>3, <2>4
<1>9. ASSUME NEW patch, "order" \notin DOMAIN patch, Goto(a, Transition(patch)) PROVE AloneInv(a)'
  <2>1. UpToDate(Transition(patch))
    BY <1>9 DEF UpToDate, Transition
  <2>2. QED
    BY <1>4, <1>9, <2>1
<1>10. CASE CreateUnwindIntent(a)
  BY <1>9, <1>10, PatchesKeepOrder DEF CreateUnwindIntent
<1>11. CASE CancelOrder(a)
  <2>1. PICK o : Goto(a, [op[a] EXCEPT !.left = @ \ {o}]) /\ op[a].at = "cancel"
    BY <1>11 DEF CancelOrder
  <2>2. UpToDate([op[a] EXCEPT !.left = @ \ {o}])
    BY <1>5, <2>1 DEF UpToDate
  <2>3. QED
    BY <1>4, <2>1, <2>2
<1>12. CASE FinishCancel(a)
  BY <1>9, <1>12 DEF FinishCancel
<1>13. CASE CreateUnwindFill(a)
  <2>1. \E next \in {Idle, Transition(StartedPatch("zero")),
                     Transition(StartedPatch(op[a].seen.residual))} : Goto(a, next)
    BY <1>13 DEF CreateUnwindFill
  <2>2. UpToDate(Idle)
    BY DEF UpToDate, Idle
  <2>3. QED
    BY <1>4, <1>9, <2>1, <2>2, PatchesKeepOrder
<1>14. QED
  BY <1>6, <1>7, <1>8, <1>10, <1>11, <1>12, <1>13

\* The order is created while the trace names none, and the transition that will
\* link it cannot find the trace terminal.
LEMMA SubmitAlone ==
    ASSUME NEW a, AloneInv(a), CreateUnwindOrder(a)
    PROVE  AloneInv(a)'
<1>1. /\ op[a].at = "submit" /\ UNCHANGED <<trace, preview>>
      /\ trace.order = Missing /\ ~IsTerminal(trace) /\ ~Carries(op[a])
      /\ Submitted = {}
  BY DEF CreateUnwindOrder, AloneInv, UpToDate, Carries
<1>2. CASE Goto(a, Idle) /\ UNCHANGED orders
  <2>1. Submitted' = Submitted /\ UpToDate(Idle)
    BY <1>2 DEF Submitted, UpToDate, Idle
  <2>2. QED
    BY <1>1, <1>2, <2>1, GotoAlone
<1>3. ASSUME NEW o \in UnwindOrders, NEW class,
             orders' = Merged(orders, [x \in {o} |-> [intent |-> op[a].intent, class |-> class]]),
             Goto(a, Transition(Merged(UnwindPatch, [order |-> o])))
      PROVE  AloneInv(a)'
  <2> DEFINE patch == Merged(UnwindPatch, [order |-> o])
  <2>1. "order" \in DOMAIN patch /\ patch.order = o /\ o # Missing
    BY PatchesKeepOrder, MissingAssumption
  <2> HIDE DEF patch
  <2>2. DOMAIN op' = {a} /\ op'[a] = Transition(patch)
    BY <1>3 DEF Goto, AloneInv, patch
  <2>3. UpToDate(op[a])' /\ Carries(op[a])'
    BY <1>1, <2>1, <2>2 DEF UpToDate, Carries, Transition, IsTerminal
  <2>4. Submitted' \subseteq {o}
    BY <1>1, <1>3 DEF Submitted, Merged
  <2>5. QED
    BY <1>1, <2>2, <2>3, <2>4 DEF AloneInv, Preview
<1>4. QED
  BY <1>2, <1>3 DEF CreateUnwindOrder

LEMMA AloneInvariant ==
    ASSUME NEW a, Agents = {a}
    PROVE  Spec => []AloneInv(a)
<1>1. Init => AloneInv(a)
  <2>1. SUFFICES ASSUME Init PROVE AloneInv(a)
    OBVIOUS
  <2>2. PICK i, stage :
            trace = [status |-> "active", lifecycle |-> stage,
                     residual |-> "none", intent |-> i, action |-> Missing,
                     order |-> Missing, handoff |-> FALSE,
                     result |-> Missing, streak |-> 0]
    BY <2>1 DEF Init
  <2>3. DOMAIN orders \subseteq {EntryOrder} /\ preview = trace.lifecycle
    BY <2>1 DEF Init
  <2>4. op = [b \in {a} |-> Idle]
    BY <2>1 DEF Init
  <2>5. Submitted = {}
    BY <2>3, FreshAssumption DEF Submitted
  <2>6. QED
    BY <2>2, <2>3, <2>4, <2>5 DEF AloneInv, Fields, UpToDate, Idle, Preview
<1>2. AloneInv(a) /\ [Next]_vars => AloneInv(a)'
  <2>1. SUFFICES ASSUME AloneInv(a), [Next]_vars PROVE AloneInv(a)'
    OBVIOUS
  <2>2. CASE UNCHANGED vars \/ World
    <3>1. UNCHANGED <<trace, preview, op>>
      BY <2>2 DEF vars, World, UpdateOrder, Expire
    <3>2. UNCHANGED orders \/ \E o, class : orders' = [orders EXCEPT ![o].class = class]
      BY <2>2 DEF vars, World, UpdateOrder, Expire
    <3>3. Submitted' = Submitted
      <4>1. DOMAIN orders' = DOMAIN orders
        BY <3>2
      <4>2. QED
        BY <4>1 DEF Submitted
    <3>4. QED
      BY <2>1, <3>1, <3>3 DEF AloneInv, UpToDate, Carries, Preview, IsTerminal
  <2>3. CASE BeginPass(a) \/ Request(a) \/ Continue(a)
    BY <2>1, <2>3, BeginAlone, WriteAlone, WorkAlone, SubmitAlone DEF Continue
  <2>4. QED
    BY <2>1, <2>2, <2>3 DEF Next
<1>3. QED
  BY <1>1, <1>2, PTL DEF Spec

\* One thread submits at most one order to unwind the entry, because the
\* transition that links it to the trace cannot be refused.
THEOREM AloneOneUnwindOrder ==
    ASSUME NEW a, Agents = {a}
    PROVE  Spec => []OneUnwindOrder
<1>1. AloneInv(a) => OneUnwindOrder
  <2>1. SUFFICES ASSUME NEW o, Submitted \subseteq {o} PROVE OneUnwindOrder
    BY DEF AloneInv
  <2>2. IsFiniteSet({o}) /\ Cardinality({o}) = 1
    BY FS_Singleton
  <2>3. Cardinality(Submitted) <= 1
    BY <2>1, <2>2, FS_Subset
  <2>4. QED
    BY <2>3 DEF Submitted, OneUnwindOrder
<1>2. QED
  BY <1>1, AloneInvariant, PTL

\* A thread that works alone leaves an evaluation that shows the trace.
THEOREM AloneEvaluationShowsTrace ==
    ASSUME NEW a, Agents = {a}
    PROVE  Spec => []EvaluationShowsTrace
<1>1. AloneInv(a) => EvaluationShowsTrace
  BY DEF AloneInv, EvaluationShowsTrace, Idle
<1>2. QED
  BY <1>1, AloneInvariant, PTL

\* A thread that works alone never writes a trace that is resolved.
THEOREM AloneTerminalStays ==
    ASSUME NEW a, Agents = {a}
    PROVE  Spec => TerminalStays
<1>1. AloneInv(a) /\ [Next]_vars => [IsTerminal(trace) => trace' = trace]_trace
  <2>1. SUFFICES ASSUME AloneInv(a), [Next]_vars, IsTerminal(trace) PROVE trace' = trace
    OBVIOUS
  <2>2. ~Write(a)
    BY <2>1 DEF Write, AloneInv, UpToDate
  <2>3. QED
    BY <2>1, <2>2
       DEF vars, Next, World, UpdateOrder, Expire, Continue, Request, BeginPass,
           ReadForTransition, ReadBack, SyncEvaluation, RecordOwnResult, RecordNothing, Decide,
           CreateUnwindIntent, CreateUnwindOrder, CancelOrder, FinishCancel, CreateUnwindFill,
           Resolve, Handoff, StartUnwind, SubmitUnwindOrder, CancelOpenOrders,
           RecordUnwindFill, RecordReconciliation
<1>2. QED
  BY <1>1, AloneInvariant, PTL DEF Spec, TerminalStays
=============================================================================
