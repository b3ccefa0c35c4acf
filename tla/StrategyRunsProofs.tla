------------------------- MODULE StrategyRunsProofs -------------------------
(***************************************************************************)
(* Proofs about the control plane: StrategyRuns and PgStrategyRuns, then   *)
(* ConfigRollout, for every number of bots, runs, versions, assignments    *)
(* and handler threads.                                                    *)
(***************************************************************************)
EXTENDS PgStrategyRuns, ConfigRollout, FiniteSetTheorems, TLAPS

\* A run that is active is the bot's newest: what makes the newest run of a
\* bot the one to show, and the only one that create has to look at.
ActiveRunNewest ==
    \A r \in DOMAIN runs :
        IsActive(r) => \A q \in DOMAIN runs : runs[q].bot = runs[r].bot => q <= r

RunsInv == runs \in Seq(Run) /\ ActiveRunNewest

\* Two active runs of a bot would both be its newest.
LEMMA NewestIsOne == RunsInv => OneActiveRun
<1>1. SUFFICES ASSUME RunsInv, NEW b \in Bots, NEW q \in ActiveRuns(b), NEW r \in ActiveRuns(b)
               PROVE  q = r
  BY DEF OneActiveRun
<1>2. /\ q \in DOMAIN runs /\ r \in DOMAIN runs /\ DOMAIN runs \subseteq Nat
      /\ IsActive(q) /\ IsActive(r) /\ runs[q].bot = b /\ runs[r].bot = b
  BY <1>1 DEF ActiveRuns, RunsInv
<1>3. q <= r /\ r <= q
  BY <1>1, <1>2 DEF RunsInv, ActiveRunNewest
<1>4. QED
  BY <1>2, <1>3

\* What the two ways to change the runs do to the sequence.
LEMMA RunAppended ==
    ASSUME runs \in Seq(Run), NEW b \in Bots,
           runs' = Append(runs, [bot |-> b, status |-> "created"])
    PROVE  /\ runs' \in Seq(Run) /\ Len(runs') = Len(runs) + 1
           /\ DOMAIN runs' = DOMAIN runs \cup {Len(runs) + 1}
           /\ Len(runs) + 1 \notin DOMAIN runs
           /\ \A r \in DOMAIN runs : runs'[r] = runs[r] /\ r < Len(runs) + 1
           /\ runs'[Len(runs) + 1] = [bot |-> b, status |-> "created"]
BY DEF Run, RunStatuses

LEMMA RunRewritten ==
    ASSUME runs \in Seq(Run), NEW r \in DOMAIN runs, NEW s \in RunStatuses,
           runs' = [runs EXCEPT ![r].status = s]
    PROVE  /\ runs' \in Seq(Run)
           /\ Len(runs') = Len(runs)
           /\ DOMAIN runs' = DOMAIN runs
           /\ \A q \in DOMAIN runs : runs'[q].bot = runs[q].bot
           /\ \A q \in DOMAIN runs \ {r} : runs'[q] = runs[q]
           /\ runs'[r].status = s
<1>1. runs[r] \in Run /\ \A q \in DOMAIN runs : runs[q] \in Run
  OBVIOUS
<1>2. [runs[r] EXCEPT !.status = s] \in Run /\ [runs[r] EXCEPT !.status = s].bot = runs[r].bot
      /\ [runs[r] EXCEPT !.status = s].status = s
  BY <1>1 DEF Run
<1> DEFINE new == [runs[r] EXCEPT !.status = s]
<1>3. runs' = [runs EXCEPT ![r] = new]
  BY <1>1
<1> HIDE DEF new
<1>4. new \in Run /\ new.bot = runs[r].bot /\ new.status = s
  BY <1>2 DEF new
<1>5. QED
  BY <1>1, <1>3, <1>4

\* create for an idle bot: the new run is the only active one.
LEMMA CreateKeeps ==
    ASSUME RunsInv, NEW b \in Bots, NoActiveRun(b),
           runs' = Append(runs, [bot |-> b, status |-> "created"])
    PROVE  RunsInv'
<1>1. runs \in Seq(Run)
  BY DEF RunsInv
<1>2. ASSUME NEW r \in DOMAIN runs', IsActive(r)', NEW q \in DOMAIN runs', runs'[q].bot = runs'[r].bot
      PROVE  q <= r
  <2>1. CASE r = Len(runs) + 1
    BY <1>1, <1>2, <2>1, RunAppended
  <2>2. CASE r \in DOMAIN runs
    <3>1. IsActive(r) /\ runs[r].bot # b
      BY <1>1, <1>2, <2>2, RunAppended DEF IsActive, NoActiveRun, ActiveRuns
    <3>2. q \in DOMAIN runs
      BY <1>1, <1>2, <2>2, <3>1, RunAppended
    <3>3. QED
      BY <1>1, <1>2, <2>2, <3>1, <3>2, RunAppended DEF RunsInv, ActiveRunNewest
  <2>3. QED
    BY <1>1, <1>2, <2>1, <2>2, RunAppended
<1>3. QED
  BY <1>1, <1>2, RunAppended DEF RunsInv, ActiveRunNewest

\* A new status keeps the order as long as no ended run comes back.
LEMMA StatusKeeps ==
    ASSUME RunsInv, NEW r \in DOMAIN runs, IsActive(r), NEW s \in RunStatuses,
           runs' = [runs EXCEPT ![r].status = s]
    PROVE  RunsInv'
<1>1. runs \in Seq(Run)
  BY DEF RunsInv
<1>2. ASSUME NEW p \in DOMAIN runs, IsActive(p)'
      PROVE  IsActive(p)
  BY <1>1, <1>2, RunRewritten DEF IsActive
<1>3. ASSUME NEW p \in DOMAIN runs', IsActive(p)', NEW q \in DOMAIN runs', runs'[q].bot = runs'[p].bot
      PROVE  q <= p
  <2>1. p \in DOMAIN runs /\ q \in DOMAIN runs
    BY <1>1, RunRewritten
  <2>2. IsActive(p) /\ runs[q].bot = runs[p].bot
    BY <1>1, <1>2, <1>3, <2>1, RunRewritten
  <2>3. QED
    BY <2>1, <2>2 DEF RunsInv, ActiveRunNewest
<1>4. QED
  BY <1>1, <1>3, RunRewritten DEF RunsInv, ActiveRunNewest

-----------------------------------------------------------------------------
(* The memory store                                                          *)

AtomicInv == RunsInv /\ latest \in [Bots -> Nat] /\ ActiveRunShown

LEMMA AtomicStep == AtomicInv /\ [RunsNext]_runVars => AtomicInv'
<1>1. SUFFICES ASSUME AtomicInv, [RunsNext]_runVars PROVE AtomicInv'
  OBVIOUS
<1>2. runs \in Seq(Run) /\ RunsInv /\ latest \in [Bots -> Nat] /\ ActiveRunShown
  BY <1>1 DEF AtomicInv, RunsInv
<1>3. ASSUME NEW b \in Bots, CreateStrategyRun(b) PROVE AtomicInv'
  <2>1. RunsInv'
    BY <1>2, <1>3, CreateKeeps DEF CreateStrategyRun
  <2>2. Len(runs) + 1 \in Nat
    BY <1>2
  <2>3. ASSUME NEW a \in Bots, NEW r \in ActiveRuns(a)' PROVE latest'[a] = r
    <3>1. r \in DOMAIN runs => r \in ActiveRuns(a)
      BY <1>2, <1>3, <2>3, RunAppended DEF CreateStrategyRun, ActiveRuns, IsActive
    <3>2. r = Len(runs) + 1 => a = b
      BY <1>2, <1>3, <2>3, RunAppended DEF CreateStrategyRun, ActiveRuns
    <3>3. r \in DOMAIN runs \/ r = Len(runs) + 1
      BY <1>2, <1>3, <2>3, RunAppended DEF CreateStrategyRun, ActiveRuns
    <3>4. QED
      BY <1>2, <1>3, <3>1, <3>2, <3>3 DEF CreateStrategyRun, ActiveRunShown, NoActiveRun
  <2>4. QED
    BY <1>2, <1>3, <2>1, <2>2, <2>3 DEF CreateStrategyRun, AtomicInv, ActiveRunShown
<1>4. ASSUME NEW r \in 1 .. MaxRuns, StartStrategyRun(r) \/ StopStrategyRun(r) PROVE AtomicInv'
  <2>1. PICK s \in RunStatuses : runs' = [runs EXCEPT ![r].status = s]
    BY <1>4 DEF StartStrategyRun, StopStrategyRun, RunStatuses
  <2>0. r \in DOMAIN runs /\ runs[r] \in Run
    BY <1>2, <1>4 DEF StartStrategyRun, StopStrategyRun
  <2>2. /\ r \in DOMAIN runs /\ r \in Nat /\ IsActive(r) /\ runs[r].bot \in Bots
        /\ latest' = [latest EXCEPT ![runs[r].bot] = r]
    BY <1>4, <2>0 DEF StartStrategyRun, StopStrategyRun, IsActive, ActiveStatuses, Run
  <2>3. RunsInv'
    BY <1>2, <2>1, <2>2, StatusKeeps
  <2>4. ASSUME NEW a \in Bots, NEW q \in ActiveRuns(a)' PROVE latest'[a] = q
    <3>1. q \in ActiveRuns(a)
      BY <1>2, <2>1, <2>2, <2>4, RunRewritten DEF ActiveRuns, IsActive
    <3>2. a = runs[r].bot => q = r
      BY <1>2, <2>2, <3>1, NewestIsOne DEF OneActiveRun, ActiveRuns
    <3>3. QED
      BY <1>2, <2>2, <3>1, <3>2 DEF ActiveRunShown
  <2>5. QED
    BY <1>2, <2>2, <2>3, <2>4 DEF AtomicInv, ActiveRunShown
<1>5. ASSUME UNCHANGED runVars PROVE AtomicInv'
  BY <1>1, <1>5 DEF runVars, AtomicInv, RunsInv, ActiveRunNewest, ActiveRunShown, ActiveRuns, IsActive
<1>6. QED
  BY <1>1, <1>3, <1>4, <1>5 DEF RunsNext

LEMMA AtomicInvariant == RunsSpec => []AtomicInv
<1>1. RunsInit => AtomicInv
  BY DEF RunsInit, AtomicInv, RunsInv, ActiveRunNewest, ActiveRunShown, ActiveRuns
<1>2. QED
  BY <1>1, AtomicStep, PTL DEF RunsSpec

\* MemoryMutableStore: whatever requests arrive, a bot never has two runs that
\* are created or running.
THEOREM OneRunPerBot == RunsSpec => []OneActiveRun
<1>1. AtomicInv => OneActiveRun
  BY NewestIsOne DEF AtomicInv
<1>2. QED
  BY <1>1, AtomicInvariant, PTL

\* MemoryMutableStore: the detail of a bot shows its active run.
THEOREM DetailShowsActiveRun == RunsSpec => []ActiveRunShown
<1>1. AtomicInv => ActiveRunShown
  BY DEF AtomicInv
<1>2. QED
  BY <1>1, AtomicInvariant, PTL
-----------------------------------------------------------------------------
(* The handlers                                                              *)

\* A request beyond its first step is about a run that exists, and only threads
\* that the server has are at work.
Known(c) ==
    /\ req[c].at \notin {"idle", "insert_run"} => req[c].run \in DOMAIN runs
    /\ req[c] # Idle => c \in threads

PgTypeInv == PgRunsTypeOK /\ \A c \in Clients : Known(c)

\* What the fields of a request are at each of its steps.
LEMMA RequestFields ==
    ASSUME PgTypeInv, NEW c \in Clients
    PROVE  /\ req[c].at = "idle" => req[c] = Idle
           /\ req[c].at = "insert_run" => req[c].bot \in Bots
           /\ req[c].at \notin {"idle", "insert_run"} =>
                  req[c].run \in 1 .. MaxRuns /\ req[c].run \in DOMAIN runs
           /\ req[c].at = "sync" => req[c].status \in RunStatuses
           /\ req[c].at \in {"idle", "insert_run", "check_running", "write_running",
                             "write_stopped", "read_back", "sync"}
<1>1. req[c] \in {Idle} \cup Requests /\ Known(c)
  BY DEF PgTypeInv, PgRunsTypeOK
<1>2. QED
  BY <1>1 DEF Requests, Idle, Known

\* A step in which thread c goes on to x keeps the invariant if x is a request
\* and the runs stay in place.
LEMMA TypeStep ==
    ASSUME PgTypeInv, NEW c \in threads, NEW x, GoTo(c, x),
           x \in {Idle} \cup Requests,
           x.at \notin {"idle", "insert_run"} => x.run \in DOMAIN runs',
           RunsTypeOK', DOMAIN runs \subseteq DOMAIN runs',
           backend' = backend, threads' = threads,
           mirror' \in [1 .. MaxRuns -> RunStatuses \cup {"absent"}]
    PROVE  PgTypeInv'
<1>1. req \in [Clients -> {Idle} \cup Requests] /\ c \in Clients
  BY DEF PgTypeInv, PgRunsTypeOK
<1>2. /\ req' \in [Clients -> {Idle} \cup Requests]
      /\ req'[c] = x /\ \A d \in Clients \ {c} : req'[d] = req[d]
  BY <1>1 DEF GoTo
<1>3. ASSUME NEW d \in Clients PROVE Known(d)'
  <2>1. CASE d = c
    BY <1>2, <2>1 DEF Known
  <2>2. CASE d # c
    BY <1>2, <2>2 DEF Known, PgTypeInv
  <2>3. QED
    BY <2>1, <2>2
<1>4. QED
  BY <1>2, <1>3 DEF PgTypeInv, PgRunsTypeOK

LEMMA PgTypeKept == PgTypeInv /\ [PgRunsNext]_pgRunVars => PgTypeInv'
<1>1. SUFFICES ASSUME PgTypeInv, [PgRunsNext]_pgRunVars PROVE PgTypeInv'
  OBVIOUS
<1>2. /\ runs \in Seq(Run) /\ latest \in [Bots -> Nat] /\ RunsTypeOK
      /\ mirror \in [1 .. MaxRuns -> RunStatuses \cup {"absent"}] /\ threads \subseteq Clients
  BY <1>1 DEF PgTypeInv, PgRunsTypeOK, RunsTypeOK
<1>3. CASE UNCHANGED pgRunVars
  BY <1>1, <1>3 DEF pgRunVars, PgTypeInv, PgRunsTypeOK, RunsTypeOK, Known
<1>4. ASSUME NEW c \in threads, RunsStep(c) PROVE PgTypeInv'
  <2>0. c \in Clients /\ RunStatuses = {"created", "running", "stopped"}
    BY <1>2 DEF RunStatuses
  <2>1. ASSUME NEW b \in Bots, MemoryCreate(c, b) PROVE PgTypeInv'
    <3>1. /\ Len(runs) + 1 \in 1 .. MaxRuns /\ runs' \in Seq(Run)
          /\ DOMAIN runs' = DOMAIN runs \cup {Len(runs) + 1}
          /\ latest' \in [Bots -> Nat]
      BY <1>2, <2>1, RunAppended, MaxRunsAssumption DEF MemoryCreate, CreateStrategyRun
    <3>2. QED
      BY <1>1, <1>2, <1>4, <2>0, <2>1, <3>1, TypeStep DEF MemoryCreate, RunsTypeOK, Requests
  <2>2. ASSUME NEW r \in 1 .. MaxRuns, MemoryStart(c, r) \/ MemoryStop(c, r) PROVE PgTypeInv'
    <3>1. PICK s \in RunStatuses : /\ runs' = [runs EXCEPT ![r].status = s]
                                   /\ GoTo(c, [at |-> "sync", run |-> r, status |-> s])
      BY <2>0, <2>2 DEF MemoryStart, MemoryStop, StartStrategyRun, StopStrategyRun
    <3>2. r \in DOMAIN runs /\ latest' = [latest EXCEPT ![runs[r].bot] = r] /\ r \in Nat
          /\ UNCHANGED <<backend, threads, mirror>>
      BY <2>2 DEF MemoryStart, MemoryStop, StartStrategyRun, StopStrategyRun
    <3>3. runs' \in Seq(Run) /\ DOMAIN runs' = DOMAIN runs /\ latest' \in [Bots -> Nat]
      BY <1>2, <3>1, <3>2, RunRewritten
    <3>4. QED
      BY <1>1, <1>2, <1>4, <3>1, <3>2, <3>3, TypeStep DEF RunsTypeOK, Requests
  <2>3. ASSUME NEW b \in Bots, BeginCreate(c, b) PROVE PgTypeInv'
    BY <1>1, <1>2, <1>4, <2>3, TypeStep DEF BeginCreate, RunsTypeOK, Requests
  <2>4. ASSUME NEW r \in 1 .. MaxRuns, BeginStart(c, r) \/ BeginStop(c, r) PROVE PgTypeInv'
    BY <1>1, <1>2, <1>4, <2>4, TypeStep DEF BeginStart, BeginStop, RunsTypeOK, Requests
  <2>5. CASE InsertRun(c)
    <3>1. req[c].bot \in Bots
      BY <1>1, <2>0, <2>5, RequestFields DEF InsertRun, Ready
    <3>2. /\ Len(runs) + 1 \in 1 .. MaxRuns /\ runs' \in Seq(Run)
          /\ DOMAIN runs' = DOMAIN runs \cup {Len(runs) + 1}
      BY <1>2, <2>5, <3>1, RunAppended, MaxRunsAssumption DEF InsertRun
    <3>3. QED
      BY <1>1, <1>2, <1>4, <2>5, <3>2, TypeStep DEF InsertRun, RunsTypeOK, Requests
  <2>6. CASE CheckRunning(c)
    <3>1. req[c].run \in 1 .. MaxRuns /\ req[c].run \in DOMAIN runs
      BY <1>1, <2>0, <2>6, RequestFields DEF CheckRunning, Ready
    <3>2. GoTo(c, [at |-> "write_running", run |-> req[c].run]) \/ GoTo(c, Idle)
      BY <2>6 DEF CheckRunning
    <3>3. QED
      BY <1>1, <1>2, <1>4, <2>6, <3>1, <3>2, TypeStep DEF CheckRunning, RunsTypeOK, Requests, Idle
  <2>7. CASE WriteRunning(c) \/ WriteStopped(c)
    <3>1. req[c].run \in 1 .. MaxRuns /\ req[c].run \in DOMAIN runs
      BY <1>1, <2>0, <2>7, RequestFields DEF WriteRunning, WriteStopped, Ready
    <3>2. PICK s \in RunStatuses : runs' = [runs EXCEPT ![req[c].run].status = s]
      BY <2>0, <2>7 DEF WriteRunning, WriteStopped
    <3>3. runs' \in Seq(Run) /\ DOMAIN runs' = DOMAIN runs
      BY <1>2, <3>1, <3>2, RunRewritten
    <3>4. QED
      BY <1>1, <1>2, <1>4, <2>7, <3>1, <3>3, TypeStep
      DEF WriteRunning, WriteStopped, RunsTypeOK, Requests
  <2>8. CASE ReadBack(c)
    <3>1. /\ req[c].run \in 1 .. MaxRuns /\ req[c].run \in DOMAIN runs
          /\ runs[req[c].run] \in Run
      BY <1>1, <1>2, <2>0, <2>8, RequestFields DEF ReadBack, Ready
    <3>2. runs[req[c].run].status \in RunStatuses
      BY <3>1 DEF Run
    <3>3. QED
      BY <1>1, <1>2, <1>4, <2>8, <3>1, <3>2, TypeStep DEF ReadBack, RunsTypeOK, Requests
  <2>9. CASE SyncRunState(c)
    <3>1. req[c].run \in 1 .. MaxRuns /\ req[c].status \in RunStatuses
      BY <1>1, <2>0, <2>9, RequestFields DEF SyncRunState, Ready
    <3>2. mirror' \in [1 .. MaxRuns -> RunStatuses \cup {"absent"}]
      BY <1>2, <2>9, <3>1 DEF SyncRunState
    <3>3. QED
      BY <1>1, <1>2, <1>4, <2>9, <3>2, TypeStep DEF SyncRunState, RunsTypeOK, Idle
  <2>10. CASE Abandon(c) /\ UNCHANGED <<runs, latest, mirror>>
    BY <1>1, <1>2, <1>4, <2>10, TypeStep DEF Abandon, RunsTypeOK, Idle
  <2>11. QED
    BY <1>4, <2>1, <2>2, <2>3, <2>4, <2>5, <2>6, <2>7, <2>8, <2>9, <2>10 DEF RunsStep
<1>5. QED
  BY <1>1, <1>3, <1>4 DEF PgRunsNext

LEMMA PgTypeInvariant == PgRunsSpec => []PgTypeInv
<1>1. PgRunsInit => PgTypeInv
  BY DEF PgRunsInit, RunsInit, HandlersInit, PgTypeInv, PgRunsTypeOK, RunsTypeOK, Known, Idle
<1>2. QED
  BY <1>1, PgTypeKept, PTL DEF PgRunsSpec
-----------------------------------------------------------------------------
(* Requests that do not overlap                                              *)

\* What a request has read still holds when it goes on.
Promised(c) ==
    /\ req[c].at = "insert_run" => NoActiveRun(req[c].bot)
    /\ req[c].at = "check_running" => runs[req[c].run].status = "created"
    /\ req[c].at = "write_running" =>
           runs[req[c].run].status = "created" /\ NoOtherRunning(req[c].run)
    /\ req[c].at = "write_stopped" => runs[req[c].run].status = "running"
    /\ req[c].at = "sync" => Rank(req[c].status) <= Rank(runs[req[c].run].status)

MirrorKnown ==
    \A r \in 1 .. MaxRuns :
        mirror[r] = "absent"
        \/ (r \in DOMAIN runs /\ Rank(mirror[r]) <= Rank(runs[r].status))

SerialInv ==
    /\ PgTypeInv
    /\ backend = "memory" => \A c \in Clients : req[c].at \in {"idle", "sync"}
    /\ Serial => RunsInv /\ MirrorKnown /\ \A c \in Clients : Promised(c)

LEMMA RankValues ==
    /\ Rank("absent") = 0 /\ Rank("created") = 1
    /\ Rank("running") = 2 /\ Rank("stopped") = 3
BY DEF Rank

\* With PostgreSQL and one thread, nobody else is at work.
LEMMA Alone ==
    ASSUME PgTypeInv, Serial, backend # "memory", NEW c \in threads, NEW d \in Clients, d # c
    PROVE  req[d] = Idle
<1>1. threads \subseteq Clients /\ Known(d)
  BY DEF PgTypeInv, PgRunsTypeOK
<1>2. IsFiniteSet(threads) /\ Cardinality(threads) = 1
  BY <1>1, FS_Subset, ClientsAssumption DEF Serial
<1>3. \E x : threads = {x}
  BY <1>2, FS_Singleton
<1>4. QED
  BY <1>1, <1>3 DEF Known

\* Without overlap a step changes the runs as the memory store does.
CreateChange(b) ==
    /\ NoActiveRun(b) /\ Len(runs) < MaxRuns
    /\ runs' = Append(runs, [bot |-> b, status |-> "created"])
StartChange(r) ==
    /\ r \in DOMAIN runs /\ runs[r].status = "created" /\ NoOtherRunning(r)
    /\ runs' = [runs EXCEPT ![r].status = "running"]
StopChange(r) ==
    /\ r \in DOMAIN runs /\ runs[r].status = "running"
    /\ runs' = [runs EXCEPT ![r].status = "stopped"]
SerialChange ==
    \/ UNCHANGED <<runs, latest>>
    \/ \E b \in Bots :
           CreateChange(b) /\ (backend = "memory" => latest' = [latest EXCEPT ![b] = Len(runs) + 1])
    \/ \E r \in 1 .. MaxRuns :
           /\ StartChange(r) \/ StopChange(r)
           /\ backend = "memory" => latest' = [latest EXCEPT ![runs[r].bot] = r]

LEMMA StepChange ==
    ASSUME SerialInv, Serial, NEW c \in threads, RunsStep(c)
    PROVE  SerialChange /\ UNCHANGED <<backend, threads>>
<1>1. c \in Clients /\ PgTypeInv /\ Promised(c)
      /\ (backend = "memory" => req[c].at \in {"idle", "sync"})
  BY DEF SerialInv, PgTypeInv, PgRunsTypeOK
<1>2. ASSUME NEW b \in Bots, MemoryCreate(c, b) PROVE SerialChange /\ UNCHANGED <<backend, threads>>
  BY <1>2 DEF MemoryCreate, CreateStrategyRun, SerialChange, CreateChange
<1>3. ASSUME NEW r \in 1 .. MaxRuns, MemoryStart(c, r) \/ MemoryStop(c, r)
      PROVE  SerialChange /\ UNCHANGED <<backend, threads>>
  BY <1>3 DEF MemoryStart, MemoryStop, StartStrategyRun, StopStrategyRun, SerialChange,
              StartChange, StopChange
<1>4. CASE InsertRun(c)
  BY <1>1, <1>4, RequestFields DEF InsertRun, Ready, SerialChange, CreateChange, Promised
<1>5. CASE WriteRunning(c)
  BY <1>1, <1>5, RequestFields DEF WriteRunning, Ready, SerialChange, StartChange, Promised
<1>6. CASE WriteStopped(c)
  BY <1>1, <1>6, RequestFields DEF WriteStopped, Ready, SerialChange, StopChange, Promised
<1>7. CASE \/ \E b \in Bots : BeginCreate(c, b)
           \/ \E r \in 1 .. MaxRuns : BeginStart(c, r) \/ BeginStop(c, r)
           \/ CheckRunning(c) \/ ReadBack(c) \/ SyncRunState(c)
           \/ Abandon(c) /\ UNCHANGED <<runs, latest, mirror>>
  BY <1>7 DEF BeginCreate, BeginStart, BeginStop, CheckRunning, ReadBack, SyncRunState, Abandon,
              SerialChange
<1>8. QED
  BY <1>2, <1>3, <1>4, <1>5, <1>6, <1>7 DEF RunsStep

\* No run is removed, and none goes back to an earlier status.
Forward ==
    \A r \in DOMAIN runs : r \in DOMAIN runs' /\ Rank(runs[r].status) <= Rank(runs'[r].status)

LEMMA ChangeKeeps ==
    ASSUME RunsInv, SerialChange
    PROVE  RunsInv' /\ Forward
<1>1. runs \in Seq(Run) /\ \A r \in DOMAIN runs : Rank(runs[r].status) \in Nat
  <2>1. runs \in Seq(Run)
    BY DEF RunsInv
  <2>2. ASSUME NEW r \in DOMAIN runs PROVE Rank(runs[r].status) \in Nat
    <3>0. runs[r] \in Run
      BY <2>1
    <3>1. runs[r].status \in {"created", "running", "stopped"}
      BY <3>0 DEF Run, RunStatuses
    <3>2. QED
      BY <3>1, RankValues
  <2>3. QED
    BY <2>1, <2>2
<1>2. CASE UNCHANGED <<runs, latest>>
  BY <1>1, <1>2 DEF RunsInv, ActiveRunNewest, IsActive, Forward
<1>3. ASSUME NEW b \in Bots, CreateChange(b) PROVE RunsInv' /\ Forward
  BY <1>1, <1>3, CreateKeeps, RunAppended DEF CreateChange, Forward
<1>4. ASSUME NEW r \in 1 .. MaxRuns, StartChange(r) \/ StopChange(r) PROVE RunsInv' /\ Forward
  <2>1. PICK s \in RunStatuses : /\ runs' = [runs EXCEPT ![r].status = s]
                                 /\ Rank(runs[r].status) <= Rank(s)
    BY <1>4, RankValues DEF StartChange, StopChange, RunStatuses
  <2>2. r \in DOMAIN runs /\ IsActive(r)
    BY <1>4 DEF StartChange, StopChange, IsActive, ActiveStatuses
  <2>3. RunsInv'
    BY <2>1, <2>2, StatusKeeps
  <2>4. Forward
    BY <1>1, <2>1, <2>2, RunRewritten DEF Forward
  <2>5. QED
    BY <2>3, <2>4
<1>5. QED
  BY <1>2, <1>3, <1>4 DEF SerialChange

\* What the other threads have read survives a step of c.
LEMMA OthersPromised ==
    ASSUME SerialInv, Serial, Forward, RunsInv', NEW c \in threads, NEW x, GoTo(c, x),
           NEW d \in Clients, d # c
    PROVE  Promised(d)'
<1>1. PgTypeInv /\ Promised(d) /\ req'[d] = req[d]
  BY DEF SerialInv, PgTypeInv, PgRunsTypeOK, GoTo
<1>2. CASE req[d] = Idle
  BY <1>1, <1>2 DEF Idle, Promised
<1>3. CASE req[d] # Idle
  <2>1. req[d].at = "sync"
    BY <1>1, <1>3, Alone, RequestFields DEF SerialInv
  <2>2. req[d].run \in DOMAIN runs /\ req[d].status \in RunStatuses
    BY <1>1, <2>1, RequestFields
  <2>3. runs[req[d].run].status \in RunStatuses /\ runs'[req[d].run].status \in RunStatuses
    <3>1. /\ runs \in Seq(Run) /\ runs' \in Seq(Run)
          /\ req[d].run \in DOMAIN runs /\ req[d].run \in DOMAIN runs'
      BY <2>2 DEF SerialInv, RunsInv, Forward
    <3>2. runs[req[d].run] \in Run /\ runs'[req[d].run] \in Run
      BY <3>1
    <3>3. QED
      BY <3>2 DEF Run
  <2>4. /\ Rank(req[d].status) \in Nat /\ Rank(runs[req[d].run].status) \in Nat
        /\ Rank(runs'[req[d].run].status) \in Nat
    BY <2>2, <2>3, RankValues DEF RunStatuses
  <2>5. QED
    BY <1>1, <2>1, <2>2, <2>4 DEF Promised, Forward
<1>4. QED
  BY <1>2, <1>3

\* The step of c leaves c with a promise that holds.
LEMMA OwnPromised ==
    ASSUME SerialInv, Serial, PgTypeInv', NEW c \in threads, RunsStep(c)
    PROVE  Promised(c)'
<1>1. /\ c \in Clients /\ PgTypeInv /\ Promised(c) /\ runs \in Seq(Run) /\ runs' \in Seq(Run)
      /\ req \in [Clients -> {Idle} \cup Requests]
  BY DEF SerialInv, PgTypeInv, PgRunsTypeOK, RunsTypeOK
<1>2. \A x : GoTo(c, x) => req'[c] = x
  BY <1>1 DEF GoTo
<1>3. \A s \in RunStatuses : Rank(s) <= Rank(s)
  BY RankValues DEF RunStatuses
<1>4. ASSUME NEW b \in Bots, MemoryCreate(c, b) PROVE Promised(c)'
  <2>1. runs'[Len(runs) + 1].status = "created"
    BY <1>1, <1>4, RunAppended DEF MemoryCreate, CreateStrategyRun
  <2>2. req'[c] = [at |-> "sync", run |-> Len(runs) + 1, status |-> "created"]
    BY <1>2, <1>4 DEF MemoryCreate
  <2>3. QED
    BY <1>3, <2>1, <2>2 DEF Promised, RunStatuses
<1>5. ASSUME NEW r \in 1 .. MaxRuns, MemoryStart(c, r) \/ MemoryStop(c, r) PROVE Promised(c)'
  <2>1. PICK s \in RunStatuses : /\ runs' = [runs EXCEPT ![r].status = s]
                                 /\ GoTo(c, [at |-> "sync", run |-> r, status |-> s])
    BY <1>5 DEF MemoryStart, MemoryStop, StartStrategyRun, StopStrategyRun, RunStatuses
  <2>2. r \in DOMAIN runs
    BY <1>5 DEF MemoryStart, MemoryStop, StartStrategyRun, StopStrategyRun
  <2>3. runs'[r].status = s
    BY <1>1, <2>1, <2>2, RunRewritten
  <2>4. req'[c] = [at |-> "sync", run |-> r, status |-> s]
    BY <1>2, <2>1
  <2>5. QED
    BY <1>3, <2>3, <2>4 DEF Promised
<1>6. ASSUME NEW b \in Bots, BeginCreate(c, b) PROVE Promised(c)'
  <2>1. req'[c] = [at |-> "insert_run", bot |-> b] /\ runs' = runs
    BY <1>2, <1>6 DEF BeginCreate
  <2>2. QED
    BY <1>6, <2>1 DEF BeginCreate, Promised, NoActiveRun, ActiveRuns, IsActive
<1>7. ASSUME NEW r \in 1 .. MaxRuns, BeginStart(c, r) PROVE Promised(c)'
  <2>1. req'[c] = [at |-> "check_running", run |-> r] /\ runs' = runs
    BY <1>2, <1>7 DEF BeginStart
  <2>2. QED
    BY <1>7, <2>1 DEF BeginStart, Promised
<1>8. ASSUME NEW r \in 1 .. MaxRuns, BeginStop(c, r) PROVE Promised(c)'
  <2>1. req'[c] = [at |-> "write_stopped", run |-> r] /\ runs' = runs
    BY <1>2, <1>8 DEF BeginStop
  <2>2. QED
    BY <1>8, <2>1 DEF BeginStop, Promised
<1>9. CASE InsertRun(c) \/ WriteRunning(c) \/ WriteStopped(c)
  <2>1. req'[c].at = "read_back"
    BY <1>2, <1>9 DEF InsertRun, WriteRunning, WriteStopped
  <2>2. QED
    BY <2>1 DEF Promised
<1>10. CASE CheckRunning(c)
  <2>1. runs' = runs /\ runs[req[c].run].status = "created"
    BY <1>1, <1>10 DEF CheckRunning, Ready, Promised
  <2>2. \/ req'[c] = Idle
        \/ /\ req'[c] = [at |-> "write_running", run |-> req[c].run]
           /\ NoOtherRunning(req[c].run)
    BY <1>2, <1>10 DEF CheckRunning
  <2>3. QED
    BY <2>1, <2>2 DEF Promised, Idle, NoOtherRunning
<1>11. CASE ReadBack(c)
  <2>1. req[c].run \in DOMAIN runs
    BY <1>1, <1>11, RequestFields DEF ReadBack, Ready
  <2>2. runs[req[c].run].status \in RunStatuses
    <3>1. runs[req[c].run] \in Run
      BY <1>1, <2>1
    <3>2. QED
      BY <3>1 DEF Run
  <2>3. /\ req'[c] = [at |-> "sync", run |-> req[c].run, status |-> runs[req[c].run].status]
        /\ runs' = runs
    BY <1>2, <1>11 DEF ReadBack
  <2>4. QED
    BY <1>3, <2>2, <2>3 DEF Promised
<1>12. CASE SyncRunState(c) \/ (Abandon(c) /\ UNCHANGED <<runs, latest, mirror>>)
  <2>1. req'[c] = Idle
    BY <1>2, <1>12 DEF SyncRunState, Abandon
  <2>2. QED
    BY <2>1 DEF Promised, Idle
<1>13. QED
  BY <1>4, <1>5, <1>6, <1>7, <1>8, <1>9, <1>10, <1>11, <1>12 DEF RunsStep

\* Redis is written only with what a request has read.
LEMMA MirrorStep ==
    ASSUME SerialInv, Serial, Forward, RunsInv', NEW c \in threads, RunsStep(c)
    PROVE  MirrorKnown'
<1>1. /\ c \in Clients /\ PgTypeInv /\ Promised(c) /\ MirrorKnown /\ runs \in Seq(Run)
      /\ runs' \in Seq(Run) /\ mirror \in [1 .. MaxRuns -> RunStatuses \cup {"absent"}]
  BY DEF SerialInv, PgTypeInv, PgRunsTypeOK, RunsTypeOK, RunsInv
<1>2. ASSUME NEW r \in DOMAIN runs
      PROVE  /\ Rank(runs[r].status) \in Nat /\ Rank(runs'[r].status) \in Nat
             /\ r \in DOMAIN runs' /\ Rank(runs[r].status) <= Rank(runs'[r].status)
  <2>1. r \in DOMAIN runs' /\ Rank(runs[r].status) <= Rank(runs'[r].status)
    BY DEF Forward
  <2>2. runs[r] \in Run /\ runs'[r] \in Run
    BY <1>1, <2>1
  <2>3. runs[r].status \in RunStatuses /\ runs'[r].status \in RunStatuses
    BY <2>2 DEF Run
  <2>4. QED
    BY <2>1, <2>3, RankValues DEF RunStatuses
<1>3. \A s \in RunStatuses : Rank(s) \in Nat
  BY RankValues DEF RunStatuses
<1>4. CASE SyncRunState(c)
  <2>1. /\ runs' = runs /\ mirror' = [mirror EXCEPT ![req[c].run] = req[c].status]
        /\ Rank(req[c].status) <= Rank(runs[req[c].run].status)
    BY <1>1, <1>4 DEF SyncRunState, Ready, Promised
  <2>2. req[c].run \in DOMAIN runs
    BY <1>1, <1>4, RequestFields DEF SyncRunState, Ready
  <2>3. QED
    BY <1>1, <2>1, <2>2 DEF MirrorKnown
<1>5. CASE mirror' = mirror
  <2>1. ASSUME NEW r \in 1 .. MaxRuns, mirror[r] # "absent"
        PROVE  r \in DOMAIN runs' /\ Rank(mirror[r]) <= Rank(runs'[r].status)
    <3>1. r \in DOMAIN runs /\ Rank(mirror[r]) <= Rank(runs[r].status) /\ Rank(mirror[r]) \in Nat
      BY <1>1, <1>3, <2>1 DEF MirrorKnown
    <3>2. QED
      BY <1>2, <3>1
  <2>2. ASSUME NEW r \in 1 .. MaxRuns, mirror'[r] # "absent"
        PROVE  r \in DOMAIN runs' /\ Rank(mirror'[r]) <= Rank(runs'[r].status)
    BY <1>5, <2>1, <2>2
  <2>3. QED
    BY <2>2 DEF MirrorKnown
<1>6. mirror' = mirror \/ SyncRunState(c)
  BY DEF RunsStep, MemoryCreate, MemoryStart, MemoryStop, BeginCreate, InsertRun, BeginStart,
         CheckRunning, WriteRunning, BeginStop, WriteStopped, ReadBack
<1>7. QED
  BY <1>4, <1>5, <1>6

\* Every step of a request of the memory store ends it or leaves the sync.
LEMMA MemoryStep ==
    ASSUME SerialInv, backend = "memory", NEW c \in threads, RunsStep(c)
    PROVE  \A d \in Clients : req'[d].at \in {"idle", "sync"}
<1>1. /\ c \in Clients /\ req \in [Clients -> {Idle} \cup Requests]
      /\ \A d \in Clients : req[d].at \in {"idle", "sync"}
  BY DEF SerialInv, PgTypeInv, PgRunsTypeOK
<1>2. req[c].at \in {"idle", "sync"} /\ \A x : GoTo(c, x) => req'[c] = x
  BY <1>1 DEF GoTo
<1>3. ASSUME NEW b \in Bots, MemoryCreate(c, b) PROVE req'[c].at \in {"idle", "sync"}
  BY <1>2, <1>3 DEF MemoryCreate
<1>4. ASSUME NEW r \in 1 .. MaxRuns, MemoryStart(c, r) \/ MemoryStop(c, r)
      PROVE  req'[c].at \in {"idle", "sync"}
  BY <1>2, <1>4 DEF MemoryStart, MemoryStop
<1>5. ASSUME SyncRunState(c) \/ Abandon(c) PROVE req'[c].at \in {"idle", "sync"}
  BY <1>2, <1>5 DEF SyncRunState, Abandon, Idle
<1>6. \/ \E b \in Bots : MemoryCreate(c, b)
      \/ \E r \in 1 .. MaxRuns : MemoryStart(c, r) \/ MemoryStop(c, r)
      \/ SyncRunState(c) \/ Abandon(c)
  BY <1>2 DEF RunsStep, BeginCreate, InsertRun, BeginStart, CheckRunning, WriteRunning,
              BeginStop, WriteStopped, ReadBack, Begins, Ready
<1>7. req'[c].at \in {"idle", "sync"} /\ \E x : GoTo(c, x)
  <2>1. req'[c].at \in {"idle", "sync"}
    BY <1>3, <1>4, <1>5, <1>6
  <2>2. \E x : GoTo(c, x)
    BY <1>6 DEF MemoryCreate, MemoryStart, MemoryStop, SyncRunState, Abandon
  <2>3. QED
    BY <2>1, <2>2
<1>8. QED
  BY <1>1, <1>7 DEF GoTo

LEMMA SerialKept == SerialInv /\ [PgRunsNext]_pgRunVars => SerialInv'
<1>1. SUFFICES ASSUME SerialInv, [PgRunsNext]_pgRunVars PROVE SerialInv'
  OBVIOUS
<1>2. PgTypeInv /\ PgTypeInv'
  BY <1>1, PgTypeKept DEF SerialInv
<1>3. CASE UNCHANGED pgRunVars
  <2>1. /\ runs' = runs /\ mirror' = mirror /\ req' = req /\ backend' = backend
        /\ threads' = threads
    BY <1>3 DEF pgRunVars
  <2>2. (RunsInv => RunsInv') /\ (MirrorKnown => MirrorKnown') /\ (Serial' => Serial)
    BY <2>1 DEF RunsInv, ActiveRunNewest, IsActive, MirrorKnown, Serial
  <2>3. \A c \in Clients : Promised(c) => Promised(c)'
    BY <2>1 DEF Promised, NoActiveRun, ActiveRuns, IsActive, NoOtherRunning
  <2>4. QED
    BY <1>1, <1>2, <2>1, <2>2, <2>3 DEF SerialInv
<1>4. ASSUME NEW c \in threads, RunsStep(c) PROVE SerialInv'
  <2>1. UNCHANGED <<backend, threads>>
    BY <1>4 DEF RunsStep, MemoryCreate, MemoryStart, MemoryStop, BeginCreate, InsertRun,
                BeginStart, CheckRunning, WriteRunning, BeginStop, WriteStopped, ReadBack,
                SyncRunState, Abandon
  <2>2. backend' = "memory" => \A d \in Clients : req'[d].at \in {"idle", "sync"}
    BY <1>1, <1>4, <2>1, MemoryStep
  <2>3. ASSUME Serial PROVE RunsInv' /\ MirrorKnown' /\ \A d \in Clients : Promised(d)'
    <3>1. RunsInv /\ SerialChange
      BY <1>1, <1>4, <2>3, StepChange DEF SerialInv
    <3>2. RunsInv' /\ Forward
      BY <3>1, ChangeKeeps
    <3>3. MirrorKnown'
      BY <1>1, <1>4, <2>3, <3>2, MirrorStep
    <3>4. Promised(c)'
      BY <1>1, <1>2, <1>4, <2>3, OwnPromised
    <3>5. \E x : GoTo(c, x)
      BY <1>4 DEF RunsStep, MemoryCreate, MemoryStart, MemoryStop, BeginCreate, InsertRun,
                  BeginStart, CheckRunning, WriteRunning, BeginStop, WriteStopped, ReadBack,
                  SyncRunState, Abandon
    <3>6. \A d \in Clients : d # c => Promised(d)'
      BY <1>1, <1>4, <2>3, <3>2, <3>5, OthersPromised
    <3>7. QED
      BY <3>2, <3>3, <3>4, <3>6
  <2>4. Serial' => Serial
    BY <2>1 DEF Serial
  <2>5. QED
    BY <1>2, <2>2, <2>3, <2>4 DEF SerialInv
<1>5. QED
  BY <1>1, <1>3, <1>4 DEF PgRunsNext

LEMMA SerialInvariant == PgRunsSpec => []SerialInv
<1>1. PgRunsInit => SerialInv
  <2>1. SUFFICES ASSUME PgRunsInit PROVE SerialInv
    OBVIOUS
  <2>2. PgTypeInv
    BY <2>1 DEF PgRunsInit, RunsInit, HandlersInit, PgTypeInv, PgRunsTypeOK, RunsTypeOK, Known, Idle
  <2>3. \A c \in Clients : req[c] = Idle
    BY <2>1 DEF PgRunsInit, HandlersInit
  <2>4. RunsInv /\ MirrorKnown
    <3>1. runs = << >> /\ \A r \in 1 .. MaxRuns : mirror[r] = "absent"
      BY <2>1 DEF PgRunsInit, RunsInit
    <3>2. MirrorKnown
      BY <3>1 DEF MirrorKnown
    <3>3. RunsInv
      BY <3>1 DEF RunsInv, ActiveRunNewest
    <3>4. QED
      BY <3>2, <3>3
  <2>5. QED
    BY <2>2, <2>3, <2>4 DEF SerialInv, Promised, Idle
<1>2. QED
  BY <1>1, SerialKept, PTL DEF PgRunsSpec

\* What dashboards read in Redis is a status the run has had, whichever
\* backend the server runs on, as long as its requests do not overlap there.
THEOREM MirrorIsOfThePast == PgRunsSpec => []MirrorIsPast
<1>1. SerialInv => MirrorIsPast
  BY DEF SerialInv, MirrorKnown, MirrorIsPast
<1>2. QED
  BY <1>1, SerialInvariant, PTL

-----------------------------------------------------------------------------
(* Either backend implements the memory store                                *)

\* The newest run of a bot is its largest, and a change elsewhere keeps it.
NewestIsLargest ==
    runs \in Seq(Run) =>
        \A r \in DOMAIN runs :
            (\A q \in DOMAIN runs : runs[q].bot = runs[r].bot => q <= r)
                => NewestRun(runs[r].bot) = r

LEMMA NewestIs == NewestIsLargest
<1>1. SUFFICES ASSUME runs \in Seq(Run), NEW r \in DOMAIN runs,
                      \A q \in DOMAIN runs : runs[q].bot = runs[r].bot => q <= r
               PROVE  NewestRun(runs[r].bot) = r
  BY DEF NewestIsLargest
<1> DEFINE own == {q \in DOMAIN runs : runs[q].bot = runs[r].bot}
<1>2. r \in own /\ own \subseteq Nat /\ \A q \in own : q <= r
  BY <1>1
<1>3. \A p \in own : (\A q \in own : q <= p) => p = r
  BY <1>2
<1>4. NewestRun(runs[r].bot) = IF own = {} THEN 0 ELSE CHOOSE p \in own : \A q \in own : q <= p
  BY DEF NewestRun
<1> HIDE DEF own
<1>5. (CHOOSE p \in own : \A q \in own : q <= p) = r
  BY <1>2, <1>3
<1>6. QED
  BY <1>2, <1>4, <1>5

LEMMA NewestKept ==
    ASSUME NEW b,
           {q \in DOMAIN runs' : runs'[q].bot = b} = {q \in DOMAIN runs : runs[q].bot = b}
    PROVE  NewestRun(b)' = NewestRun(b)
<1> DEFINE Largest(own) == IF own = {} THEN 0 ELSE CHOOSE p \in own : \A q \in own : q <= p
           before == {q \in DOMAIN runs : runs[q].bot = b}
           after == {q \in DOMAIN runs' : runs'[q].bot = b}
<1>1. NewestRun(b) = Largest(before) /\ NewestRun(b)' = Largest(after)
  BY DEF NewestRun
<1>2. before = after
  OBVIOUS
<1> HIDE DEF Largest, before, after
<1>3. QED
  BY <1>1, <1>2

LEMMA ShownCreated ==
    ASSUME RunsInv, NEW b \in Bots, CreateChange(b), backend' = backend,
           backend = "memory" => latest' = [latest EXCEPT ![b] = Len(runs) + 1]
    PROVE  ShownRun' = [ShownRun EXCEPT ![b] = Len(runs) + 1]
<1>1. runs \in Seq(Run)
  BY DEF RunsInv
<1>2. /\ runs' \in Seq(Run) /\ DOMAIN runs' = DOMAIN runs \cup {Len(runs) + 1}
      /\ Len(runs) + 1 \notin DOMAIN runs
      /\ \A r \in DOMAIN runs : runs'[r] = runs[r] /\ r < Len(runs) + 1
      /\ runs'[Len(runs) + 1].bot = b
  BY <1>1, RunAppended DEF CreateChange
<1>3. NewestRun(b)' = Len(runs) + 1
  <2>1. /\ Len(runs) + 1 \in DOMAIN runs'
        /\ \A q \in DOMAIN runs' : q <= Len(runs) + 1
    BY <1>1, <1>2
  <2>2. NewestIsLargest'
    BY NewestIs, PTL
  <2>3. QED
    BY <1>2, <2>1, <2>2 DEF NewestIsLargest
<1>4. ASSUME NEW a \in Bots, a # b PROVE NewestRun(a)' = NewestRun(a)
  <2>1. {q \in DOMAIN runs' : runs'[q].bot = a} = {q \in DOMAIN runs : runs[q].bot = a}
    BY <1>2, <1>4
  <2>2. QED
    BY <2>1, NewestKept
<1>5. QED
  BY <1>3, <1>4 DEF ShownRun

LEMMA ShownRewritten ==
    ASSUME RunsInv, NEW r \in DOMAIN runs, IsActive(r), NEW s \in RunStatuses, backend' = backend,
           runs' = [runs EXCEPT ![r].status = s],
           backend = "memory" => latest' = [latest EXCEPT ![runs[r].bot] = r]
    PROVE  ShownRun' = [ShownRun EXCEPT ![runs[r].bot] = r]
<1>1. runs \in Seq(Run)
  BY DEF RunsInv
<1>2. DOMAIN runs' = DOMAIN runs /\ \A q \in DOMAIN runs : runs'[q].bot = runs[q].bot
  BY <1>1, RunRewritten
<1>3. NewestRun(runs[r].bot) = r
  BY <1>1, NewestIs DEF NewestIsLargest, RunsInv, ActiveRunNewest
<1>4. ASSUME NEW a \in Bots PROVE NewestRun(a)' = NewestRun(a)
  <2>1. {q \in DOMAIN runs' : runs'[q].bot = a} = {q \in DOMAIN runs : runs[q].bot = a}
    BY <1>2
  <2>2. QED
    BY <2>1, NewestKept
<1>5. QED
  BY <1>3, <1>4 DEF ShownRun

LEMMA ChangeImplements ==
    ASSUME RunsInv, SerialChange, backend' = backend
    PROVE  Store!RunsNext \/ UNCHANGED <<runs, ShownRun>>
<1>1. CASE UNCHANGED <<runs, latest>>
  BY <1>1 DEF ShownRun, NewestRun
<1>2. ASSUME NEW b \in Bots, CreateChange(b),
             backend = "memory" => latest' = [latest EXCEPT ![b] = Len(runs) + 1]
      PROVE  Store!RunsNext
  <2>1. ShownRun' = [ShownRun EXCEPT ![b] = Len(runs) + 1]
    BY <1>2, ShownCreated
  <2>2. Store!CreateStrategyRun(b)
    BY <1>2, <2>1 DEF CreateChange, Store!CreateStrategyRun, NoActiveRun, Store!NoActiveRun,
                      ActiveRuns, Store!ActiveRuns, IsActive, Store!IsActive,
                      ActiveStatuses, Store!ActiveStatuses
  <2>3. QED
    BY <2>2 DEF Store!RunsNext
<1>3. ASSUME NEW r \in 1 .. MaxRuns, StartChange(r) \/ StopChange(r),
             backend = "memory" => latest' = [latest EXCEPT ![runs[r].bot] = r]
      PROVE  Store!RunsNext
  <2>1. PICK s \in RunStatuses : runs' = [runs EXCEPT ![r].status = s]
    BY <1>3 DEF StartChange, StopChange, RunStatuses
  <2>2. r \in DOMAIN runs /\ IsActive(r)
    BY <1>3 DEF StartChange, StopChange, IsActive, ActiveStatuses
  <2>3. ShownRun' = [ShownRun EXCEPT ![runs[r].bot] = r]
    BY <1>3, <2>1, <2>2, ShownRewritten
  <2>4. Store!StartStrategyRun(r) \/ Store!StopStrategyRun(r)
    BY <1>3, <2>3 DEF StartChange, StopChange, Store!StartStrategyRun, Store!StopStrategyRun,
                      NoOtherRunning, Store!NoOtherRunning
  <2>5. QED
    BY <2>4 DEF Store!RunsNext
<1>4. QED
  BY <1>1, <1>2, <1>3 DEF SerialChange

\* As long as requests do not overlap inside the store, MemoryMutableStore and
\* the PostgreSQL operations are the same atomic store of runs.
THEOREM BackendsImplementRuns == PgRunsSpec => ImplementsRuns
<1>1. ASSUME SerialInv, [PgRunsNext]_pgRunVars
      PROVE  [Serial => Store!RunsNext]_<<runs, ShownRun>>
  <2>1. CASE UNCHANGED pgRunVars
    BY <2>1 DEF pgRunVars, ShownRun, NewestRun
  <2>2. ASSUME NEW c \in threads, RunsStep(c), Serial
        PROVE  Store!RunsNext \/ UNCHANGED <<runs, ShownRun>>
    <3>1. RunsInv /\ SerialChange /\ backend' = backend
      BY <1>1, <2>2, StepChange DEF SerialInv
    <3>2. QED
      BY <3>1, ChangeImplements
  <2>3. QED
    BY <1>1, <2>1, <2>2 DEF PgRunsNext
<1>2. QED
  BY <1>1, SerialInvariant, PTL DEF PgRunsSpec, ImplementsRuns
-----------------------------------------------------------------------------
(* Overlapping requests                                                      *)

\* Runs of a bot that are active, or will be when a thread writes them, and the
\* threads that will insert another one.
Restarting(c) == req[c].at \in {"check_running", "write_running"}
Candidates(b) ==
    {r \in DOMAIN runs :
        /\ runs[r].bot = b
        /\ IsActive(r) \/ \E c \in threads : Restarting(c) /\ req[c].run = r}
Inserting(b) == {c \in threads : req[c].at = "insert_run" /\ req[c].bot = b}

\* A thread is one of those for at most one run: when the last active run is
\* gone, only threads that are still at work have any.
Room(b) == Cardinality(Candidates(b)) + Cardinality(Inserting(b)) <= Cardinality(threads)

BoundInv == SerialInv /\ \A b \in Bots : Room(b)

LEMMA SetsFinite ==
    ASSUME PgTypeInv, NEW b
    PROVE  /\ IsFiniteSet(threads) /\ Cardinality(threads) \in Nat
           /\ IsFiniteSet(Candidates(b)) /\ Cardinality(Candidates(b)) \in Nat
           /\ IsFiniteSet(Inserting(b)) /\ Cardinality(Inserting(b)) \in Nat
<1>1. threads \subseteq Clients /\ runs \in Seq(Run)
  BY DEF PgTypeInv, PgRunsTypeOK, RunsTypeOK
<1>2. IsFiniteSet(threads) /\ Inserting(b) \subseteq threads
  BY <1>1, FS_Subset, ClientsAssumption DEF Inserting
<1>3. IsFiniteSet(1 .. Len(runs)) /\ Candidates(b) \subseteq 1 .. Len(runs)
  BY <1>1, FS_Interval DEF Candidates
<1>4. IsFiniteSet(Candidates(b)) /\ IsFiniteSet(Inserting(b))
  BY <1>2, <1>3, FS_Subset
<1>5. QED
  BY <1>2, <1>4, FS_CardinalityType

\* Steps that neither revive a run nor are about to insert one.
LEMMA RoomShrinks ==
    ASSUME PgTypeInv, NEW b, Room(b), threads' = threads,
           Candidates(b)' \subseteq Candidates(b), Inserting(b)' \subseteq Inserting(b)
    PROVE  Room(b)'
<1>1. /\ Cardinality(Candidates(b)') <= Cardinality(Candidates(b))
      /\ Cardinality(Inserting(b)') <= Cardinality(Inserting(b))
      /\ IsFiniteSet(Candidates(b)') /\ IsFiniteSet(Inserting(b)')
  BY SetsFinite, FS_Subset
<1>2. Cardinality(Candidates(b)') \in Nat /\ Cardinality(Inserting(b)') \in Nat
  BY <1>1, FS_CardinalityType
<1>3. QED
  BY <1>1, <1>2, SetsFinite DEF Room

\* While the bot has no active run, every run that may come back is held by a
\* thread of its own, and the thread that looks is none of them.
LEMMA RoomForOne ==
    ASSUME PgTypeInv, NEW b \in Bots, NEW c \in threads, req[c] = Idle, NoActiveRun(b)
    PROVE  Cardinality(Candidates(b)) + Cardinality(Inserting(b)) + 1 <= Cardinality(threads)
<1> DEFINE holders == {d \in threads : Restarting(d) /\ req[d].run \in Candidates(b)}
           held == [d \in holders |-> req[d].run]
<1>1. /\ IsFiniteSet(threads) /\ holders \subseteq threads /\ IsFiniteSet(holders)
      /\ IsFiniteSet(Inserting(b)) /\ IsFiniteSet(Candidates(b))
      /\ Cardinality(Candidates(b)) \in Nat /\ Cardinality(Inserting(b)) \in Nat
  BY SetsFinite, FS_Subset
<1>2. \A r \in Candidates(b) : \E d \in holders : req[d].run = r
  BY DEF NoActiveRun, ActiveRuns, Candidates
<1>3. held \in Surjection(holders, Candidates(b))
  BY <1>2 DEF Surjection
<1>4. Cardinality(Candidates(b)) <= Cardinality(holders) /\ Cardinality(holders) \in Nat
  BY <1>1, <1>3, FS_Surjection, FS_CardinalityType
<1>5. holders \cap Inserting(b) = {} /\ c \notin holders \cup Inserting(b)
  BY DEF Inserting, Restarting, Idle
<1>6. /\ IsFiniteSet(holders \cup Inserting(b))
      /\ Cardinality(holders \cup Inserting(b)) = Cardinality(holders) + Cardinality(Inserting(b))
  <2>1. Cardinality(holders \cap Inserting(b)) = 0
    BY <1>5, FS_EmptySet
  <2> HIDE DEF holders
  <2>2. /\ IsFiniteSet(holders \cup Inserting(b))
        /\ Cardinality(holders \cup Inserting(b))
              = Cardinality(holders) + Cardinality(Inserting(b))
                    - Cardinality(holders \cap Inserting(b))
    BY <1>1, FS_Union
  <2>3. QED
    BY <1>1, <1>4, <2>1, <2>2
<1> HIDE DEF holders
<1>7. Cardinality((holders \cup Inserting(b)) \cup {c})
          = Cardinality(holders) + Cardinality(Inserting(b)) + 1
  BY <1>5, <1>6, FS_AddElement
<1>8. (holders \cup Inserting(b)) \cup {c} \subseteq threads
  BY <1>1 DEF Inserting
<1>9. Cardinality((holders \cup Inserting(b)) \cup {c}) <= Cardinality(threads)
  BY <1>1, <1>8, FS_Subset
<1>10. Cardinality(threads) \in Nat
  BY <1>1, FS_CardinalityType
<1>11. QED
  BY <1>1, <1>4, <1>7, <1>9, <1>10

\* A new run takes the place that was kept for it.
LEMMA RoomTaken ==
    ASSUME PgTypeInv, NEW b, threads' = threads, NEW n,
           Candidates(b)' \subseteq Candidates(b) \cup {n},
           \/ /\ Cardinality(Candidates(b)) + Cardinality(Inserting(b)) + 1 <= Cardinality(threads)
              /\ Inserting(b)' \subseteq Inserting(b)
           \/ \E c \in Inserting(b) : Room(b) /\ Inserting(b)' \subseteq Inserting(b) \ {c}
    PROVE  Room(b)'
<1>1. /\ Cardinality(Candidates(b)) \in Nat /\ Cardinality(Inserting(b)) \in Nat
      /\ IsFiniteSet(Inserting(b)) /\ IsFiniteSet(Candidates(b)) /\ Cardinality(threads) \in Nat
  BY SetsFinite
<1>2. /\ IsFiniteSet(Candidates(b) \cup {n})
      /\ Cardinality(Candidates(b) \cup {n}) <= Cardinality(Candidates(b)) + 1
  <2>1. /\ IsFiniteSet(Candidates(b) \cup {n})
        /\ Cardinality(Candidates(b) \cup {n})
              = IF n \in Candidates(b) THEN Cardinality(Candidates(b)) ELSE Cardinality(Candidates(b)) + 1
    BY <1>1, FS_AddElement
  <2>2. QED
    BY <1>1, <2>1
<1>3. /\ Cardinality(Candidates(b)') <= Cardinality(Candidates(b) \cup {n})
      /\ IsFiniteSet(Candidates(b)')
  BY <1>2, FS_Subset
<1>4. /\ Cardinality(Candidates(b)') \in Nat /\ Cardinality(Candidates(b) \cup {n}) \in Nat
  BY <1>2, <1>3, FS_CardinalityType
<1>5. Cardinality(Candidates(b)') <= Cardinality(Candidates(b)) + 1
  BY <1>1, <1>2, <1>3, <1>4
<1>6. CASE /\ Cardinality(Candidates(b)) + Cardinality(Inserting(b)) + 1 <= Cardinality(threads)
           /\ Inserting(b)' \subseteq Inserting(b)
  <2>1. IsFiniteSet(Inserting(b)') /\ Cardinality(Inserting(b)') <= Cardinality(Inserting(b))
    BY <1>1, <1>6, FS_Subset
  <2>2. Cardinality(Inserting(b)') \in Nat
    BY <2>1, FS_CardinalityType
  <2>3. QED
    BY <1>1, <1>4, <1>5, <1>6, <2>1, <2>2 DEF Room
<1>7. ASSUME NEW c \in Inserting(b), Room(b), Inserting(b)' \subseteq Inserting(b) \ {c}
      PROVE  Room(b)'
  <2>1. /\ IsFiniteSet(Inserting(b) \ {c})
        /\ Cardinality(Inserting(b) \ {c}) = Cardinality(Inserting(b)) - 1
    BY <1>1, FS_RemoveElement
  <2>2. /\ IsFiniteSet(Inserting(b)')
        /\ Cardinality(Inserting(b)') <= Cardinality(Inserting(b) \ {c})
    BY <1>7, <2>1, FS_Subset
  <2>3. Cardinality(Inserting(b)') \in Nat
    BY <2>2, FS_CardinalityType
  <2>4. QED
    BY <1>1, <1>4, <1>5, <1>7, <2>1, <2>2, <2>3 DEF Room
<1>8. QED
  BY <1>6, <1>7

\* The thread that found no active run is counted from then on.
LEMMA RoomKept ==
    ASSUME PgTypeInv, NEW b \in Bots, NEW c \in threads, req[c] = Idle, NoActiveRun(b),
           threads' = threads, Candidates(b)' \subseteq Candidates(b),
           Inserting(b)' \subseteq Inserting(b) \cup {c}
    PROVE  Room(b)'
<1>1. /\ Cardinality(Candidates(b)) \in Nat /\ Cardinality(Inserting(b)) \in Nat
      /\ IsFiniteSet(Inserting(b)) /\ IsFiniteSet(Candidates(b)) /\ Cardinality(threads) \in Nat
  BY SetsFinite
<1>2. /\ IsFiniteSet(Inserting(b) \cup {c})
      /\ Cardinality(Inserting(b) \cup {c}) <= Cardinality(Inserting(b)) + 1
  <2>1. /\ IsFiniteSet(Inserting(b) \cup {c})
        /\ Cardinality(Inserting(b) \cup {c})
              = IF c \in Inserting(b) THEN Cardinality(Inserting(b)) ELSE Cardinality(Inserting(b)) + 1
    BY <1>1, FS_AddElement
  <2>2. QED
    BY <1>1, <2>1
<1>3. /\ Cardinality(Candidates(b)') <= Cardinality(Candidates(b)) /\ IsFiniteSet(Candidates(b)')
      /\ Cardinality(Inserting(b)') <= Cardinality(Inserting(b) \cup {c})
      /\ IsFiniteSet(Inserting(b)')
  BY <1>1, <1>2, FS_Subset
<1>4. /\ Cardinality(Candidates(b)') \in Nat /\ Cardinality(Inserting(b)') \in Nat
      /\ Cardinality(Inserting(b) \cup {c}) \in Nat
  BY <1>2, <1>3, FS_CardinalityType
<1>5. QED
  BY <1>1, <1>2, <1>3, <1>4, RoomForOne DEF Room

LEMMA BoundKept == BoundInv /\ [PgRunsNext]_pgRunVars => BoundInv'
<1>1. SUFFICES ASSUME BoundInv, [PgRunsNext]_pgRunVars, NEW b \in Bots PROVE Room(b)'
  BY SerialKept DEF BoundInv
<1>2. /\ PgTypeInv /\ Room(b) /\ runs \in Seq(Run) /\ req \in [Clients -> {Idle} \cup Requests]
      /\ (backend = "memory" => \A d \in Clients : req[d].at \in {"idle", "sync"})
      /\ threads \subseteq Clients
  BY <1>1 DEF BoundInv, SerialInv, PgTypeInv, PgRunsTypeOK, RunsTypeOK
<1>3. CASE UNCHANGED pgRunVars
  <2>1. /\ Candidates(b)' = Candidates(b) /\ Inserting(b)' = Inserting(b) /\ threads' = threads
    BY <1>3 DEF pgRunVars, Candidates, Inserting, IsActive, Restarting
  <2>2. QED
    BY <1>2, <2>1, RoomShrinks
<1>4. ASSUME NEW c \in threads, RunsStep(c) PROVE Room(b)'
  <2>1. /\ threads' = threads /\ c \in Clients
        /\ \A d \in Clients \ {c} : req'[d] = req[d]
        /\ \A x : GoTo(c, x) => req'[c] = x
    <3>1. threads' = threads /\ \E x : GoTo(c, x)
      BY <1>4 DEF RunsStep, MemoryCreate, MemoryStart, MemoryStop, BeginCreate, InsertRun,
                  BeginStart, CheckRunning, WriteRunning, BeginStop, WriteStopped, ReadBack,
                  SyncRunState, Abandon
    <3>2. QED
      BY <1>2, <3>1 DEF GoTo
  <2>2. ASSUME runs' = runs, req'[c].at \notin {"insert_run", "check_running", "write_running"}
        PROVE  Room(b)'
    <3>1. /\ Candidates(b)' \subseteq Candidates(b) /\ Inserting(b)' \subseteq Inserting(b)
      BY <1>2, <2>1, <2>2 DEF Candidates, Inserting, IsActive, Restarting
    <3>2. QED
      BY <1>2, <2>1, <3>1, RoomShrinks
  <2>3. ASSUME NEW r \in DOMAIN runs, NEW s \in RunStatuses,
               runs' = [runs EXCEPT ![r].status = s],
               s = "stopped" \/ r \in Candidates(runs[r].bot),
               req'[c].at \notin {"insert_run", "check_running", "write_running"}
        PROVE  Room(b)'
    <3>1. /\ DOMAIN runs' = DOMAIN runs /\ \A q \in DOMAIN runs : runs'[q].bot = runs[q].bot
          /\ \A q \in DOMAIN runs \ {r} : runs'[q] = runs[q]
          /\ runs'[r].status = s
      BY <1>2, <2>3, RunRewritten
    <3>2. IsActive(r)' => r \in Candidates(runs[r].bot)
      BY <2>3, <3>1 DEF IsActive, ActiveStatuses
    <3>3. /\ Candidates(b)' \subseteq Candidates(b) /\ Inserting(b)' \subseteq Inserting(b)
      BY <1>2, <2>1, <2>3, <3>1, <3>2 DEF Candidates, Inserting, IsActive, Restarting
    <3>4. QED
      BY <1>2, <2>1, <3>3, RoomShrinks
  <2>4. ASSUME NEW a \in Bots, MemoryCreate(c, a) PROVE Room(b)'
    <3>1. /\ runs' = Append(runs, [bot |-> a, status |-> "created"]) /\ req'[c].at = "sync"
          /\ NoActiveRun(a) /\ req[c] = Idle
      BY <2>1, <2>4 DEF MemoryCreate, CreateStrategyRun, Begins
    <3>2. /\ Candidates(b)' \subseteq Candidates(b) \cup {Len(runs) + 1}
          /\ a # b => Candidates(b)' \subseteq Candidates(b)
          /\ Inserting(b)' \subseteq Inserting(b)
      BY <1>2, <2>1, <3>1, RunAppended DEF Candidates, Inserting, IsActive, Restarting
    <3>3. CASE a = b
      BY <1>2, <2>1, <3>1, <3>2, <3>3, RoomForOne, RoomTaken
    <3>4. CASE a # b
      BY <1>2, <2>1, <3>2, <3>4, RoomShrinks
    <3>5. QED
      BY <3>3, <3>4
  <2>5. ASSUME NEW r \in 1 .. MaxRuns, MemoryStart(c, r) \/ MemoryStop(c, r) PROVE Room(b)'
    <3>1. PICK s \in RunStatuses : runs' = [runs EXCEPT ![r].status = s] /\ req'[c].at = "sync"
      BY <2>1, <2>5 DEF MemoryStart, MemoryStop, StartStrategyRun, StopStrategyRun, RunStatuses
    <3>2. r \in DOMAIN runs /\ r \in Candidates(runs[r].bot)
      BY <2>5 DEF MemoryStart, MemoryStop, StartStrategyRun, StopStrategyRun, Candidates,
                  IsActive, ActiveStatuses
    <3>3. QED
      BY <2>3, <3>1, <3>2
  <2>6. ASSUME NEW a \in Bots, BeginCreate(c, a) PROVE Room(b)'
    <3>1. /\ runs' = runs /\ req'[c] = [at |-> "insert_run", bot |-> a]
          /\ NoActiveRun(a) /\ req[c] = Idle
      BY <2>1, <2>6 DEF BeginCreate, Begins
    <3>2. /\ Candidates(b)' \subseteq Candidates(b)
          /\ Inserting(b)' \subseteq Inserting(b) \cup {c}
          /\ a # b => Inserting(b)' \subseteq Inserting(b)
      BY <1>2, <2>1, <3>1 DEF Candidates, Inserting, IsActive, Restarting
    <3>3. CASE a = b
      BY <1>2, <2>1, <3>1, <3>2, <3>3, RoomKept
    <3>4. CASE a # b
      BY <1>2, <2>1, <3>2, <3>4, RoomShrinks
    <3>5. QED
      BY <3>3, <3>4
  <2>7. CASE InsertRun(c)
    <3>1. /\ runs' = Append(runs, [bot |-> req[c].bot, status |-> "created"])
          /\ req'[c].at = "read_back" /\ req[c].at = "insert_run" /\ req[c].bot \in Bots
      BY <1>2, <2>1, <2>7, RequestFields DEF InsertRun, Ready
    <3>2. /\ Candidates(b)' \subseteq Candidates(b) \cup {Len(runs) + 1}
          /\ req[c].bot # b => Candidates(b)' \subseteq Candidates(b)
          /\ Inserting(b)' \subseteq Inserting(b) \ {c}
      BY <1>2, <2>1, <3>1, RunAppended DEF Candidates, Inserting, IsActive, Restarting
    <3>3. CASE req[c].bot = b
      <4>1. c \in Inserting(b)
        BY <3>1, <3>3 DEF Inserting
      <4>2. QED
        BY <1>2, <2>1, <3>2, <4>1, RoomTaken
    <3>4. CASE req[c].bot # b
      BY <1>2, <2>1, <3>2, <3>4, RoomShrinks
    <3>5. QED
      BY <3>3, <3>4
  <2>8. ASSUME NEW r \in 1 .. MaxRuns, BeginStart(c, r) PROVE Room(b)'
    <3>1. /\ runs' = runs /\ req'[c] = [at |-> "check_running", run |-> r]
          /\ r \in DOMAIN runs /\ IsActive(r)
      BY <2>1, <2>8 DEF BeginStart, IsActive, ActiveStatuses
    <3>2. /\ Candidates(b)' \subseteq Candidates(b) /\ Inserting(b)' \subseteq Inserting(b)
      BY <1>2, <2>1, <3>1 DEF Candidates, Inserting, IsActive, Restarting
    <3>3. QED
      BY <1>2, <2>1, <3>2, RoomShrinks
  <2>9. CASE CheckRunning(c)
    <3>1. /\ runs' = runs /\ req[c].at = "check_running"
          /\ req'[c] \in {Idle, [at |-> "write_running", run |-> req[c].run]}
      BY <2>1, <2>9 DEF CheckRunning, Ready
    <3>2. /\ Candidates(b)' \subseteq Candidates(b) /\ Inserting(b)' \subseteq Inserting(b)
      BY <1>2, <2>1, <3>1 DEF Candidates, Inserting, IsActive, Restarting, Idle
    <3>3. QED
      BY <1>2, <2>1, <3>2, RoomShrinks
  <2>10. CASE WriteRunning(c)
    <3>1. /\ runs' = [runs EXCEPT ![req[c].run].status = "running"]
          /\ req'[c].at = "read_back" /\ req[c].at = "write_running"
          /\ req[c].run \in DOMAIN runs
      BY <1>2, <2>1, <2>10, RequestFields DEF WriteRunning, Ready
    <3>2. req[c].run \in Candidates(runs[req[c].run].bot)
      BY <3>1 DEF Candidates, Restarting
    <3>3. QED
      BY <2>3, <3>1, <3>2 DEF RunStatuses
  <2>11. CASE WriteStopped(c)
    <3>1. /\ runs' = [runs EXCEPT ![req[c].run].status = "stopped"]
          /\ req'[c].at = "read_back" /\ req[c].run \in DOMAIN runs
      BY <1>2, <2>1, <2>11, RequestFields DEF WriteStopped, Ready
    <3>2. QED
      BY <2>3, <3>1 DEF RunStatuses
  <2>12. ASSUME NEW r \in 1 .. MaxRuns, BeginStop(c, r) PROVE Room(b)'
    <3>1. runs' = runs /\ req'[c] = [at |-> "write_stopped", run |-> r]
      BY <2>1, <2>12 DEF BeginStop
    <3>2. QED
      BY <2>2, <3>1
  <2>13. CASE ReadBack(c)
    <3>1. runs' = runs /\ req'[c].at = "sync"
      BY <2>1, <2>13 DEF ReadBack
    <3>2. QED
      BY <2>2, <3>1
  <2>14. CASE SyncRunState(c) \/ (Abandon(c) /\ UNCHANGED <<runs, latest, mirror>>)
    <3>1. runs' = runs /\ req'[c].at = "idle"
      BY <2>1, <2>14 DEF SyncRunState, Abandon, Idle
    <3>2. QED
      BY <2>2, <3>1
  <2>15. QED
    BY <1>4, <2>4, <2>5, <2>6, <2>7, <2>8, <2>9, <2>10, <2>11, <2>12, <2>13, <2>14 DEF RunsStep
<1>5. QED
  BY <1>1, <1>3, <1>4 DEF PgRunsNext

\* However many threads work on a bot's runs in PostgreSQL, and whatever they
\* read before the others wrote: it never has more active runs than there are
\* threads.
THEOREM ActiveRunsPerThread == PgRunsSpec => []ActiveRunsBounded
<1>1. PgRunsInit => \A b \in Bots : Room(b)
  <2>1. SUFFICES ASSUME PgRunsInit, NEW b \in Bots PROVE Room(b)
    OBVIOUS
  <2>2. runs = << >> /\ threads \subseteq Clients /\ \A c \in Clients : req[c] = Idle
    BY <2>1 DEF PgRunsInit, RunsInit, HandlersInit
  <2>3. Candidates(b) = {} /\ Inserting(b) = {}
    BY <2>2 DEF Candidates, Inserting, Idle
  <2>4. Cardinality(threads) \in Nat
    BY <2>2, ClientsAssumption, FS_Subset, FS_CardinalityType
  <2>5. Cardinality(Candidates(b)) = 0 /\ Cardinality(Inserting(b)) = 0
    BY <2>3, FS_EmptySet
  <2>6. QED
    BY <2>4, <2>5 DEF Room
<1>2. BoundInv => ActiveRunsBounded
  <2>1. SUFFICES ASSUME BoundInv, NEW b \in Bots
                 PROVE  Cardinality(ActiveRuns(b)) <= Cardinality(threads)
    BY DEF ActiveRunsBounded
  <2>2. PgTypeInv /\ Room(b) /\ ActiveRuns(b) \subseteq Candidates(b)
    BY <2>1 DEF BoundInv, SerialInv, ActiveRuns, Candidates
  <2>3. /\ Cardinality(ActiveRuns(b)) <= Cardinality(Candidates(b))
        /\ IsFiniteSet(ActiveRuns(b))
    BY <2>2, SetsFinite, FS_Subset
  <2>4. Cardinality(ActiveRuns(b)) \in Nat
    BY <2>3, FS_CardinalityType
  <2>5. QED
    BY <2>2, <2>3, <2>4, SetsFinite DEF Room
<1>3. SerialInv /\ (\A b \in Bots : Room(b)) <=> BoundInv
  BY DEF BoundInv
<1>4. PgRunsSpec => []BoundInv
  BY <1>1, <1>3, BoundKept, SerialInvariant, PTL DEF PgRunsSpec
<1>5. QED
  BY <1>2, <1>4, PTL

-----------------------------------------------------------------------------
(* ConfigRollout: what an assignment says of the worker                      *)

ConfigAssignment == [version : Nat, policy : Policies, status : {"pending"} \cup AckStatuses]

VersionsGrow ==
    /\ versions' \in Seq(Contents) /\ DOMAIN versions \subseteq DOMAIN versions'
    /\ \A v \in DOMAIN versions : versions'[v] = versions[v]

\* Until the worker acknowledges it, what it did is true of the newest
\* assignment, if the ones before were answered in turn.
AnswerAgrees(b) ==
    answer[b] # "none" =>
        /\ HasAssignment(b)
        /\ InStep(b) => /\ Latest(b).status = "pending"
                        /\ answer[b] = "applied" => running[b] = Latest(b).version

AppliedRuns(b) ==
    running[b] # 0 /\ InStep(b) /\ Latest(b).status = "applied" => running[b] = Latest(b).version

HotIsHot(b) ==
    Serial /\ running[b] # 0 /\ AllApplied(b) /\ Latest(b).policy # "restart_required"
    => Changed(versions[running[b]], versions[Latest(b).version]) \subseteq HotSections

\* All there is to know about a bot and its worker.
BotOK(b) ==
    /\ assignments[b] \in Seq(ConfigAssignment)
    /\ \A k \in 1 .. Len(assignments[b]) : assignments[b][k].version \in DOMAIN versions
    /\ running[b] # 0 => HasAssignment(b) /\ running[b] \in DOMAIN versions
    /\ answer[b] \in {"none"} \cup AckStatuses
    /\ AnswerAgrees(b) /\ AppliedRuns(b) /\ HotIsHot(b)

LEMMA LatestAssignment ==
    ASSUME NEW b, assignments[b] \in Seq(ConfigAssignment), HasAssignment(b)
    PROVE  /\ Len(assignments[b]) \in Nat \ {0}
           /\ Latest(b) = assignments[b][Len(assignments[b])] /\ Latest(b) \in ConfigAssignment
BY DEF HasAssignment, Latest

\* A bot that a step leaves alone.
LEMMA BotAlone ==
    ASSUME NEW b, BotOK(b), VersionsGrow, Serial' => Serial, versions \in Seq(Contents),
           assignments'[b] = assignments[b], running'[b] = running[b], answer'[b] = answer[b]
    PROVE  BotOK(b)'
<1>1. AnswerAgrees(b)' /\ AppliedRuns(b)'
  BY DEF BotOK, AnswerAgrees, AppliedRuns, HasAssignment, InStep, Latest
<1>2. HotIsHot(b)'
  <2>1. SUFFICES ASSUME Serial', running'[b] # 0, AllApplied(b)', Latest(b)'.policy # "restart_required"
                 PROVE  Changed(versions'[running'[b]], versions'[Latest(b)'.version]) \subseteq HotSections
    BY DEF HotIsHot
  <2>2. Serial /\ running[b] # 0 /\ AllApplied(b) /\ Latest(b).policy # "restart_required"
        /\ Latest(b)' = Latest(b) /\ HasAssignment(b)
    BY <2>1 DEF BotOK, AllApplied, Latest
  <2>3. running[b] \in DOMAIN versions /\ Latest(b).version \in DOMAIN versions
    BY <2>2, LatestAssignment DEF BotOK
  <2>4. versions'[running'[b]] = versions[running[b]]
        /\ versions'[Latest(b)'.version] = versions[Latest(b).version]
    BY <2>2, <2>3 DEF VersionsGrow
  <2>5. QED
    BY <2>2, <2>4 DEF BotOK, HotIsHot
<1>3. QED
  BY <1>1, <1>2 DEF BotOK, VersionsGrow, HasAssignment

\* A worker that has nothing to answer and runs nothing or the newest assignment.
LEMMA FreshWorker ==
    ASSUME NEW b, assignments'[b] \in Seq(ConfigAssignment),
           \A k \in 1 .. Len(assignments'[b]) : assignments'[b][k].version \in DOMAIN versions',
           answer'[b] = "none",
           running'[b] # 0 => HasAssignment(b)' /\ running'[b] = Latest(b)'.version
    PROVE  BotOK(b)'
<1>1. running'[b] # 0 => running'[b] \in DOMAIN versions'
  BY DEF HasAssignment, Latest
<1>2. HotIsHot(b)'
  BY DEF HotIsHot, Changed
<1>3. QED
  BY <1>1, <1>2 DEF BotOK, AnswerAgrees, AppliedRuns

\* A worker that starts; the default assignment is the one it starts with.
LEMMA StartKeeps ==
    ASSUME NEW b \in Workers, BotOK(b), versions \in Seq(Contents), UNCHANGED versions,
           assignments' = DefaultAssignment(b) \/ UNCHANGED assignments,
           DOMAIN assignments = Workers, answer'[b] = "none",
           running'[b] # 0 => HasAssignment(b)' /\ running'[b] = Latest(b)'.version
    PROVE  BotOK(b)'
<1>1. CASE assignments'[b] = assignments[b]
  BY <1>1, FreshWorker DEF BotOK
<1>2. CASE /\ versions # << >>
           /\ assignments'[b] = <<[version |-> Len(versions), policy |-> "restart_required",
                                   status |-> "applied"]>>
  <2> DEFINE a == [version |-> Len(versions), policy |-> "restart_required", status |-> "applied"]
  <2>1. Len(versions) \in Nat /\ Len(versions) \in DOMAIN versions
    BY <1>2
  <2>2. a \in ConfigAssignment /\ a.version \in DOMAIN versions
    BY <2>1 DEF ConfigAssignment, Policies, AckStatuses
  <2> HIDE DEF a
  <2>3. assignments'[b] = <<a>>
    BY <1>2 DEF a
  <2>4. assignments'[b] \in Seq(ConfigAssignment) /\ Len(assignments'[b]) = 1 /\ assignments'[b][1] = a
    BY <2>2, <2>3
  <2>5. QED
    BY <2>2, <2>4, FreshWorker
<1>3. QED
  BY <1>1, <1>2 DEF DefaultAssignment

\* An assignment that follows ones that were all applied is compared with what
\* the worker runs.
LEMMA AssignKeeps ==
    ASSUME NEW b, BotOK(b), NEW v \in DOMAIN versions, NEW policy \in Policies,
           versions \in Seq(Contents), UNCHANGED versions, Serial' => Serial,
           Serial => policy = AssignmentPolicy(v, AssignedVersion(b)),
           assignments'[b] = Append(assignments[b], NewAssignment(v, policy)),
           running'[b] = running[b], answer'[b] = answer[b]
    PROVE  BotOK(b)'
<1> DEFINE a == NewAssignment(v, policy)
           n == Len(assignments[b])
<1>1. a \in ConfigAssignment /\ a.status = "pending" /\ a.version = v /\ a.policy = policy
  BY DEF NewAssignment, ConfigAssignment
<1> HIDE DEF a
<1>2. assignments'[b] = Append(assignments[b], a) /\ assignments[b] \in Seq(ConfigAssignment)
  BY DEF a, BotOK
<1>3. /\ n \in Nat /\ assignments'[b] \in Seq(ConfigAssignment) /\ Len(assignments'[b]) = n + 1
      /\ assignments'[b][n + 1] = a /\ \A k \in 1 .. n : assignments'[b][k] = assignments[b][k]
  BY <1>1, <1>2
<1>4. Latest(b)' = a /\ HasAssignment(b)'
  BY <1>3 DEF Latest, HasAssignment
<1>5. /\ InStep(b)' => InStep(b) /\ (HasAssignment(b) => Latest(b).status # "pending")
      /\ AllApplied(b)' => InStep(b) /\ (HasAssignment(b) => Latest(b).status = "applied")
  <2>1. HasAssignment(b) => n \in 1 .. n /\ Latest(b) = assignments[b][n]
    BY <1>2, <1>3, LatestAssignment
  <2>2. \A k \in 1 .. n : assignments'[b][k] = assignments[b][k]
    BY <1>3
  <2>3. Len(assignments'[b]) - 1 = n
    BY <1>3
  <2> HIDE DEF n
  <2>4. \A k \in 1 .. Len(assignments[b]) - 1 : k \in 1 .. n
    BY <1>3 DEF n
  <2>5. QED
    BY <2>1, <2>2, <2>3, <2>4 DEF InStep, AllApplied, AckStatuses
<1>6. AnswerAgrees(b)' /\ AppliedRuns(b)'
  BY <1>1, <1>4, <1>5 DEF BotOK, AnswerAgrees, AppliedRuns
<1>7. HotIsHot(b)'
  <2>1. SUFFICES ASSUME Serial', running'[b] # 0, AllApplied(b)', Latest(b)'.policy # "restart_required"
                 PROVE  Changed(versions'[running'[b]], versions'[Latest(b)'.version]) \subseteq HotSections
    BY DEF HotIsHot
  <2>2. HasAssignment(b) /\ running[b] = Latest(b).version
    BY <1>5, <2>1 DEF BotOK, AppliedRuns
  <2>3. policy = AssignmentPolicy(v, running[b])
    BY <2>1, <2>2 DEF AssignedVersion
  <2>4. policy # "restart_required" /\ running[b] \in DOMAIN versions
    BY <1>1, <1>4, <2>1 DEF BotOK
  <2>5. Changed(versions[running[b]], versions[v]) \subseteq HotSections
    BY <2>3, <2>4 DEF AssignmentPolicy, Policy
  <2>6. QED
    BY <1>1, <1>4, <2>5
<1>8. \A k \in 1 .. n + 1 : assignments'[b][k].version \in DOMAIN versions'
  <2>1. \A k \in 1 .. n : assignments'[b][k].version \in DOMAIN versions'
    BY <1>3 DEF BotOK
  <2>2. assignments'[b][n + 1].version \in DOMAIN versions'
    BY <1>1, <1>3
  <2>3. QED
    BY <1>3, <2>1, <2>2
<1>9. QED
  BY <1>3, <1>4, <1>6, <1>7, <1>8 DEF BotOK

\* The answer turns the newest assignment, whichever it is, from pending into
\* what the worker did.
LEMMA AckKeeps ==
    ASSUME NEW b \in Workers, BotOK(b), assignments = [x \in Workers |-> assignments[x]],
           versions \in Seq(Contents), UNCHANGED versions, Serial' => Serial,
           answer[b] # "none", assignments' = Acked(b, answer[b]),
           running'[b] = running[b], answer'[b] = "none"
    PROVE  BotOK(b)' /\ \A a \in Workers \ {b} : assignments'[a] = assignments[a]
<1> DEFINE n == Len(assignments[b])
           s == answer[b]
           old == assignments[b][n]
           new == [old EXCEPT !.status = s]
           list == [assignments[b] EXCEPT ![n] = new]
<1>1. HasAssignment(b) /\ assignments[b] \in Seq(ConfigAssignment) /\ s \in AckStatuses
  BY DEF BotOK, AnswerAgrees
<1>2. n \in Nat \ {0} /\ n \in 1 .. n /\ old = Latest(b) /\ old \in ConfigAssignment
  <2>1. n \in Nat \ {0} /\ Latest(b) = old /\ Latest(b) \in ConfigAssignment
    BY <1>1, LatestAssignment
  <2>2. QED
    BY <2>1
<1>3. new \in ConfigAssignment /\ new.version = old.version /\ new.policy = old.policy /\ new.status = s
  BY <1>1, <1>2 DEF ConfigAssignment
<1>4. assignments' = [assignments EXCEPT ![b] = list]
  BY DEF Acked
<1> HIDE DEF old, new
<1>5. /\ list \in Seq(ConfigAssignment) /\ Len(list) = n /\ list[n] = new
      /\ \A k \in 1 .. n : k # n => list[k] = assignments[b][k]
  BY <1>1, <1>2, <1>3
<1> HIDE DEF list
<1>6. assignments'[b] = list /\ \A a \in Workers \ {b} : assignments'[a] = assignments[a]
  BY <1>4
<1>7. Latest(b)' = new /\ HasAssignment(b)'
  BY <1>2, <1>5, <1>6 DEF Latest, HasAssignment
<1>8. (InStep(b)' <=> InStep(b)) /\ (AllApplied(b)' <=> AllApplied(b))
  <2>1. \A k \in 1 .. n - 1 : list[k] = assignments[b][k]
    BY <1>2, <1>5
  <2>2. QED
    BY <1>5, <1>6, <2>1 DEF InStep, AllApplied
<1>9. AnswerAgrees(b)' /\ AppliedRuns(b)'
  BY <1>2, <1>3, <1>7, <1>8 DEF BotOK, AnswerAgrees, AppliedRuns
<1>10. HotIsHot(b)'
  BY <1>2, <1>3, <1>7, <1>8 DEF BotOK, HotIsHot
<1>11. \A k \in 1 .. Len(assignments'[b]) : assignments'[b][k].version \in DOMAIN versions'
  <2>1. TAKE k \in 1 .. Len(assignments'[b])
  <2>2. k \in 1 .. n
    BY <1>5, <1>6
  <2>3. CASE k = n
    BY <1>2, <1>3, <1>5, <1>6, <2>3 DEF BotOK, old
  <2>4. CASE k # n
    BY <1>5, <1>6, <2>2, <2>4 DEF BotOK
  <2>5. QED
    BY <2>3, <2>4
<1>12. QED
  BY <1>5, <1>6, <1>7, <1>9, <1>10, <1>11 DEF BotOK

\* The worker acts on the newest assignment, and has that to answer.
LEMMA ApplyKeeps ==
    ASSUME NEW b, BotOK(b), versions \in Seq(Contents), UNCHANGED versions, Serial' => Serial,
           assignments'[b] = assignments[b], HasAssignment(b), Latest(b).status = "pending",
           running[b] # 0, NEW status \in AckStatuses, answer'[b] = status,
           running'[b] = IF status = "applied" THEN Latest(b).version ELSE running[b]
    PROVE  BotOK(b)'
<1>1. Latest(b)' = Latest(b) /\ HasAssignment(b)' /\ Latest(b).version \in DOMAIN versions
  BY LatestAssignment DEF BotOK, Latest, HasAssignment
<1>2. AnswerAgrees(b)' /\ AppliedRuns(b)'
  BY <1>1 DEF AnswerAgrees, AppliedRuns
<1>3. HotIsHot(b)'
  <2>1. CASE status = "applied"
    BY <1>1, <2>1 DEF HotIsHot, Changed
  <2>2. CASE status # "applied"
    BY <1>1, <2>2 DEF BotOK, HotIsHot, AllApplied
  <2>3. QED
    BY <2>1, <2>2
<1>4. QED
  BY <1>1, <1>2, <1>3 DEF BotOK, AckStatuses

\* What a request in flight has read and what it does next.
AboutBot == {"insert_default", "read_registered", "insert_assignment", "emit_alert", "read_acked"}
RequestOK(c) ==
    /\ req[c].at \in AboutBot => req[c].bot \in Workers
    /\ req[c].at = "insert_version" =>
           req[c].version \in 1 .. Len(versions) + 1 /\ req[c].content \in Contents
    /\ req[c].at = "insert_assignment" =>
           /\ req[c].version \in DOMAIN versions /\ req[c].policy \in Policies
           /\ Serial => req[c].policy = AssignmentPolicy(req[c].version, AssignedVersion(req[c].bot))
    /\ req[c] # Idle => c \in threads /\ backend # "memory"

Shaped ==
    /\ assignments = [b \in Workers |-> assignments[b]]
    /\ running = [b \in Workers |-> running[b]] /\ answer = [b \in Workers |-> answer[b]]

ConfigInv ==
    /\ versions \in Seq(Contents) /\ threads \subseteq Clients /\ Shaped
    /\ req = [c \in Clients |-> req[c]]
    /\ \A b \in Workers : BotOK(b)
    /\ \A c \in Clients : RequestOK(c)

\* A step that is about one bot.
AboutOne(b) ==
    /\ Shaped' /\ VersionsGrow /\ UNCHANGED <<backend, threads>>
    /\ \A a \in Workers \ {b} :
           assignments'[a] = assignments[a] /\ running'[a] = running[a] /\ answer'[a] = answer[a]

\* One client moves, or none; with requests that do not overlap the others are idle.
LEMMA ClientsKept ==
    ASSUME ConfigInv, VersionsGrow, UNCHANGED <<backend, threads>>,
           NEW c \in threads, NEW x, GoTo(c, x), RequestOK(c)'
    PROVE  req' = [d \in Clients |-> req'[d]] /\ \A d \in Clients : RequestOK(d)'
<1>1. c \in Clients /\ threads \in SUBSET Clients
  BY DEF ConfigInv
<1>2. req' = [d \in Clients |-> req'[d]] /\ \A d \in Clients \ {c} : req'[d] = req[d]
  BY <1>1 DEF ConfigInv, GoTo
<1>3. ASSUME NEW d \in Clients, d # c PROVE RequestOK(d)'
  <2>1. req'[d] = req[d] /\ RequestOK(d)
    BY <1>2, <1>3 DEF ConfigInv
  <2>2. CASE req[d] = Idle
    BY <2>1, <2>2 DEF RequestOK, Idle, AboutBot
  <2>3. CASE req[d] # Idle
    <3>1. d \in threads /\ backend # "memory"
      BY <2>1, <2>3 DEF RequestOK
    <3>2. ~Serial'
      <4>1. SUFFICES ASSUME Serial' PROVE FALSE
        OBVIOUS
      <4>2. IsFiniteSet(threads) /\ Cardinality(threads) = 1
        BY <1>1, <3>1, <4>1, FS_Subset, ClientsAssumption DEF Serial
      <4>3. \E y : threads = {y}
        BY <4>2, FS_Singleton
      <4>4. QED
        BY <1>3, <3>1, <4>3
    <3>3. /\ req[d].at = "insert_version" => req[d].version \in 1 .. Len(versions') + 1
      BY <2>1 DEF RequestOK, VersionsGrow, ConfigInv
    <3>4. QED
      BY <2>1, <3>1, <3>2, <3>3 DEF RequestOK, VersionsGrow
  <2>4. QED
    BY <2>2, <2>3
<1>4. QED
  BY <1>2, <1>3

\* In memory no request is in flight.
LEMMA MemoryKept ==
    ASSUME ConfigInv, backend = "memory", UNCHANGED <<backend, req>>
    PROVE  req' = [d \in Clients |-> req'[d]] /\ \A d \in Clients : RequestOK(d)'
<1>1. \A d \in Clients : req'[d] = Idle
  BY DEF ConfigInv, RequestOK
<1>2. req' = [d \in Clients |-> req'[d]]
  BY DEF ConfigInv
<1>3. QED
  BY <1>1, <1>2 DEF RequestOK, Idle, AboutBot

LEMMA BotsKept ==
    ASSUME ConfigInv, NEW b \in Workers, AboutOne(b), BotOK(b)'
    PROVE  \A a \in Workers : BotOK(a)'
<1>1. Serial' => Serial
  BY DEF AboutOne, Serial
<1>2. ASSUME NEW a \in Workers, a # b PROVE BotOK(a)'
  BY <1>1, <1>2, BotAlone DEF ConfigInv, AboutOne
<1>3. QED
  BY <1>2

\* register_bot: the worker that starts runs what the response shows.
LEMMA RegisterKept ==
    ASSUME ConfigInv, NEW b \in Workers, UNCHANGED <<versions, backend, threads>>,
           assignments' = DefaultAssignment(b) \/ UNCHANGED assignments,
           NEW v, Starts(b, v), v # 0 => HasAssignment(b)' /\ v = Latest(b)'.version
    PROVE  AboutOne(b) /\ \A a \in Workers : BotOK(a)'
<1>1. VersionsGrow
  BY DEF ConfigInv, VersionsGrow
<1>2. /\ running'[b] = v /\ answer'[b] = "none"
      /\ \A a \in Workers \ {b} : running'[a] = running[a] /\ answer'[a] = answer[a]
      /\ running' = [a \in Workers |-> running'[a]] /\ answer' = [a \in Workers |-> answer'[a]]
  BY DEF Starts, ConfigInv, Shaped
<1>3. /\ \A a \in Workers \ {b} : assignments'[a] = assignments[a]
      /\ assignments' = [a \in Workers |-> assignments'[a]]
  BY DEF DefaultAssignment, ConfigInv, Shaped
<1>4. AboutOne(b)
  BY <1>1, <1>2, <1>3 DEF AboutOne, Shaped
<1>5. BotOK(b)'
  BY <1>2, StartKeeps DEF ConfigInv, Shaped
<1>6. QED
  BY <1>4, <1>5, BotsKept

\* assign_config: a new assignment, by a policy that is still right without overlap.
LEMMA AssignedKept ==
    ASSUME ConfigInv, NEW b \in Workers, UNCHANGED <<versions, backend, threads, botVars>>,
           NEW v \in DOMAIN versions, NEW policy \in Policies,
           Serial => policy = AssignmentPolicy(v, AssignedVersion(b)),
           Append1(b, NewAssignment(v, policy))
    PROVE  AboutOne(b) /\ \A a \in Workers : BotOK(a)'
<1>1. VersionsGrow /\ UNCHANGED <<running, answer>> /\ (Serial' => Serial)
  BY DEF ConfigInv, VersionsGrow, botVars, Serial
<1> DEFINE list == Append(assignments[b], NewAssignment(v, policy))
<1>2. assignments' = [assignments EXCEPT ![b] = list]
  BY DEF Append1
<1> HIDE DEF list
<1>3. /\ assignments'[b] = list /\ \A a \in Workers \ {b} : assignments'[a] = assignments[a]
      /\ assignments' = [a \in Workers |-> assignments'[a]]
  BY <1>2 DEF ConfigInv, Shaped
<1>4. AboutOne(b)
  BY <1>1, <1>3 DEF AboutOne, Shaped, ConfigInv
<1>5. BotOK(b)'
  BY <1>1, <1>3, AssignKeeps DEF ConfigInv, list
<1>6. QED
  BY <1>4, <1>5, BotsKept

\* acknowledge_config_assignment.
LEMMA AnswerKept ==
    ASSUME ConfigInv, NEW b \in Workers, WriteAnswer(b), UNCHANGED <<versions, backend, threads, running>>
    PROVE  AboutOne(b) /\ \A a \in Workers : BotOK(a)'
<1>1. VersionsGrow /\ (Serial' => Serial)
  BY DEF ConfigInv, VersionsGrow, Serial
<1>2. /\ answer'[b] = "none" /\ \A a \in Workers \ {b} : answer'[a] = answer[a]
      /\ answer' = [a \in Workers |-> answer'[a]] /\ running' = [a \in Workers |-> running'[a]]
  BY DEF WriteAnswer, ConfigInv, Shaped
<1>3. BotOK(b)' /\ \A a \in Workers \ {b} : assignments'[a] = assignments[a]
  BY <1>1, <1>2, AckKeeps DEF WriteAnswer, ConfigInv, Shaped
<1>4. assignments' = [a \in Workers |-> assignments'[a]]
  BY DEF WriteAnswer, Acked, ConfigInv, Shaped
<1>5. AboutOne(b)
  BY <1>1, <1>2, <1>3, <1>4 DEF AboutOne, Shaped
<1>6. QED
  BY <1>3, <1>5, BotsKept

\* create_config_version, or nothing that concerns a bot.
LEMMA VersionsKept ==
    ASSUME ConfigInv, VersionsGrow, UNCHANGED <<backend, threads, assignments, botVars>>
    PROVE  Shaped' /\ \A a \in Workers : BotOK(a)'
<1>1. UNCHANGED <<assignments, running, answer>> /\ (Serial' => Serial)
  BY DEF botVars, Serial
<1>2. Shaped'
  BY <1>1 DEF ConfigInv, Shaped
<1>3. QED
  BY <1>1, <1>2, BotAlone DEF ConfigInv

LEMMA VersionAdded ==
    ASSUME versions \in Seq(Contents), NEW content \in Contents, NEW v \in 1 .. Len(versions) + 1,
           v \notin DOMAIN versions,
           versions' = [w \in DOMAIN versions \cup {v} |-> IF w = v THEN content ELSE versions[w]]
    PROVE  VersionsGrow
<1> DEFINE n == Len(versions)
<1>1. n \in Nat /\ DOMAIN versions = 1 .. n /\ \A w \in 1 .. n : versions[w] \in Contents
  OBVIOUS
<1>2. v = n + 1
  BY <1>1
<1> HIDE DEF n
<1>3. DOMAIN versions \cup {v} = 1 .. n + 1
  BY <1>1, <1>2
<1>4. versions' = [w \in 1 .. n + 1 |-> IF w = v THEN content ELSE versions[w]]
  BY <1>3
<1>5. versions' \in [1 .. n + 1 -> Contents]
  BY <1>1, <1>2, <1>4
<1>6. versions' \in Seq(Contents) /\ DOMAIN versions' = 1 .. n + 1
  BY <1>1, <1>5
<1>7. \A w \in DOMAIN versions : versions'[w] = versions[w]
  BY <1>1, <1>2, <1>4
<1>8. QED
  BY <1>1, <1>6, <1>7 DEF VersionsGrow

\* The memory store serves each request in one step.
LEMMA MemoryStepKept ==
    ASSUME ConfigInv, NEW c \in threads, Begins(c, "memory"),
           \/ \E b \in Workers : \/ MemoryRegister(c, b) \/ MemoryAcknowledge(c, b)
                                 \/ \E v \in 1 .. MaxVersions : MemoryAssign(c, b, v)
           \/ \E content \in Contents : MemoryCreateVersion(c, content)
    PROVE  ConfigInv'
<1>1. UNCHANGED <<backend, threads, req>> /\ backend = "memory"
  BY DEF MemoryRegister, MemoryAcknowledge, MemoryAssign, MemoryCreateVersion, Begins
<1>2. ASSUME NEW b \in Workers, AboutOne(b), \A a \in Workers : BotOK(a)' PROVE ConfigInv'
  BY <1>1, <1>2, MemoryKept DEF ConfigInv, AboutOne, VersionsGrow
<1>3. ASSUME NEW b \in Workers, MemoryRegister(c, b) PROVE ConfigInv'
  <2> DEFINE v == IF HasAssignment(b) THEN AssignedVersion(b) ELSE Len(versions)
  <2>1. UNCHANGED versions /\ assignments' = DefaultAssignment(b) /\ Starts(b, v)
    BY <1>3 DEF MemoryRegister
  <2>2. v # 0 => HasAssignment(b)' /\ v = Latest(b)'.version
    <3>1. CASE HasAssignment(b)
      BY <2>1, <3>1 DEF DefaultAssignment, AssignedVersion, HasAssignment, Latest
    <3>2. CASE ~HasAssignment(b) /\ versions = << >>
      BY <3>2
    <3>3. CASE ~HasAssignment(b) /\ versions # << >>
      <4> DEFINE a == [version |-> Len(versions), policy |-> "restart_required", status |-> "applied"]
      <4>1. assignments'[b] = <<a>>
        BY <2>1, <3>3 DEF DefaultAssignment, ConfigInv, Shaped
      <4>2. a.version = Len(versions)
        OBVIOUS
      <4> HIDE DEF a
      <4>3. Latest(b)' = a /\ HasAssignment(b)'
        BY <4>1 DEF Latest, HasAssignment
      <4>4. QED
        BY <3>3, <4>2, <4>3
    <3>4. QED
      BY <3>1, <3>2, <3>3
  <2> HIDE DEF v
  <2>3. QED
    BY <1>1, <1>2, <2>1, <2>2, RegisterKept
<1>4. ASSUME NEW b \in Workers, MemoryAcknowledge(c, b) PROVE ConfigInv'
  BY <1>1, <1>2, <1>4, AnswerKept DEF MemoryAcknowledge
<1>5. ASSUME NEW b \in Workers, NEW v \in 1 .. MaxVersions, MemoryAssign(c, b, v) PROVE ConfigInv'
  <2> DEFINE policy == AssignmentPolicy(v, AssignedVersion(b))
  <2>1. v \in DOMAIN versions /\ UNCHANGED <<versions, botVars>> /\ Append1(b, NewAssignment(v, policy))
    BY <1>5 DEF MemoryAssign, CanAssign, botVars
  <2>2. policy \in Policies
    BY DEF AssignmentPolicy, Policy, Policies
  <2> HIDE DEF policy
  <2>3. policy = AssignmentPolicy(v, AssignedVersion(b))
    BY DEF policy
  <2>4. QED
    BY <1>1, <1>2, <2>1, <2>2, <2>3, AssignedKept
<1>6. ASSUME NEW content \in Contents, MemoryCreateVersion(c, content) PROVE ConfigInv'
  <2>1. VersionsGrow
    BY <1>6 DEF MemoryCreateVersion, VersionsGrow, ConfigInv
  <2>2. UNCHANGED <<assignments, botVars>>
    BY <1>6 DEF MemoryCreateVersion, botVars
  <2>3. QED
    BY <1>1, <2>1, <2>2, VersionsKept, MemoryKept DEF ConfigInv, VersionsGrow
<1>7. QED
  BY <1>3, <1>4, <1>5, <1>6

\* The statements of the PostgreSQL store, one at a time.
LEMMA StatementKept ==
    ASSUME ConfigInv, NEW c \in threads, backend # "memory", UNCHANGED <<backend, threads>>,
           NEW x, GoTo(c, x), VersionsGrow, Shaped', \A a \in Workers : BotOK(a)',
           x.at \in AboutBot => x.bot \in Workers,
           x.at = "insert_version" => x.version \in 1 .. Len(versions') + 1 /\ x.content \in Contents,
           x.at = "insert_assignment" =>
               /\ x.version \in DOMAIN versions' /\ x.policy \in Policies
               /\ UNCHANGED <<versions, assignments>>
               /\ x.policy = AssignmentPolicy(x.version, AssignedVersion(x.bot))
    PROVE  ConfigInv'
<1>1. req'[c] = x
  BY DEF GoTo, ConfigInv
<1>2. x.at = "insert_assignment" => x.policy = AssignmentPolicy(x.version, AssignedVersion(x.bot))'
  BY DEF AssignmentPolicy, AssignedVersion, HasAssignment, Latest
<1>3. RequestOK(c)'
  BY <1>1, <1>2 DEF RequestOK
<1>4. QED
  BY <1>3, ClientsKept DEF ConfigInv, VersionsGrow

LEMMA NothingGrows ==
    ASSUME ConfigInv, UNCHANGED <<versions, backend, threads, assignments, botVars>>
    PROVE  VersionsGrow /\ Shaped' /\ \A a \in Workers : BotOK(a)'
<1>1. VersionsGrow
  BY DEF ConfigInv, VersionsGrow
<1>2. QED
  BY <1>1, VersionsKept

LEMMA BeginsKept ==
    ASSUME ConfigInv, NEW c \in threads, backend # "memory",
           \/ \E b \in Workers : \/ UpsertBot(c, b) \/ UpdateLatest(c, b)
                                 \/ \E v \in 1 .. MaxVersions : ReadForAssign(c, b, v)
           \/ \E content \in Contents : ComputeVersion(c, content)
    PROVE  ConfigInv'
<1>1. UNCHANGED <<backend, threads, versions>>
  BY DEF UpsertBot, UpdateLatest, ReadForAssign, ComputeVersion, storeVars
<1>2. ASSUME NEW b \in Workers, UpsertBot(c, b) PROVE ConfigInv'
  <2>1. AboutOne(b) /\ \A a \in Workers : BotOK(a)'
    BY <1>1, <1>2, RegisterKept DEF UpsertBot
  <2>2. GoTo(c, [at |-> "insert_default", bot |-> b])
    BY <1>2 DEF UpsertBot
  <2>3. QED
    BY <1>1, <2>1, <2>2, StatementKept DEF AboutOne
<1>3. ASSUME NEW b \in Workers, UpdateLatest(c, b) PROVE ConfigInv'
  <2>1. AboutOne(b) /\ \A a \in Workers : BotOK(a)'
    BY <1>1, <1>3, AnswerKept DEF UpdateLatest
  <2>2. GoTo(c, [at |-> "read_acked", bot |-> b, code |-> AlertOf[answer[b]]])
    BY <1>3 DEF UpdateLatest
  <2>3. QED
    BY <1>1, <2>1, <2>2, StatementKept DEF AboutOne
<1>4. ASSUME NEW b \in Workers, NEW v \in 1 .. MaxVersions, ReadForAssign(c, b, v) PROVE ConfigInv'
  <2> DEFINE policy == AssignmentPolicy(v, AssignedVersion(b))
             x == [at |-> "insert_assignment", bot |-> b, version |-> v, policy |-> policy]
  <2>1. v \in DOMAIN versions /\ UNCHANGED <<versions, assignments, botVars>> /\ GoTo(c, x)
    BY <1>4 DEF ReadForAssign, CanAssign, botVars, storeVars
  <2>2. policy \in Policies
    BY DEF AssignmentPolicy, Policy, Policies
  <2>3. x.at = "insert_assignment" /\ x.bot = b /\ x.version = v /\ x.policy = policy
    OBVIOUS
  <2> HIDE DEF x
  <2>4. VersionsGrow /\ Shaped' /\ \A a \in Workers : BotOK(a)'
    BY <1>1, <2>1, NothingGrows
  <2>5. QED
    BY <1>1, <2>1, <2>2, <2>3, <2>4, StatementKept
<1>5. ASSUME NEW content \in Contents, ComputeVersion(c, content) PROVE ConfigInv'
  <2> DEFINE x == [at |-> "insert_version", content |-> content, version |-> Len(versions) + 1]
  <2>1. UNCHANGED <<versions, assignments, botVars>> /\ GoTo(c, x)
    BY <1>5 DEF ComputeVersion, botVars, storeVars
  <2>2. x.at = "insert_version" /\ x.content = content /\ x.version = Len(versions) + 1
    OBVIOUS
  <2> HIDE DEF x
  <2>3. VersionsGrow /\ Shaped' /\ \A a \in Workers : BotOK(a)'
    BY <1>1, <2>1, NothingGrows
  <2>4. x.version \in 1 .. Len(versions') + 1
    BY <2>1, <2>2 DEF ConfigInv
  <2>5. QED
    BY <1>1, <2>1, <2>2, <2>3, <2>4, StatementKept DEF AboutBot
<1>6. QED
  BY <1>2, <1>3, <1>4, <1>5

LEMMA ContinuesKept ==
    ASSUME ConfigInv, NEW c \in threads, Continue(c)
    PROVE  ConfigInv'
<1>1. /\ UNCHANGED <<backend, threads>>
      /\ RequestOK(c) /\ req[c].at \in AboutBot \cup {"insert_version"}
      /\ versions \in Seq(Contents)
  BY DEF ConfigInv, Continue, InsertDefault, ReadRegistered, InsertVersion, InsertAssignment,
         ReadAcked, EmitAlert, storeVars, Ready, AboutBot
<1>2. backend # "memory"
  BY <1>1 DEF RequestOK, Idle, AboutBot
<1>3. CASE InsertDefault(c)
  <2> DEFINE b == req[c].bot
             x == [at |-> "read_registered", bot |-> b]
  <2>1. /\ assignments' = DefaultAssignment(b) /\ GoTo(c, x)
        /\ UNCHANGED <<versions, botVars>> /\ b \in Workers
    BY <1>1, <1>3 DEF InsertDefault, Ready, RequestOK, AboutBot, botVars
  <2>2. CASE HasAssignment(b) \/ versions = << >>
    <3>1. VersionsGrow /\ Shaped' /\ \A a \in Workers : BotOK(a)'
      BY <1>1, <2>1, <2>2, NothingGrows DEF DefaultAssignment
    <3>2. QED
      BY <1>1, <1>2, <2>1, <3>1, StatementKept
  <2>3. CASE ~HasAssignment(b)
    <3>1. running[b] = 0 /\ answer[b] = "none" /\ Shaped
      BY <2>1, <2>3 DEF ConfigInv, BotOK, AnswerAgrees
    <3>2. Starts(b, 0)
      BY <2>1, <3>1 DEF Starts, botVars, Shaped
    <3>3. AboutOne(b) /\ \A a \in Workers : BotOK(a)'
      BY <1>1, <2>1, <3>2, RegisterKept
    <3>4. QED
      BY <1>1, <1>2, <2>1, <3>3, StatementKept DEF AboutOne
  <2>4. QED
    BY <2>2, <2>3
<1>4. CASE ReadRegistered(c)
  <2>0. PICK b \in Workers : b = req[c].bot
    BY <1>1, <1>4 DEF ReadRegistered, Ready, RequestOK, AboutBot
  <2> DEFINE v == AssignedVersion(b)
  <2>1. /\ Starts(b, v) /\ GoTo(c, Idle) /\ UNCHANGED <<versions, assignments>>
    BY <1>4, <2>0 DEF ReadRegistered, storeVars
  <2>2. v # 0 => HasAssignment(b)' /\ v = Latest(b)'.version
    BY <2>1 DEF AssignedVersion, HasAssignment, Latest
  <2> HIDE DEF v
  <2>3. AboutOne(b) /\ \A a \in Workers : BotOK(a)'
    BY <1>1, <2>1, <2>2, RegisterKept
  <2>4. QED
    BY <1>1, <1>2, <2>1, <2>3, StatementKept DEF AboutOne, Idle, AboutBot
<1>5. CASE InsertVersion(c)
  <2>1. /\ GoTo(c, Idle) /\ UNCHANGED <<assignments, botVars>>
        /\ req[c].version \in 1 .. Len(versions) + 1 /\ req[c].content \in Contents
    BY <1>1, <1>5 DEF InsertVersion, Ready, RequestOK, botVars
  <2>2. VersionsGrow
    <3>1. CASE NumberTaken(req[c].version)
      BY <1>1, <1>5, <3>1 DEF InsertVersion, VersionsGrow
    <3>2. CASE ~NumberTaken(req[c].version)
      BY <1>1, <1>5, <2>1, <3>2, VersionAdded DEF InsertVersion, NumberTaken
    <3>3. QED
      BY <3>1, <3>2
  <2>3. Shaped' /\ \A a \in Workers : BotOK(a)'
    BY <1>1, <2>1, <2>2, VersionsKept
  <2>4. QED
    BY <1>1, <1>2, <2>1, <2>2, <2>3, StatementKept DEF Idle, AboutBot
<1>6. CASE InsertAssignment(c)
  <2> DEFINE b == req[c].bot
             x == [at |-> "emit_alert", bot |-> b, code |-> "CONFIG_ASSIGNED",
                   about |-> Len(assignments[b]) + 1]
  <2>1. /\ Append1(b, NewAssignment(req[c].version, req[c].policy)) /\ GoTo(c, x)
        /\ UNCHANGED <<versions, botVars>> /\ b \in Workers
        /\ req[c].version \in DOMAIN versions /\ req[c].policy \in Policies
        /\ Serial => req[c].policy = AssignmentPolicy(req[c].version, AssignedVersion(b))
    BY <1>1, <1>6 DEF InsertAssignment, Ready, RequestOK, AboutBot, botVars
  <2>2. x.at = "emit_alert" /\ x.bot = b
    OBVIOUS
  <2> HIDE DEF b, x
  <2>3. AboutOne(b) /\ \A a \in Workers : BotOK(a)'
    BY <1>1, <2>1, AssignedKept
  <2>4. QED
    BY <1>1, <1>2, <2>1, <2>2, <2>3, StatementKept DEF AboutOne
<1>7. CASE ReadAcked(c)
  <2> DEFINE b == req[c].bot
             x == [at |-> "emit_alert", bot |-> b, code |-> req[c].code,
                   about |-> Len(assignments[b])]
  <2>1. GoTo(c, x) /\ UNCHANGED <<versions, assignments, botVars>> /\ b \in Workers
    BY <1>1, <1>7 DEF ReadAcked, Ready, RequestOK, AboutBot, storeVars, botVars
  <2>2. VersionsGrow /\ Shaped' /\ \A a \in Workers : BotOK(a)'
    BY <1>1, <2>1, NothingGrows
  <2>3. QED
    BY <1>1, <1>2, <2>1, <2>2, StatementKept
<1>8. CASE EmitAlert(c)
  <2>1. GoTo(c, Idle) /\ UNCHANGED <<versions, assignments, botVars>>
    BY <1>8 DEF EmitAlert, botVars
  <2>2. VersionsGrow /\ Shaped' /\ \A a \in Workers : BotOK(a)'
    BY <1>1, <2>1, NothingGrows
  <2>3. QED
    BY <1>1, <1>2, <2>1, <2>2, StatementKept DEF Idle, AboutBot
<1>9. QED
  BY <1>3, <1>4, <1>5, <1>6, <1>7, <1>8 DEF Continue

LEMMA WorkerKept ==
    ASSUME ConfigInv, NEW b \in Workers, Apply(b)
    PROVE  ConfigInv'
<1>1. UNCHANGED <<backend, threads, versions, assignments, req>>
  BY DEF Apply, storeVars
<1>2. PICK status \in AckStatuses :
          /\ answer' = [answer EXCEPT ![b] = status]
          /\ running' = [running EXCEPT ![b] = IF status = "applied" THEN Latest(b).version ELSE @]
  BY DEF Apply
<1>3. /\ Shaped' /\ answer'[b] = status
      /\ running'[b] = IF status = "applied" THEN Latest(b).version ELSE running[b]
      /\ \A a \in Workers \ {b} : running'[a] = running[a] /\ answer'[a] = answer[a]
  BY <1>1, <1>2 DEF ConfigInv, Shaped
<1>4. VersionsGrow /\ (Serial' => Serial)
  BY <1>1 DEF ConfigInv, VersionsGrow, Serial
<1>5. AboutOne(b)
  BY <1>1, <1>3, <1>4 DEF AboutOne
<1>6. BotOK(b)'
  BY <1>1, <1>3, <1>4, ApplyKeeps DEF ConfigInv, Apply
<1>7. \A c \in Clients : RequestOK(c)'
  BY <1>1, <1>4 DEF ConfigInv, RequestOK, AssignmentPolicy, AssignedVersion, HasAssignment, Latest
<1>8. QED
  BY <1>1, <1>3, <1>5, <1>6, <1>7, BotsKept DEF ConfigInv

LEMMA ConfigInvariant == ConfigSpec => []ConfigInv
<1>1. ConfigInit => ConfigInv
  <2>1. SUFFICES ASSUME ConfigInit PROVE ConfigInv
    OBVIOUS
  <2>2. /\ threads \subseteq Clients /\ req = [c \in Clients |-> Idle]
        /\ assignments = [b \in Workers |-> << >>]
        /\ running = [b \in Workers |-> 0] /\ answer = [b \in Workers |-> "none"]
    BY <2>1 DEF ConfigInit, HandlersInit
  <2>3. versions \in Seq(Contents)
    <3>1. versions = << >> \/ \E c \in Contents : versions = <<c>>
      BY <2>1 DEF ConfigInit
    <3>2. \A c \in Contents : <<c>> \in Seq(Contents)
      OBVIOUS
    <3>3. << >> \in Seq(Contents)
      OBVIOUS
    <3>4. QED
      BY <3>1, <3>2, <3>3
  <2>4. \A b \in Workers : BotOK(b)
    <3>1. TAKE b \in Workers
    <3>2. assignments[b] = << >> /\ running[b] = 0 /\ answer[b] = "none"
      BY <2>2
    <3>3. assignments[b] \in Seq(ConfigAssignment) /\ Len(assignments[b]) = 0
      BY <3>2
    <3>4. QED
      BY <3>2, <3>3 DEF BotOK, AnswerAgrees, AppliedRuns, HotIsHot
  <2>5. \A c \in Clients : RequestOK(c)
    BY <2>2 DEF RequestOK, Idle, AboutBot
  <2>6. QED
    BY <2>2, <2>3, <2>4, <2>5 DEF ConfigInv, Shaped
<1>2. ConfigInv /\ [ConfigNext]_configVars => ConfigInv'
  <2>1. SUFFICES ASSUME ConfigInv, [ConfigNext]_configVars PROVE ConfigInv'
    OBVIOUS
  <2>2. ASSUME NEW c \in threads, Begin(c) PROVE ConfigInv'
    <3>1. CASE backend = "memory"
      <4>1. /\ Begins(c, "memory")
            /\ \/ \E b \in Workers : \/ MemoryRegister(c, b) \/ MemoryAcknowledge(c, b)
                                     \/ \E v \in 1 .. MaxVersions : MemoryAssign(c, b, v)
               \/ \E content \in Contents : MemoryCreateVersion(c, content)
        BY <2>2, <3>1 DEF Begin, Begins, MemoryRegister, MemoryAcknowledge, MemoryAssign,
           MemoryCreateVersion, UpsertBot, UpdateLatest, ReadForAssign, ComputeVersion
      <4>2. QED
        BY <2>1, <4>1, MemoryStepKept
    <3>2. CASE backend # "memory"
      <4>1. \/ \E b \in Workers : \/ UpsertBot(c, b) \/ UpdateLatest(c, b)
                                  \/ \E v \in 1 .. MaxVersions : ReadForAssign(c, b, v)
            \/ \E content \in Contents : ComputeVersion(c, content)
        BY <2>2, <3>2 DEF Begin, Begins, MemoryRegister, MemoryAcknowledge, MemoryAssign,
           MemoryCreateVersion
      <4>2. QED
        BY <2>1, <3>2, <4>1, BeginsKept
    <3>3. QED
      BY <3>1, <3>2
  <2>3. ASSUME NEW c \in threads, Continue(c) PROVE ConfigInv'
    BY <2>1, <2>3, ContinuesKept
  <2>4. ASSUME NEW c \in threads, Abandon(c), UNCHANGED <<storeVars, botVars>> PROVE ConfigInv'
    <3>1. /\ UNCHANGED <<versions, backend, threads, assignments, botVars>> /\ GoTo(c, Idle)
          /\ req[c] # Idle /\ RequestOK(c)
      BY <2>1, <2>4 DEF Abandon, storeVars, ConfigInv
    <3>2. VersionsGrow /\ Shaped' /\ \A a \in Workers : BotOK(a)'
      BY <2>1, <3>1, NothingGrows
    <3>3. backend # "memory"
      BY <3>1 DEF RequestOK
    <3>4. QED
      BY <2>1, <3>1, <3>2, <3>3, StatementKept DEF Idle, AboutBot
  <2>5. ASSUME NEW b \in Workers, Apply(b) PROVE ConfigInv'
    BY <2>1, <2>5, WorkerKept
  <2>6. CASE UNCHANGED configVars
    <3>1. UNCHANGED <<backend, threads, versions, assignments, running, answer, req>>
      BY <2>6 DEF configVars, storeVars, botVars
    <3>2. VersionsGrow /\ Shaped' /\ \A a \in Workers : BotOK(a)'
      BY <2>1, <3>1, NothingGrows DEF botVars
    <3>3. \A c \in Clients : RequestOK(c)'
      BY <2>1, <3>1 DEF ConfigInv, RequestOK, Serial, AssignmentPolicy, AssignedVersion,
                        HasAssignment, Latest
    <3>4. QED
      BY <2>1, <3>1, <3>2, <3>3 DEF ConfigInv
  <2>7. QED
    BY <2>1, <2>2, <2>3, <2>4, <2>5, <2>6 DEF ConfigNext
<1>3. QED
  BY <1>1, <1>2, PTL DEF ConfigSpec

\* An assignment that reads applied is what the worker runs, if the ones
\* before it were answered in turn, over either backend and also when requests
\* overlap (acknowledge_config_assignment writes into the newest assignment).
THEOREM AppliedAlwaysRunning == ConfigSpec => []AppliedIsRunning
<1>1. ConfigInv => AppliedIsRunning
  BY DEF ConfigInv, BotOK, AppliedRuns, AppliedIsRunning
<1>2. QED
  BY <1>1, ConfigInvariant, PTL

\* hot_reload is true of what the worker runs when the assignments before were
\* applied and requests do not overlap (summarize_config_assignment_policy
\* compares with the assignment before, not with the worker).
THEOREM HotReloadAlwaysHot == ConfigSpec => []HotReloadIsHot
<1>1. ConfigInv => HotReloadIsHot
  BY DEF ConfigInv, BotOK, HotIsHot, HotReloadIsHot
<1>2. QED
  BY <1>1, ConfigInvariant, PTL
=============================================================================
