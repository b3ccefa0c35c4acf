-------------------------- MODULE MarketDataProofs --------------------------
(***************************************************************************)
(* Proofs about MarketData, for any number of exchanges, targets, request  *)
(* threads, retries and changes of the books.                              *)
(***************************************************************************)
EXTENDS MarketData, FiniteSetTheorems, TLAPS

Fetchers == {"ws", "rest", "cache", "redis", "release"}

\* What a thread keeps at each step of a refresh or a direct read.
LEMMA OpShapes ==
    ASSUME NEW o \in Ops
    PROVE  /\ o.at = "idle" => o = Idle
           /\ o.at = "next" => o \in [at : {"next"}, todo : (SUBSET Exchanges) \ {{}}]
           /\ o.at = "ws" => o \in [at : {"ws"}, target : Exchanges, todo : SUBSET Exchanges]
           /\ o.at = "rest" => o \in [at : {"rest"}, target : Exchanges, todo : SUBSET Exchanges,
                                      attempt : 0 .. RetryCount]
           /\ o.at \in {"cache", "redis", "release"} =>
                  o \in [at : {"cache", "redis", "release"}, target : Exchanges,
                         todo : SUBSET Exchanges, got : 1 .. MaxBook]
           /\ o.at = "direct" => o \in [at : {"direct"}, target : Exchanges, attempt : 0 .. RetryCount]
           /\ o.at \in {"direct_cache", "direct_redis"} =>
                  o \in [at : {"direct_cache", "direct_redis"}, target : Exchanges, got : 1 .. MaxBook]
BY DEF Ops, Idle

LEMMA ProceedIsOp ==
    ASSUME NEW todo \in SUBSET Exchanges
    PROVE  Proceed(todo) \in Ops /\ Proceed(todo).at \in {"idle", "next"}
<1>1. CASE todo = {}
  BY <1>1 DEF Proceed, Ops, Idle
<1>2. CASE todo # {}
  <2>1. Proceed(todo) = [at |-> "next", todo |-> todo]
    BY <1>2 DEF Proceed
  <2>2. [at |-> "next", todo |-> todo] \in [at : {"next"}, todo : (SUBSET Exchanges) \ {{}}]
    BY <1>2
  <2>3. QED
    BY <2>1, <2>2 DEF Ops
<1>3. QED
  BY <1>1, <1>2

\* The threads that a step leaves alone.
LEMMA OthersKept ==
    ASSUME TypeOK, NEW t \in Refreshers \cup Readers, NEW o \in Ops, GoTo(t, o)
    PROVE  /\ op' \in [Refreshers \cup Readers -> Ops] /\ op'[t] = o
           /\ \A u \in Refreshers \cup Readers : u # t => op'[u] = op[u]
BY DEF TypeOK, GoTo

-----------------------------------------------------------------------------
(* One thread at a time fetches a target                                     *)

FetchInv ==
    /\ TypeOK
    /\ \A e \in Exchanges, t, u \in Refreshers : Fetching(t, e) /\ Fetching(u, e) => t = u
    /\ \A e \in Exchanges : e \in inflight <=> \E t \in Refreshers : Fetching(t, e)

\* A thread fetches what it has fetched before.
LEMMA FetchOn ==
    ASSUME FetchInv, TypeOK', NEW t \in Refreshers, NEW o \in Ops, GoTo(t, o), inflight' = inflight,
           \A e \in Exchanges : Fetching(t, e) <=> (o.at \notin {"idle", "next"} /\ o.target = e)
    PROVE  FetchInv'
<1>1. \A u \in Refreshers, e \in Exchanges : Fetching(u, e)' <=> Fetching(u, e)
  BY OthersKept DEF FetchInv, Fetching
<1>2. QED
  BY <1>1 DEF FetchInv

\* A thread starts to fetch a target that is not in flight.
LEMMA FetchBegins ==
    ASSUME FetchInv, TypeOK', NEW t \in Refreshers, NEW o \in Ops, GoTo(t, o),
           op[t].at = "next", NEW e \in Exchanges, e \notin inflight,
           o.at \notin {"idle", "next"}, o.target = e, inflight' = inflight \cup {e}
    PROVE  FetchInv'
<1>1. \A u \in Refreshers, x \in Exchanges :
          Fetching(u, x)' <=> Fetching(u, x) \/ (u = t /\ x = e)
  BY OthersKept DEF FetchInv, Fetching
<1>2. \A u \in Refreshers : ~Fetching(u, e)
  BY DEF FetchInv
<1>3. QED
  BY <1>1, <1>2 DEF FetchInv

\* A thread ends its fetch and releases the target.
LEMMA FetchEnds ==
    ASSUME FetchInv, TypeOK', NEW t \in Refreshers, NEW o \in Ops, GoTo(t, o),
           op[t].at \in Fetchers, o.at \in {"idle", "next"}, inflight' = inflight \ {op[t].target}
    PROVE  FetchInv'
<1>1. op[t] \in Ops
  BY DEF FetchInv, TypeOK
<1>2. op[t].target \in Exchanges /\ Fetching(t, op[t].target)
  BY <1>1, OpShapes DEF Fetchers, Fetching
<1>3. \A u \in Refreshers, x \in Exchanges : Fetching(u, x)' <=> Fetching(u, x) /\ u # t
  BY OthersKept DEF FetchInv, Fetching
<1>4. \A u \in Refreshers : Fetching(u, op[t].target) => u = t
  BY <1>2 DEF FetchInv
<1>5. \A x \in Exchanges : Fetching(t, x) => x = op[t].target
  BY DEF Fetching
<1>6. QED
  BY <1>2, <1>3, <1>4, <1>5 DEF FetchInv

\* A step of a reader, or of nobody.
LEMMA FetchElsewhere ==
    ASSUME FetchInv, TypeOK', inflight' = inflight, \A t \in Refreshers : op'[t] = op[t]
    PROVE  FetchInv'
BY DEF FetchInv, Fetching

-----------------------------------------------------------------------------
(* Types                                                                     *)

\* Every step changes the state of at most one thread.
LEMMA TypeStep ==
    ASSUME TypeOK, NEW t \in Refreshers \cup Readers, NEW o \in Ops, GoTo(t, o),
           book' = book, cache' \in [Exchanges -> 0 .. MaxBook],
           redis' \in [Exchanges -> 0 .. MaxBook], inflight' \subseteq Exchanges,
           polling' \in BOOLEAN, runs' \in BOOLEAN, readers' = readers,
           health' \in {"none", "failed", "succeeded"}
    PROVE  TypeOK'
BY OthersKept DEF TypeOK

LEMMA FetchKept == FetchInv /\ [Next]_vars => FetchInv'
<1>1. SUFFICES ASSUME FetchInv, [Next]_vars PROVE FetchInv'
  OBVIOUS
<1>2. /\ TypeOK /\ book \in [Exchanges -> 1 .. MaxBook] /\ MaxBook \in Nat \ {0}
      /\ cache \in [Exchanges -> 0 .. MaxBook] /\ redis \in [Exchanges -> 0 .. MaxBook]
      /\ inflight \subseteq Exchanges /\ op \in [Refreshers \cup Readers -> Ops]
      /\ polling \in BOOLEAN /\ runs \in BOOLEAN /\ readers \subseteq Readers
      /\ health \in {"none", "failed", "succeeded"}
      /\ Targets \subseteq Exchanges /\ RunTargets \subseteq Exchanges
      /\ Poller \in Refreshers /\ Requests \subseteq Refreshers /\ Refreshers \cap Readers = {}
  BY <1>1, MarketAssumption DEF FetchInv, TypeOK, Targets, Refreshers, Poller
<1>3. CASE UNCHANGED vars
  BY <1>1, <1>3 DEF vars, dataVars, envVars, FetchInv, TypeOK, Fetching
<1>4. ASSUME NEW t \in Refreshers, op[t].at = "idle", NEW todo \in SUBSET Exchanges,
             GoTo(t, Proceed(todo)), UNCHANGED <<dataVars, inflight, polling, readers, health>>,
             runs' \in BOOLEAN
      PROVE  FetchInv'
  <2>1. TypeOK'
    BY <1>2, <1>4, TypeStep, ProceedIsOp DEF dataVars
  <2>2. \A e \in Exchanges : ~Fetching(t, e)
    BY <1>4 DEF Fetching
  <2>3. QED
    BY <1>1, <1>4, <2>1, <2>2, FetchOn, ProceedIsOp
<1>5. CASE Poll
  BY <1>2, <1>4, <1>5 DEF Poll, At, envVars
<1>6. CASE StopRun
  BY <1>1, <1>2, <1>6, FetchElsewhere DEF StopRun, dataVars, TypeOK
<1>7. ASSUME NEW t \in Requests, \/ StartRun(t) \/ AssignConfig(t)
                                 \/ \E e \in Exchanges : RequestPoll(t, e)
      PROVE  FetchInv'
  <2>1. CASE StartRun(t) \/ AssignConfig(t)
    BY <1>2, <1>4, <2>1 DEF StartRun, AssignConfig, Prewarm, At, envVars
  <2>2. ASSUME NEW e \in Exchanges, RequestPoll(t, e) PROVE FetchInv'
    BY <1>2, <1>4, <2>2 DEF RequestPoll, At, envVars
  <2>3. QED
    BY <1>7, <2>1, <2>2
<1>8. ASSUME NEW t \in Refreshers, Refresh(t) PROVE FetchInv'
  <2>1. op[t] \in Ops /\ t \in Refreshers \cup Readers
    BY <1>2
  <2>2. ASSUME NEW e \in Exchanges, Acquire(t, e) PROVE FetchInv'
    <3>1. op[t].todo \in SUBSET Exchanges
      BY <2>1, <2>2, OpShapes DEF Acquire, At
    <3> DEFINE o == IF e \in WsExchanges
                    THEN [at |-> "ws", target |-> e, todo |-> op[t].todo \ {e}]
                    ELSE [at |-> "rest", target |-> e, todo |-> op[t].todo \ {e}, attempt |-> 0]
    <3>2. o \in Ops /\ o.at \notin {"idle", "next"} /\ o.target = e
      BY <3>1, MarketAssumption DEF Ops
    <3>3. /\ GoTo(t, o) /\ UNCHANGED <<dataVars, envVars, health>> /\ inflight' = inflight \cup {e}
          /\ e \notin inflight /\ op[t].at = "next"
      BY <2>2 DEF Acquire, At
    <3> HIDE DEF o
    <3>4. TypeOK'
      BY <1>2, <2>1, <3>2, <3>3, TypeStep DEF dataVars, envVars
    <3>5. QED
      BY <1>1, <3>2, <3>3, <3>4, FetchBegins
  <2>3. ASSUME NEW e \in Exchanges, Skip(t, e) PROVE FetchInv'
    <3>1. op[t].todo \ {e} \in SUBSET Exchanges
      BY <2>1, <2>3, OpShapes DEF Skip, At
    <3>2. TypeOK'
      BY <1>2, <2>1, <2>3, <3>1, TypeStep, ProceedIsOp DEF Skip, dataVars, envVars
    <3>3. \A x \in Exchanges : ~Fetching(t, x)
      BY <2>3 DEF Skip, At, Fetching
    <3>4. QED
      BY <1>1, <2>3, <3>1, <3>2, <3>3, FetchOn, ProceedIsOp DEF Skip
  <2>4. ASSUME op[t].at \in Fetchers, NEW o \in Ops, GoTo(t, o), o.at \in Fetchers,
               o.target = op[t].target, UNCHANGED <<book, inflight, envVars, health>>,
               cache' \in [Exchanges -> 0 .. MaxBook], redis' \in [Exchanges -> 0 .. MaxBook]
        PROVE  FetchInv'
    <3>1. TypeOK'
      BY <1>2, <2>1, <2>4, TypeStep DEF envVars
    <3>2. \A e \in Exchanges : Fetching(t, e) <=> (o.at \notin {"idle", "next"} /\ o.target = e)
      BY <2>4 DEF Fetching, Fetchers
    <3>3. QED
      BY <1>1, <2>4, <3>1, <3>2, FetchOn
  <2>5. ASSUME op[t].at \in Fetchers, NEW todo \in SUBSET Exchanges, NEW o, o \in {Idle, Proceed(todo)},
               GoTo(t, o), inflight' = inflight \ {op[t].target},
               UNCHANGED <<dataVars, runs, readers>>, polling' \in BOOLEAN,
               health' \in {"none", "failed", "succeeded"}
        PROVE  FetchInv'
    <3>1. o \in Ops /\ o.at \in {"idle", "next"}
      BY <2>5, ProceedIsOp DEF Idle, Ops
    <3>2. TypeOK'
      BY <1>2, <2>1, <2>5, <3>1, TypeStep DEF dataVars
    <3>3. QED
      BY <1>1, <2>5, <3>1, <3>2, FetchEnds
  <2>6. CASE WsAnswers(t) \/ RestAnswers(t)
    <3>1. op[t].at \in Fetchers /\ op[t].target \in Exchanges /\ op[t].todo \in SUBSET Exchanges
      BY <2>1, <2>6, OpShapes DEF WsAnswers, RestAnswers, At, Fetchers
    <3> DEFINE o == [at |-> "cache", target |-> op[t].target, todo |-> op[t].todo,
                     got |-> book[op[t].target]]
    <3>2. o \in Ops /\ o.at \in Fetchers /\ o.target = op[t].target
      BY <1>2, <3>1 DEF Ops, Fetchers
    <3>3. GoTo(t, o) /\ UNCHANGED <<dataVars, inflight, envVars, health>>
      BY <2>6 DEF WsAnswers, RestAnswers, Answered
    <3> HIDE DEF o
    <3>4. QED
      BY <1>2, <2>4, <3>1, <3>2, <3>3 DEF dataVars
  <2>7. CASE WsRefused(t)
    <3>1. op[t].at \in Fetchers /\ op[t].target \in Exchanges /\ op[t].todo \in SUBSET Exchanges
      BY <2>1, <2>7, OpShapes DEF WsRefused, At, Fetchers
    <3> DEFINE o == [at |-> "rest", target |-> op[t].target, todo |-> op[t].todo, attempt |-> 0]
    <3>2. o \in Ops /\ o.at \in Fetchers /\ o.target = op[t].target
      BY <3>1, MarketAssumption DEF Ops, Fetchers
    <3>3. GoTo(t, o) /\ UNCHANGED <<dataVars, inflight, envVars, health>>
      BY <2>7 DEF WsRefused
    <3> HIDE DEF o
    <3>4. QED
      BY <1>2, <2>4, <3>1, <3>2, <3>3 DEF dataVars
  <2>8. CASE RestRetries(t)
    <3>1. op[t] \in [at : {"rest"}, target : Exchanges, todo : SUBSET Exchanges,
                     attempt : 0 .. RetryCount] /\ op[t].attempt < RetryCount /\ op[t].at = "rest"
      BY <2>1, <2>8, OpShapes DEF RestRetries, At
    <3> DEFINE o == [op[t] EXCEPT !.attempt = @ + 1]
    <3>2. o \in Ops /\ o.at \in Fetchers /\ o.target = op[t].target
      BY <3>1, MarketAssumption DEF Ops, Fetchers
    <3>3. GoTo(t, o) /\ UNCHANGED <<dataVars, inflight, envVars, health>>
      BY <2>8 DEF RestRetries
    <3> HIDE DEF o
    <3>4. QED
      BY <1>2, <2>4, <3>1, <3>2, <3>3 DEF dataVars, Fetchers
  <2>9. CASE RestFails(t)
    <3>1. op[t].at \in Fetchers /\ op[t].todo \in SUBSET Exchanges
      BY <2>1, <2>9, OpShapes DEF RestFails, At, Fetchers
    <3>2. QED
      BY <1>2, <2>5, <2>9, <3>1 DEF RestFails, envVars
  <2>10. CASE Escapes(t)
    <3>1. op[t].at \in Fetchers
      BY <2>10 DEF Escapes, Fetchers
    <3>2. GoTo(t, Idle) /\ inflight' = inflight \ {op[t].target} /\ UNCHANGED <<dataVars, runs, readers>>
          /\ polling' \in BOOLEAN /\ health' \in {"none", "failed", "succeeded"}
      BY <1>2, <2>10 DEF Escapes
    <3>3. QED
      BY <2>5, <3>1, <3>2
  <2>11. ASSUME op[t].at \in {"cache", "redis", "release"}, NEW s \in {"redis", "release"},
                GoTo(t, [op[t] EXCEPT !.at = s]), UNCHANGED <<book, inflight, envVars, health>>,
                cache' \in [Exchanges -> 0 .. MaxBook], redis' \in [Exchanges -> 0 .. MaxBook]
         PROVE  FetchInv'
    <3>1. op[t] \in [at : {"cache", "redis", "release"}, target : Exchanges,
                     todo : SUBSET Exchanges, got : 1 .. MaxBook] /\ op[t].at \in Fetchers
      BY <2>1, <2>11, OpShapes DEF Fetchers
    <3> DEFINE o == [op[t] EXCEPT !.at = s]
    <3>2. o \in Ops /\ o.at \in Fetchers /\ o.target = op[t].target
      BY <2>11, <3>1 DEF Ops, Fetchers
    <3> HIDE DEF o
    <3>3. GoTo(t, o)
      BY <2>11 DEF o
    <3>4. QED
      BY <2>4, <2>11, <3>1, <3>2, <3>3
  <2>12. CASE Annotate(t)
    <3>1. op[t].at = "cache" /\ op[t].target \in Exchanges /\ op[t].got \in 0 .. MaxBook
      BY <1>2, <2>1, <2>12, OpShapes DEF Annotate, WriteCache, At
    <3>2. cache' \in [Exchanges -> 0 .. MaxBook]
      BY <1>2, <2>12, <3>1 DEF Annotate, WriteCache
    <3>3. QED
      BY <1>2, <2>11, <2>12, <3>1, <3>2 DEF Annotate, WriteCache
  <2>13. CASE RecordSnapshot(t)
    <3>1. op[t].at = "redis" /\ op[t].target \in Exchanges /\ op[t].got \in 0 .. MaxBook
      BY <1>2, <2>1, <2>13, OpShapes DEF RecordSnapshot, WriteRedis, At
    <3>2. redis' \in [Exchanges -> 0 .. MaxBook]
      BY <1>2, <2>13, <3>1 DEF RecordSnapshot, WriteRedis
    <3>3. QED
      BY <1>2, <2>11, <2>13, <3>1, <3>2 DEF RecordSnapshot, WriteRedis
  <2>14. CASE Release(t)
    <3>1. op[t].at \in Fetchers /\ op[t].todo \in SUBSET Exchanges
      BY <2>1, <2>14, OpShapes DEF Release, At, Fetchers
    <3>2. QED
      BY <1>2, <2>5, <2>14, <3>1 DEF Release, envVars
  <2>15. QED
    BY <1>8, <2>2, <2>3, <2>6, <2>7, <2>8, <2>9, <2>10, <2>12, <2>13, <2>14 DEF Refresh
<1>9. ASSUME NEW t \in readers, DirectRead(t) PROVE FetchInv'
  <2>1. op[t] \in Ops /\ t \in Readers /\ t \notin Refreshers
    BY <1>2, <1>9
  <2>2. ASSUME NEW o \in Ops, GoTo(t, o), UNCHANGED <<book, inflight, envVars, health>>,
               cache' \in [Exchanges -> 0 .. MaxBook], redis' \in [Exchanges -> 0 .. MaxBook]
        PROVE  FetchInv'
    <3>1. TypeOK'
      BY <1>2, <2>1, <2>2, TypeStep DEF envVars
    <3>2. \A u \in Refreshers : op'[u] = op[u]
      BY <1>2, <2>1, <2>2, OthersKept
    <3>3. QED
      BY <1>1, <2>2, <3>1, <3>2, FetchElsewhere
  <2>3. ASSUME NEW e \in Exchanges, ReadDirectly(t, e) PROVE FetchInv'
    <3>1. [at |-> "direct", target |-> e, attempt |-> 0] \in Ops
      BY MarketAssumption DEF Ops
    <3>2. QED
      BY <1>2, <2>2, <2>3, <3>1 DEF ReadDirectly, dataVars
  <2>4. CASE DirectAnswers(t)
    <3>1. op[t].target \in Exchanges
      BY <2>1, <2>4, OpShapes DEF DirectAnswers, At
    <3>2. [at |-> "direct_cache", target |-> op[t].target, got |-> book[op[t].target]] \in Ops
      BY <1>2, <3>1 DEF Ops
    <3>3. QED
      BY <1>2, <2>2, <2>4, <3>2 DEF DirectAnswers, dataVars
  <2>5. CASE DirectRetries(t)
    <3>1. /\ op[t] \in [at : {"direct"}, target : Exchanges, attempt : 0 .. RetryCount]
          /\ op[t].attempt < RetryCount
      BY <2>1, <2>5, OpShapes DEF DirectRetries, At
    <3>2. [op[t] EXCEPT !.attempt = @ + 1] \in Ops
      BY <3>1, MarketAssumption DEF Ops
    <3>3. QED
      BY <1>2, <2>2, <2>5, <3>2 DEF DirectRetries, dataVars
  <2>6. CASE DirectFails(t)
    <3>1. Idle \in Ops
      BY DEF Ops
    <3>2. QED
      BY <1>2, <2>2, <2>6, <3>1 DEF DirectFails, dataVars
  <2>7. CASE DirectCache(t)
    <3>1. op[t] \in [at : {"direct_cache", "direct_redis"}, target : Exchanges, got : 1 .. MaxBook]
      BY <2>1, <2>7, OpShapes DEF DirectCache, WriteCache, At
    <3>2. [op[t] EXCEPT !.at = "direct_redis"] \in Ops
      BY <3>1 DEF Ops
    <3>3. cache' \in [Exchanges -> 0 .. MaxBook]
      BY <1>2, <2>7, <3>1 DEF DirectCache, WriteCache
    <3>4. QED
      BY <1>2, <2>2, <2>7, <3>2, <3>3 DEF DirectCache, WriteCache
  <2>8. CASE DirectRedis(t)
    <3>1. op[t].target \in Exchanges /\ op[t].got \in 0 .. MaxBook /\ Idle \in Ops
      BY <1>2, <2>1, <2>8, OpShapes DEF DirectRedis, WriteRedis, At, Ops
    <3>2. redis' \in [Exchanges -> 0 .. MaxBook]
      BY <1>2, <2>8, <3>1 DEF DirectRedis, WriteRedis
    <3>3. QED
      BY <1>2, <2>2, <2>8, <3>1, <3>2 DEF DirectRedis, WriteRedis
  <2>9. QED
    BY <1>9, <2>3, <2>4, <2>5, <2>6, <2>7, <2>8 DEF DirectRead
<1>10. ASSUME NEW e \in Exchanges, BookMoves(e) \/ Expire(e) PROVE FetchInv'
  <2>1. book' \in [Exchanges -> 1 .. MaxBook] /\ redis' \in [Exchanges -> 0 .. MaxBook]
        /\ UNCHANGED <<cache, inflight, op, envVars, health>>
    BY <1>2, <1>10 DEF BookMoves, Expire
  <2>2. QED
    BY <1>1, <1>2, <2>1, FetchElsewhere DEF TypeOK, envVars
<1>11. QED
  BY <1>1, <1>3, <1>5, <1>6, <1>7, <1>8, <1>9, <1>10 DEF Next

LEMMA FetchInvariant == Spec => []FetchInv
<1>1. Init => FetchInv
  <2>1. SUFFICES ASSUME Init PROVE FetchInv
    OBVIOUS
  <2>2. /\ book = [e \in Exchanges |-> 1] /\ cache = [e \in Exchanges |-> 0]
        /\ redis = [e \in Exchanges |-> 0] /\ inflight = {}
        /\ op = [t \in Refreshers \cup Readers |-> Idle]
        /\ polling = TRUE /\ runs = FALSE /\ readers \subseteq Readers /\ health = "none"
    BY <2>1 DEF Init
  <2>3. Idle \in Ops /\ Idle.at = "idle" /\ 1 \in 1 .. MaxBook /\ 0 \in 0 .. MaxBook
    BY MarketAssumption DEF Ops, Idle
  <2>4. TypeOK
    BY <2>2, <2>3 DEF TypeOK
  <2>5. \A t \in Refreshers, e \in Exchanges : ~Fetching(t, e)
    BY <2>2, <2>3 DEF Fetching
  <2>6. QED
    BY <2>2, <2>4, <2>5 DEF FetchInv
<1>2. QED
  BY <1>1, FetchKept, PTL DEF Spec

\* The type invariant of the market data runtime.
THEOREM MarketTypes == Spec => []TypeOK
<1>1. FetchInv => TypeOK
  BY DEF FetchInv
<1>2. QED
  BY <1>1, FetchInvariant, PTL

\* A target is in flight exactly while one thread fetches it, whichever way
\* the fetch ends.
THEOREM OneFetcherPerTarget == Spec => []InflightIsFetched
<1>1. FetchInv => InflightIsFetched
  <2>1. SUFFICES ASSUME FetchInv, NEW e \in Exchanges
                 PROVE  Cardinality({t \in Refreshers : Fetching(t, e)})
                            = IF e \in inflight THEN 1 ELSE 0
    BY DEF InflightIsFetched
  <2>2. CASE e \in inflight
    <3>1. \E t : {u \in Refreshers : Fetching(u, e)} = {t}
      BY <2>1, <2>2 DEF FetchInv
    <3>2. QED
      BY <2>2, <3>1, FS_Singleton
  <2>3. CASE e \notin inflight
    <3>1. {u \in Refreshers : Fetching(u, e)} = {}
      BY <2>1, <2>3 DEF FetchInv
    <3>2. QED
      BY <2>3, <3>1, FS_EmptySet
  <2>4. QED
    BY <2>2, <2>3
<1>2. QED
  BY <1>1, FetchInvariant, PTL

-----------------------------------------------------------------------------
(* The snapshot that is evaluated                                            *)

\* Without direct readers Redis is never ahead of the cache, the cache never
\* ahead of the exchange, and the one thread that fetches a target holds a
\* snapshot at least as new as the cached one.
FreshInv ==
    readers = {} =>
        /\ \A e \in Exchanges : redis[e] <= cache[e] /\ cache[e] <= book[e]
        /\ \A t \in Refreshers :
               /\ op[t].at = "cache" =>
                      cache[op[t].target] <= op[t].got /\ op[t].got <= book[op[t].target]
               /\ op[t].at = "redis" => op[t].got = cache[op[t].target]

\* What a step does to the snapshots, and which threads come to write one.
Written ==
    \/ /\ UNCHANGED <<cache, redis>> /\ \A e \in Exchanges : book[e] <= book'[e]
       /\ \A t \in Refreshers :
              /\ op'[t].at = "cache" => \/ op'[t] = op[t]
                                       \/ /\ op[t].at \in Fetchers /\ op'[t].target = op[t].target
                                          /\ op'[t].got = book[op[t].target]
              /\ op'[t].at = "redis" => op'[t] = op[t]
    \/ \E t \in Refreshers : Annotate(t) \/ RecordSnapshot(t)
    \/ \E e \in Exchanges : Expire(e)

LEMMA WrittenCases == FetchInv /\ readers = {} /\ [Next]_vars => Written
<1>1. SUFFICES ASSUME FetchInv, readers = {}, [Next]_vars PROVE Written
  OBVIOUS
<1>2. /\ TypeOK /\ book \in [Exchanges -> 1 .. MaxBook] /\ MaxBook \in Nat
      /\ op \in [Refreshers \cup Readers -> Ops]
  BY <1>1, MarketAssumption DEF FetchInv, TypeOK
<1>3. \A e \in Exchanges : book[e] \in Nat /\ book[e] <= book[e]
  BY <1>2
<1>4. ASSUME UNCHANGED <<cache, redis, book, op>> PROVE Written
  BY <1>3, <1>4 DEF Written
<1>5. ASSUME NEW t \in Refreshers, NEW o, GoTo(t, o), UNCHANGED dataVars, o.at \notin {"cache", "redis"}
      PROVE  Written
  <2>1. op'[t] = o /\ \A u \in Refreshers : u # t => op'[u] = op[u]
    BY <1>2, <1>5 DEF GoTo
  <2>2. QED
    BY <1>3, <1>5, <2>1 DEF Written, dataVars
<1>6. \A todo : Proceed(todo).at \in {"idle", "next"}
  BY DEF Proceed, Idle
<1>7. ASSUME NEW t \in Refreshers, Refresh(t) PROVE Written
  <2>1. ASSUME NEW e \in Exchanges, Acquire(t, e) PROVE Written
    <3>1. PICK o : GoTo(t, o) /\ o.at \in {"ws", "rest"}
      BY <2>1 DEF Acquire
    <3>2. QED
      BY <1>5, <2>1, <3>1 DEF Acquire
  <2>2. ASSUME NEW e \in Exchanges, Skip(t, e) PROVE Written
    BY <1>5, <1>6, <2>2 DEF Skip
  <2>3. CASE WsAnswers(t) \/ RestAnswers(t)
    <3> DEFINE o == [at |-> "cache", target |-> op[t].target, todo |-> op[t].todo,
                     got |-> book[op[t].target]]
    <3>1. GoTo(t, o) /\ UNCHANGED dataVars /\ op[t].at \in Fetchers
      BY <2>3 DEF WsAnswers, RestAnswers, Answered, At, Fetchers
    <3>2. op'[t] = o /\ \A u \in Refreshers : u # t => op'[u] = op[u]
      BY <1>2, <3>1 DEF GoTo
    <3>3. QED
      BY <1>3, <3>1, <3>2 DEF Written, dataVars
  <2>4. CASE WsRefused(t)
    BY <1>5, <2>4 DEF WsRefused
  <2>5. CASE RestRetries(t)
    <3>1. op[t] \in [at : {"rest"}, target : Exchanges, todo : SUBSET Exchanges,
                     attempt : 0 .. RetryCount]
      BY <1>2, <2>5, OpShapes DEF RestRetries, At
    <3>2. [op[t] EXCEPT !.attempt = @ + 1].at = "rest"
      BY <3>1
    <3>3. QED
      BY <1>5, <2>5, <3>2 DEF RestRetries
  <2>6. CASE RestFails(t) \/ Release(t)
    BY <1>5, <1>6, <2>6 DEF RestFails, Release
  <2>7. CASE Escapes(t)
    BY <1>5, <2>7 DEF Escapes, Idle
  <2>8. CASE Annotate(t) \/ RecordSnapshot(t)
    BY <2>8 DEF Written
  <2>9. QED
    BY <1>7, <2>1, <2>2, <2>3, <2>4, <2>5, <2>6, <2>7, <2>8 DEF Refresh
<1>8. CASE Poll
  BY <1>5, <1>6, <1>8 DEF Poll, Refreshers
<1>9. ASSUME NEW t \in Requests, \/ StartRun(t) \/ AssignConfig(t)
                                 \/ \E e \in Exchanges : RequestPoll(t, e)
      PROVE  Written
  <2>1. t \in Refreshers /\ (\E todo : GoTo(t, Proceed(todo))) /\ UNCHANGED dataVars
    BY <1>9 DEF StartRun, AssignConfig, RequestPoll, Prewarm, Refreshers
  <2>2. QED
    BY <1>5, <1>6, <2>1
<1>10. CASE StopRun \/ UNCHANGED vars
  BY <1>4, <1>10 DEF StopRun, vars, dataVars
<1>11. ASSUME NEW e \in Exchanges, BookMoves(e) PROVE Written
  <2>1. UNCHANGED <<cache, redis, op>> /\ book' = [book EXCEPT ![e] = @ + 1]
    BY <1>11 DEF BookMoves
  <2>2. \A x \in Exchanges : book[x] <= book'[x]
    BY <1>2, <1>3, <2>1
  <2>3. QED
    BY <2>1, <2>2 DEF Written
<1>12. ASSUME NEW e \in Exchanges, Expire(e) PROVE Written
  BY <1>12 DEF Written
<1>13. QED
  BY <1>1, <1>7, <1>8, <1>9, <1>10, <1>11, <1>12 DEF Next

LEMMA ReadersFixed == [Next]_vars => readers' = readers
<1>1. ASSUME NEW t \in Refreshers, Refresh(t) PROVE readers' = readers
  BY <1>1 DEF Refresh, Acquire, Skip, WsAnswers, WsRefused, RestAnswers, RestRetries, RestFails,
              Escapes, Annotate, RecordSnapshot, WriteCache, WriteRedis, Release, envVars
<1>2. ASSUME NEW t \in readers, DirectRead(t) PROVE readers' = readers
  BY <1>2 DEF DirectRead, ReadDirectly, DirectAnswers, DirectRetries, DirectFails, DirectCache,
              DirectRedis, WriteCache, WriteRedis, envVars
<1>3. QED
  BY <1>1, <1>2 DEF Next, vars, envVars, Poll, StopRun, StartRun, AssignConfig, RequestPoll,
                    BookMoves, Expire

LEMMA FreshKept ==
    FetchInv /\ FreshInv /\ [Next]_vars
        => FreshInv' /\ (readers = {} => \A e \in Exchanges : Used(e) <= Used(e)')
<1>1. SUFFICES ASSUME FetchInv, FreshInv, [Next]_vars, readers = {}
               PROVE  FreshInv' /\ \A e \in Exchanges : Used(e) <= Used(e)'
  <2>1. [Next]_vars => readers' = readers
    BY ReadersFixed
  <2>2. QED
    BY <2>1 DEF FreshInv
<1>2. /\ book \in [Exchanges -> 1 .. MaxBook] /\ cache \in [Exchanges -> 0 .. MaxBook]
      /\ redis \in [Exchanges -> 0 .. MaxBook] /\ op \in [Refreshers \cup Readers -> Ops]
      /\ MaxBook \in Nat
  BY <1>1, MarketAssumption DEF FetchInv, TypeOK
<1>3. \A e \in Exchanges : /\ book[e] \in Nat /\ cache[e] \in Nat /\ redis[e] \in Nat
                          /\ redis[e] <= cache[e] /\ cache[e] <= book[e]
  BY <1>1, <1>2 DEF FreshInv
<1>4. /\ book' \in [Exchanges -> 1 .. MaxBook] /\ op' \in [Refreshers \cup Readers -> Ops]
  BY <1>1, FetchKept DEF FetchInv, TypeOK
<1>5. \A t \in Refreshers :
          op[t].at \in Fetchers => op[t].target \in Exchanges /\ Fetching(t, op[t].target)
  <2>1. ASSUME NEW t \in Refreshers, op[t].at \in Fetchers PROVE op[t].target \in Exchanges
    <3>1. op[t] \in Ops
      BY <1>2
    <3>2. QED
      BY <2>1, <3>1, OpShapes DEF Fetchers
  <2>2. QED
    BY <2>1 DEF Fetching, Fetchers
<1>6. \A t \in Refreshers : op[t].at \in {"cache", "redis"} => op[t].got \in Nat
  <2>1. ASSUME NEW t \in Refreshers, op[t].at \in {"cache", "redis"} PROVE op[t].got \in Nat
    <3>1. op[t] \in Ops
      BY <1>2
    <3>2. QED
      BY <1>2, <2>1, <3>1, OpShapes
  <2>2. QED
    BY <2>1
<1>7. \A t, u \in Refreshers :
          op[t].at \in Fetchers /\ op[u].at \in Fetchers /\ op[t].target = op[u].target => t = u
  BY <1>1, <1>5 DEF FetchInv
<1>8. CASE /\ UNCHANGED <<cache, redis>> /\ \A e \in Exchanges : book[e] <= book'[e]
           /\ \A t \in Refreshers :
                  /\ op'[t].at = "cache" => \/ op'[t] = op[t]
                                           \/ /\ op[t].at \in Fetchers
                                              /\ op'[t].target = op[t].target
                                              /\ op'[t].got = book[op[t].target]
                  /\ op'[t].at = "redis" => op'[t] = op[t]
  <2>1. \A e \in Exchanges : redis'[e] <= cache'[e] /\ cache'[e] <= book'[e]
    BY <1>2, <1>3, <1>4, <1>8
  <2>2. ASSUME NEW t \in Refreshers, op'[t].at = "cache"
        PROVE  cache'[op'[t].target] <= op'[t].got /\ op'[t].got <= book'[op'[t].target]
    <3>1. CASE op'[t] = op[t]
      <4>1. op[t].at = "cache" /\ op[t].target \in Exchanges /\ op[t].got \in Nat
        BY <1>5, <1>6, <2>2, <3>1 DEF Fetchers
      <4>2. cache[op[t].target] <= op[t].got /\ op[t].got <= book[op[t].target]
        BY <1>1, <4>1 DEF FreshInv
      <4>3. book'[op[t].target] \in Nat
        BY <1>2, <1>4, <4>1
      <4>4. QED
        BY <1>3, <1>8, <3>1, <4>1, <4>2, <4>3
    <3>2. CASE /\ op[t].at \in Fetchers /\ op'[t].target = op[t].target
               /\ op'[t].got = book[op[t].target]
      <4>1. op[t].target \in Exchanges
        BY <1>5, <3>2
      <4>2. QED
        BY <1>3, <1>8, <3>2, <4>1
    <3>3. QED
      BY <1>8, <2>2, <3>1, <3>2
  <2>3. ASSUME NEW t \in Refreshers, op'[t].at = "redis"
        PROVE  op'[t].got = cache'[op'[t].target]
    BY <1>1, <1>8, <2>3 DEF FreshInv
  <2>4. \A e \in Exchanges : Used(e) <= Used(e)'
    BY <1>3, <1>8 DEF Used, Newer
  <2>5. QED
    BY <2>1, <2>2, <2>3, <2>4 DEF FreshInv
<1>9. ASSUME NEW t \in Refreshers, Annotate(t)
      PROVE  FreshInv' /\ \A e \in Exchanges : Used(e) <= Used(e)'
  <2> DEFINE e == op[t].target
  <2>1. /\ op[t].at = "cache" /\ cache' = [cache EXCEPT ![e] = op[t].got]
        /\ GoTo(t, [op[t] EXCEPT !.at = "redis"]) /\ UNCHANGED <<book, redis>>
    BY <1>9 DEF Annotate, WriteCache, At
  <2>2. e \in Exchanges /\ op[t].got \in Nat /\ cache[e] <= op[t].got /\ op[t].got <= book[e]
    BY <1>1, <1>5, <1>6, <2>1 DEF FreshInv, Fetchers
  <2>3. op[t] \in Ops
    BY <1>2
  <2>4. /\ op'[t].at = "redis" /\ op'[t].target = e /\ op'[t].got = op[t].got
        /\ \A u \in Refreshers : u # t => op'[u] = op[u]
    BY <1>2, <2>1, <2>3, OpShapes DEF GoTo
  <2>5. cache'[e] = op[t].got /\ \A x \in Exchanges : x # e => cache'[x] = cache[x]
    BY <1>2, <2>1, <2>2
  <2>6. \A u \in Refreshers : u # t /\ op[u].at \in {"cache", "redis"} =>
            op[u].target # e /\ op[u].target \in Exchanges
    BY <1>5, <1>7, <2>1 DEF Fetchers
  <2> HIDE DEF e
  <2>7. \A x \in Exchanges : redis'[x] <= cache'[x] /\ cache'[x] <= book'[x]
    BY <1>3, <2>1, <2>2, <2>5
  <2>8. ASSUME NEW u \in Refreshers
        PROVE  /\ op'[u].at = "cache" =>
                      cache'[op'[u].target] <= op'[u].got /\ op'[u].got <= book'[op'[u].target]
               /\ op'[u].at = "redis" => op'[u].got = cache'[op'[u].target]
    <3>1. CASE u = t
      BY <2>4, <2>5, <3>1
    <3>2. CASE u # t
      BY <1>1, <2>1, <2>4, <2>5, <2>6, <3>2 DEF FreshInv
    <3>3. QED
      BY <3>1, <3>2
  <2>9. \A x \in Exchanges : Used(x) <= Used(x)'
    BY <1>3, <2>1, <2>2, <2>5 DEF Used, Newer
  <2>10. QED
    BY <2>7, <2>8, <2>9 DEF FreshInv
<1>10. ASSUME NEW t \in Refreshers, RecordSnapshot(t)
       PROVE  FreshInv' /\ \A e \in Exchanges : Used(e) <= Used(e)'
  <2>1. /\ op[t].at = "redis" /\ UNCHANGED <<book, cache>>
        /\ redis' \in {redis, [redis EXCEPT ![op[t].target] = op[t].got]}
        /\ GoTo(t, [op[t] EXCEPT !.at = "release"])
    BY <1>10 DEF RecordSnapshot, WriteRedis, At
  <2>2. op[t].target \in Exchanges /\ op[t].got = cache[op[t].target]
    BY <1>1, <1>5, <2>1 DEF FreshInv, Fetchers
  <2>3. op[t] \in Ops
    BY <1>2
  <2>4. op'[t].at = "release" /\ \A u \in Refreshers : u # t => op'[u] = op[u]
    BY <1>2, <2>1, <2>3, OpShapes DEF GoTo
  <2>5. \A x \in Exchanges : redis'[x] = redis[x] \/ redis'[x] = cache[x]
    BY <1>2, <2>1, <2>2
  <2>6. \A x \in Exchanges : redis'[x] \in Nat /\ redis'[x] <= cache[x] /\ cache[x] <= book[x]
    BY <1>3, <2>5
  <2>7. \A x \in Exchanges : Used(x) <= Used(x)'
    BY <1>3, <2>1, <2>6 DEF Used, Newer
  <2>8. QED
    BY <1>1, <2>1, <2>4, <2>6, <2>7 DEF FreshInv
<1>11. ASSUME NEW e \in Exchanges, Expire(e)
       PROVE  FreshInv' /\ \A x \in Exchanges : Used(x) <= Used(x)'
  <2>1. UNCHANGED <<book, cache, op>> /\ redis' = [redis EXCEPT ![e] = 0]
    BY <1>11 DEF Expire
  <2>2. \A x \in Exchanges : redis'[x] \in Nat /\ redis'[x] <= cache[x] /\ cache[x] <= book[x]
    BY <1>2, <1>3, <2>1
  <2>3. \A x \in Exchanges : Used(x) <= Used(x)'
    BY <1>3, <2>1, <2>2 DEF Used, Newer
  <2>4. QED
    BY <1>1, <2>1, <2>2, <2>3 DEF FreshInv
<1>12. Written
  BY <1>1, WrittenCases
<1>13. QED
  BY <1>8, <1>9, <1>10, <1>11, <1>12 DEF Written

\* Whichever of poller and request threads fetched a book, the strategy never
\* goes back to an older one, as long as nobody reads around the guard.
THEOREM EvaluatesForward == Spec => UsedNeverOlder
<1>1. Init => FreshInv
  <2>1. SUFFICES ASSUME Init PROVE FreshInv
    OBVIOUS
  <2>2. /\ book = [e \in Exchanges |-> 1] /\ cache = [e \in Exchanges |-> 0]
        /\ redis = [e \in Exchanges |-> 0] /\ \A t \in Refreshers : op[t].at = "idle"
    BY <2>1 DEF Init, Idle
  <2>3. QED
    BY <2>2 DEF FreshInv
<1>2. ASSUME FetchInv, FreshInv, [Next]_vars
      PROVE  [readers = {} => \A e \in Exchanges : Used(e) <= Used(e)']_vars
  BY <1>2, FreshKept
<1>3. Spec => []FreshInv
  BY <1>1, FetchInvariant, FreshKept, PTL DEF Spec
<1>4. QED
  BY <1>2, <1>3, FetchInvariant, PTL DEF Spec, UsedNeverOlder
=============================================================================
