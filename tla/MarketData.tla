----------------------------- MODULE MarketData -----------------------------
(***************************************************************************)
(* The market data runtime (market_data_runtime.py) and everybody else who *)
(* writes order books: the poller thread goes through its targets again    *)
(* and again; HTTP requests refresh targets through the same refresh(),    *)
(* which lets one thread at a time fetch a target (_inflight_targets); the *)
(* GET of an order book asks the exchange itself, without that guard.      *)
(* Each of them then writes the snapshot into the connector's cache and    *)
(* into Redis, and the strategy runtime evaluates the newer of the two     *)
(* (arbitrage_runtime_loader.py).                                          *)
(*                                                                         *)
(* One market.  A snapshot is the version of the exchange's book that it   *)
(* shows, which orders snapshots as their timestamps do; 0 is none.  The   *)
(* websocket connector has a cache of its own, read only by the coverage   *)
(* report, and is left out.                                                *)
(***************************************************************************)
EXTENDS Naturals, FiniteSets

CONSTANTS
    Exchanges,
    WsExchanges,     \* exchanges the websocket connector supports
    StaticTargets,   \* configured targets (market_data_poll_exchange)
    RunTargets,      \* base and hedge exchange of the arbitrage run
    Requests,        \* HTTP threads that refresh
    Readers,         \* HTTP threads that read an order book directly
    RetryCount,
    MaxBook          \* bound on the changes of a book

ASSUME MarketAssumption ==
    /\ WsExchanges \subseteq Exchanges
    /\ StaticTargets \subseteq Exchanges /\ RunTargets \subseteq Exchanges
    /\ "poller" \notin Requests \cup Readers /\ Requests \cap Readers = {}
    /\ RetryCount \in Nat /\ MaxBook \in Nat \ {0}

Poller == "poller"
Refreshers == Requests \cup {Poller}

VARIABLES
    book,       \* the exchange's current order book
    cache,      \* _latest_snapshots of the REST connector
    redis,      \* market:orderbook_top in Redis
    inflight,   \* _inflight_targets
    op,         \* what each thread is doing
    polling,    \* the poller thread is alive (_running)
    runs,       \* the arbitrage run is running
    readers,    \* the threads that read directly, if any do
    health      \* _success_count > 0, else _failure_count > 0, else none

vars == <<book, cache, redis, inflight, op, polling, runs, readers, health>>
dataVars == <<book, cache, redis>>
envVars == <<polling, runs, readers>>

Idle == [at |-> "idle"]

Ops ==
    {Idle}
    \cup [at : {"next"}, todo : (SUBSET Exchanges) \ {{}}]
    \cup [at : {"ws"}, target : Exchanges, todo : SUBSET Exchanges]
    \cup [at : {"rest"}, target : Exchanges, todo : SUBSET Exchanges, attempt : 0 .. RetryCount]
    \cup [at : {"cache", "redis", "release"}, target : Exchanges,
          todo : SUBSET Exchanges, got : 1 .. MaxBook]
    \cup [at : {"direct"}, target : Exchanges, attempt : 0 .. RetryCount]
    \cup [at : {"direct_cache", "direct_redis"}, target : Exchanges, got : 1 .. MaxBook]

TypeOK ==
    /\ book \in [Exchanges -> 1 .. MaxBook]
    /\ cache \in [Exchanges -> 0 .. MaxBook] /\ redis \in [Exchanges -> 0 .. MaxBook]
    /\ inflight \subseteq Exchanges
    /\ op \in [Refreshers \cup Readers -> Ops]
    /\ polling \in BOOLEAN /\ runs \in BOOLEAN /\ readers \subseteq Readers
    /\ health \in {"none", "failed", "succeeded"}

Init ==
    /\ book = [e \in Exchanges |-> 1]
    /\ cache = [e \in Exchanges |-> 0] /\ redis = [e \in Exchanges |-> 0]
    /\ inflight = {}
    /\ op = [t \in Refreshers \cup Readers |-> Idle]
    /\ polling = TRUE /\ runs = FALSE
    /\ readers \in {{}, Readers}
    /\ health = "none"

-----------------------------------------------------------------------------
At(t, at) == op[t].at = at
GoTo(t, o) == op' = [op EXCEPT ![t] = o]

\* t has acquired e.
Fetching(t, e) == op[t].at \notin {"idle", "next"} /\ op[t].target = e

\* A refresh proceeds to the next exchange of its request, or is over.
Proceed(todo) == IF todo = {} THEN Idle ELSE [at |-> "next", todo |-> todo]

\* _target_groups: the configured target and those of running arbitrage runs.
Targets == StaticTargets \cup (IF runs THEN RunTargets ELSE {})

\* _poll_once: one more round through the targets.
Poll ==
    /\ polling /\ At(Poller, "idle") /\ Targets # {}
    /\ GoTo(Poller, Proceed(Targets))
    /\ UNCHANGED <<dataVars, inflight, envVars, health>>

\* _prewarm_market_data_for_config: the exchanges of the run are refreshed.
Prewarm(t) == GoTo(t, Proceed(RunTargets))

\* POST market-data/poll names an exchange.
RequestPoll(t, e) ==
    /\ At(t, "idle")
    /\ GoTo(t, Proceed({e}))
    /\ UNCHANGED <<dataVars, inflight, envVars, health>>

\* Starting a run makes its exchanges targets and prewarms them.
StartRun(t) ==
    /\ At(t, "idle") /\ ~runs
    /\ runs' = TRUE
    /\ Prewarm(t)
    /\ UNCHANGED <<dataVars, inflight, polling, readers, health>>

\* A config assigned to a bot with a running run is prewarmed as well.
AssignConfig(t) ==
    /\ At(t, "idle") /\ runs
    /\ Prewarm(t)
    /\ UNCHANGED <<dataVars, inflight, envVars, health>>

StopRun ==
    /\ runs /\ runs' = FALSE
    /\ UNCHANGED <<dataVars, inflight, op, polling, readers, health>>

-----------------------------------------------------------------------------
(* refresh, for one exchange after the other                                 *)

\* Mutant: the in-flight set is not looked at.
AcquireAnyway(t, e) ==
    /\ At(t, "next") /\ e \in op[t].todo
    /\ inflight' = inflight \cup {e}
    /\ LET todo == op[t].todo \ {e}
       IN  GoTo(t, IF e \in WsExchanges
                   THEN [at |-> "ws", target |-> e, todo |-> todo]
                   ELSE [at |-> "rest", target |-> e, todo |-> todo, attempt |-> 0])
    /\ UNCHANGED <<dataVars, envVars, health>>

\* _acquire_inflight_target, and what get_orderbook_top asks first.
Acquire(t, e) ==
    /\ At(t, "next") /\ e \in op[t].todo
    /\ e \notin inflight
    /\ inflight' = inflight \cup {e}
    /\ LET todo == op[t].todo \ {e}
       IN  GoTo(t, IF e \in WsExchanges
                   THEN [at |-> "ws", target |-> e, todo |-> todo]
                   ELSE [at |-> "rest", target |-> e, todo |-> todo, attempt |-> 0])
    /\ UNCHANGED <<dataVars, envVars, health>>

\* FETCH_INFLIGHT: somebody else is fetching it.
Skip(t, e) ==
    /\ At(t, "next") /\ e \in op[t].todo
    /\ e \in inflight
    /\ GoTo(t, Proceed(op[t].todo \ {e}))
    /\ UNCHANGED <<dataVars, inflight, envVars, health>>

\* The websocket or REST answers with the book as it is.  (REST's connector
\* caches the snapshot, and then _annotate_snapshot does again: one write.)
Answered(t) ==
    GoTo(t, [at |-> "cache", target |-> op[t].target, todo |-> op[t].todo,
             got |-> book[op[t].target]])

WsAnswers(t) ==
    /\ At(t, "ws") /\ Answered(t)
    /\ UNCHANGED <<dataVars, inflight, envVars, health>>

\* A MarketDataError, an answer of the wrong shape: REST is asked instead.
WsRefused(t) ==
    /\ At(t, "ws")
    /\ GoTo(t, [at |-> "rest", target |-> op[t].target, todo |-> op[t].todo, attempt |-> 0])
    /\ UNCHANGED <<dataVars, inflight, envVars, health>>

RestAnswers(t) ==
    /\ At(t, "rest") /\ Answered(t)
    /\ UNCHANGED <<dataVars, inflight, envVars, health>>

RestRetries(t) ==
    /\ At(t, "rest") /\ op[t].attempt < RetryCount
    /\ GoTo(t, [op[t] EXCEPT !.attempt = @ + 1])
    /\ UNCHANGED <<dataVars, inflight, envVars, health>>

\* Mutant: a failed fetch does not release its target.
RestFailsHolding(t) ==
    /\ At(t, "rest")
    /\ health' = IF health = "succeeded" THEN health ELSE "failed"
    /\ GoTo(t, Proceed(op[t].todo))
    /\ UNCHANGED <<dataVars, inflight, envVars>>

\* A MarketDataError: _record_failure, and on to the next exchange.
RestFails(t) ==
    /\ At(t, "rest")
    /\ inflight' = inflight \ {op[t].target}
    /\ health' = IF health = "succeeded" THEN health ELSE "failed"
    /\ GoTo(t, Proceed(op[t].todo))
    /\ UNCHANGED <<dataVars, envVars>>

\* Mutant: an exception leaves the target in flight.
EscapesHolding(t) ==
    /\ op[t].at \in {"ws", "rest"}
    /\ GoTo(t, Idle)
    /\ polling' = (polling /\ t # Poller)
    /\ UNCHANGED <<dataVars, inflight, runs, readers, health>>

\* Any other exception, a websocket that times out or is closed by the server
\* among them: the target is released (finally) and the thread ends.
Escapes(t) ==
    /\ op[t].at \in {"ws", "rest"}
    /\ inflight' = inflight \ {op[t].target}
    /\ GoTo(t, Idle)
    /\ polling' = (polling /\ t # Poller)
    /\ UNCHANGED <<dataVars, runs, readers, health>>

-----------------------------------------------------------------------------
(* What was fetched is written, by whoever has fetched it                    *)

\* sync_cached_orderbook_top: the last to write wins.
WriteCache(t, at, next) ==
    /\ At(t, at)
    /\ cache' = [cache EXCEPT ![op[t].target] = op[t].got]
    /\ GoTo(t, [op[t] EXCEPT !.at = next])
    /\ UNCHANGED <<book, redis, inflight, envVars, health>>

\* sync_market_orderbook_top; Redis may refuse, which nobody notices.
WriteRedis(t, at, after) ==
    /\ At(t, at)
    /\ redis' \in {redis, [redis EXCEPT ![op[t].target] = op[t].got]}
    /\ GoTo(t, after)
    /\ UNCHANGED <<book, cache, inflight, envVars, health>>

Annotate(t) == WriteCache(t, "cache", "redis")
RecordSnapshot(t) == WriteRedis(t, "redis", [op[t] EXCEPT !.at = "release"])

\* The rest of _record_snapshot, and the release.
Release(t) ==
    /\ At(t, "release")
    /\ health' = "succeeded"
    /\ inflight' = inflight \ {op[t].target}
    /\ GoTo(t, Proceed(op[t].todo))
    /\ UNCHANGED <<dataVars, envVars>>

Refresh(t) ==
    \/ \E e \in Exchanges : Acquire(t, e) \/ Skip(t, e)
    \/ WsAnswers(t) \/ WsRefused(t)
    \/ RestAnswers(t) \/ RestRetries(t) \/ RestFails(t) \/ Escapes(t)
    \/ Annotate(t) \/ RecordSnapshot(t) \/ Release(t)

-----------------------------------------------------------------------------
(* GET market-data/orderbook-top: the REST connector, without the guard      *)

ReadDirectly(t, e) ==
    /\ At(t, "idle")
    /\ GoTo(t, [at |-> "direct", target |-> e, attempt |-> 0])
    /\ UNCHANGED <<dataVars, inflight, envVars, health>>

DirectAnswers(t) ==
    /\ At(t, "direct")
    /\ GoTo(t, [at |-> "direct_cache", target |-> op[t].target, got |-> book[op[t].target]])
    /\ UNCHANGED <<dataVars, inflight, envVars, health>>

DirectRetries(t) ==
    /\ At(t, "direct") /\ op[t].attempt < RetryCount
    /\ GoTo(t, [op[t] EXCEPT !.attempt = @ + 1])
    /\ UNCHANGED <<dataVars, inflight, envVars, health>>

DirectFails(t) ==
    /\ At(t, "direct")
    /\ GoTo(t, Idle)
    /\ UNCHANGED <<dataVars, inflight, envVars, health>>

DirectCache(t) == WriteCache(t, "direct_cache", "direct_redis")
DirectRedis(t) == WriteRedis(t, "direct_redis", Idle)

DirectRead(t) ==
    \/ \E e \in Exchanges : ReadDirectly(t, e)
    \/ DirectAnswers(t) \/ DirectRetries(t) \/ DirectFails(t)
    \/ DirectCache(t) \/ DirectRedis(t)

-----------------------------------------------------------------------------
BookMoves(e) ==
    /\ book[e] < MaxBook
    /\ book' = [book EXCEPT ![e] = @ + 1]
    /\ UNCHANGED <<cache, redis, inflight, op, envVars, health>>

\* The key's time to live is over.
Expire(e) ==
    /\ redis[e] # 0
    /\ redis' = [redis EXCEPT ![e] = 0]
    /\ UNCHANGED <<book, cache, inflight, op, envVars, health>>

Next ==
    \/ Poll \/ StopRun
    \/ \E t \in Requests : StartRun(t) \/ AssignConfig(t) \/ \E e \in Exchanges : RequestPoll(t, e)
    \/ \E t \in Refreshers : Refresh(t)
    \/ \E t \in readers : DirectRead(t)
    \/ \E e \in Exchanges : BookMoves(e) \/ Expire(e)

Spec == Init /\ [][Next]_vars

-----------------------------------------------------------------------------
\* Threads go on, and the poller polls as long as it lives.  A request that is
\* made again and again is sometimes answered, by the websocket or by REST.
Fairness ==
    /\ WF_vars(Poll)
    /\ \A t \in Refreshers :
           /\ WF_vars(Refresh(t))
           /\ \A e \in Exchanges :
                  SF_vars(Fetching(t, e) /\ (WsAnswers(t) \/ RestAnswers(t)))
    /\ \A t \in Readers : WF_vars(t \in readers /\ ~At(t, "idle") /\ DirectRead(t))

FairSpec == Spec /\ Fairness

\* snapshot_sort_datetime: the exchange's timestamp decides.
Newer(left, right) == IF left >= right THEN left ELSE right

\* The snapshot the strategy runtime evaluates (_cached_orderbook_snapshot).
Used(e) == Newer(cache[e], redis[e])

\* An exception, a failure or a skip never leaves a target in flight that
\* nobody fetches, and nobody fetches a target together with somebody else.
InflightIsFetched ==
    \A e \in Exchanges :
        Cardinality({t \in Refreshers : Fetching(t, e)})
            = IF e \in inflight THEN 1 ELSE 0

\* As long as nobody reads around the guard, the strategy never evaluates an
\* older book than it has evaluated before, whichever thread fetched it,
\* whether or not Redis took it and whenever the key expires.
UsedNeverOlder == [][readers = {} => \A e \in Exchanges : Used(e) <= Used(e)']_vars

\* While the poller lives, a target whose book has stopped moving is in the
\* end evaluated as it is, and stays so: neither a slower thread nor a direct
\* reader leaves an older book there for good.
TargetsCatchUp ==
    \A e \in Exchanges : <>[](polling /\ e \in Targets) => <>[](Used(e) = book[e])

\* What _state_name asks for before it says degraded.
Degraded == ~polling /\ health = "failed"

\* src/docs/06_exchange_validation.md:50 wants a lost websocket to lead to REST
\* as a fallback, or to a degraded state.
WsFailureFallsBack ==
    [][\A t \in Refreshers :
           At(t, "ws") /\ op'[t].at \notin {"ws", "cache"}
               => op'[t].at = "rest" \/ Degraded']_vars
=============================================================================
