------------------------------ MODULE BotState ------------------------------
(***************************************************************************)
(* The copy of a bot's detail in Redis, bot:{bot_key}:state: the handlers  *)
(* of register, heartbeat, assign-config and config-ack afterwards read    *)
(* the bot's detail from the store and SET the key, over the shared client *)
(* of RedisPool, with a time to live (route_handlers_redis.py,             *)
(* _sync_bot_state; redis_runtime.py, sync_bot_state).  The handlers that  *)
(* start or stop a run or acknowledge an alert leave the copy alone.       *)
(*                                                                         *)
(* Every one of these requests, a heartbeat too, changes the detail, and   *)
(* they go on for ever.  Of these changes a behaviour marks some, any of   *)
(* them, and a detail is the number of marked changes it shows: details    *)
(* between two marks are not told apart.                                   *)
(***************************************************************************)
EXTENDS RedisPool

CONSTANT MaxChanges    \* marked changes, the registration is the first

VARIABLES
    detail,    \* what the store shows of the bot
    handler    \* what each handler thread does next

botVars == <<poolVars, detail, handler>>

Absent == 0    \* the key is not there

BotInit ==
    /\ PoolInit
    /\ detail = 1
    /\ handler = [t \in Threads |-> "waiting"]

\* The detail after a change, which may be one of the marked ones.
Grown == {detail, detail + 1} \cap 1 .. MaxChanges

\* Mutant: the heartbeat handler does not refresh the copy.
HeartbeatOnly(t) ==
    /\ handler[t] = "waiting" /\ at[t] = "idle"
    /\ detail' \in Grown
    /\ UNCHANGED <<poolVars, handler>>

\* record_heartbeat; if something is down an alert is emitted next.
Heartbeat(t) ==
    /\ handler[t] = "waiting" /\ at[t] = "idle"
    /\ detail' \in Grown
    /\ \E next \in {"alert", "sync"} : handler' = [handler EXCEPT ![t] = next]
    /\ UNCHANGED poolVars

\* _emit_heartbeat_alert_if_needed, another operation on the store.
EmitAlert(t) ==
    /\ handler[t] = "alert"
    /\ detail' \in Grown
    /\ handler' = [handler EXCEPT ![t] = "sync"]
    /\ UNCHANGED poolVars

\* register_bot, assign_config or acknowledge_config_assignment.
Change(t) ==
    /\ handler[t] = "waiting" /\ at[t] = "idle"
    /\ detail' \in Grown
    /\ handler' = [handler EXCEPT ![t] = "sync"]
    /\ UNCHANGED poolVars

\* acknowledge_alert, and a run that is created, started or stopped.
ChangeUnsynced(t) ==
    /\ handler[t] = "waiting" /\ at[t] = "idle"
    /\ detail' \in Grown
    /\ UNCHANGED <<poolVars, handler>>

\* _sync_bot_state: get_bot_detail; what it returned is then SET.
SyncBotState(t) ==
    /\ handler[t] = "sync"
    /\ Request(t, detail)
    /\ handler' = [handler EXCEPT ![t] = "waiting"]
    /\ UNCHANGED detail

\* BOT_STATE_TTL_SECONDS have passed since the last SET.
Expire ==
    /\ key # Absent
    /\ key' = Absent
    /\ UNCHANGED <<idle, open, closes, at, conn, value, wire, orphans, detail, handler>>

BotNext ==
    \/ PoolStep /\ UNCHANGED <<detail, handler>>
    \/ \E t \in Threads :
           \/ Heartbeat(t) \/ EmitAlert(t) \/ Change(t) \/ ChangeUnsynced(t)
           \/ SyncBotState(t)
    \/ Expire

\* Handlers and Redis go on (weak); a thread that waits for a connection gets
\* one of those that come free again and again, connects again and again, and
\* Redis executes a command again and again before it is given up (strong).
\* Heartbeats keep coming, to any of the threads.  Other requests and close()
\* need not, and no answer need ever come in time.
Fairness ==
    /\ WF_botVars(\E t \in Threads : Heartbeat(t))
    /\ \A t \in Threads :
           /\ WF_botVars(EmitAlert(t)) /\ WF_botVars(SyncBotState(t))
           /\ WF_botVars(Proceed(t) /\ UNCHANGED <<detail, handler>>)
           /\ SF_botVars(Acquire(t) /\ UNCHANGED <<detail, handler>>)
           /\ SF_botVars(Send(t) /\ UNCHANGED <<detail, handler>>)
    /\ \A c \in Connections : SF_botVars(Serve(c) /\ UNCHANGED <<detail, handler>>)
    /\ \A v \in 1 .. MaxChanges : WF_botVars(ServeOrphan(v) /\ UNCHANGED <<detail, handler>>)

BotSpec == BotInit /\ [][BotNext]_botVars /\ Fairness

\* The copy is overwritten with older states by handlers that were overtaken
\* and by commands that were given up, misses the changes that no handler
\* copies, and expires.  But each change, while the bot goes on changing, is
\* after a time lost no more by any of these, and shown again and again.
ChangesReachCopy ==
    \A v \in 2 .. MaxChanges :
        /\ <>[](detail >= v /\ key # Absent => key >= v)
        /\ []<>(detail >= v => key >= v)
=============================================================================
