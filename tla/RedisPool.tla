------------------------------ MODULE RedisPool ------------------------------
(***************************************************************************)
(* The Redis client that every thread of the server shares                 *)
(* (redis_client.py): a pool of connections under a condition variable,    *)
(* and the connections themselves, on which one command is sent and one    *)
(* answer read.  A thread that finds no connection waits and looks again   *)
(* when it is notified or its wait times out, so waiting is the absence of *)
(* a step.                                                                 *)
(*                                                                         *)
(* A command SETs the one key that matters here; Redis executes what has   *)
(* reached it when it likes, even after the client gave the connection up. *)
(***************************************************************************)
EXTENDS Integers, Sequences, FiniteSets

CONSTANTS
    Threads,           \* threads that use the client
    Connections,       \* RedisConnection objects; one may be made again later
    MaxConnections,    \* max_connections
    MaxCloses,         \* bound on calls of close()
    None

ASSUME MaxConnectionsAssumption == MaxConnections \in Nat \ {0} /\ MaxCloses \in Nat
ASSUME NoneAssumption == None \notin Connections

VARIABLES
    idle,      \* _idle_connections, the end is popped first
    open,      \* _open_connections
    closes,    \* how often close() was called
    at,        \* where each thread is in execute
    conn,      \* the connection a thread has
    value,     \* what a thread's command SETs
    wire,      \* commands sent on a connection whose answers are unread
    orphans,   \* commands Redis has received on connections closed since
    key        \* the value of the key in Redis

poolVars == <<idle, open, closes, at, conn, value, wire, orphans, key>>

Steps == {"idle", "acquire", "send", "receive", "release", "discard", "uncount"}

IdleSet == {idle[i] : i \in DOMAIN idle}

\* Threads that hold a connection, and connections that are held or idle.
Holding(t) == conn[t] # None
Held == {conn[t] : t \in {u \in Threads : Holding(u)}}
Alive == Held \cup IdleSet

Command(t) == [by |-> t, value |-> value[t], executed |-> FALSE]

PoolInit ==
    /\ idle = << >> /\ open = 0 /\ closes = 0
    /\ at = [t \in Threads |-> "idle"]
    /\ conn = [t \in Threads |-> None]
    /\ value = [t \in Threads |-> 0]
    /\ wire = [c \in Connections |-> << >>]
    /\ orphans = {}
    /\ key = 0

GoTo(t, step) == at' = [at EXCEPT ![t] = step]

-----------------------------------------------------------------------------
\* RedisRuntime._execute: a thread wants to SET the key to v.
Request(t, v) ==
    /\ at[t] = "idle"
    /\ value' = [value EXCEPT ![t] = v]
    /\ GoTo(t, "acquire")
    /\ UNCHANGED <<idle, open, closes, conn, wire, orphans, key>>

\* Mutants of _acquire_connection: an idle connection is not taken out of the
\* pool; one connection too many is opened.
PeekIdle(t) ==
    /\ at[t] = "acquire" /\ idle # << >>
    /\ conn' = [conn EXCEPT ![t] = idle[Len(idle)]]
    /\ GoTo(t, "send")
    /\ UNCHANGED <<idle, open, closes, value, wire, orphans, key>>

OpenOneMore(t) ==
    /\ at[t] = "acquire" /\ idle = << >>
    /\ open <= MaxConnections
    /\ open' = open + 1
    /\ \E c \in Connections \ Alive : conn' = [conn EXCEPT ![t] = c]
    /\ GoTo(t, "send")
    /\ UNCHANGED <<idle, closes, value, wire, orphans, key>>

\* _acquire_connection, under the condition's lock.
TakeIdle(t) ==
    /\ at[t] = "acquire" /\ idle # << >>
    /\ conn' = [conn EXCEPT ![t] = idle[Len(idle)]]
    /\ idle' = SubSeq(idle, 1, Len(idle) - 1)
    /\ GoTo(t, "send")
    /\ UNCHANGED <<open, closes, value, wire, orphans, key>>

OpenNew(t) ==
    /\ at[t] = "acquire" /\ idle = << >>
    /\ open < MaxConnections
    /\ open' = open + 1
    /\ \E c \in Connections \ Alive : conn' = [conn EXCEPT ![t] = c]
    /\ GoTo(t, "send")
    /\ UNCHANGED <<idle, closes, value, wire, orphans, key>>

\* RedisConnection.execute: connect unless connected, send the command.
Send(t) ==
    /\ at[t] = "send"
    /\ wire' = [wire EXCEPT ![conn[t]] = Append(@, Command(t))]
    /\ GoTo(t, "receive")
    /\ UNCHANGED <<idle, open, closes, conn, value, orphans, key>>

\* Redis executes the commands of a connection in their order.
Serve(c) ==
    /\ \E i \in DOMAIN wire[c] :
           /\ ~ wire[c][i].executed /\ \A j \in 1 .. i - 1 : wire[c][j].executed
           /\ wire' = [wire EXCEPT ![c][i].executed = TRUE]
           /\ key' = wire[c][i].value
    /\ UNCHANGED <<idle, open, closes, at, conn, value, orphans>>

\* The first unread answer of the connection is read.
Receive(t) ==
    /\ at[t] = "receive" /\ wire[conn[t]] # << >> /\ Head(wire[conn[t]]).executed
    /\ wire' = [wire EXCEPT ![conn[t]] = Tail(@)]
    /\ GoTo(t, "release")
    /\ UNCHANGED <<idle, open, closes, conn, value, orphans, key>>

\* Mutant: a connection that failed goes back to the pool.
BreakKeepsConnection(t) ==
    /\ at[t] \in {"send", "receive"}
    /\ GoTo(t, "release")
    /\ UNCHANGED <<idle, open, closes, conn, value, wire, orphans, key>>

\* No connection, a timeout, a reset, a malformed answer or an error reply.
Break(t) ==
    /\ at[t] \in {"send", "receive"}
    /\ GoTo(t, "discard")
    /\ UNCHANGED <<idle, open, closes, conn, value, wire, orphans, key>>

\* _release_connection.
Release(t) ==
    /\ at[t] = "release"
    /\ idle' = Append(idle, conn[t])
    /\ conn' = [conn EXCEPT ![t] = None]
    /\ GoTo(t, "idle")
    /\ UNCHANGED <<open, closes, value, wire, orphans, key>>

Unexecuted(c) == {wire[c][i].value : i \in {j \in DOMAIN wire[c] : ~ wire[c][j].executed}}

\* _discard_connection: the socket is closed, then the count goes down.
\* What has reached Redis by then is executed all the same.
CloseConnection(t) ==
    /\ at[t] = "discard"
    /\ orphans' = orphans \cup Unexecuted(conn[t])
    /\ wire' = [wire EXCEPT ![conn[t]] = << >>]
    /\ conn' = [conn EXCEPT ![t] = None]
    /\ GoTo(t, "uncount")
    /\ UNCHANGED <<idle, open, closes, value, key>>

\* max(0, count - 1)
Uncount(t) ==
    /\ at[t] = "uncount"
    /\ open' = IF open = 0 THEN 0 ELSE open - 1
    /\ GoTo(t, "idle")
    /\ UNCHANGED <<idle, closes, conn, value, wire, orphans, key>>

ServeOrphan(v) ==
    /\ v \in orphans
    /\ orphans' = orphans \ {v}
    /\ key' \in {key, v}
    /\ UNCHANGED <<idle, open, closes, at, conn, value, wire>>

\* close(): forgets the idle connections and the count, not the ones in use.
CloseClient ==
    /\ closes < MaxCloses
    /\ idle' = << >> /\ open' = 0 /\ closes' = closes + 1
    /\ UNCHANGED <<at, conn, value, wire, orphans, key>>

Acquire(t) == TakeIdle(t) \/ OpenNew(t)
Proceed(t) ==
    Send(t) \/ Receive(t) \/ Release(t) \/ CloseConnection(t) \/ Uncount(t)

PoolStep ==
    \/ \E t \in Threads : Acquire(t) \/ Proceed(t) \/ Break(t)
    \/ \E c \in Connections : Serve(c)
    \/ \E v \in orphans : ServeOrphan(v)
    \/ CloseClient

-----------------------------------------------------------------------------
PoolTypeOK ==
    /\ idle \in Seq(Connections) /\ open \in Nat /\ closes \in Nat
    /\ at \in [Threads -> Steps]
    /\ conn \in [Threads -> Connections \cup {None}]

\* A connection is in the hands of one thread, or idle once, or neither.
ExclusiveConnections ==
    /\ \A t, u \in Threads : Holding(t) /\ conn[t] = conn[u] => t = u
    /\ \A i, j \in DOMAIN idle : idle[i] = idle[j] => i = j
    /\ Held \cap IdleSet = {}

\* The answer a thread is about to read is that of its own command, although
\* commands time out with their answers still to come.
OwnAnswer ==
    \A t \in Threads :
        at[t] = "receive" => wire[conn[t]] # << >> /\ Head(wire[conn[t]]).by = t

\* At most max_connections sockets are open; each call of close() adds at most
\* as many, since it no longer counts the ones in use.
ConnectionsBounded ==
    Cardinality(Alive) <= MaxConnections * (1 + closes)

=============================================================================
