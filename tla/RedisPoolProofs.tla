-------------------------- MODULE RedisPoolProofs --------------------------
(***************************************************************************)
(* Proofs about the shared Redis client, driven by the handlers of         *)
(* BotState, for any number of threads, connections and calls of close().  *)
(***************************************************************************)
EXTENDS BotState, FiniteSetTheorems, SequenceTheorems, TLAPS

Busy == {"send", "receive", "release", "discard"}

\* A thread has a connection exactly while it is between taking and giving it up.
HoldersBusy == \A t \in Threads : Holding(t) <=> at[t] \in Busy

ExclusiveInv == PoolTypeOK /\ HoldersBusy /\ ExclusiveConnections

\* What a step does to the pool, by the thread that makes it.
PoolCases ==
    \/ UNCHANGED <<idle, open, closes, at, conn, wire, value>>
    \/ \E t \in Threads, v \in {detail} : Request(t, v)
    \/ \E t \in Threads :
           \/ TakeIdle(t) \/ OpenNew(t) \/ Send(t) \/ Receive(t)
           \/ Release(t) \/ CloseConnection(t) \/ Uncount(t) \/ Break(t)
    \/ \E c \in Connections : Serve(c)
    \/ CloseClient

LEMMA StepCases == [BotNext]_botVars => PoolCases
BY DEF BotNext, botVars, poolVars, PoolStep, Acquire, Proceed, ServeOrphan, Heartbeat, EmitAlert,
       Change, ChangeUnsynced, SyncBotState, Expire, PoolCases

\* A thread goes on with the connection it has, or with none.
LEMMA StepOn ==
    ASSUME ExclusiveInv, NEW t \in Threads, NEW s \in Steps, GoTo(t, s),
           UNCHANGED <<idle, open, closes, conn>>, at[t] \in Busy <=> s \in Busy
    PROVE  ExclusiveInv'
<1>1. /\ at' \in [Threads -> Steps] /\ at'[t] = s /\ \A u \in Threads \ {t} : at'[u] = at[u]
  BY DEF ExclusiveInv, PoolTypeOK, GoTo
<1>2. HoldersBusy'
  BY <1>1 DEF ExclusiveInv, HoldersBusy, Holding
<1>3. ExclusiveConnections'
  BY DEF ExclusiveInv, ExclusiveConnections, Holding, Held, IdleSet
<1>4. QED
  BY <1>1, <1>2, <1>3 DEF ExclusiveInv, PoolTypeOK

LEMMA TakeIdleKeeps ==
    ASSUME ExclusiveInv, NEW t \in Threads, TakeIdle(t)
    PROVE  ExclusiveInv'
<1> DEFINE n == Len(idle)
<1>1. /\ idle \in Seq(Connections) /\ n \in Nat /\ n # 0 /\ idle[n] \in Connections
      /\ at \in [Threads -> Steps] /\ conn \in [Threads -> Connections \cup {None}]
  BY DEF ExclusiveInv, PoolTypeOK, TakeIdle
<1>2. /\ idle' \in Seq(Connections) /\ DOMAIN idle' = 1 .. n - 1
      /\ \A i \in 1 .. n - 1 : idle'[i] = idle[i] /\ i \in DOMAIN idle
      /\ n \in DOMAIN idle
  BY <1>1 DEF TakeIdle
<1>3. /\ conn' \in [Threads -> Connections \cup {None}] /\ conn'[t] = idle[n]
      /\ \A u \in Threads \ {t} : conn'[u] = conn[u]
      /\ at' \in [Threads -> Steps] /\ at'[t] = "send" /\ \A u \in Threads \ {t} : at'[u] = at[u]
  BY <1>1 DEF TakeIdle, GoTo, Steps
<1> HIDE DEF n
<1>4. \A u \in Threads : ~(Holding(u) /\ conn[u] = idle[n])
  BY <1>2 DEF ExclusiveInv, ExclusiveConnections, Held, IdleSet
<1>5. \A i, j \in DOMAIN idle' : idle'[i] = idle'[j] => i = j
  BY <1>1, <1>2 DEF ExclusiveInv, ExclusiveConnections
<1>6. \A i \in DOMAIN idle' : idle'[i] # idle[n]
  BY <1>1, <1>2 DEF ExclusiveInv, ExclusiveConnections
<1>7. \A u \in Threads, i \in DOMAIN idle' : ~(Holding(u)' /\ conn'[u] = idle'[i])
  BY <1>2, <1>3, <1>6 DEF ExclusiveInv, ExclusiveConnections, Held, IdleSet, Holding
<1>8. \A u, w \in Threads : Holding(u)' /\ conn'[u] = conn'[w] => u = w
  BY <1>3, <1>4 DEF ExclusiveInv, ExclusiveConnections, Holding
<1>9. ExclusiveConnections'
  BY <1>5, <1>7, <1>8 DEF ExclusiveConnections, Held, IdleSet
<1>10. HoldersBusy'
  BY <1>1, <1>3, NoneAssumption DEF ExclusiveInv, HoldersBusy, Holding, Busy
<1>11. QED
  BY <1>2, <1>3, <1>9, <1>10 DEF ExclusiveInv, PoolTypeOK, TakeIdle

LEMMA OpenNewKeeps ==
    ASSUME ExclusiveInv, NEW t \in Threads, OpenNew(t)
    PROVE  ExclusiveInv'
<1>1. PICK c \in Connections \ Alive : conn' = [conn EXCEPT ![t] = c]
  BY DEF OpenNew
<1>2. /\ at \in [Threads -> Steps] /\ conn \in [Threads -> Connections \cup {None}]
      /\ open \in Nat /\ idle' = idle /\ closes' = closes /\ open' = open + 1
  BY DEF ExclusiveInv, PoolTypeOK, OpenNew
<1>3. /\ conn' \in [Threads -> Connections \cup {None}] /\ conn'[t] = c
      /\ \A u \in Threads \ {t} : conn'[u] = conn[u]
      /\ at' \in [Threads -> Steps] /\ at'[t] = "send" /\ \A u \in Threads \ {t} : at'[u] = at[u]
  BY <1>1, <1>2 DEF OpenNew, GoTo, Steps
<1>4. /\ \A u \in Threads : ~(Holding(u) /\ conn[u] = c)
      /\ \A i \in DOMAIN idle : idle[i] # c
  BY <1>1 DEF Alive, Held, IdleSet
<1>5. \A u, w \in Threads : Holding(u)' /\ conn'[u] = conn'[w] => u = w
  BY <1>3, <1>4 DEF ExclusiveInv, ExclusiveConnections, Holding
<1>6. \A u \in Threads, i \in DOMAIN idle : ~(Holding(u)' /\ conn'[u] = idle[i])
  BY <1>3, <1>4 DEF ExclusiveInv, ExclusiveConnections, Held, IdleSet, Holding
<1>7. ExclusiveConnections'
  BY <1>2, <1>5, <1>6 DEF ExclusiveInv, ExclusiveConnections, Held, IdleSet
<1>8. HoldersBusy'
  BY <1>1, <1>3, NoneAssumption DEF ExclusiveInv, HoldersBusy, Holding, Busy
<1>9. QED
  BY <1>2, <1>3, <1>7, <1>8 DEF ExclusiveInv, PoolTypeOK

\* A connection is given up, to the pool or for good.
LEMMA ReleaseKeeps ==
    ASSUME ExclusiveInv, NEW t \in Threads, Release(t)
    PROVE  ExclusiveInv'
<1> DEFINE n == Len(idle)
<1>1. /\ idle \in Seq(Connections) /\ n \in Nat /\ Holding(t) /\ conn[t] \in Connections
      /\ at \in [Threads -> Steps] /\ conn \in [Threads -> Connections \cup {None}]
  BY DEF ExclusiveInv, PoolTypeOK, Release, HoldersBusy, Busy, Holding
<1>2. /\ idle' \in Seq(Connections) /\ DOMAIN idle' = DOMAIN idle \cup {n + 1}
      /\ \A i \in DOMAIN idle : idle'[i] = idle[i]
      /\ idle'[n + 1] = conn[t]
  <2>1. idle' = Append(idle, conn[t])
    BY DEF Release
  <2>2. QED
    BY <1>1, <2>1
<1>3. /\ conn' \in [Threads -> Connections \cup {None}] /\ conn'[t] = None
      /\ \A u \in Threads \ {t} : conn'[u] = conn[u]
      /\ at' \in [Threads -> Steps] /\ at'[t] = "idle" /\ \A u \in Threads \ {t} : at'[u] = at[u]
  BY <1>1 DEF Release, GoTo, Steps
<1> HIDE DEF n
<1>4. \A i \in DOMAIN idle : idle[i] # conn[t]
  BY <1>1 DEF ExclusiveInv, ExclusiveConnections, Held, IdleSet
<1>5. \A i, j \in DOMAIN idle' : idle'[i] = idle'[j] => i = j
  BY <1>2, <1>4 DEF ExclusiveInv, ExclusiveConnections
<1>6. \A u \in Threads, i \in DOMAIN idle' : ~(Holding(u)' /\ conn'[u] = idle'[i])
  <2>1. \A u \in Threads : Holding(u)' => u # t /\ Holding(u) /\ conn'[u] = conn[u]
    BY <1>3 DEF Holding
  <2>2. \A u \in Threads : Holding(u) /\ u # t => conn[u] # conn[t]
    BY DEF ExclusiveInv, ExclusiveConnections
  <2>3. \A u \in Threads, i \in DOMAIN idle : Holding(u) => conn[u] # idle[i]
    BY DEF ExclusiveInv, ExclusiveConnections, Held, IdleSet
  <2>4. QED
    BY <1>2, <2>1, <2>2, <2>3
<1>7. \A u, w \in Threads : Holding(u)' /\ conn'[u] = conn'[w] => u = w
  BY <1>3 DEF ExclusiveInv, ExclusiveConnections, Holding
<1>8. ExclusiveConnections'
  BY <1>5, <1>6, <1>7 DEF ExclusiveConnections, Held, IdleSet
<1>9. HoldersBusy'
  BY <1>3 DEF ExclusiveInv, HoldersBusy, Holding, Busy
<1>10. QED
  BY <1>2, <1>3, <1>8, <1>9 DEF ExclusiveInv, PoolTypeOK, Release

LEMMA CloseConnectionKeeps ==
    ASSUME ExclusiveInv, NEW t \in Threads, CloseConnection(t)
    PROVE  ExclusiveInv'
<1>1. /\ at \in [Threads -> Steps] /\ conn \in [Threads -> Connections \cup {None}]
      /\ UNCHANGED <<idle, open, closes>>
  BY DEF ExclusiveInv, PoolTypeOK, CloseConnection
<1>2. /\ conn' \in [Threads -> Connections \cup {None}] /\ conn'[t] = None
      /\ \A u \in Threads \ {t} : conn'[u] = conn[u]
      /\ at' \in [Threads -> Steps] /\ at'[t] = "uncount" /\ \A u \in Threads \ {t} : at'[u] = at[u]
  BY <1>1 DEF CloseConnection, GoTo, Steps
<1>3. \A u \in Threads, i \in DOMAIN idle : ~(Holding(u)' /\ conn'[u] = idle[i])
  BY <1>2 DEF ExclusiveInv, ExclusiveConnections, Held, IdleSet, Holding
<1>4. \A u, w \in Threads : Holding(u)' /\ conn'[u] = conn'[w] => u = w
  BY <1>2 DEF ExclusiveInv, ExclusiveConnections, Holding
<1>5. ExclusiveConnections'
  BY <1>1, <1>3, <1>4 DEF ExclusiveInv, ExclusiveConnections, Held, IdleSet
<1>6. HoldersBusy'
  BY <1>2 DEF ExclusiveInv, HoldersBusy, Holding, Busy
<1>7. QED
  BY <1>1, <1>2, <1>5, <1>6 DEF ExclusiveInv, PoolTypeOK

LEMMA ExclusiveKept == ExclusiveInv /\ [BotNext]_botVars => ExclusiveInv'
<1>1. SUFFICES ASSUME ExclusiveInv, PoolCases PROVE ExclusiveInv'
  BY StepCases
<1>2. ASSUME UNCHANGED <<idle, open, closes, at, conn, wire, value>> PROVE ExclusiveInv'
  BY <1>1, <1>2 DEF ExclusiveInv, PoolTypeOK, HoldersBusy, Holding, ExclusiveConnections, Held, IdleSet
<1>3. ASSUME NEW t \in Threads, \/ \E v \in {detail} : Request(t, v)
                                \/ Send(t) \/ Receive(t) \/ Break(t)
      PROVE  ExclusiveInv'
  <2>1. \E s \in Steps : /\ GoTo(t, s) /\ (at[t] \in Busy <=> s \in Busy)
                         /\ UNCHANGED <<idle, open, closes, conn>>
    BY <1>3 DEF Request, Send, Receive, Break, Steps, Busy
  <2>2. QED
    BY <1>1, <2>1, StepOn
<1>4. ASSUME NEW t \in Threads, Uncount(t) PROVE ExclusiveInv'
  <2>1. /\ UNCHANGED <<idle, closes, conn>> /\ open' \in Nat
        /\ at' \in [Threads -> Steps]
        /\ \A u \in Threads : at'[u] \in Busy <=> at[u] \in Busy
    BY <1>1, <1>4 DEF Uncount, GoTo, ExclusiveInv, PoolTypeOK, Steps, Busy
  <2>2. QED
    BY <1>1, <2>1 DEF ExclusiveInv, PoolTypeOK, HoldersBusy, Holding, ExclusiveConnections, Held, IdleSet
<1>5. ASSUME NEW c \in Connections, Serve(c) PROVE ExclusiveInv'
  <2>1. UNCHANGED <<idle, open, closes, at, conn>>
    BY <1>5 DEF Serve
  <2>2. QED
    BY <1>1, <2>1 DEF ExclusiveInv, PoolTypeOK, HoldersBusy, Holding, ExclusiveConnections, Held, IdleSet
<1>6. CASE CloseClient
  <2>1. idle' = << >> /\ open' = 0 /\ closes' \in Nat /\ at' = at /\ conn' = conn
    BY <1>1, <1>6 DEF CloseClient, ExclusiveInv, PoolTypeOK
  <2>2. QED
    BY <1>1, <2>1 DEF ExclusiveInv, PoolTypeOK, HoldersBusy, Holding, ExclusiveConnections, Held, IdleSet
<1>7. QED
  BY <1>1, <1>2, <1>3, <1>4, <1>5, <1>6, TakeIdleKeeps, OpenNewKeeps, ReleaseKeeps,
     CloseConnectionKeeps DEF PoolCases

LEMMA ExclusiveInvariant == BotSpec => []ExclusiveInv
<1>1. BotInit => ExclusiveInv
  BY DEF BotInit, PoolInit, ExclusiveInv, PoolTypeOK, HoldersBusy, Holding, Busy, Steps,
         ExclusiveConnections, Held, IdleSet
<1>2. QED
  BY <1>1, ExclusiveKept, PTL DEF BotSpec

\* RedisClient: no connection is ever used by two threads, or is idle while a
\* thread uses it, although connections are broken, closed and made again.
THEOREM ConnectionsExclusive == BotSpec => []ExclusiveConnections
<1>1. ExclusiveInv => ExclusiveConnections
  BY DEF ExclusiveInv
<1>2. QED
  BY <1>1, ExclusiveInvariant, PTL

-----------------------------------------------------------------------------
(* Answers                                                                   *)

Sent == [by : Threads, value : Nat, executed : BOOLEAN]

\* Only a connection whose thread waits for an answer, or has given up waiting,
\* has something on it, and in the first case nothing but that thread's command.
WireInv ==
    /\ wire \in [Connections -> Seq(Sent)]
    /\ value \in [Threads -> Nat] /\ detail \in Nat
    /\ \A c \in Connections : c \notin Held => wire[c] = << >>
    /\ \A t \in Threads :
           /\ at[t] \in {"send", "release"} => wire[conn[t]] = << >>
           /\ at[t] = "receive" => Len(wire[conn[t]]) = 1 /\ wire[conn[t]][1].by = t

\* A step of t that changes no other connection than t's.
LEMMA WireOthers ==
    ASSUME ExclusiveInv, ExclusiveInv', WireInv, NEW t \in Threads, NEW s, GoTo(t, s),
           wire' \in [Connections -> Seq(Sent)], value' \in [Threads -> Nat], detail' \in Nat,
           \A u \in Threads \ {t} : conn'[u] = conn[u],
           \A c \in Connections :
               /\ c # conn[t] /\ c # conn'[t] => wire'[c] = wire[c]
               /\ c \in {conn[t], conn'[t]} /\ ~(Holding(t)' /\ c = conn'[t]) => wire'[c] = << >>,
           /\ s \in {"send", "release"} => wire'[conn'[t]] = << >>
           /\ s = "receive" => Len(wire'[conn'[t]]) = 1 /\ wire'[conn'[t]][1].by = t,
           \A u \in Threads \ {t} : Holding(u) => conn[u] # conn'[t]
    PROVE  WireInv'
<1>1. /\ at' = [at EXCEPT ![t] = s] /\ at \in [Threads -> Steps]
      /\ conn \in [Threads -> Connections \cup {None}]
      /\ conn' \in [Threads -> Connections \cup {None}]
  BY DEF ExclusiveInv, PoolTypeOK, GoTo
<1>2. ASSUME NEW u \in Threads, u # t, at[u] \in {"send", "release", "receive"}
      PROVE  at'[u] = at[u] /\ conn'[u] = conn[u] /\ wire'[conn[u]] = wire[conn[u]]
  <2>1. Holding(u) /\ conn[u] \in Connections
    BY <1>1, <1>2 DEF ExclusiveInv, HoldersBusy, Holding, Busy
  <2>2. conn[u] # conn[t] /\ conn[u] # conn'[t]
    BY <1>2, <2>1 DEF ExclusiveInv, ExclusiveConnections
  <2>3. QED
    BY <1>1, <1>2, <2>1, <2>2
<1>3. ASSUME NEW c \in Connections, c \notin Held' PROVE wire'[c] = << >>
  <2>1. CASE c \in {conn[t], conn'[t]}
    BY <1>3, <2>1 DEF Held
  <2>2. CASE c \notin {conn[t], conn'[t]}
    <3>1. c \notin Held
      BY <1>3, <2>2 DEF Held, Holding
    <3>2. QED
      BY <2>2, <3>1 DEF WireInv
  <2>3. QED
    BY <2>1, <2>2
<1>4. \A u \in Threads :
          /\ at'[u] \in {"send", "release"} => wire'[conn'[u]] = << >>
          /\ at'[u] = "receive" => Len(wire'[conn'[u]]) = 1 /\ wire'[conn'[u]][1].by = u
  <2>1. ASSUME NEW u \in Threads, u # t
        PROVE  /\ at'[u] \in {"send", "release"} => wire'[conn'[u]] = << >>
               /\ at'[u] = "receive" => Len(wire'[conn'[u]]) = 1 /\ wire'[conn'[u]][1].by = u
    BY <1>1, <1>2, <2>1 DEF WireInv
  <2>2. at'[t] = s
    BY <1>1
  <2>3. QED
    BY <2>1, <2>2
<1>5. QED
  BY <1>3, <1>4 DEF WireInv

LEMMA WireKept == ExclusiveInv /\ WireInv /\ [BotNext]_botVars => WireInv'
<1>1. SUFFICES ASSUME ExclusiveInv, WireInv, [BotNext]_botVars, ExclusiveInv' PROVE WireInv'
  BY ExclusiveKept
<1>2. /\ wire \in [Connections -> Seq(Sent)] /\ value \in [Threads -> Nat] /\ detail \in Nat
      /\ at \in [Threads -> Steps] /\ conn \in [Threads -> Connections \cup {None}]
      /\ \A t \in Threads : at[t] \in Busy => conn[t] \in Connections /\ Holding(t)
  BY <1>1 DEF WireInv, ExclusiveInv, PoolTypeOK, HoldersBusy, Holding
<1>3. detail' \in Nat
  BY <1>1, <1>2 DEF BotNext, botVars, poolVars, Heartbeat, EmitAlert, Change, ChangeUnsynced,
                    SyncBotState, Expire, Grown
<1>4. SUFFICES ASSUME PoolCases PROVE WireInv'
  BY <1>1, StepCases
<1>5. ASSUME UNCHANGED <<at, conn, wire, value>> PROVE WireInv'
  BY <1>1, <1>3, <1>5 DEF WireInv, Held, Holding
<1>6. ASSUME NEW t \in Threads, NEW s, GoTo(t, s), s \notin {"send", "release", "receive"},
             UNCHANGED <<conn, wire>>, value' \in [Threads -> Nat],
             Holding(t) => s = "discard"
      PROVE  WireInv'
  <2>1. \A c \in Connections :
            c = conn[t] => Holding(t) /\ Holding(t)' /\ c = conn'[t]
    BY <1>6, NoneAssumption DEF Holding
  <2>2. \A u \in Threads \ {t} : Holding(u) => conn[u] # conn'[t]
    BY <1>1, <1>6 DEF ExclusiveInv, ExclusiveConnections
  <2>3. QED
    BY <1>1, <1>2, <1>3, <1>6, <2>1, <2>2, WireOthers
<1>7. ASSUME NEW t \in Threads, Request(t, detail) PROVE WireInv'
  <2>1. value' \in [Threads -> Nat] /\ GoTo(t, "acquire") /\ UNCHANGED <<conn, wire>>
    BY <1>2, <1>7 DEF Request
  <2>2. ~Holding(t)
    BY <1>1, <1>7 DEF Request, ExclusiveInv, HoldersBusy, Busy
  <2>3. QED
    BY <1>6, <2>1, <2>2
<1>8. ASSUME NEW t \in Threads, Break(t) PROVE WireInv'
  BY <1>2, <1>6, <1>8 DEF Break
<1>9. ASSUME NEW t \in Threads, Uncount(t) PROVE WireInv'
  <2>1. GoTo(t, "idle") /\ UNCHANGED <<conn, wire, value>>
    BY <1>9 DEF Uncount
  <2>2. ~Holding(t)
    BY <1>1, <1>9 DEF Uncount, ExclusiveInv, HoldersBusy, Busy
  <2>3. QED
    BY <1>2, <1>6, <2>1, <2>2
<1>10. ASSUME NEW t \in Threads, NEW c \in Connections, c \notin Held, ~Holding(t),
              conn' = [conn EXCEPT ![t] = c], GoTo(t, "send"), UNCHANGED <<wire, value>>
       PROVE  WireInv'
  <2>1. /\ conn'[t] = c /\ wire[c] = << >> /\ conn[t] \notin Connections
        /\ \A u \in Threads \ {t} : conn'[u] = conn[u]
        /\ \A u \in Threads : Holding(u) => conn[u] # c
    BY <1>1, <1>2, <1>10, NoneAssumption DEF WireInv, Held, Holding
  <2>2. Holding(t)'
    BY <2>1, NoneAssumption DEF Holding
  <2>3. QED
    BY <1>1, <1>2, <1>3, <1>10, <2>1, <2>2, WireOthers
<1>11. ASSUME NEW t \in Threads, TakeIdle(t) PROVE WireInv'
  <2> DEFINE c == idle[Len(idle)]
  <2>1. c \in Connections /\ c \in IdleSet
    BY <1>1, <1>11 DEF TakeIdle, IdleSet, ExclusiveInv, PoolTypeOK
  <2>2. c \notin Held /\ ~Holding(t)
    BY <1>1, <1>11, <2>1 DEF TakeIdle, ExclusiveInv, ExclusiveConnections, HoldersBusy, Busy
  <2>3. QED
    BY <1>10, <1>11, <2>1, <2>2 DEF TakeIdle
<1>12. ASSUME NEW t \in Threads, OpenNew(t) PROVE WireInv'
  <2>1. ~Holding(t)
    BY <1>1, <1>12 DEF OpenNew, ExclusiveInv, HoldersBusy, Busy
  <2>2. QED
    BY <1>10, <1>12, <2>1 DEF OpenNew, Alive
<1>13. ASSUME NEW t \in Threads, NEW s, NEW w \in Seq(Sent), GoTo(t, s), Holding(t),
              UNCHANGED <<conn, value>>, wire' = [wire EXCEPT ![conn[t]] = w],
              s \in {"send", "release"} => w = << >>,
              s = "receive" => Len(w) = 1 /\ w[1].by = t
       PROVE  WireInv'
  <2>1. conn[t] \in Connections
    BY <1>2, <1>13 DEF Holding
  <2>2. /\ wire' \in [Connections -> Seq(Sent)] /\ wire'[conn[t]] = w
        /\ \A c \in Connections : c # conn[t] => wire'[c] = wire[c]
    BY <1>2, <1>13, <2>1
  <2>3. \A u \in Threads \ {t} : Holding(u) => conn[u] # conn'[t]
    BY <1>1, <1>13 DEF ExclusiveInv, ExclusiveConnections
  <2>4. Holding(t)'
    BY <1>13 DEF Holding
  <2>5. QED
    BY <1>1, <1>2, <1>3, <1>13, <2>1, <2>2, <2>3, <2>4, WireOthers
<1>14. ASSUME NEW t \in Threads, Send(t) PROVE WireInv'
  <2>1. Command(t) \in Sent /\ Command(t).by = t
    BY <1>2 DEF Command, Sent
  <2>2. wire[conn[t]] = << >> /\ Holding(t)
    BY <1>1, <1>2, <1>14 DEF Send, WireInv, Busy
  <2>3. Append(wire[conn[t]], Command(t)) = <<Command(t)>>
    BY <2>2
  <2>4. wire' = [wire EXCEPT ![conn[t]] = <<Command(t)>>] /\ GoTo(t, "receive")
        /\ UNCHANGED <<conn, value>>
    BY <1>14, <2>3 DEF Send
  <2> HIDE DEF Command
  <2>5. <<Command(t)>> \in Seq(Sent) /\ Len(<<Command(t)>>) = 1 /\ <<Command(t)>>[1] = Command(t)
    BY <2>1
  <2>6. QED
    BY <1>13, <2>1, <2>2, <2>4, <2>5
<1>15. ASSUME NEW t \in Threads, Receive(t) PROVE WireInv'
  <2>1. Holding(t) /\ Len(wire[conn[t]]) = 1 /\ wire[conn[t]] \in Seq(Sent)
    BY <1>1, <1>2, <1>15 DEF Receive, WireInv, Busy
  <2>2. Tail(wire[conn[t]]) = << >>
    <3>1. /\ Tail(wire[conn[t]]) \in Seq(Sent)
          /\ Len(Tail(wire[conn[t]])) = 0
      BY <1>15, <2>1, HeadTailProperties DEF Receive
    <3>2. QED
      BY <3>1, EmptySeq
  <2>3. wire' = [wire EXCEPT ![conn[t]] = << >>] /\ GoTo(t, "release") /\ UNCHANGED <<conn, value>>
    BY <1>15, <2>2 DEF Receive
  <2>4. << >> \in Seq(Sent)
    OBVIOUS
  <2>5. QED
    BY <1>13, <2>1, <2>3, <2>4
<1>16. ASSUME NEW t \in Threads, NEW s, s \in {"idle", "uncount"}, GoTo(t, s), Holding(t),
              conn' = [conn EXCEPT ![t] = None], UNCHANGED value,
              wire' = [wire EXCEPT ![conn[t]] = << >>]
       PROVE  WireInv'
  <2>1. conn[t] \in Connections /\ conn'[t] = None /\ \A u \in Threads \ {t} : conn'[u] = conn[u]
    BY <1>2, <1>16 DEF Holding
  <2>2. /\ wire' \in [Connections -> Seq(Sent)] /\ wire'[conn[t]] = << >>
        /\ \A c \in Connections : c # conn[t] => wire'[c] = wire[c]
    <3>1. << >> \in Seq(Sent)
      OBVIOUS
    <3>2. wire \in [Connections -> Seq(Sent)]
      BY <1>2
    <3> DEFINE mine == conn[t]
    <3>3. mine \in Connections /\ wire' = [wire EXCEPT ![mine] = << >>]
      BY <1>16, <2>1
    <3> HIDE DEF mine
    <3>4. QED
      BY <3>1, <3>2, <3>3 DEF mine
  <2>3. \A u \in Threads \ {t} : Holding(u) => conn[u] # conn'[t]
    BY <2>1 DEF Holding
  <2>4. conn'[t] \notin Connections
    BY <2>1, NoneAssumption
  <2>5. QED
    BY <1>1, <1>2, <1>3, <1>16, <2>1, <2>2, <2>3, <2>4, WireOthers
<1>17. ASSUME NEW t \in Threads, Release(t) PROVE WireInv'
  <2>1. Holding(t) /\ wire[conn[t]] = << >> /\ conn[t] \in Connections
    BY <1>1, <1>2, <1>17 DEF Release, WireInv, Busy
  <2>2. wire' = [wire EXCEPT ![conn[t]] = << >>]
    BY <1>2, <1>17, <2>1 DEF Release
  <2>3. QED
    BY <1>16, <1>17, <2>1, <2>2 DEF Release
<1>18. ASSUME NEW t \in Threads, CloseConnection(t) PROVE WireInv'
  <2>1. Holding(t)
    BY <1>2, <1>18 DEF CloseConnection, Busy
  <2>2. QED
    BY <1>16, <1>18, <2>1 DEF CloseConnection
<1>19. ASSUME NEW c \in Connections, Serve(c) PROVE WireInv'
  <2>1. PICK i \in DOMAIN wire[c] : wire' = [wire EXCEPT ![c][i].executed = TRUE]
    BY <1>19 DEF Serve
  <2>2. wire[c] \in Seq(Sent) /\ wire[c][i] \in Sent
    BY <1>2
  <2> DEFINE new == [wire[c][i] EXCEPT !.executed = TRUE]
             queue == [wire[c] EXCEPT ![i] = new]
  <2>3. new \in Sent /\ new.by = wire[c][i].by
    BY <2>2 DEF Sent
  <2>4. wire' = [wire EXCEPT ![c] = queue]
    BY <2>1
  <2> HIDE DEF new
  <2>5. /\ queue \in Seq(Sent) /\ Len(queue) = Len(wire[c])
        /\ \A j \in DOMAIN wire[c] : queue[j].by = wire[c][j].by
    BY <2>2, <2>3
  <2> HIDE DEF queue
  <2>6. /\ wire' \in [Connections -> Seq(Sent)]
        /\ \A d \in Connections : /\ Len(wire'[d]) = Len(wire[d])
                                  /\ \A j \in DOMAIN wire[d] : wire'[d][j].by = wire[d][j].by
    BY <1>2, <2>4, <2>5
  <2>7. \A d \in Connections : wire[d] = << >> => wire'[d] = << >>
    BY <1>2, <2>6
  <2>8. \A d \in Connections : Len(wire[d]) = 1 => Len(wire'[d]) = 1 /\ wire'[d][1].by = wire[d][1].by
    BY <1>2, <2>6
  <2>9. at' = at /\ conn' = conn /\ value' = value
    BY <1>19 DEF Serve
  <2>10. \A d \in Connections : d \notin Held' => wire'[d] = << >>
    BY <1>1, <2>7, <2>9 DEF WireInv, Held, Holding
  <2>11. ASSUME NEW t \in Threads
         PROVE  /\ at[t] \in {"send", "release"} => wire'[conn[t]] = << >>
                /\ at[t] = "receive" => Len(wire'[conn[t]]) = 1 /\ wire'[conn[t]][1].by = t
    <3>1. at[t] \in {"send", "release", "receive"} => conn[t] \in Connections
      BY <1>2 DEF Busy
    <3>2. QED
      BY <1>1, <2>7, <2>8, <3>1 DEF WireInv
  <2>12. QED
    BY <1>2, <1>3, <2>6, <2>9, <2>10, <2>11 DEF WireInv
<1>20. CASE CloseClient
  BY <1>5, <1>20 DEF CloseClient
<1>21. QED
  BY <1>4, <1>5, <1>7, <1>8, <1>9, <1>11, <1>12, <1>14, <1>15, <1>17, <1>18, <1>19, <1>20
  DEF PoolCases

LEMMA WireInvariant == BotSpec => []WireInv
<1>1. BotInit => WireInv
  <2>1. SUFFICES ASSUME BotInit PROVE WireInv
    OBVIOUS
  <2>2. /\ at = [t \in Threads |-> "idle"] /\ value = [t \in Threads |-> 0]
        /\ wire = [c \in Connections |-> << >>] /\ detail = 1
    BY <2>1 DEF BotInit, PoolInit
  <2>3. << >> \in Seq(Sent)
    OBVIOUS
  <2>4. QED
    BY <2>2, <2>3 DEF WireInv
<1>2. QED
  BY <1>1, ExclusiveInvariant, WireKept, PTL DEF BotSpec

\* RedisConnection: the answer that a thread reads is that of its own command,
\* although commands are given up with their answers still to come.
THEOREM AnswersOwn == BotSpec => []OwnAnswer
<1>1. ExclusiveInv /\ WireInv => OwnAnswer
  <2>1. SUFFICES ASSUME ExclusiveInv, WireInv, NEW t \in Threads, at[t] = "receive"
                 PROVE  wire[conn[t]] # << >> /\ Head(wire[conn[t]]).by = t
    BY DEF OwnAnswer
  <2>2. conn[t] \in Connections
    BY <2>1 DEF ExclusiveInv, PoolTypeOK, HoldersBusy, Holding, Busy
  <2>3. wire[conn[t]] \in Seq(Sent) /\ Len(wire[conn[t]]) = 1 /\ wire[conn[t]][1].by = t
    BY <2>1, <2>2 DEF WireInv
  <2>4. QED
    BY <2>3
<1>2. QED
  BY <1>1, ExclusiveInvariant, WireInvariant, PTL

-----------------------------------------------------------------------------
(* How many connections there are                                            *)

\* Threads whose connection is closed and not yet counted out.
Uncounting == {t \in Threads : at[t] = "uncount"}

\* close() forgets at most max_connections, so the count is at most that much
\* too low for each call.
CountInv ==
    /\ IsFiniteSet(Alive) /\ IsFiniteSet(Uncounting)
    /\ open <= MaxConnections
    /\ Cardinality(Alive) + Cardinality(Uncounting) <= open + MaxConnections * closes

LEMMA CountKept == ExclusiveInv /\ CountInv /\ [BotNext]_botVars => CountInv'
<1>1. SUFFICES ASSUME ExclusiveInv, CountInv, PoolCases, ExclusiveInv' PROVE CountInv'
  BY StepCases, ExclusiveKept
<1>2. /\ idle \in Seq(Connections) /\ open \in Nat /\ closes \in Nat /\ MaxConnections \in Nat
      /\ at \in [Threads -> Steps] /\ conn \in [Threads -> Connections \cup {None}]
      /\ \A t \in Threads : at[t] \in Busy <=> Holding(t)
      /\ IsFiniteSet(Alive) /\ IsFiniteSet(Uncounting) /\ open <= MaxConnections
      /\ Cardinality(Alive) \in Nat /\ Cardinality(Uncounting) \in Nat
      /\ Cardinality(Alive) + Cardinality(Uncounting) <= open + MaxConnections * closes
  BY <1>1, MaxConnectionsAssumption, FS_CardinalityType
  DEF CountInv, ExclusiveInv, PoolTypeOK, HoldersBusy
<1>3. ASSUME Alive' = Alive, Uncounting' = Uncounting, open' = open, closes' = closes
      PROVE  CountInv'
  BY <1>2, <1>3 DEF CountInv
<1>4. ASSUME UNCHANGED <<idle, open, closes, at, conn>> PROVE CountInv'
  BY <1>3, <1>4 DEF Alive, Held, Holding, IdleSet, Uncounting
<1>5. ASSUME NEW t \in Threads, NEW s, GoTo(t, s), at[t] # "uncount", s # "uncount",
             UNCHANGED <<idle, open, closes, conn>>
      PROVE  CountInv'
  <2>1. Uncounting' = Uncounting
    BY <1>2, <1>5 DEF GoTo, Uncounting
  <2>2. QED
    BY <1>3, <1>5, <2>1 DEF Alive, Held, Holding, IdleSet
<1>6. ASSUME NEW t \in Threads, TakeIdle(t) PROVE CountInv'
  <2> DEFINE n == Len(idle)
  <2>0. /\ n \in Nat \ {0} /\ DOMAIN idle = 1 .. n /\ idle[n] \in Connections
        /\ DOMAIN idle' = 1 .. n - 1 /\ \A i \in 1 .. n - 1 : idle'[i] = idle[i]
    BY <1>2, <1>6 DEF TakeIdle
  <2>1. IdleSet = IdleSet' \cup {idle[n]}
    <3>1. 1 .. n = (1 .. n - 1) \cup {n}
      BY <2>0
    <3> HIDE DEF n
    <3>2. QED
      BY <2>0, <3>1 DEF IdleSet
  <2>2. /\ conn'[t] = idle[n] /\ \A u \in Threads \ {t} : conn'[u] = conn[u]
        /\ ~Holding(t)
    BY <1>2, <1>6 DEF TakeIdle, Busy
  <2>3. Held' = Held \cup {idle[n]}
    BY <2>0, <2>2, NoneAssumption DEF Held, Holding
  <2>4. Uncounting' = Uncounting /\ open' = open /\ closes' = closes
    BY <1>2, <1>6 DEF TakeIdle, GoTo, Uncounting
  <2>5. QED
    BY <1>3, <2>1, <2>3, <2>4 DEF Alive
<1>7. ASSUME NEW t \in Threads, Release(t) PROVE CountInv'
  <2>1. Holding(t) /\ conn[t] \in Connections /\ IdleSet' = IdleSet \cup {conn[t]}
    <3>1. Holding(t) /\ conn[t] \in Connections /\ idle' = Append(idle, conn[t])
      BY <1>2, <1>7 DEF Release, Busy, Holding
    <3>2. IdleSet' = IdleSet \cup {conn[t]}
      BY <1>2, <3>1 DEF IdleSet
    <3>3. QED
      BY <3>1, <3>2
  <2>2. /\ conn'[t] = None /\ \A u \in Threads \ {t} : conn'[u] = conn[u]
    BY <1>2, <1>7 DEF Release
  <2>3. Held = Held' \cup {conn[t]}
    BY <2>1, <2>2 DEF Held, Holding
  <2>4. Uncounting' = Uncounting /\ open' = open /\ closes' = closes
    BY <1>2, <1>7 DEF Release, GoTo, Uncounting
  <2>5. QED
    BY <1>3, <2>1, <2>3, <2>4 DEF Alive
<1>8. ASSUME NEW t \in Threads, OpenNew(t) PROVE CountInv'
  <2>1. PICK c \in Connections \ Alive : conn' = [conn EXCEPT ![t] = c]
    BY <1>8 DEF OpenNew
  <2>2. ~Holding(t) /\ conn'[t] = c /\ \A u \in Threads \ {t} : conn'[u] = conn[u]
    BY <1>2, <1>8, <2>1 DEF OpenNew, Busy
  <2>3. Held' = Held \cup {c}
    BY <2>2, NoneAssumption DEF Held, Holding
  <2>4. Alive' = Alive \cup {c}
    BY <1>8, <2>3 DEF OpenNew, Alive, IdleSet
  <2>5. /\ IsFiniteSet(Alive') /\ Cardinality(Alive') = Cardinality(Alive) + 1
    BY <1>2, <2>1, <2>4, FS_AddElement
  <2>6. /\ Uncounting' = Uncounting /\ open' = open + 1 /\ open < MaxConnections
        /\ closes' = closes
    BY <1>2, <1>8 DEF OpenNew, GoTo, Uncounting
  <2>7. MaxConnections * closes \in Nat
    BY <1>2
  <2>8. QED
    BY <1>2, <2>5, <2>6, <2>7 DEF CountInv
<1>9. ASSUME NEW t \in Threads, CloseConnection(t) PROVE CountInv'
  <2>1. Holding(t) /\ conn[t] \in Alive
    BY <1>2, <1>9 DEF CloseConnection, Busy, Alive, Held
  <2>2. /\ conn'[t] = None /\ \A u \in Threads \ {t} : conn'[u] = conn[u]
        /\ IdleSet' = IdleSet
    BY <1>2, <1>9 DEF CloseConnection, IdleSet
  <2>3. Held' \subseteq Held \ {conn[t]}
    BY <1>1, <2>2 DEF Held, Holding, ExclusiveInv, ExclusiveConnections
  <2>4. Alive' \subseteq Alive \ {conn[t]}
    BY <1>1, <2>1, <2>2, <2>3 DEF Alive, Held, ExclusiveInv, ExclusiveConnections
  <2>5. IsFiniteSet(Alive \ {conn[t]}) /\ Cardinality(Alive \ {conn[t]}) = Cardinality(Alive) - 1
    BY <1>2, <2>1, FS_RemoveElement
  <2>6. IsFiniteSet(Alive') /\ Cardinality(Alive') <= Cardinality(Alive) - 1
    BY <2>4, <2>5, FS_Subset
  <2>7. Uncounting' = Uncounting \cup {t} /\ t \notin Uncounting
    BY <1>2, <1>9 DEF CloseConnection, GoTo, Uncounting
  <2>8. IsFiniteSet(Uncounting') /\ Cardinality(Uncounting') = Cardinality(Uncounting) + 1
    BY <1>2, <2>7, FS_AddElement
  <2>9. /\ Cardinality(Alive') \in Nat /\ open' = open /\ closes' = closes
        /\ MaxConnections * closes \in Nat
    BY <1>2, <1>9, <2>6, FS_CardinalityType DEF CloseConnection
  <2>10. QED
    BY <1>2, <2>6, <2>8, <2>9 DEF CountInv
<1>10. ASSUME NEW t \in Threads, Uncount(t) PROVE CountInv'
  <2>1. /\ Uncounting' = Uncounting \ {t} /\ t \in Uncounting /\ closes' = closes
        /\ open' = IF open = 0 THEN 0 ELSE open - 1
        /\ idle' = idle /\ conn' = conn
    BY <1>2, <1>10 DEF Uncount, GoTo, Uncounting
  <2>2. Alive' = Alive
    BY <2>1 DEF Alive, Held, Holding, IdleSet
  <2>3. IsFiniteSet(Uncounting') /\ Cardinality(Uncounting') = Cardinality(Uncounting) - 1
    BY <1>2, <2>1, FS_RemoveElement
  <2>4. MaxConnections * closes \in Nat
    BY <1>2
  <2>5. QED
    BY <1>2, <2>1, <2>2, <2>3, <2>4 DEF CountInv
<1>11. CASE CloseClient
  <2>1. /\ idle' = << >> /\ open' = 0 /\ closes' = closes + 1 /\ at' = at /\ conn' = conn
    BY <1>11 DEF CloseClient
  <2>2. Alive' \subseteq Alive /\ Uncounting' = Uncounting
    BY <2>1 DEF Alive, Held, Holding, IdleSet, Uncounting
  <2>3. IsFiniteSet(Alive') /\ Cardinality(Alive') <= Cardinality(Alive)
    BY <1>2, <2>2, FS_Subset
  <2>4. Cardinality(Alive') \in Nat
    BY <2>3, FS_CardinalityType
  <2>5. MaxConnections * (closes + 1) = MaxConnections * closes + MaxConnections
        /\ MaxConnections * closes \in Nat
    BY <1>2
  <2>6. Cardinality(Alive') + Cardinality(Uncounting') <= 0 + MaxConnections * (closes + 1)
    BY <1>2, <2>2, <2>3, <2>4, <2>5
  <2>7. QED
    BY <1>2, <2>1, <2>2, <2>3, <2>6 DEF CountInv
<1>12. ASSUME NEW t \in Threads, \/ Request(t, detail) \/ Send(t) \/ Receive(t) \/ Break(t)
       PROVE  CountInv'
  <2>1. PICK s \in {"acquire", "receive", "release", "discard"} : GoTo(t, s)
    BY <1>12 DEF Request, Send, Receive, Break
  <2>2. at[t] # "uncount" /\ UNCHANGED <<idle, open, closes, conn>>
    BY <1>12 DEF Request, Send, Receive, Break
  <2>3. QED
    BY <1>5, <2>1, <2>2
<1>13. ASSUME NEW c \in Connections, Serve(c) PROVE CountInv'
  BY <1>4, <1>13 DEF Serve
<1>14. QED
  BY <1>1, <1>4, <1>6, <1>7, <1>8, <1>9, <1>10, <1>11, <1>12, <1>13 DEF PoolCases

\* RedisClient: there are never more sockets than max_connections, and as many
\* again for each call of close().
THEOREM SocketsBounded == BotSpec => []ConnectionsBounded
<1>1. BotInit => CountInv
  <2>1. SUFFICES ASSUME BotInit PROVE CountInv
    OBVIOUS
  <2>2. Alive = {} /\ Uncounting = {} /\ open = 0 /\ closes = 0
    BY <2>1 DEF BotInit, PoolInit, Alive, Held, Holding, IdleSet, Uncounting
  <2>3. IsFiniteSet({}) /\ Cardinality({}) = 0
    BY FS_EmptySet
  <2>4. QED
    BY <2>2, <2>3, MaxConnectionsAssumption DEF CountInv
<1>2. ExclusiveInv /\ CountInv => ConnectionsBounded
  <2>1. SUFFICES ASSUME ExclusiveInv, CountInv
                 PROVE  Cardinality(Alive) <= MaxConnections * (1 + closes)
    BY DEF ConnectionsBounded
  <2>2. /\ Cardinality(Alive) \in Nat /\ Cardinality(Uncounting) \in Nat
        /\ open \in Nat /\ closes \in Nat /\ MaxConnections \in Nat /\ open <= MaxConnections
        /\ Cardinality(Alive) + Cardinality(Uncounting) <= open + MaxConnections * closes
    BY <2>1, MaxConnectionsAssumption, FS_CardinalityType DEF CountInv, ExclusiveInv, PoolTypeOK
  <2>3. /\ MaxConnections * (1 + closes) = MaxConnections + MaxConnections * closes
        /\ MaxConnections * closes \in Nat
    BY <2>2
  <2>4. QED
    BY <2>2, <2>3
<1>3. QED
  BY <1>1, <1>2, CountKept, ExclusiveInvariant, PTL DEF BotSpec
=============================================================================
