------------------------------ MODULE PairLock ------------------------------
(***************************************************************************)
(* The pair lock of redis_runtime.py for one market and quote pair, one    *)
(* Redis command per step.  acquire_pair_lock reads the key and then either *)
(* refuses, overwrites it (SET EX, when it names the caller's own run) or  *)
(* claims it (SET NX EX, when it was free); release_pair_lock reads the    *)
(* key and then deletes it.  What a GET returned may be out of date when   *)
(* the command that relies on it reaches Redis: the key expires by itself, *)
(* and runtimes of several processes share one Redis.                      *)
(*                                                                         *)
(* A client is a strategy runtime thread working on one run.  A command    *)
(* that fails (timeout, closed connection) may or may not have been        *)
(* executed.                                                               *)
(***************************************************************************)
CONSTANTS Clients, Runs, RunOf, NoRun

ASSUME RunOfAssumption == RunOf \in [Clients -> Runs]
ASSUME NoRunAssumption == NoRun \notin Runs

VARIABLES
    owner,     \* the run named by the key, NoRun when the key is absent
    granted,   \* clients whose last acquire returned acquired or refreshed
    op         \* the operation each client is in the middle of

vars == <<owner, granted, op>>

Lock == INSTANCE RunLock

Idle == [at |-> "idle", seen |-> NoRun]

TypeOK ==
    /\ owner \in Runs \cup {NoRun}
    /\ granted \subseteq Clients
    /\ op \in [Clients -> [at : {"idle", "acquire", "release"}, seen : Runs \cup {NoRun}]]

Init == owner = NoRun /\ granted = {} /\ op = [c \in Clients |-> Idle]

Finish(c) == op' = [op EXCEPT ![c] = Idle]

-----------------------------------------------------------------------------
(* acquire_pair_lock *)

\* The GET; one that fails is taken for a missing key.
BeginAcquire(c) ==
    /\ op[c] = Idle
    /\ \E seen \in {owner, NoRun} :
           op' = [op EXCEPT ![c] = [at |-> "acquire", seen |-> seen]]
    /\ UNCHANGED <<owner, granted>>

\* "conflict": the key names another run.  The caller of a first acquire gives
\* up its decision; the callers of a later refresh go on (strategy_runtime.py,
\* _refresh_pair_lock_after_persist).
Refuse(c) ==
    /\ op[c].at = "acquire" /\ op[c].seen \notin {NoRun, RunOf[c]}
    /\ Finish(c)
    /\ UNCHANGED <<owner, granted>>

\* SET EX, whatever the key holds by now.
Refresh(c) ==
    /\ op[c].at = "acquire" /\ op[c].seen = RunOf[c]
    /\ owner' = RunOf[c]
    /\ granted' = granted \cup {c}
    /\ Finish(c)

\* SET NX EX: "acquired" if the key is absent, else "conflict".
Claim(c) ==
    /\ op[c].at = "acquire" /\ op[c].seen = NoRun
    /\ IF owner = NoRun
       THEN owner' = RunOf[c] /\ granted' = granted \cup {c}
       ELSE UNCHANGED <<owner, granted>>
    /\ Finish(c)

\* "failed": the SET may have been executed, the caller is not granted entry.
LoseAcquire(c) ==
    /\ op[c].at = "acquire" /\ op[c].seen \in {NoRun, RunOf[c]}
    /\ \/ UNCHANGED owner
       \/ /\ op[c].seen = RunOf[c] \/ owner = NoRun
          /\ owner' = RunOf[c]
    /\ Finish(c)
    /\ UNCHANGED granted

-----------------------------------------------------------------------------
(* release_pair_lock, called once the caller's entry is closed *)

BeginRelease(c) ==
    /\ op[c] = Idle
    /\ granted' = granted \ {c}
    /\ \E seen \in {owner, NoRun} :
           op' = [op EXCEPT ![c] =
                      IF seen = RunOf[c] THEN [at |-> "release", seen |-> seen] ELSE Idle]
    /\ UNCHANGED owner

\* Mutant: the lock is deleted as soon as a key is seen.
DeleteUnowned(c) ==
    /\ op[c].at # "idle" /\ op[c].seen # NoRun
    /\ owner' = NoRun
    /\ Finish(c)
    /\ UNCHANGED granted

\* DEL, whatever the key holds by now.
Delete(c) ==
    /\ op[c].at = "release"
    /\ owner' = NoRun
    /\ Finish(c)
    /\ UNCHANGED granted

LoseDelete(c) ==
    /\ op[c].at = "release"
    /\ owner' \in {owner, NoRun}
    /\ Finish(c)
    /\ UNCHANGED granted

-----------------------------------------------------------------------------
\* The process of the client is restarted; the key stays.
Stop(c) ==
    /\ granted' = granted \ {c}
    /\ Finish(c)
    /\ UNCHANGED owner

\* The key's time to live passes (PAIR_LOCK_TTL_SECONDS without a refresh).  It
\* is taken to be longer than an entry goes without a refresh and longer than a
\* call goes between its GET and its write.
Expire ==
    /\ owner # NoRun
    /\ \A c \in Clients : RunOf[c] = owner => c \notin granted /\ op[c].seen # owner
    /\ owner' = NoRun
    /\ UNCHANGED <<granted, op>>

Command(c) ==
    \/ Refuse(c) \/ Refresh(c) \/ Claim(c) \/ LoseAcquire(c)
    \/ Delete(c) \/ LoseDelete(c)

Next ==
    \/ \E c \in Clients : BeginAcquire(c) \/ BeginRelease(c) \/ Command(c) \/ Stop(c)
    \/ Expire

Spec == Init /\ [][Next]_vars

-----------------------------------------------------------------------------
\* While each run is worked on by one client, the command sequences implement
\* the atomic lock, failed commands, restarts and expiry included.
ImplementsRunLock == Lock!LockSpec

MutualExclusion == Lock!MutualExclusion

\* Why: a client acts on having seen its own run in the key only while the key
\* still names that run, and so does a client that has been granted entry.
OwnKeySeen ==
    \A c \in Clients :
        c \in granted \/ op[c].seen = RunOf[c] => owner = RunOf[c]
=============================================================================
