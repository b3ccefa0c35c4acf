------------------------------ MODULE RunLock ------------------------------
(***************************************************************************)
(* What the pair lock of RedisRuntime promises: for one market and quote   *)
(* pair, the runs that were granted entry are the run recorded as owner.   *)
(* A lock may be taken or kept without its client being granted entry (an  *)
(* answer of Redis is lost): that blocks the other runs, never admits one. *)
(***************************************************************************)
CONSTANTS
    Clients,   \* strategy runtime threads, each working on one run
    Runs,      \* strategy runs, identified by "bot_id:run_id"
    RunOf,     \* the run each client works on
    NoRun      \* no lock

VARIABLES
    owner,     \* the run the lock names
    granted    \* clients told "acquired" or "refreshed" and not yet done

lockVars == <<owner, granted>>

LockInit == owner = NoRun /\ granted = {}

Grant(c) ==
    /\ owner \in {NoRun, RunOf[c]}
    /\ owner' = RunOf[c]
    /\ granted' = granted \cup {c}

\* The lock is written and the client does not learn of it.
GrantUnseen(c) ==
    /\ owner \in {NoRun, RunOf[c]}
    /\ owner' = RunOf[c]
    /\ UNCHANGED granted

GiveUp(c) ==
    /\ granted' = granted \ {c}
    /\ UNCHANGED owner

\* A lock nobody counts on is removed, or its time to live passes.
Free ==
    /\ owner # NoRun /\ \A c \in granted : RunOf[c] # owner
    /\ owner' = NoRun
    /\ UNCHANGED granted

LockNext == Free \/ \E c \in Clients : Grant(c) \/ GrantUnseen(c) \/ GiveUp(c)

LockSpec == LockInit /\ [][LockNext]_lockVars

\* Clients granted entry at the same time work for the same run: no two runs
\* enter one quote pair together (docs/TODO.md:84, PAIR_LOCK_ACTIVE).
MutualExclusion ==
    \A c, d \in granted : RunOf[c] = RunOf[d]
=============================================================================
