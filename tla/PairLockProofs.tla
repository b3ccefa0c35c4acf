--------------------------- MODULE PairLockProofs ---------------------------
(***************************************************************************)
(* Proofs about PairLock, for any number of runs: while each run is worked *)
(* on by one client, the GET-then-write sequences keep two runs from       *)
(* entering one quote pair together.                                       *)
(***************************************************************************)
EXTENDS PairLock, TLAPS

OneClientPerRun == \A c, d \in Clients : RunOf[c] = RunOf[d] => c = d

\* A client on its way to delete the key has seen its own run in it and no
\* longer counts on the lock.
ReleaseOwnKey ==
    \A c \in Clients : op[c].at = "release" => op[c].seen = RunOf[c] /\ c \notin granted

\* Mutual exclusion alone is not inductive: it does not say that what a client
\* has read is still true when its SET or DEL reaches Redis.
LockInv == TypeOK /\ OwnKeySeen /\ ReleaseOwnKey

\* The lock invariant holds of an absent key and idle clients.
LEMMA InitLock == Init => LockInv
BY NoRunAssumption, RunOfAssumption
   DEF Init, LockInv, TypeOK, OwnKeySeen, ReleaseOwnKey, Idle

\* A step of one client leaves the operation of every other client alone.
LEMMA OthersUntouched ==
    ASSUME TypeOK, NEW c \in Clients, NEW r, op' = [op EXCEPT ![c] = r]
    PROVE  op'[c] = r /\ \A d \in Clients : d # c => op'[d] = op[d]
BY DEF TypeOK

\* A command of a client keeps the lock invariant: it writes the key only from
\* a state in which the key is free or names its own run.
LEMMA StepLock ==
    ASSUME OneClientPerRun, LockInv, [Next]_vars
    PROVE  LockInv'
<1> USE RunOfAssumption, NoRunAssumption
<1>1. CASE UNCHANGED vars
  BY <1>1 DEF vars, LockInv, TypeOK, OwnKeySeen, ReleaseOwnKey
<1>2. ASSUME NEW c \in Clients, BeginAcquire(c) PROVE LockInv'
  <2>1. PICK seen \in {owner, NoRun} :
            op' = [op EXCEPT ![c] = [at |-> "acquire", seen |-> seen]]
    BY <1>2 DEF BeginAcquire
  <2>2. op'[c] = [at |-> "acquire", seen |-> seen]
        /\ \A d \in Clients : d # c => op'[d] = op[d]
    BY <2>1, OthersUntouched DEF LockInv
  <2>3. TypeOK'
    BY <1>2, <2>1 DEF BeginAcquire, LockInv, TypeOK
  <2>4. QED
    BY <1>2, <2>2, <2>3 DEF BeginAcquire, LockInv, TypeOK, OwnKeySeen, ReleaseOwnKey
<1>3. ASSUME NEW c \in Clients, BeginRelease(c) PROVE LockInv'
  <2>1. PICK seen \in {owner, NoRun} :
            op' = [op EXCEPT ![c] =
                       IF seen = RunOf[c] THEN [at |-> "release", seen |-> seen] ELSE Idle]
    BY <1>3 DEF BeginRelease
  <2>2. op'[c] = (IF seen = RunOf[c] THEN [at |-> "release", seen |-> seen] ELSE Idle)
        /\ \A d \in Clients : d # c => op'[d] = op[d]
    BY <2>1, OthersUntouched DEF LockInv
  <2>3. TypeOK'
    BY <1>3, <2>1 DEF BeginRelease, LockInv, TypeOK, Idle
  <2>4. QED
    BY <1>3, <2>2, <2>3 DEF BeginRelease, LockInv, TypeOK, OwnKeySeen, ReleaseOwnKey, Idle
<1>4. ASSUME NEW c \in Clients, Command(c) PROVE LockInv'
  <2>1. op' = [op EXCEPT ![c] = Idle] /\ op[c].at \in {"acquire", "release"}
    BY <1>4 DEF Command, Refuse, Refresh, Claim, LoseAcquire, Delete, LoseDelete, Finish
  <2>2. op'[c] = Idle /\ \A d \in Clients : d # c => op'[d] = op[d]
    BY <2>1, OthersUntouched DEF LockInv
  <2>3. op[c].seen = RunOf[c] => owner = RunOf[c]
    BY DEF LockInv, OwnKeySeen
  <2>4. op[c].at = "release" => op[c].seen = RunOf[c] /\ c \notin granted
    BY DEF LockInv, ReleaseOwnKey
  <2>5. \/ owner' = owner /\ granted' = granted
        \/ /\ owner \in {NoRun, RunOf[c]} /\ owner' = RunOf[c]
           /\ granted' \in {granted, granted \cup {c}}
        \/ /\ owner = RunOf[c] /\ owner' = NoRun
           /\ granted' = granted /\ c \notin granted
    BY <1>4, <2>3, <2>4
       DEF Command, Refuse, Refresh, Claim, LoseAcquire, Delete, LoseDelete
  <2>6. TypeOK'
    BY <2>1, <2>5 DEF LockInv, TypeOK, Idle
  <2>7. OwnKeySeen'
    <3> SUFFICES ASSUME NEW d \in Clients, d \in granted' \/ op'[d].seen = RunOf[d]
                 PROVE  owner' = RunOf[d]
      BY DEF OwnKeySeen
    <3>1. CASE d = c
      BY <3>1, <2>2, <2>5 DEF Idle, LockInv, TypeOK, OwnKeySeen
    <3>2. CASE d # c
      <4>1. owner = RunOf[d]
        BY <3>2, <2>2, <2>5 DEF LockInv, OwnKeySeen
      <4>2. owner # RunOf[c] /\ owner # NoRun
        BY <4>1, <3>2 DEF OneClientPerRun
      <4>3. QED
        BY <4>1, <4>2, <2>5
    <3>3. QED
      BY <3>1, <3>2
  <2>8. ReleaseOwnKey'
    BY <2>2, <2>5 DEF Idle, LockInv, ReleaseOwnKey
  <2>9. QED
    BY <2>6, <2>7, <2>8 DEF LockInv
<1>5. ASSUME NEW c \in Clients, Stop(c) PROVE LockInv'
  <2>1. op'[c] = Idle /\ \A d \in Clients : d # c => op'[d] = op[d]
    BY <1>5, OthersUntouched DEF LockInv, Stop, Finish
  <2>2. TypeOK'
    BY <1>5 DEF Stop, Finish, LockInv, TypeOK, Idle
  <2>3. QED
    BY <1>5, <2>1, <2>2 DEF Stop, LockInv, OwnKeySeen, ReleaseOwnKey, Idle
<1>6. CASE Expire
  BY <1>6 DEF Expire, LockInv, TypeOK, OwnKeySeen, ReleaseOwnKey
<1>7. QED
  BY <1>1, <1>2, <1>3, <1>4, <1>5, <1>6 DEF Next

\* The lock invariant holds in every reachable state.
LEMMA LockInvariant ==
    ASSUME OneClientPerRun
    PROVE  Spec => []LockInv
<1>1. LockInv /\ [Next]_vars => LockInv'
  BY StepLock
<1>2. QED
  BY <1>1, InitLock, PTL DEF Spec

\* Two runs are never granted entry to one quote pair at the same time.
THEOREM RunsExclude ==
    ASSUME OneClientPerRun
    PROVE  Spec => []MutualExclusion
<1>1. LockInv => MutualExclusion
  BY DEF LockInv, TypeOK, OwnKeySeen, MutualExclusion, Lock!MutualExclusion
<1>2. QED
  BY <1>1, LockInvariant, PTL

\* What a client has read of its own run is still true when it acts on it.
THEOREM OwnKeyStillOwned ==
    ASSUME OneClientPerRun
    PROVE  Spec => []OwnKeySeen
<1>1. LockInv => OwnKeySeen
  BY DEF LockInv
<1>2. QED
  BY <1>1, LockInvariant, PTL

\* The command sequences of redis_runtime.py implement the atomic lock of
\* RunLock: a read, a refusal and a lost command are stuttering steps, a SET is
\* Grant or GrantUnseen, a DEL is Free.
THEOREM PairLockRefinesRunLock ==
    ASSUME OneClientPerRun
    PROVE  Spec => ImplementsRunLock
<1>1. Init => Lock!LockInit
  BY DEF Init, Lock!LockInit
<1>2. LockInv /\ [Next]_vars => [Lock!LockNext]_(Lock!lockVars)
  <2> SUFFICES ASSUME LockInv, [Next]_vars
               PROVE  [Lock!LockNext]_(Lock!lockVars)
    OBVIOUS
  <2> USE DEF Lock!lockVars, Lock!LockNext
  <2>1. CASE UNCHANGED vars
    BY <2>1 DEF vars
  <2>2. ASSUME NEW c \in Clients, BeginAcquire(c)
        PROVE  [Lock!LockNext]_(Lock!lockVars)
    BY <2>2 DEF BeginAcquire
  <2>3. ASSUME NEW c \in Clients, BeginRelease(c)
        PROVE  [Lock!LockNext]_(Lock!lockVars)
    BY <2>3 DEF BeginRelease, Lock!GiveUp
  <2>4. ASSUME NEW c \in Clients, Command(c)
        PROVE  [Lock!LockNext]_(Lock!lockVars)
    <3>1. op[c].seen = RunOf[c] => owner = RunOf[c]
      BY DEF LockInv, OwnKeySeen
    <3>2. op[c].at = "release" => op[c].seen = RunOf[c] /\ c \notin granted
      BY DEF LockInv, ReleaseOwnKey
    <3>3. CASE Refuse(c)
      BY <3>3 DEF Refuse
    <3>4. CASE Refresh(c) \/ Claim(c)
      BY <3>1, <3>4 DEF Refresh, Claim, Lock!Grant
    <3>5. CASE LoseAcquire(c)
      BY <3>1, <3>5 DEF LoseAcquire, Lock!GrantUnseen
    <3>6. CASE Delete(c) \/ LoseDelete(c)
      <4>1. owner # NoRun /\ \A d \in granted : RunOf[d] # owner
        BY <3>1, <3>2, <3>6, NoRunAssumption, RunOfAssumption
           DEF Delete, LoseDelete, OneClientPerRun, LockInv, TypeOK
      <4>2. QED
        BY <3>6, <4>1 DEF Delete, LoseDelete, Lock!Free
    <3>7. QED
      BY <2>4, <3>3, <3>4, <3>5, <3>6 DEF Command
  <2>5. ASSUME NEW c \in Clients, Stop(c)
        PROVE  [Lock!LockNext]_(Lock!lockVars)
    BY <2>5 DEF Stop, Lock!GiveUp
  <2>6. CASE Expire
    <3>1. \A c \in granted : RunOf[c] # owner
      BY <2>6 DEF Expire, LockInv, TypeOK
    <3>2. QED
      BY <2>6, <3>1 DEF Expire, Lock!Free
  <2>7. QED
    BY <2>1, <2>2, <2>3, <2>4, <2>5, <2>6 DEF Next
<1>3. QED
  BY <1>1, <1>2, LockInvariant, PTL DEF Spec, ImplementsRunLock, Lock!LockSpec
=============================================================================
