--------------------------- MODULE ConfigRollout ---------------------------
(***************************************************************************)
(* Config versions, their assignment to bots and the bots' answers: the    *)
(* operations register_bot, create_config_version, assign_config and       *)
(* acknowledge_config_assignment of both stores                            *)
(* (storage/memory_mutable_store.py, storage/postgres_mutation_ops.py),    *)
(* called by the HTTP handlers of route_handlers_write.py.  In memory an   *)
(* operation runs under the store's lock; in PostgreSQL it is a sequence   *)
(* of autocommit statements that handler threads interleave.               *)
(*                                                                         *)
(* An operator creates and assigns versions whenever it likes.  The bot's  *)
(* worker, which docs/04_hot_config_contract.md describes and src/ has no  *)
(* code of, registers its bot, applies what it finds assigned and answers  *)
(* once.  A config is what it says in each of its sections; one scope;     *)
(* version numbers and assignments count from 1.                           *)
(***************************************************************************)
EXTENDS Handlers, Sequences

CONSTANTS
    Workers,          \* the bots, each run by a worker
    Sections,         \* the section paths a config has
    HotSections,      \* HOT_RELOADABLE_SECTION_PATHS
    Contents,         \* the configs an operator creates: section -> value
    MaxVersions,      \* bound on versions
    MaxAssignments    \* bound on assignments per bot

ASSUME HotSectionsAssumption == HotSections \subseteq Sections
ASSUME ContentsAssumption == \A c \in Contents : DOMAIN c = Sections

VARIABLES
    versions,     \* config_versions: number -> content
    assignments,  \* bot_config_assignments of each bot, oldest first
    registered,   \* bots that have a row
    alert,        \* the newest alert about each bot's config: code and assignment
    running,      \* the version each bot's worker runs; 0: none
    answer        \* what the worker still has to acknowledge

storeVars == <<versions, assignments, registered, alert>>
botVars == <<running, answer>>
configVars == <<backend, threads, storeVars, req, botVars>>

AckStatuses == {"applied", "rejected", "restart_required"}
Policies == {"noop", "hot_reload", "restart_required"}
AlertOf == [applied |-> "CONFIG_APPLIED", rejected |-> "CONFIG_REJECTED",
            restart_required |-> "CONFIG_RESTART_REQUIRED"]

\* What a bot's detail shows of its config: the newest assignment.
HasAssignment(b) == assignments[b] # << >>
Latest(b) == assignments[b][Len(assignments[b])]
AssignedVersion(b) == IF HasAssignment(b) THEN Latest(b).version ELSE 0

ConfigTypeOK ==
    /\ versions \in Seq(Contents) /\ registered \subseteq Workers
    /\ assignments \in [Workers -> Seq([version : 1 .. MaxVersions, policy : Policies,
                                     status : {"pending"} \cup AckStatuses])]
    /\ running \in [Workers -> 0 .. MaxVersions]
    /\ answer \in [Workers -> {"none"} \cup AckStatuses]

\* The memory store starts with the version of sample_data.py.
ConfigInit ==
    /\ HandlersInit
    /\ versions \in {<<c>> : c \in Contents}
           \cup IF backend = "memory" THEN {} ELSE {<< >>}
    /\ assignments = [b \in Workers |-> << >>]
    /\ registered = {}
    /\ alert = [b \in Workers |-> [code |-> "none", about |-> 0]]
    /\ running = [b \in Workers |-> 0]
    /\ answer = [b \in Workers |-> "none"]

-----------------------------------------------------------------------------
(* summarize_config_assignment_policy.                                       *)

Changed(old, new) == {s \in Sections : old[s] # new[s]}

\* Mutant: one hot section is enough.
PolicyOfAny(old, new) ==
    IF Changed(old, new) = {} THEN "noop"
    ELSE IF Changed(old, new) \cap HotSections # {} THEN "hot_reload"
    ELSE "restart_required"

Policy(old, new) ==
    IF Changed(old, new) = {} THEN "noop"
    ELSE IF Changed(old, new) \subseteq HotSections THEN "hot_reload"
    ELSE "restart_required"

\* The policy of assigning version v to a bot whose detail shows "previous".
AssignmentPolicy(v, previous) ==
    IF previous \in DOMAIN versions THEN Policy(versions[previous], versions[v])
    ELSE "restart_required"

\* Mutant: nothing is left to acknowledge of a change without effect.
AssignedAtOnce(v, policy) ==
    [version |-> v, policy |-> policy,
     status |-> IF policy = "restart_required" THEN "pending" ELSE "applied"]

NewAssignment(v, policy) == [version |-> v, policy |-> policy, status |-> "pending"]

Append1(b, a) == assignments' = [assignments EXCEPT ![b] = Append(@, a)]

Acked(b, status) == [assignments EXCEPT ![b][Len(assignments[b])].status = status]

Emit(b, code, k) == alert' = [alert EXCEPT ![b] = [code |-> code, about |-> k]]

-----------------------------------------------------------------------------
(* register_bot.  The worker that starts runs the config of the response;    *)
(* what it ran or had to answer before is gone.                              *)

Starts(b, v) ==
    /\ running' = [running EXCEPT ![b] = v]
    /\ answer' = [answer EXCEPT ![b] = "none"]

\* A bot without assignments gets the newest version, as applied.
DefaultAssignment(b) ==
    IF HasAssignment(b) \/ versions = << >> THEN assignments
    ELSE [assignments EXCEPT ![b] =
              <<[version |-> Len(versions), policy |-> "restart_required",
                 status |-> "applied"]>>]

MemoryRegister(c, b) ==
    /\ Begins(c, "memory")
    /\ registered' = registered \cup {b}
    /\ assignments' = DefaultAssignment(b)
    /\ Starts(b, IF HasAssignment(b) THEN AssignedVersion(b) ELSE Len(versions))
    /\ UNCHANGED <<backend, threads, versions, alert, req>>

\* INSERT .. ON CONFLICT into bots; INSERT the default assignment unless there
\* is one; SELECT the bot's detail for the response.
UpsertBot(c, b) ==
    /\ Begins(c, "postgres")
    /\ registered' = registered \cup {b}
    /\ Starts(b, 0)
    /\ GoTo(c, [at |-> "insert_default", bot |-> b])
    /\ UNCHANGED <<backend, threads, versions, assignments, alert>>

InsertDefault(c) ==
    /\ Ready(c, "insert_default")
    /\ assignments' = DefaultAssignment(req[c].bot)
    /\ GoTo(c, [at |-> "read_registered", bot |-> req[c].bot])
    /\ UNCHANGED <<backend, threads, versions, registered, alert, botVars>>

ReadRegistered(c) ==
    /\ Ready(c, "read_registered")
    /\ Starts(req[c].bot, AssignedVersion(req[c].bot))
    /\ GoTo(c, Idle)
    /\ UNCHANGED <<backend, threads, storeVars>>

-----------------------------------------------------------------------------
(* create_config_version.                                                    *)

MemoryCreateVersion(c, content) ==
    /\ Begins(c, "memory") /\ Len(versions) < MaxVersions
    /\ versions' = Append(versions, content)
    /\ UNCHANGED <<backend, threads, assignments, registered, alert, req, botVars>>

\* One statement, but of two that overlap both compute the same next number;
\* the unique index on (config_scope, version_no) then refuses the second.
ComputeVersion(c, content) ==
    /\ Begins(c, "postgres") /\ Len(versions) < MaxVersions
    /\ GoTo(c, [at |-> "insert_version", content |-> content, version |-> Len(versions) + 1])
    /\ UNCHANGED <<backend, threads, storeVars, botVars>>

NumberTaken(v) == v \in DOMAIN versions

InsertVersion(c) ==
    LET v == req[c].version
    IN  /\ Ready(c, "insert_version")
        /\ versions' = IF NumberTaken(v) THEN versions
                       ELSE [w \in DOMAIN versions \cup {v} |->
                                IF w = v THEN req[c].content ELSE versions[w]]
        /\ GoTo(c, Idle)
        /\ UNCHANGED <<backend, threads, assignments, registered, alert, botVars>>

-----------------------------------------------------------------------------
(* assign_config.                                                            *)

CanAssign(b, v) ==
    /\ b \in registered /\ v \in DOMAIN versions
    /\ Len(assignments[b]) < MaxAssignments

MemoryAssign(c, b, v) ==
    /\ Begins(c, "memory") /\ CanAssign(b, v)
    /\ Append1(b, NewAssignment(v, AssignmentPolicy(v, AssignedVersion(b))))
    /\ Emit(b, "CONFIG_ASSIGNED", Len(assignments[b]) + 1)
    /\ UNCHANGED <<backend, threads, versions, registered, req, botVars>>

\* SELECT the version and the bot's detail, from which the policy follows;
\* INSERT the assignment; INSERT the alert.
ReadForAssign(c, b, v) ==
    /\ Begins(c, "postgres") /\ CanAssign(b, v)
    /\ GoTo(c, [at |-> "insert_assignment", bot |-> b, version |-> v,
                policy |-> AssignmentPolicy(v, AssignedVersion(b))])
    /\ UNCHANGED <<backend, threads, storeVars, botVars>>

InsertAssignment(c) ==
    LET b == req[c].bot
    IN  /\ Ready(c, "insert_assignment") /\ Len(assignments[b]) < MaxAssignments
        /\ Append1(b, NewAssignment(req[c].version, req[c].policy))
        /\ GoTo(c, [at |-> "emit_alert", bot |-> b, code |-> "CONFIG_ASSIGNED",
                    about |-> Len(assignments[b]) + 1])
        /\ UNCHANGED <<backend, threads, versions, registered, alert, botVars>>

EmitAlert(c) ==
    /\ Ready(c, "emit_alert")
    /\ Emit(req[c].bot, req[c].code, req[c].about)
    /\ GoTo(c, Idle)
    /\ UNCHANGED <<backend, threads, versions, assignments, registered, botVars>>

-----------------------------------------------------------------------------
(* The worker and acknowledge_config_assignment.                             *)

\* The worker reads the bot's detail, and applies what is pending or cannot.
Apply(b) ==
    /\ running[b] # 0 /\ answer[b] = "none"
    /\ HasAssignment(b) /\ Latest(b).status = "pending"
    /\ \E status \in AckStatuses :
           /\ answer' = [answer EXCEPT ![b] = status]
           /\ running' = [running EXCEPT ![b] =
                              IF status = "applied" THEN Latest(b).version ELSE @]
    /\ UNCHANGED <<backend, threads, storeVars, req>>

\* The answer is written into the newest assignment, whichever it is by now.
WriteAnswer(b) ==
    /\ answer[b] # "none"
    /\ assignments' = Acked(b, answer[b])
    /\ answer' = [answer EXCEPT ![b] = "none"]

MemoryAcknowledge(c, b) ==
    /\ Begins(c, "memory") /\ WriteAnswer(b)
    /\ Emit(b, AlertOf[answer[b]], Len(assignments[b]))
    /\ UNCHANGED <<backend, threads, versions, registered, req, running>>

\* UPDATE the newest assignment; SELECT the bot's detail again, whose newest
\* assignment the alert names; INSERT the alert.
UpdateLatest(c, b) ==
    /\ Begins(c, "postgres") /\ WriteAnswer(b)
    /\ GoTo(c, [at |-> "read_acked", bot |-> b, code |-> AlertOf[answer[b]]])
    /\ UNCHANGED <<backend, threads, versions, registered, alert, running>>

ReadAcked(c) ==
    /\ Ready(c, "read_acked")
    /\ GoTo(c, [at |-> "emit_alert", bot |-> req[c].bot, code |-> req[c].code,
                about |-> Len(assignments[req[c].bot])])
    /\ UNCHANGED <<backend, threads, storeVars, botVars>>

-----------------------------------------------------------------------------
Begin(c) ==
    \/ \E b \in Workers :
           \/ MemoryRegister(c, b) \/ UpsertBot(c, b)
           \/ \E v \in 1 .. MaxVersions : MemoryAssign(c, b, v) \/ ReadForAssign(c, b, v)
           \/ MemoryAcknowledge(c, b) \/ UpdateLatest(c, b)
    \/ \E content \in Contents : MemoryCreateVersion(c, content) \/ ComputeVersion(c, content)

Continue(c) ==
    \/ InsertDefault(c) \/ ReadRegistered(c) \/ InsertVersion(c)
    \/ InsertAssignment(c) \/ ReadAcked(c) \/ EmitAlert(c)

ConfigNext ==
    \/ \E c \in threads : Begin(c) \/ Continue(c)
    \/ (\E c \in threads : Abandon(c)) /\ UNCHANGED <<storeVars, botVars>>
    \/ \E b \in Workers : Apply(b)

ConfigSpec == ConfigInit /\ [][ConfigNext]_configVars

-----------------------------------------------------------------------------
\* Every assignment before the newest was answered before the next was made.
InStep(b) ==
    \A k \in 1 .. Len(assignments[b]) - 1 : assignments[b][k].status # "pending"
AllApplied(b) ==
    \A k \in 1 .. Len(assignments[b]) - 1 : assignments[b][k].status = "applied"

\* hot_reload (or noop) says that the worker can take the newest config without
\* a restart, and it is true of what the worker runs - if the assignments before
\* were applied in turn and requests did not overlap: the policy compares with
\* the config assigned last, whether or not the worker ever applied it.
HotReloadIsHot ==
    \A b \in Workers :
        /\ Serial /\ running[b] # 0
        /\ AllApplied(b) /\ Latest(b).policy # "restart_required"
        => Changed(versions[running[b]], versions[Latest(b).version]) \subseteq HotSections

\* "applied" is true of the worker as long as every assignment was answered
\* before the next one was made, also when requests overlap: an answer carries
\* no version, so a late one is written into an assignment that the worker has
\* not seen.
AppliedIsRunning ==
    \A b \in Workers :
        /\ running[b] # 0
        /\ InStep(b) /\ Latest(b).status = "applied"
        => running[b] = Latest(b).version

=============================================================================
