----------------------------- MODULE Gathering -----------------------------
(***************************************************************************)
(* The gatherer fan-out of concurrent runs: gather.py, gatherer.py and     *)
(* spawn.py under src/src/agentic/gatherers, with the part of              *)
(* state_manager/manager.py that takes the permission snapshot and the     *)
(* ledger of audit.py.                                                     *)
(*                                                                         *)
(* Everything runs on one event loop, so an action is the code from one    *)
(* await to the next.  A run loads its configs, waits for the planner,     *)
(* spawns one gatherer per planned department and waits for all of them;   *)
(* a gatherer waits for a semaphore slot, then for its model calls.        *)
(* Between those steps other runs move, an operator edits the config files *)
(* and documents come and go.  A retried model call is one waiting state   *)
(* here.  Model answers are arbitrary; wording, sizes of notes and order   *)
(* within a result are left out, so a list of files is a set.              *)
(***************************************************************************)
EXTENDS Permissions, FiniteSetsExt

CONSTANTS Runs,
          MaxGatherers,     \* config.gatherers.max_gatherers
          WantedFiles,      \* int(request.max_files * overgather_factor)
          MaxFiles,         \* config.gatherers.max_files_per_gatherer
          Size,             \* characters in each document
          ReadAllChars,     \* READ_ALL_CHARS
          Unreadable,       \* paths that exist but raise OSError when opened
          PermissionEdits, EnvironmentEdits,  \* what an operator may save
          InitialStores,    \* what the departments may hold at the start
          ForeignFiles,     \* what another implementation of gather may return
          MaxEdits          \* bound: edits of configs and documents together

Tasks == Runs \X Departments
Files == [department : Departments, path : Paths]
LocalDepartments == Departments \ CloudDepartments

ASSUME GatheringAssumption ==
    /\ MaxGatherers \in Nat /\ WantedFiles \in Nat /\ MaxFiles \in Nat
    /\ ReadAllChars \in Nat /\ MaxEdits \in Nat
    /\ IsFiniteSet(Paths) /\ Size \in [Paths -> Nat]
    /\ Unreadable \subseteq Paths
    /\ PermissionEdits \subseteq PermissionsConfigs
    /\ EnvironmentEdits \subseteq EnvironmentConfigs
    /\ ForeignFiles \subseteq Files
    /\ InitialStores \subseteq [Departments -> SUBSET Paths]

VARIABLES
    permissionsYaml, environmentYaml,  \* the config files on disk
    store,        \* store[d]: documents department d holds now
    edits,
    phase,        \* where each run is
    role,         \* the authenticated role of each run
    env, perms,   \* each run's snapshots of the two configs
    gatherer,     \* gatherer[r,d]: where a gatherer task is
    allowed,      \* gathering: the paths still chosen for reading
    documents,    \* what was read and handed to the assessing model
    files, denied, errors,   \* the GatherResult; errors by path
    prompts,      \* [run, department, path] whose text went to a model
    opened,       \* [run, department, path] whose content was read
    ledger        \* the audit log

configVars == <<permissionsYaml, environmentYaml, store, edits>>
runVars == <<phase, role, env, perms>>
resultVars == <<files, denied, errors>>
vars == <<permissionsYaml, environmentYaml, store, edits, phase, role, env,
          perms, gatherer, allowed, documents, files, denied, errors,
          prompts, opened, ledger>>

Phases == {"new", "accepted", "planning", "gathering", "delivered", "failed",
           "cancelled"}
GathererStates == {"none", "queued", "selecting", "assessing", "done",
                   "raised", "stopped"}
InFlightStates == {"selecting", "assessing"}

Init ==
    /\ permissionsYaml \in PermissionEdits
    /\ environmentYaml \in EnvironmentEdits
    /\ store \in InitialStores
    /\ edits = 0
    /\ phase = [r \in Runs |-> "new"]
    /\ role \in [Runs -> Roles]
    /\ env = [r \in Runs |-> [d \in Departments |-> {}]]
    /\ perms = [r \in Runs |-> NoRoles]
    /\ gatherer = [t \in Tasks |-> "none"]
    /\ allowed = [t \in Tasks |-> {}]
    /\ documents = [t \in Tasks |-> {}]
    /\ files = [t \in Tasks |-> {}]
    /\ denied = [t \in Tasks |-> {}]
    /\ errors = [t \in Tasks |-> {}]
    /\ prompts = {}
    /\ opened = {}
    /\ ledger = {}

-----------------------------------------------------------------------------
(* The world around the runs.                                              *)

SavePermissions(yaml) ==
    /\ edits < MaxEdits
    /\ edits' = edits + 1
    /\ permissionsYaml' = yaml
    /\ UNCHANGED <<environmentYaml, store, phase, role, env, perms, gatherer,
                   allowed, documents, files, denied, errors, prompts, opened,
                   ledger>>

SaveEnvironment(yaml) ==
    /\ edits < MaxEdits
    /\ edits' = edits + 1
    /\ environmentYaml' = yaml
    /\ UNCHANGED <<permissionsYaml, store, phase, role, env, perms, gatherer,
                   allowed, documents, files, denied, errors, prompts, opened,
                   ledger>>

ChangeStore(d, p) ==
    /\ edits < MaxEdits
    /\ edits' = edits + 1
    /\ store' = [store EXCEPT ![d] = IF p \in @ THEN @ \ {p} ELSE @ \cup {p}]
    /\ UNCHANGED <<permissionsYaml, environmentYaml, phase, role, env, perms,
                   gatherer, allowed, documents, files, denied, errors,
                   prompts, opened, ledger>>

-----------------------------------------------------------------------------
(* The run.                                                                *)

(* The request is accepted for an authenticated role and takes its own     *)
(* copy of the environment config.                                         *)
Accept(r) ==
    /\ phase[r] = "new"
    /\ phase' = [phase EXCEPT ![r] = "accepted"]
    /\ env' = [env EXCEPT ![r] = environmentYaml]
    /\ UNCHANGED <<configVars, role, perms, gatherer, allowed, documents,
                   resultVars, prompts, opened, ledger>>

(* plan_and_gather loads the permissions config once, before the planner   *)
(* is awaited, and hands that object to every gate of the run.             *)
LoadPermissions(r) ==
    /\ phase[r] = "accepted"
    /\ \/ /\ Loadable(permissionsYaml, role[r])
          /\ perms' = [perms EXCEPT ![r] = permissionsYaml]
          /\ phase' = [phase EXCEPT ![r] = "planning"]
       \/ /\ ~Loadable(permissionsYaml, role[r])
          /\ phase' = [phase EXCEPT ![r] = "failed"]
          /\ UNCHANGED perms
    /\ UNCHANGED <<configVars, role, env, gatherer, allowed, documents,
                   resultVars, prompts, opened, ledger>>

(* Fault: the permissions config is read again once the plan is known.     *)
PlanThenLoad(r, chosen) ==
    /\ phase[r] = "planning"
    /\ chosen # {} /\ Cardinality(chosen) <= MaxGatherers
    /\ phase' = [phase EXCEPT ![r] = "gathering"]
    /\ perms' = [perms EXCEPT ![r] = permissionsYaml]
    /\ gatherer' = [t \in Tasks |->
                      IF t[1] = r /\ t[2] \in chosen THEN "queued" ELSE gatherer[t]]
    /\ UNCHANGED <<configVars, role, env, allowed, documents, resultVars,
                   prompts, opened, ledger>>

(* The planner names departments of the config, at most one task for each  *)
(* and at most max_gatherers of them; spawn_gatherers makes a task of each. *)
Plan(r, chosen) ==
    /\ phase[r] = "planning"
    /\ chosen # {} /\ Cardinality(chosen) <= MaxGatherers
    /\ phase' = [phase EXCEPT ![r] = "gathering"]
    /\ gatherer' = [t \in Tasks |->
                      IF t[1] = r /\ t[2] \in chosen THEN "queued" ELSE gatherer[t]]
    /\ UNCHANGED <<configVars, role, env, perms, allowed, documents,
                   resultVars, prompts, opened, ledger>>

(* No plan after the retries, or an empty one: RuntimeError.               *)
PlanFails(r) ==
    /\ phase[r] = "planning"
    /\ phase' = [phase EXCEPT ![r] = "failed"]
    /\ UNCHANGED <<configVars, role, env, perms, gatherer, allowed, documents,
                   resultVars, prompts, opened, ledger>>

Raised(r) == \E d \in Departments : gatherer[<<r, d>>] = "raised"

(* Fault: the run waits for results and never for exceptions.              *)
GathererFailureMissed(r) == FALSE /\ UNCHANGED vars

(* asyncio.gather passes the first exception of a gatherer to the run; the *)
(* other gatherers are not cancelled by that and carry on unobserved.      *)
GathererFailureSeen(r) ==
    /\ phase[r] = "gathering" /\ Raised(r)
    /\ phase' = [phase EXCEPT ![r] = "failed"]
    /\ UNCHANGED <<configVars, role, env, perms, gatherer, allowed, documents,
                   resultVars, prompts, opened, ledger>>

(* Fault: the gatherers are shielded from the cancellation of their run.   *)
CancelRunOnly(r) ==
    /\ phase[r] \in {"accepted", "planning", "gathering"}
    /\ phase' = [phase EXCEPT ![r] = "cancelled"]
    /\ UNCHANGED <<configVars, role, env, perms, gatherer, allowed, documents,
                   resultVars, prompts, opened, ledger>>

(* Task.cancel() reaches the run's await and, through asyncio.gather, every *)
(* gatherer that is still waiting, unless a failure has already resolved   *)
(* the gathering future.  A CancelledError is not an Exception, so no      *)
(* handler below turns it into a result.                                   *)
Cancel(r) ==
    /\ phase[r] \in {"accepted", "planning", "gathering"}
    /\ phase' = [phase EXCEPT ![r] = "cancelled"]
    /\ gatherer' = [t \in Tasks |->
                      IF /\ t[1] = r /\ ~Raised(r)
                         /\ gatherer[t] \in {"queued", "selecting", "assessing"}
                      THEN "stopped" ELSE gatherer[t]]
    /\ UNCHANGED <<configVars, role, env, perms, allowed, documents,
                   resultVars, prompts, opened, ledger>>

-----------------------------------------------------------------------------
(* Helpers of the gatherers.                                               *)

Least(m, n) == IF m < n THEN m ELSE n

(* Fault: the advisory number of files without the ceiling.                *)
LimitUncapped == IF WantedFiles < 1 THEN 1 ELSE WantedFiles

(* gather._limit: overgathering is advisory, max_files_per_gatherer is a    *)
(* hard ceiling, and one file is always permitted.                         *)
Limit == LET capped == Least(WantedFiles, MaxFiles)
         IN  IF capped < 1 THEN 1 ELSE capped

(* gatherer._cap, the same without the floor.                              *)
Cap == Least(WantedFiles, MaxFiles)

TotalSize(paths) == MapThenSumSet(LAMBDA p : Size[p], paths)

(* When a department does not fit, a selection pass comes first.           *)
TooLarge(paths) == Cardinality(paths) > Limit \/ TotalSize(paths) > ReadAllChars

(* Fault: one context for the process, whichever run set it.               *)
LedgerContextShared(r) ==
    LET last == CHOOSE q \in Runs : phase[q] # "new"
    IN  [run |-> last, role |-> role[last]]

(* An asyncio task inherits the context variables of the task that made    *)
(* it, so a decision is written under the run it was taken for.            *)
LedgerContext(r) == [run |-> r, role |-> role[r]]

(* Fault: a line without its stage.                                        *)
EntriesUnstaged(r, d, paths, decision, stage) ==
    {[run |-> r, role |-> role[r], department |-> d, path |-> p,
      decision |-> decision, stage |-> ""] : p \in paths}

Entries(r, d, paths, decision, stage) ==
    {[run |-> LedgerContext(r).run, role |-> LedgerContext(r).role,
      department |-> d, path |-> p, decision |-> decision, stage |-> stage]
      : p \in paths}

Items(r, d, paths) == [run : {r}, department : {d}, path : paths]

Labelled(d, paths) == [department : {d}, path : paths]

(* Fault: the environment half where the full gate belongs.                *)
GateHalf(r, d, paths) == {p \in paths : Check(p, role[r], d, env[r])}

(* _gate: which of the candidates this run's principal may read.           *)
Gate(r, d, paths) == {p \in paths : Allowed(p, role[r], d, perms[r], env[r])}

(* What the adapter in gatherer.py asks instead: the environment half.     *)
EnvironmentGate(r, d, paths) == {p \in paths : Check(p, role[r], d, env[r])}

Readable(d, paths) == {p \in paths \cap store[d] : p \notin Unreadable}

HasSlot(r) ==
    Cardinality({d \in Departments : gatherer[<<r, d>>] \in InFlightStates}) < MaxGatherers

(* _read, then _assess up to its model call: the text of every document    *)
(* that could be read goes into one prompt; with none the task is done.    *)
ReadAndAssess(r, d, chosen) ==
    LET texts == Readable(d, chosen) IN
    /\ documents' = [documents EXCEPT ![<<r, d>>] = texts]
    /\ opened' = opened \cup Items(r, d, texts)
    /\ prompts' = prompts \cup Items(r, d, texts)
    /\ gatherer' = [gatherer EXCEPT ![<<r, d>>] = IF texts = {} THEN "done" ELSE "assessing"]

-----------------------------------------------------------------------------
(* A local department, gather.gather.                                      *)

(* First step of the task: glob, gate and ledger every path, then either   *)
(* stop, ask the model to select from a manifest of openings, or read all. *)
StartLocal(r, d) ==
    LET readable == Gate(r, d, store[d])
        refused  == store[d] \ readable
    IN
    /\ d \in LocalDepartments
    /\ gatherer[<<r, d>>] = "queued" /\ HasSlot(r)
    /\ allowed' = [allowed EXCEPT ![<<r, d>>] = readable]
    /\ denied' = [denied EXCEPT ![<<r, d>>] = refused]
    /\ ledger' = ledger \cup Entries(r, d, readable, "allow", "pre-read")
                        \cup Entries(r, d, refused, "deny", "pre-read")
    /\ \/ /\ readable = {}
          /\ gatherer' = [gatherer EXCEPT ![<<r, d>>] = "done"]
          /\ UNCHANGED <<documents, errors, opened, prompts>>
       \/ /\ readable # {} /\ TooLarge(readable)
          /\ errors' = [errors EXCEPT ![<<r, d>>] = readable \ Readable(d, readable)]
          /\ opened' = opened \cup Items(r, d, Readable(d, readable))
          /\ prompts' = prompts \cup Items(r, d, Readable(d, readable))
          /\ gatherer' = [gatherer EXCEPT ![<<r, d>>] = "selecting"]
          /\ UNCHANGED documents
       \/ /\ readable # {} /\ ~TooLarge(readable)
          /\ errors' = [errors EXCEPT ![<<r, d>>] = readable \ Readable(d, readable)]
          /\ ReadAndAssess(r, d, readable)
    /\ UNCHANGED <<configVars, runVars, files>>

(* Globbing a department raises (no permission on a directory), in _gate   *)
(* or in the fallback below: so does gather.                               *)
GlobRaises(r, d) ==
    /\ d \in LocalDepartments
    /\ \/ gatherer[<<r, d>>] = "queued" /\ HasSlot(r)
       \/ gatherer[<<r, d>>] = "selecting"
    /\ gatherer' = [gatherer EXCEPT ![<<r, d>>] = "raised"]
    /\ UNCHANGED <<configVars, runVars, allowed, documents, resultVars, prompts,
                   opened, ledger>>

(* The selecting model answers; the first _limit picks count, and a pick   *)
(* that was not in the manifest becomes an error instead of a read.        *)
Selected(r, d, picks) ==
    LET chosen == picks \cap allowed[<<r, d>>] IN
    /\ gatherer[<<r, d>>] = "selecting"
    /\ Cardinality(picks) <= Limit
    /\ allowed' = [allowed EXCEPT ![<<r, d>>] = chosen]
    /\ errors' = [errors EXCEPT ![<<r, d>>] = @ \cup (picks \ chosen)
                                            \cup (chosen \ Readable(d, chosen))]
    /\ ReadAndAssess(r, d, chosen)
    /\ UNCHANGED <<configVars, runVars, files, denied, ledger>>

(* The selecting model is unavailable: gatherer._gather_local lists the    *)
(* department again, gates it with the environment half alone, and returns *)
(* its best keyword matches.  The result built so far is dropped.  Any of  *)
(* the paths may be the best matches, and fewer than Cap of them, because  *)
(* a path that two globs match takes two places.                           *)
SelectionFails(r, d) ==
    LET readable == EnvironmentGate(r, d, store[d]) IN
    /\ gatherer[<<r, d>>] = "selecting"
    /\ \E ranked \in SUBSET readable :
          /\ Cardinality(ranked) <= Cap
          /\ ranked = {} => Cap = 0 \/ readable = {}
          /\ files' = [files EXCEPT ![<<r, d>>] = Labelled(d, Readable(d, ranked))]
          /\ errors' = [errors EXCEPT ![<<r, d>>] = ranked \ Readable(d, ranked)]
          /\ opened' = opened \cup Items(r, d, Readable(d, ranked))
    /\ denied' = [denied EXCEPT ![<<r, d>>] = store[d] \ readable]
    /\ gatherer' = [gatherer EXCEPT ![<<r, d>>] = "done"]
    /\ UNCHANGED <<configVars, runVars, allowed, documents, prompts, ledger>>

-----------------------------------------------------------------------------
(* A cloud department, gather._gather_cloud over gatherer._gather_cloud:    *)
(* list, gate by the environment half, download the best matches (each may *)
(* fail), then apply the full gate before any of it reaches a prompt.      *)

StartCloud(r, d) ==
    LET listed   == EnvironmentGate(r, d, store[d])
        refused  == store[d] \ listed
    IN
    /\ d \in CloudDepartments
    /\ gatherer[<<r, d>>] = "queued" /\ HasSlot(r)
    /\ \E ranked \in kSubset(Least(Cap, Cardinality(listed)), listed) :
       \E lost \in SUBSET ranked :
          LET fetched == Readable(d, ranked) \ lost
              texts   == Gate(r, d, fetched)
          IN
          /\ allowed' = [allowed EXCEPT ![<<r, d>>] = ranked]
          /\ opened' = opened \cup Items(r, d, fetched)
          /\ errors' = [errors EXCEPT ![<<r, d>>] = ranked \ fetched]
          /\ denied' = [denied EXCEPT ![<<r, d>>] = refused \cup (fetched \ texts)]
          /\ documents' = [documents EXCEPT ![<<r, d>>] = texts]
          /\ prompts' = prompts \cup Items(r, d, texts)
          /\ gatherer' = [gatherer EXCEPT ![<<r, d>>] =
                            IF texts = {} THEN "done" ELSE "assessing"]
    /\ UNCHANGED <<configVars, runVars, files, ledger>>

(* backend.list_candidates raises: an empty result with an error.          *)
CloudListFails(r, d) ==
    /\ d \in CloudDepartments
    /\ gatherer[<<r, d>>] = "queued" /\ HasSlot(r)
    /\ gatherer' = [gatherer EXCEPT ![<<r, d>>] = "done"]
    /\ UNCHANGED <<configVars, runVars, allowed, documents, resultVars, prompts,
                   opened, ledger>>

(* Any other implementation of the gather() seam: the task returns whatever *)
(* it likes.  The spawn gate does not assume the gatherer above.           *)
ForeignGatherer(r, d, returned) ==
    /\ gatherer[<<r, d>>] = "queued" /\ HasSlot(r)
    /\ returned # {}
    /\ files' = [files EXCEPT ![<<r, d>>] = returned]
    /\ gatherer' = [gatherer EXCEPT ![<<r, d>>] = "done"]
    /\ UNCHANGED <<configVars, runVars, allowed, documents, denied, errors,
                   prompts, opened, ledger>>

-----------------------------------------------------------------------------
(* _assess_and_collect, shared by both kinds of department.                *)

(* Fault: an empty selection of relevant documents empties the result.     *)
AssessedStrictly(r, d, relevant) ==
    /\ gatherer[<<r, d>>] = "assessing"
    /\ relevant \subseteq documents[<<r, d>>]
    /\ files' = [files EXCEPT ![<<r, d>>] = Labelled(d, relevant)]
    /\ gatherer' = [gatherer EXCEPT ![<<r, d>>] = "done"]
    /\ UNCHANGED <<configVars, runVars, allowed, documents, denied, errors,
                   prompts, opened, ledger>>

(* The assessing model answers: the documents it judged relevant are kept, *)
(* or all of them when it judged none to be.                               *)
Assessed(r, d, relevant) ==
    LET keepers == IF relevant = {} THEN documents[<<r, d>>] ELSE relevant IN
    /\ gatherer[<<r, d>>] = "assessing"
    /\ relevant \subseteq documents[<<r, d>>]
    /\ files' = [files EXCEPT ![<<r, d>>] = Labelled(d, keepers)]
    /\ gatherer' = [gatherer EXCEPT ![<<r, d>>] = "done"]
    /\ UNCHANGED <<configVars, runVars, allowed, documents, denied, errors,
                   prompts, opened, ledger>>

(* The assessing model is unavailable: everything read is returned.        *)
AssessmentFails(r, d) ==
    /\ gatherer[<<r, d>>] = "assessing"
    /\ files' = [files EXCEPT ![<<r, d>>] = Labelled(d, documents[<<r, d>>])]
    /\ gatherer' = [gatherer EXCEPT ![<<r, d>>] = "done"]
    /\ UNCHANGED <<configVars, runVars, allowed, documents, denied, errors,
                   prompts, opened, ledger>>

-----------------------------------------------------------------------------
(* The spawn gate.                                                         *)

(* Fault: containment is taken for provenance.                             *)
IsContainedFile(p, d) == d \in CloudDepartments \/ p \in Inside[d]

(* spawn._is_department_file: a local path must be a file the department   *)
(* holds now; a cloud one was contained by its adapter.                    *)
IsDepartmentFile(p, d) == d \in CloudDepartments \/ p \in store[d]

(* Fault: the gatherer's own gate is trusted with the policy.              *)
EnforceOrigin(returned, d, claimed, trusted, policy, config) ==
    {f \in returned : f.department = d /\ claimed = trusted
                      /\ IsDepartmentFile(f.path, d)}

(* spawn._enforce on the files of one result.  claimed is the role the     *)
(* request carries, trusted the one of the permissions config.             *)
Enforce(returned, d, claimed, trusted, policy, config) ==
    {f \in returned :
        /\ f.department = d
        /\ claimed = trusted
        /\ Allowed(f.path, trusted, d, policy, config)
        /\ IsDepartmentFile(f.path, d)}

PathsOf(fs) == {f.path : f \in fs}

(* Fault: the spawn gate loads the permissions config for itself.          *)
SurvivorsReloaded(r, d) ==
    Enforce(files[<<r, d>>], d, role[r], role[r], permissionsYaml, env[r])

Survivors(r, d) == Enforce(files[<<r, d>>], d, role[r], role[r], perms[r], env[r])

Stripped(r, d) == PathsOf(files[<<r, d>>]) \ PathsOf(Survivors(r, d))

Planned(r) == {d \in Departments : gatherer[<<r, d>>] # "none"}

GateDecisions(r) ==
    UNION {Entries(r, d, Stripped(r, d), "deny", "spawn-gate")
             \cup Entries(r, d, PathsOf(Survivors(r, d)), "allow", "spawn-gate")
             : d \in Planned(r)}

(* Every gatherer returned: the gate strips each result in one go, with no *)
(* await before the results reach the run.                                 *)
Deliver(r) ==
    /\ phase[r] = "gathering"
    /\ \A d \in Planned(r) : gatherer[<<r, d>>] = "done"
    /\ phase' = [phase EXCEPT ![r] = "delivered"]
    /\ files' = [t \in Tasks |-> IF t[1] = r THEN Survivors(r, t[2]) ELSE files[t]]
    /\ denied' = [t \in Tasks |->
                    IF t[1] = r THEN denied[t] \cup Stripped(r, t[2]) ELSE denied[t]]
    /\ ledger' = ledger \cup GateDecisions(r)
    /\ UNCHANGED <<configVars, role, env, perms, gatherer, allowed, documents,
                   errors, prompts, opened>>

-----------------------------------------------------------------------------
Environment ==
    \/ \E yaml \in PermissionEdits : SavePermissions(yaml)
    \/ \E yaml \in EnvironmentEdits : SaveEnvironment(yaml)
    \/ \E d \in Departments, p \in Paths : ChangeStore(d, p)

RunStep(r) ==
    \/ Accept(r)
    \/ LoadPermissions(r)
    \/ \E chosen \in SUBSET Departments : Plan(r, chosen)
    \/ PlanFails(r)
    \/ GathererFailureSeen(r)
    \/ Cancel(r)
    \/ Deliver(r)

GathererStep(r, d) ==
    \/ StartLocal(r, d)
    \/ GlobRaises(r, d)
    \/ \E picks \in SUBSET Paths : Selected(r, d, picks)
    \/ SelectionFails(r, d)
    \/ StartCloud(r, d)
    \/ CloudListFails(r, d)
    \/ \E returned \in SUBSET ForeignFiles : ForeignGatherer(r, d, returned)
    \/ \E relevant \in SUBSET Paths : Assessed(r, d, relevant)
    \/ AssessmentFails(r, d)

(* Every run resolved and every gatherer at rest: the system may stop.     *)
Resting ==
    /\ \A r \in Runs : phase[r] \in {"delivered", "failed", "cancelled"}
    /\ \A t \in Tasks : gatherer[t] \in {"none", "done", "raised", "stopped"}
    /\ UNCHANGED vars

Next ==
    \/ Environment
    \/ \E r \in Runs : RunStep(r)
    \/ \E r \in Runs, d \in Departments : GathererStep(r, d)
    \/ Resting

Spec == Init /\ [][Next]_vars

(* The event loop runs every ready task, and each model call is a bounded  *)
(* number of HTTP requests that return or raise.  Nobody has to cancel.    *)
RunProgress(r) ==
    \/ LoadPermissions(r)
    \/ \E chosen \in SUBSET Departments : Plan(r, chosen)
    \/ PlanFails(r)
    \/ GathererFailureSeen(r)
    \/ Deliver(r)

FairSpec ==
    /\ Spec
    /\ \A r \in Runs : WF_vars(RunProgress(r))
    /\ \A r \in Runs, d \in Departments : WF_vars(GathererStep(r, d))

-----------------------------------------------------------------------------
(* Properties.                                                             *)

Decisions == [run : Runs, role : Roles, department : Departments, path : Paths,
              decision : {"allow", "deny"}, stage : {"pre-read", "spawn-gate"}]
ItemSet == [run : Runs, department : Departments, path : Paths]

(* Every variable has the shape the code gives it.                         *)
TypeOK ==
    /\ permissionsYaml \in PermissionsConfigs
    /\ environmentYaml \in EnvironmentConfigs
    /\ store \in [Departments -> SUBSET Paths]
    /\ edits \in 0 .. MaxEdits
    /\ phase \in [Runs -> Phases]
    /\ role \in [Runs -> Roles]
    /\ env \in [Runs -> EnvironmentConfigs]
    /\ perms \in [Runs -> PermissionsConfigs]
    /\ gatherer \in [Tasks -> GathererStates]
    /\ allowed \in [Tasks -> SUBSET Paths]
    /\ documents \in [Tasks -> SUBSET Paths]
    /\ files \in [Tasks -> SUBSET Files]
    /\ denied \in [Tasks -> SUBSET Paths]
    /\ errors \in [Tasks -> SUBSET Paths]
    /\ prompts \in SUBSET ItemSet
    /\ opened \in SUBSET ItemSet
    /\ ledger \in SUBSET Decisions

(* What the two configs a run was started under say together, written      *)
(* without the code's operators: the reference the gates are held to.      *)
Permitted(r, d, p) ==
    /\ role[r] \in DOMAIN perms[r]
    /\ d \in perms[r][role[r]]
    /\ role[r] \in env[r][d]
    /\ p \in Inside[d]

(* "A file the principal may not read must never reach a prompt sent to a  *)
(* model provider": on any path through a gatherer, previews, selection,   *)
(* fallback and cloud downloads included, whatever is edited meanwhile.    *)
PromptsPermitted == \A x \in prompts : Permitted(x.run, x.department, x.path)

(* The spawn gate: whatever the gatherers returned, what a run goes on     *)
(* with is labelled with its department and permitted by both configs.     *)
AnswerPermitted ==
    \A r \in Runs, d \in Departments :
        phase[r] = "delivered" =>
            \A f \in files[<<r, d>>] : f.department = d /\ Permitted(r, d, f.path)

(* Provenance: the files of an answer are files their local department     *)
(* held when the gate passed them, however they were come by.              *)
DeliveredFromStore ==
    [][\A r \in Runs, d \in LocalDepartments :
          phase[r] = "gathering" /\ phase'[r] = "delivered" =>
              PathsOf(files'[<<r, d>>]) \subseteq store[d]]_vars

(* README, layer 1, for local departments: a document's content, opening   *)
(* lines included, is read only after the full gate permitted it.          *)
LocalReadsPermitted ==
    \A x \in opened :
        x.department \in LocalDepartments => Permitted(x.run, x.department, x.path)

(* One snapshot serves both gates, across the planner's and the models'    *)
(* awaits: the spawn gate never overrules the pre-read gate on policy.  Of *)
(* an honest gatherer's result it strips a document that vanished after it *)
(* was read, and nothing else, whatever was saved in between.              *)
GatesAgree ==
    [][\A r \in Runs, d \in Departments :
          phase[r] = "gathering" /\ phase'[r] = "delivered" =>
              \A f \in files[<<r, d>>] \ files'[<<r, d>>] :
                  d \in LocalDepartments /\ f.path \notin store[d]]_vars

(* The ledger is true: a line attributes to a run and its role only what   *)
(* that run's configs decided, with other runs interleaved.                *)
LedgerTruthful ==
    \A e \in ledger :
        /\ e.role = role[e.run]
        /\ e.decision = "allow" => Permitted(e.run, e.department, e.path)
        /\ e.stage = "pre-read" /\ e.decision = "deny" =>
              ~Permitted(e.run, e.department, e.path)

(* The ledger explains the answer: every file a run goes on with has the   *)
(* spawn gate's line under that run.                                       *)
LedgerCoversAnswer ==
    \A r \in Runs, d \in Departments :
        phase[r] = "delivered" =>
            \A f \in files[<<r, d>>] :
                \E e \in ledger :
                    /\ e.run = r /\ e.department = d /\ e.path = f.path
                    /\ e.stage = "spawn-gate" /\ e.decision = "allow"

(* "A gap downstream is worse than noise": when a gatherer has read        *)
(* something, each document it chose was read, refused or reported as an   *)
(* error, and at least one that was read is returned.                      *)
NoSilentGap ==
    \A t \in Tasks :
        gatherer[t] = "done" /\ documents[t] # {} =>
            /\ allowed[t] \subseteq documents[t] \cup errors[t] \cup denied[t]
            /\ documents[t] \cap (PathsOf(files[t]) \cup denied[t]) # {}

(* max_files_per_gatherer is a hard ceiling on every path to a result; a   *)
(* ceiling of zero still lets one file through where a model is asked.     *)
HardCeiling ==
    \A t \in Tasks :
        Cardinality(files[t]) <= IF MaxFiles = 0 THEN 1 ELSE MaxFiles

(* A cancelled run spends nothing more: no document opened, no model asked *)
(* for it again.  (A gatherer that outlives a failed sibling is the one    *)
(* exception the code makes.)                                              *)
CancelStopsGatherers ==
    [][\A r \in Runs :
          phase[r] = "cancelled" /\ ~Raised(r) =>
              \A x \in (prompts' \ prompts) \cup (opened' \ opened) : x.run # r]_vars

(* Every accepted run is resolved: it gets its material, fails or is       *)
(* cancelled, whatever its gatherers meet.                                 *)
Resolves ==
    \A r \in Runs :
        phase[r] = "accepted" ~> phase[r] \in {"delivered", "failed", "cancelled"}

(* The abstract promise.  Material counts from the moment it is delivered. *)
Stage == [r \in Runs |->
    CASE phase[r] \in {"new", "accepted"} -> "waiting"
      [] phase[r] \in {"planning", "gathering"} -> "granted"
      [] phase[r] = "delivered" -> "delivered"
      [] OTHER -> "dropped"]
Granted == [r \in Runs |->
    {i \in Departments \X Paths : Permitted(r, i[1], i[2])}]
Material == [r \in Runs |->
    IF phase[r] = "delivered"
    THEN {i \in Departments \X Paths :
            \E f \in files[<<r, i[1]>>] : f.path = i[2]}
    ELSE {}]

Promise == INSTANCE GrantedAnswer
             WITH stage <- Stage, granted <- Granted, material <- Material

(* Gathering keeps the promise of GrantedAnswer: grants settle before the  *)
(* planner is asked, material stays inside them and is never altered, not  *)
(* even by gatherers that outlive their run.                               *)
KeepsPromise == Promise!Spec

(* README, section on permissions: "A file is gated before it is read, not *)
(* after", said of every department.                                       *)
EveryReadPermitted == \A x \in opened : Permitted(x.run, x.department, x.path)
=============================================================================
