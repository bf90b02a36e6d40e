----------------------------- MODULE Comparison -----------------------------
(***************************************************************************)
(* POST /api/compare of src/src/agentic/server/app.py and                  *)
(* server/compare.py: one prompt run at once as the caller and as a        *)
(* narrower role, in one stream, with the diff of both at the end.         *)
(*                                                                         *)
(* EXTENDS Pipeline: Runs are the two sides, each a task of its own that   *)
(* asyncio.gather made; the runner's task waits for both.  The per-run     *)
(* environment config is copied when the request arrives; each side loads  *)
(* the permissions config for itself when it begins.  What a side gathers  *)
(* is any choice of its planner and its models inside the full gate        *)
(* (module Gathering has the gate), from department directories that both  *)
(* sides read while others edit them.  Pages and the owner of a run id are *)
(* in module RunServer; a cancel request that comes too late does nothing. *)
(***************************************************************************)
EXTENDS Pipeline, Permissions, Subsequences

CONSTANTS Yours, Theirs,   \* the two sides
          NoSide,          \* the side of what the runner itself says
          PermissionEdits, EnvironmentEdits,  \* what the config files may hold
          Documents,       \* the documents there may ever be
          Answers,         \* bound: the checker's responses told apart
          MaxEdits         \* bound: saves of the config, changes of documents

ASSUME ComparisonAssumption ==
    /\ Runs = {Yours, Theirs} /\ Yours # Theirs /\ NoSide \notin Runs
    /\ PermissionEdits \subseteq PermissionsConfigs
    /\ EnvironmentEdits \subseteq EnvironmentConfigs
    /\ Documents \subseteq Departments \X Paths
    /\ Answers \subseteq Responses
    /\ MaxEdits \in Nat

Items == Departments \X Paths      \* sources: "department/path"

CloudDocuments == {i \in Documents : i[1] \in CloudDepartments}

VARIABLES
    permissionsYaml, edits,
    store,      \* the documents that are there now
    seen,       \* seen[s]: those that were at some moment of s's gathering,
    lost,       \* lost[s]: and those that at some moment of it were not
    config,     \* the environment config of the request
    role,       \* role[s]: the role side s runs as
    perms,      \* the permissions config side s loaded
    runner,     \* the runner's task
    asked,      \* whether the runner's task was cancelled
    sources,    \* what side s gathered: its sources
    denied,     \* run_comparison's lists of denied paths, by side
    stream,     \* what the client is sent
    diff        \* the payload of compare_result, once there is one

storeVars == <<store, seen, lost>>
comparisonOnly == <<permissionsYaml, edits, storeVars, config, role, perms,
                    runner, asked, sources, denied, stream, diff>>
comparisonVars == <<pipelineVars, comparisonOnly>>

Frame(side, event) == [side |-> side, event |-> event]
Named(name) == Frame(NoSide, Event(name, 0, FALSE))
Done == Named("done")
CancelledFrame == Named("error")

(* comparable_roles: those granted strictly fewer departments.             *)
ComparableRoles(mine, yaml) ==
    {r \in DOMAIN yaml \ {mine} :
        /\ RoleKnown(mine, yaml)
        /\ DepartmentsForRole(r, yaml) \subseteq DepartmentsForRole(mine, yaml)
        /\ DepartmentsForRole(r, yaml) # DepartmentsForRole(mine, yaml)}

Readable(r, yaml, env) == {i \in Items : Allowed(i[2], r, i[1], yaml, env)}

ComparisonInit ==
    /\ PipelineInit
    /\ permissionsYaml \in PermissionEdits
    /\ edits = 0
    /\ store \in SUBSET Documents /\ CloudDocuments \subseteq store
    /\ seen = [s \in Runs |-> {}]
    /\ lost = [s \in Runs |-> {}]
    /\ config \in EnvironmentEdits
    /\ role \in [Runs -> Roles]
    /\ perms = [s \in Runs |-> NoRoles]
    /\ runner = "idle"
    /\ asked = FALSE
    /\ sources = [s \in Runs |-> {}]
    /\ denied = [s \in Runs |-> {}]
    /\ stream = <<>>
    /\ diff = <<>>

SavePermissions(yaml) ==
    /\ edits < MaxEdits
    /\ edits' = edits + 1
    /\ permissionsYaml' = yaml
    /\ UNCHANGED <<pipelineVars, storeVars, config, role, perms, runner, asked,
                   sources, denied, stream, diff>>

(* Somebody writes or deletes a local document.  (What a cloud listing     *)
(* holds is its adapter's affair: modules Gathering and DriveWalk.)        *)
ChangeDocument(i) ==
    LET gathering == {s \in Runs : stage[s] = "gathering"}
    IN
    /\ edits < MaxEdits
    /\ i \in Documents \ CloudDocuments
    /\ edits' = edits + 1
    /\ store' = IF i \in store THEN store \ {i} ELSE store \cup {i}
    /\ seen' = [s \in Runs |-> IF s \in gathering THEN seen[s] \cup store' ELSE seen[s]]
    /\ lost' = [s \in Runs |-> IF s \in gathering
                              THEN lost[s] \cup (Documents \ store') ELSE lost[s]]
    /\ UNCHANGED <<pipelineVars, permissionsYaml, config, role, perms, runner,
                   asked, sources, denied, stream, diff>>

(* The endpoint checks the pair on the permissions config of the moment    *)
(* and creates the runner's task; any other pair is answered with a 403.   *)
Compare ==
    /\ runner = "idle"
    /\ Loadable(permissionsYaml, role[Yours])
    /\ role[Theirs] \in ComparableRoles(role[Yours], permissionsYaml)
    /\ runner' = "created"
    /\ UNCHANGED <<pipelineVars, permissionsYaml, edits, storeVars, config, role, perms,
                   asked, sources, denied, stream, diff>>

(* run_comparison announces itself and asyncio.gather makes both tasks.    *)
RunnerBegins ==
    /\ runner = "created"
    /\ runner' = "waiting"
    /\ stage' = [s \in Runs |-> "created"]
    /\ stream' = Append(stream, Named("compare_started"))
    /\ UNCHANGED <<attempt, compiled, verdict, out, permissionsYaml, edits, storeVars,
                   config, role, perms, asked, sources, denied, diff>>

-----------------------------------------------------------------------------
(* The sides.                                                              *)

(* Fault: both closures see the side the loop ended with.                  *)
TaggedLate(s, events) == [i \in 1 .. Len(events) |-> Frame(Theirs, events[i])]

(* tagged(): an event of a side carries the side.                          *)
Tagged(s, events) == [i \in 1 .. Len(events) |-> Frame(s, events[i])]

(* What side s emits in this step.                                         *)
Emitted(s) == SubSeq(out'[s], Len(out[s]) + 1, Len(out'[s]))

(* one(): an exception that leaves execute_run is reported under its side, *)
(* after the error the pipeline emitted itself.                            *)
Reported(s) == IF stage'[s] = "failed" THEN <<Frame(s, ErrorEvent)>> ELSE <<>>

Forward(s, before) == stream' = stream \o Tagged(s, before \o Emitted(s)) \o Reported(s)

(* A side's first step: run_started, and its own permission snapshot.      *)
Begin(s) ==
    /\ ~asked
    /\ Start(s)
    /\ perms' = [perms EXCEPT ![s] = permissionsYaml]
    /\ seen' = [seen EXCEPT ![s] = store]
    /\ lost' = [lost EXCEPT ![s] = Documents \ store]
    /\ Forward(s, <<>>)
    /\ UNCHANGED <<permissionsYaml, edits, store, config, role, runner, asked, sources,
                   denied, diff>>

(* execute_run raises before the pipeline.                                 *)
BeginFails(s) ==
    /\ ~asked
    /\ stage[s] = "created"
    /\ stage' = [stage EXCEPT ![s] = "failed"]
    /\ UNCHANGED <<attempt, compiled, verdict, out>>
    /\ Forward(s, <<>>)
    /\ UNCHANGED <<permissionsYaml, edits, storeVars, config, role, perms, runner,
                   asked, sources, denied, diff>>

(* Fault: one list of denials for both sides.                              *)
CollectShared(s, paths) == denied' = [t \in Runs |-> denied[t] \cup paths]

(* tagged() keeps the denials of each gatherer_result by side.             *)
Collect(s, paths) == denied' = [denied EXCEPT ![s] = @ \cup paths]

(* The planned departments have been listed, at one moment or another of   *)
(* the gathering; the listing of a cloud one may have failed.  What the    *)
(* environment config forbids is denied in any case.  Denied may be all    *)
(* that the full gate forbids (of a cloud listing, and of the fallback of  *)
(* a failed selection, only what was ranked high enough), and what a model *)
(* kept that is gone by the time _enforce looks.  The rest is kept or not, *)
(* as the models like.                                                     *)
SideGathered(s, planned, listed, kept, refused) ==
    LET held     == {i \in Documents : i[1] \in planned}
        readable == Readable(role[s], perms[s], config)
    IN
    /\ ~asked
    /\ Gathered(s)
    /\ Loadable(perms[s], role[s])
    /\ planned # {}
    /\ listed \subseteq held \cap seen[s]
    /\ held \ lost[s] \subseteq listed \cup CloudDocuments
    /\ kept \subseteq listed \cap readable \cap store
    /\ {i \in listed : ~Check(i[2], role[s], i[1], config)} \subseteq refused
    /\ refused \subseteq listed \ (readable \cap store)
    /\ sources' = [sources EXCEPT ![s] = kept]
    /\ Collect(s, {i[2] : i \in refused})
    /\ Forward(s, <<Event("gatherer_result", 0, FALSE)>>)
    /\ UNCHANGED <<permissionsYaml, edits, storeVars, config, role, perms, runner,
                   asked, diff>>

(* Everything else a side does, as module Pipeline has it.                 *)
SideProceeds(s) ==
    /\ ~asked
    /\ \/ \E text \in Texts : Synthesized(s, text) \/ Revised(s, text)
       \/ \E answer \in Answers : Checked(s, answer)
       \/ Fails(s)
    /\ Forward(s, <<>>)
    /\ UNCHANGED <<permissionsYaml, edits, storeVars, config, role, perms, runner,
                   asked, sources, denied, diff>>

(* Fault: a side that has not run yet is passed over.                      *)
SideCancelledRunning(s) == asked /\ Cancelled(s) /\ UNCHANGED comparisonOnly

(* Cancelling the gathering future cancels both tasks; one that has not    *)
(* run yet never will.  A side says nothing about it.                      *)
SideCancelled(s) ==
    /\ asked
    /\ \/ Cancelled(s)
       \/ /\ stage[s] = "created"
          /\ stage' = [stage EXCEPT ![s] = "cancelled"]
          /\ UNCHANGED <<attempt, compiled, verdict, out>>
    /\ UNCHANGED comparisonOnly

-----------------------------------------------------------------------------
(* The runner.                                                             *)

(* The console's cancel, once compare_started brought the id.              *)
Cancel ==
    /\ runner = "waiting" /\ ~asked
    /\ asked' = TRUE
    /\ UNCHANGED <<pipelineVars, permissionsYaml, edits, storeVars, config, role, perms,
                   runner, sources, denied, stream, diff>>

FinalState(s) == out[s][Len(out[s])]

(* build_diff, without the texts.                                          *)
Half(s) == [approved |-> FinalState(s).approved, attempts |-> FinalState(s).number,
            sources |-> sources[s], denied |-> denied[s]]
BuildDiff ==
    [yours |-> Half(Yours), theirs |-> Half(Theirs),
     only_yours  |-> sources[Yours] \ sources[Theirs],
     only_theirs |-> sources[Theirs] \ sources[Yours],
     shared      |-> sources[Yours] \cap sources[Theirs]]

Whole == \A s \in Runs : stage[s] = "shipped"

(* Fault: the runner goes on when the first side is back.                  *)
BothBackEither == \E s \in Runs : stage[s] \in Ended

(* gather's future resolves when neither side is left.                     *)
BothBack == \A s \in Runs : stage[s] \in Ended

(* Fault: the runner repeats what run_comparison said.                     *)
RunnerResumesLoudly ==
    /\ runner = "waiting" /\ ~asked
    /\ BothBack
    /\ runner' = "done"
    /\ diff' = IF Whole THEN <<BuildDiff>> ELSE diff
    /\ stream' = stream \o (IF Whole THEN <<Named("compare_result")>>
                            ELSE <<Named("compare_failed"), Named("error")>>) \o <<Done>>
    /\ UNCHANGED <<pipelineVars, permissionsYaml, edits, storeVars, config, role, perms,
                   asked, sources, denied>>

(* The diff, or word that a side did not finish; then the stream is closed. *)
RunnerResumes ==
    /\ runner = "waiting" /\ ~asked
    /\ BothBack
    /\ runner' = "done"
    /\ \/ /\ Whole
          /\ diff' = <<BuildDiff>>
          /\ stream' = stream \o <<Named("compare_result"), Done>>
       \/ /\ ~Whole
          /\ stream' = stream \o <<Named("compare_failed"), Done>>
          /\ UNCHANGED diff
    /\ UNCHANGED <<pipelineVars, permissionsYaml, edits, storeVars, config, role, perms,
                   asked, sources, denied>>

(* A cancelled side resolves gather's future at once; the other side may   *)
(* still be unwinding.                                                     *)
FirstSideStopped == \E s \in Runs : stage[s] = "cancelled"

(* The CancelledError reaches the runner, also when both sides had just    *)
(* come back and it had not run yet.                                       *)
RunnerCancelled ==
    /\ runner = "waiting" /\ asked
    /\ FirstSideStopped \/ BothBack
    /\ runner' = "done"
    /\ stream' = stream \o <<CancelledFrame, Done>>
    /\ UNCHANGED <<pipelineVars, permissionsYaml, edits, storeVars, config, role, perms,
                   asked, sources, denied, diff>>

SideStep(s) ==
    \/ Begin(s)
    \/ BeginFails(s)
    \/ SideProceeds(s)
    \/ /\ stage[s] = "gathering"
       /\ \E planned \in SUBSET Departments,
             listed, kept, refused \in SUBSET Documents :
             SideGathered(s, planned, listed, kept, refused)
    \/ SideCancelled(s)

RunnerStep == RunnerBegins \/ RunnerResumes \/ RunnerCancelled

(* Nothing was asked for, or all is over.                                  *)
ComparisonOver ==
    /\ runner = "idle" \/ (runner = "done" /\ \A s \in Runs : stage[s] \in Ended)
    /\ UNCHANGED comparisonVars

ComparisonNext ==
    \/ \E yaml \in PermissionEdits : SavePermissions(yaml)
    \/ \E i \in Documents : ChangeDocument(i)
    \/ Compare
    \/ RunnerBegins
    \/ \E s \in Runs : SideStep(s)
    \/ Cancel
    \/ RunnerResumes
    \/ RunnerCancelled
    \/ ComparisonOver

ComparisonSpec == ComparisonInit /\ [][ComparisonNext]_comparisonVars

(* The loop runs every ready task, and calls to a model return or raise.   *)
FairComparison ==
    /\ ComparisonSpec
    /\ WF_comparisonVars(RunnerStep)
    /\ \A s \in Runs : WF_comparisonVars(SideStep(s))

-----------------------------------------------------------------------------
(* What side s said itself, in the one stream.                             *)
OwnFrames(s) == [side : {s}, event : Events]
Told(s) == Kept(stream, OwnFrames(s))

Occurrences(name) ==
    {i \in 1 .. Len(stream) : stream[i].side = NoSide /\ stream[i].event.event = name}

(* A reader can take the one stream apart: what carries a side is that     *)
(* side's own stream, whole and in order and, should it fail, the error    *)
(* repeated once; or it is what the side's gatherers narrated.             *)
SidesKeptApart ==
    \A s \in Runs :
        /\ [i \in 1 .. Len(Told(s)) |-> Told(s)[i].event]
             = out[s] \o IF stage[s] = "failed" THEN <<ErrorEvent>> ELSE <<>>
        /\ \A i \in 1 .. Len(stream) : stream[i].side = s =>
              \/ stream[i] \in OwnFrames(s)
              \/ stream[i].event = Event("gatherer_result", 0, FALSE)

(* A diff is only ever built from two whole runs, and each half tells of   *)
(* its own: the final state of that side; sources that were there while    *)
(* it gathered and that its role, on the configs that side loaded, could   *)
(* read; and no denial without a cause of that side's own, a document it   *)
(* listed and either could not read or lost while it was gathering.        *)
DiffOfWholeSides ==
    diff # <<>> =>
        \A s \in Runs :
            LET half == IF s = Yours THEN diff[1].yours ELSE diff[1].theirs
                last == out[s][Len(out[s])]
                readable == Readable(role[s], perms[s], config)
            IN  /\ last.event = "run_state"
                /\ half.approved = last.approved /\ half.attempts = last.number
                /\ half.sources \subseteq readable \cap seen[s]
                /\ \A p \in half.denied : \E i \in seen[s] :
                      i[2] = p /\ (i \notin readable \/ i \in lost[s])

(* The stream ends in exactly one outcome: the diff, word of a failed      *)
(* half, or the cancellation; and nothing follows it.                      *)
OneOutcome ==
    LET outcomes == UNION {Occurrences(name) : name \in
                             {"compare_result", "compare_failed", "error"}}
    IN  IF runner = "done"
        THEN /\ outcomes = {Len(stream) - 1} /\ Occurrences("done") = {Len(stream)}
             /\ asked <=> Occurrences("error") # {}
             /\ diff # <<>> <=> Occurrences("compare_result") # {}
        ELSE outcomes = {} /\ Occurrences("done") = {} /\ diff = <<>>

(* "A failure on one side does not discard the other's work": when word of *)
(* a failed half is given, a side that did not fail has shipped, and its   *)
(* answer is in the stream before it.                                      *)
OtherHalfHeard ==
    Occurrences("compare_failed") # {} =>
        /\ \E s \in Runs : stage[s] = "failed"
        /\ \A s \in Runs :
              stage[s] # "failed" =>
                  \E i \in 1 .. Len(stream) :
                      stream[i].side = s /\ stream[i].event.event = "run_state"

(* Every comparison that was accepted closes its stream, and no side is    *)
(* left running behind it.                                                 *)
ComparisonCloses ==
    runner = "created" ~> runner = "done" /\ \A s \in Runs : stage[s] \in Ended
=============================================================================
