----------------------------- MODULE RunServer -----------------------------
(***************************************************************************)
(* The endpoints of src/src/agentic/server/app.py around one pipeline run: *)
(* POST /api/run creates a task and a stream (server/sse.py), the task     *)
(* runs execute_run (server/runs.py) and cleans up after itself, and       *)
(* POST /api/run/{run_id}/cancel stops it.                                 *)
(*                                                                         *)
(* Requests and tasks share the event loop's thread, so each runs from one *)
(* wait to the next without interference.  The cancel endpoint is a plain  *)
(* "def": it runs in a worker thread, and its two accesses, the lookup in  *)
(* _active_runs and task.cancel(), interleave with everything else.        *)
(*                                                                         *)
(* Recording is off (AGENTIC_RECORD unset, the default).  A prompt is      *)
(* represented by the slug its page is named by.                           *)
(***************************************************************************)
EXTENDS Pipeline, FiniteSets

CONSTANTS Users, Slugs, Nobody, NoRun,
          MaxSecond        \* bound: the clock stops there

ASSUME ServerAssumption == /\ MaxSecond \in Nat
                           /\ Nobody \notin Users
                           /\ NoRun \notin Runs

VARIABLES
    owner,      \* the user in a run's _active_runs entry
    slug,       \* the prompt's slug
    active,     \* the run ids registered in _active_runs
    tail,       \* what the runner itself put in the stream, after the run's events
    looked,     \* the cancel requests that hold a task and have not cancelled it
    asked,      \* who cancelled a run's task, while it was not done
    now,        \* the clock, in the seconds a page name shows
    page,       \* the page a run was given
    pages       \* whose graph each page under out/graphs shows

serverOnly == <<owner, slug, active, tail, looked, asked, now, page, pages>>
serverVars == <<pipelineVars, serverOnly>>

Done == Event("done", 0, FALSE)      \* sse.py: _DONE

PageNames == (0 .. MaxSecond) \X Slugs

(* The queue of a run, from its first event on.                            *)
Stream(r) == out[r] \o tail[r]

Closed(r) == tail[r] # <<>> /\ tail[r][Len(tail[r])] = Done

ServerInit ==
    /\ PipelineInit
    /\ owner = [r \in Runs |-> Nobody]
    /\ slug \in [Runs -> Slugs]
    /\ active = {}
    /\ tail = [r \in Runs |-> <<>>]
    /\ looked = {}
    /\ asked = [r \in Runs |-> Nobody]
    /\ now = 0
    /\ page \in [Runs -> {<<0, s>> : s \in Slugs}]
    /\ pages = [p \in PageNames |-> NoRun]

-----------------------------------------------------------------------------
(* Fault: the registry entry does not say whose run it is.                 *)
RequestAnonymous(r, u, s) ==
    /\ Create(r)
    /\ slug' = [slug EXCEPT ![r] = s]
    /\ active' = active \cup {r}
    /\ UNCHANGED <<owner, tail, looked, asked, now, page, pages>>

(* POST /api/run: the run gets a fresh id, its task is created and         *)
(* registered before it first runs.                                        *)
Request(r, u, s) ==
    /\ Create(r)
    /\ owner' = [owner EXCEPT ![r] = u]
    /\ slug' = [slug EXCEPT ![r] = s]
    /\ active' = active \cup {r}
    /\ UNCHANGED <<tail, looked, asked, now, page, pages>>

(* Fault: a cancelled run stays registered.                                *)
CleanUpUnlessCancelled(r, last) ==
    /\ tail' = [tail EXCEPT ![r] = last \o <<Done>>]
    /\ active' = IF last = <<>> THEN active \ {r} ELSE active

(* runner's "finally": unregister the run and close its stream, in which   *)
(* the runner's own last words come first.                                 *)
CleanUp(r, last) ==
    /\ tail' = [tail EXCEPT ![r] = last \o <<Done>>]
    /\ active' = active \ {r}

(* execute_run: the page's name is fixed, and the pipeline starts.         *)
Begin(r) ==
    /\ asked[r] = Nobody
    /\ Start(r)
    /\ page' = [page EXCEPT ![r] = <<now, slug[r]>>]
    /\ UNCHANGED <<owner, slug, active, tail, looked, asked, now, pages>>

(* execute_run cannot make the directory of the pages: it raises before    *)
(* the pipeline has emitted anything.                                      *)
BeginFails(r) ==
    /\ asked[r] = Nobody
    /\ stage[r] = "created"
    /\ stage' = [stage EXCEPT ![r] = "failed"]
    /\ CleanUp(r, <<>>)
    /\ UNCHANGED <<attempt, compiled, verdict, out,
                   owner, slug, looked, asked, now, page, pages>>

(* Fault: the runner reports an exception the pipeline reported already.   *)
LastWordsRepeated(r) == IF stage'[r] = "failed" THEN <<ErrorEvent>> ELSE <<>>

(* "except Exception: pass": the pipeline emitted its error itself.        *)
LastWords(r) == <<>>

(* Pages are written after the last verdict; what fails then may fail      *)
(* before the page is there or after.                                      *)
Render(r) ==
    \/ /\ stage'[r] # "shipped"
       /\ UNCHANGED pages
    \/ /\ stage[r] = "checking" /\ verdict'[r].about = compiled[r]
       /\ stage'[r] \in {"shipped", "failed"}
       /\ pages' = [pages EXCEPT ![page[r]] = r]

(* The task runs on from one answer to its next wait, or to its end.       *)
Proceed(r) ==
    /\ asked[r] = Nobody
    /\ stage[r] # "created"
    /\ Advance(r)
    /\ Render(r)
    /\ IF stage'[r] \in Ended THEN CleanUp(r, LastWords(r)) ELSE UNCHANGED <<tail, active>>
    /\ UNCHANGED <<owner, slug, looked, asked, now, page>>

(* The cancelled task runs: CancelledError arrives where it waits.  A task *)
(* that has never run ends without entering the runner's body, so without  *)
(* its "finally".                                                          *)
TaskCancelled(r) ==
    /\ asked[r] # Nobody
    /\ \/ Cancelled(r) /\ CleanUp(r, <<ErrorEvent>>)
       \/ /\ stage[r] = "created"
          /\ stage' = [stage EXCEPT ![r] = "cancelled"]
          /\ UNCHANGED <<attempt, compiled, verdict, out, tail, active>>
    /\ UNCHANGED <<owner, slug, looked, asked, now, page, pages>>

(* Fault: the id is known as soon as the run exists.                       *)
IdKnownAtOnce(r) == stage[r] # "absent"

(* The id leaves the server in the payload of run_started.                 *)
IdKnown(r) == out[r] # <<>>

(* Fault: the entry's owner is not compared.                               *)
LookupAnyone(u, r) ==
    /\ IdKnown(r) /\ r \in active
    /\ looked' = looked \cup {<<u, r>>}
    /\ UNCHANGED <<pipelineVars, owner, slug, active, tail, asked, now, page, pages>>

(* cancel_run reads the registry; any other answer is a 404.               *)
CancelLookup(u, r) ==
    /\ IdKnown(r) /\ r \in active
    /\ owner[r] = u
    /\ looked' = looked \cup {<<u, r>>}
    /\ UNCHANGED <<pipelineVars, owner, slug, active, tail, asked, now, page, pages>>

(* task.cancel(): nothing happens to a task that is done.  A cancellation  *)
(* that meets the task in the middle of a step takes effect at its next    *)
(* wait, as one that comes after the step.                                 *)
CancelTask(u, r) ==
    /\ <<u, r>> \in looked
    /\ looked' = looked \ {<<u, r>>}
    /\ asked' = IF stage[r] \in Ended THEN asked ELSE [asked EXCEPT ![r] = u]
    /\ UNCHANGED <<pipelineVars, owner, slug, active, tail, now, page, pages>>

Tick ==
    /\ now < MaxSecond
    /\ now' = now + 1
    /\ UNCHANGED <<pipelineVars, owner, slug, active, tail, looked, asked, page, pages>>

AllClosed ==
    /\ \A r \in Runs : stage[r] \in Ended
    /\ UNCHANGED serverVars

TaskStep(r) == Begin(r) \/ BeginFails(r) \/ Proceed(r) \/ TaskCancelled(r)

ServerNext ==
    \/ \E r \in Runs : \/ \E u \in Users, s \in Slugs : Request(r, u, s)
                       \/ Begin(r)
                       \/ BeginFails(r)
                       \/ Proceed(r)
                       \/ TaskCancelled(r)
    \/ \E r \in Runs, u \in Users : CancelLookup(u, r) \/ CancelTask(u, r)
    \/ Tick
    \/ AllClosed

ServerSpec == ServerInit /\ [][ServerNext]_serverVars

(* The loop runs every ready task, calls to a model return or raise, and   *)
(* the worker thread of a cancel request goes on.                          *)
FairServer ==
    /\ ServerSpec
    /\ \A r \in Runs : WF_serverVars(TaskStep(r))
    /\ \A r \in Runs, u \in Users : WF_serverVars(CancelTask(u, r))

-----------------------------------------------------------------------------
ServerTypeOK ==
    /\ PipelineTypeOK
    /\ owner \in [Runs -> Users \cup {Nobody}]
    /\ slug \in [Runs -> Slugs]
    /\ active \subseteq {r \in Runs : owner[r] # Nobody}
    /\ tail \in [Runs -> {<<>>, <<Done>>, <<ErrorEvent, Done>>}]
    /\ looked \subseteq Users \X Runs
    /\ asked \in [Runs -> Users \cup {Nobody}]
    /\ now \in 0 .. MaxSecond
    /\ page \in [Runs -> PageNames]
    /\ pages \in [PageNames -> Runs \cup {NoRun}]

(* _active_runs holds exactly the runs whose task is not done: none is     *)
(* lost, so each can be cancelled, and none stays, so none is kept alive.  *)
(* It rests on the order in which an id becomes known: a task cancelled    *)
(* before its first step would never leave.                                *)
RegistryIsUnfinished ==
    active = {r \in Runs : stage[r] \notin Ended \cup {"absent"}}

(* A stream that is closed told its reader how the run ended in exactly    *)
(* one last event, wherever failure and cancellation met it; only a run    *)
(* that could not begin says nothing at all.                               *)
ClosedOnce ==
    \A r \in Runs :
        /\ Closed(r) <=> tail[r] # <<>>
        /\ Closed(r) => LET told == {i \in 1 .. Len(Stream(r)) :
                                        Stream(r)[i].event \in Terminal} IN
                        \/ told = {Len(Stream(r)) - 1}
                        \/ out[r] = <<>> /\ told = {}
        /\ ~Closed(r) => \A i \in 1 .. Len(out[r]) : out[r][i].event \notin Terminal

(* "Only the user who started it may cancel it": a run ends cancelled only *)
(* because its owner asked.                                                *)
CancelledByOwner ==
    \A r \in Runs : /\ stage[r] = "cancelled" => asked[r] # Nobody
                    /\ asked[r] \in {Nobody, owner[r]}

(* Every stream that was opened is closed, cancelled or not.               *)
StreamCloses == \A r \in Runs : owner[r] # Nobody ~> Closed(r)

(* A run whose task was cancelled takes no further step of its own: what   *)
(* its wait was for, an approval included, is dropped.                     *)
CancelIsFinal ==
    [][\A r \in Runs : asked[r] # Nobody => stage'[r] \in {stage[r], "cancelled"}]_serverVars

(* runs.py: "A unique page per run, so two viewers never overwrite each    *)
(* other."  Claimed by the comment, not kept by a name made of the second  *)
(* and the prompt.                                                         *)
PagePerRun ==
    \A r \in Runs : stage[r] = "shipped" => pages[page[r]] = r
=============================================================================
