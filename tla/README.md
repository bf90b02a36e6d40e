# A TLA+ model of all-things-agentic

The program answers a question from the documents of an organisation's
departments. A planner picks departments, one gatherer per department reads the
documents the asking role may see, a synthesizer writes an answer, a veto
checker approves it or sends it back, and a server streams the whole run to a
browser. This directory models the parts whose correctness depends on order,
interleaving, partial failure or limits, checks them with TLC and proves the
central ones with TLAPS.

All paths below are relative to the repository root; the package is
`src/agentic`.

## Inventory

| Component | State it keeps | Operations | Hard behaviour | What makes it correct |
|---|---|---|---|---|
| Permission gate (`gatherers/permissions.py`) | none; reads two config files | load, `check`, `department_allowed`, `allowed` | the two configs disagree or are edited | both must agree; fails closed |
| Gatherer fan-out (`gather.py`, `gatherer.py`, `spawn.py`) | a task per department, results, denials, errors | gate, select, read, assess, cloud listing and download, spawn gate | model calls between gate and use, any step failing, orphans after a failed sibling, cancellation | nothing unpermitted reaches a model or the answer; no silent gap; ceilings |
| Audit ledger (`audit.py`) | an append-only file, a context variable | `run_context`, `record`, `read`, `summarise` | concurrent runs | lines are true, attributed and complete |
| State manager (`state_manager/`) | the permission snapshot of a run | plan, gather, synthesize, revise, emit | planner retries, duplicate tasks | one snapshot per run, one task per department |
| Pipeline and veto (`pipeline.py`, `veto/checker.py`) | the loop counter, draft, verdict | check, revise, ship, fail | incomplete checker responses, off-by-one in the retry budget, failures after the verdict | what ships is what was reviewed; one terminal event; it ends |
| Run server (`server/app.py`, `runs.py`, `sse.py`) | `_active_runs`, a task and a queue per run, pages on disk | run, cancel, stream | cancel from a worker thread, cancel against completion, failures outside the pipeline, page names | exact registry, closed streams, only owners cancel |
| Comparison (`server/compare.py`) | two runs in one task | `run_comparison`, `build_diff` | one side fails, cancellation of both | a diff only from two whole sides |
| Console (`server/static/index.html`) | event queue, run id, graph | submit, compare, cancel, replay | stale ids, events queued behind an animation | the id cancelled is the run shown |
| Recordings (`server/replay.py`) | files by name, pages by name | record, save, list, replay | names chosen long before they are used, torn files, two readings of one file | a recording is what was streamed, and is not overwritten; a replay is one run of the name asked for, and of the viewer's role |
| Login (`server/auth.py`) | failures per address in a window, tokens | allow, record, issue, verify | concurrent attempts across a slow hash, roles taken away, restarts | the budget of failures, lockouts that end, roles that are recent |
| Model-call retry (`retry.py`) | none | `with_retry` | quota against transient errors | bounded attempts and waits |
| Config, overrides (`contracts/`, `runs.apply_overrides`) | per-run copy | clamp, narrow | edits during a run | a request only narrows |
| Scores and graph (`citations.py`, `client/viz.py`) | none | `score`, `build_graph` | dangling links, duplicates | edges between known nodes, scores in range |
| Cloud adapters (`gatherers/cloud/`) | the stack and nodes of a walk | list, download | folder cycles, edits during a walk, shortcuts | it ends; what is listed is under the root, what stayed there is listed |

How they interact: an HTTP request creates a task (`create_task`) and a queue;
the task calls `execute_run`, `pipeline.run`, `plan_and_gather` and
`spawn_gatherers` in one chain of awaits; gatherers are child tasks of
`asyncio.gather`; events go back through callbacks (`emit`, `on_result`,
`on_progress`) into the queue; the ledger is written inside gate decisions. All
of it shares one event-loop thread, except plain `def` endpoints such as
`cancel_run`, which FastAPI runs in a worker thread.

## Modules

| Module | Models | How it corresponds |
|---|---|---|
| `Permissions` | `gatherers/permissions.py` | pure operators with the names of the functions. A config that cannot be loaded is one that defines no role. `Inside[d]` stands for path resolution. |
| `Gathering` | `gather.py`, `gatherer.py`, `spawn.py`, the snapshot of `manager.plan_and_gather`, `audit.record` | one action per stretch of code between two awaits: `StartLocal`, `Selected`, `SelectionFails`, `StartCloud`, `Assessed`, `Deliver`... `prompts` and `opened` are history: what went to a model, what was read. `ForeignGatherer` is any other implementation of the `gather()` seam, which the spawn gate must not trust. |
| `GrantedAnswer` | what gathering promises | grant, deliver inside the grant, drop |
| `Pipeline` | `pipeline._run`, `checker.check`, `manager.synthesize`, `manager.revise` | one action per wait: `Start`, `Gathered`, `Synthesized`, `Checked` (with the page and the final event), `Revised`, `Fails`, `Cancelled`. `out` is the list of emitted events. |
| `ReviewedAnswer` | what the loop promises | write, review, ship with a review |
| `RunServer` | `app.run`, `execute_run`, `SseQueue`, `cancel_run` | EXTENDS `Pipeline`: each step of the task is a step of the pipeline with the server's own bookkeeping. `CancelLookup` and `CancelTask` are the two accesses of the worker thread. |
| `Comparison` | `compare.py`, `app.compare_roles_run` | EXTENDS `Pipeline` (each of `Runs` is a side, a task made by `asyncio.gather`) and `Permissions` (what a side may gather). `runner` is the endpoint's task; `stream` is what the client is sent, each frame with its side; `asked` is a cancellation that reached the task; `diff` is the payload of `compare_result`. A side's gathering is one step, `SideGathered`, that may keep or refuse whatever the gates and the documents of its time allow; `store` are the documents there are (`ChangeDocument` deletes or writes one), `seen` those a side met while it gathered and `lost` those that were missing meanwhile, which the spawn gate denies though the role may read them (`spawn.py:89`). |
| `Planning` | `runs.apply_overrides`, `manager_planning.py`, `retry.with_retry` | from the request to the list of gatherers: `Refused`/`Accepted` are the endpoint's answer, `CallFails`, `NotAPlan`, `Planned` the outcomes of one planner call, `Except` the handler of `with_retry`, `CallAgain` the end of its sleep. A task's prompt is the sequence of asks joined in it; `Reading` is the loop of `dedupe_tasks`, a recursive function over its tasks. `Misread` are the failures whose text `is_transient` takes for weather. Whatever `Planned` leaves is what `Gathering` takes as the set of planned departments. |
| `Login` | `server/auth.py`, `app.login`, `app.current_principal` | `Admit` asks the limiter and reads the files, `Refuse` and `Succeed` come after the password check, in another step of the worker thread. Times are kept as ages. |
| `Recordings` | `server/replay.py`, the recording half of `app.run`, `app.replay_run` | `Request` chooses the name, `Ends` and `Cancelled` save, `Open` is the endpoint's reading of the file and `Begins` the player's. `Torn` is a file whose writing broke off. `Series` lists the names `unique_name` tries for a prompt and a role; the series of two pairs may meet, as slugs joined and cut do. |
| `Subsequences` | - | `Kept(s, S)`, the elements of a sequence that are in a set; `Login`, `Recordings` and `Comparison` select entries, frames and events with it. |
| `DriveWalk` | `gatherers/cloud/drive.py` | `Pop`, `Listed`, `LastPage` are the loops of `_walk_tree`; `ParentChain` and `Candidates` turn its nodes into paths: `Answer` is one call of `_parent_chain`, given what the calls inside it return, with the memo passed along; `ParentChain` is the function over their depth. `Move` is somebody else's edit. |
| `MCGathering`, `MCPipeline`, `MCRunServer`, `MCComparison`, `MCPlanning`, `MCLogin`, `MCRecordings`, `MCDriveWalk` | - | instances for TLC |
| `GatheringProofs`, `PipelineProofs`, `RunServerProofs`, `ComparisonProofs`, `LoginProofs`, `RecordingsProofs`, `PlanningProofs` | - | theorems |
| `SubsequenceProofs` | - | lemmas on `Kept`, and how to reason over a recursive function |

Definitions marked *Fault* are wrong versions of the definition that follows
them, a mistake a change to that code could make. No specification uses them;
substituted for the definition, each makes one property fail.

## Runs

| Run | Bounds | Shows |
|---|---|---|
| `MCGathering.cfg` | 1 run, 2 roles, a local and a cloud department, 3 paths of which one leads outside, ceiling 1, 2 edits | prompts and local reads stay permitted while configs and documents change; the two gates agree; the ceiling holds; cancellation stops all work; `GrantedAnswer` is implemented |
| `MCGatheringTwoRuns.cfg` | 2 runs of any roles, each in a local or a cloud department, 3 paths of which one leads outside and one cannot be read, ceiling 1, gatherers that may return another department's document or a link, 1 edit, fair | the ledger is true; no silent gap; the answer is permitted, and held by the department when it is delivered; every run is resolved |
| `MCPipeline.cfg` | 1 run, 2 texts, retry budget 2, every kind of checker response, fair | what ships is what was reviewed; the event stream tells the loop; one terminal event; the run ends; `ReviewedAnswer` is implemented |
| `MCRunServer.cfg` | 2 runs, 2 users, 1 check per run, clock of 2 seconds, fair | the registry is exact; every stream closes after one last event; only an owner cancels |
| `MCComparison.cfg` | 2 sides, 2 roles, a local and a cloud department, each with 1 document of one name, 1 check per side, 1 save of the permissions config or change of the local document, fair | the one stream can be taken apart into the sides' streams; a diff is built only from two whole sides, each half from its own: its sources are what its role could read and its side met, and each of its denials was refused by its gates or was missing while it gathered; one outcome ends the stream; a half that finished was told; everything closes |
| `MCPlanning.cfg` | 3 departments, 2 asks, plans of up to 3 tasks, 6 kinds of failing call and 3 of unusable answer | overrides only narrow; the fan-out is one gatherer per department, in the plan's order, up to the cap, and asks everything once; of the failures that show their cause a call is repeated after weather alone, and after the wait the server asked for; weather is not given up before three calls |
| `MCLogin.cfg` | 2 threads, 2 addresses, 1 user, 2 roles, budget 2, window and token life 1 tick, fair | an address is locked out by its own recent failures alone; concurrent attempts get past the budget at most once per thread; a token's role is never staler than a token's life and a login; a lockout ends |
| `MCRecordings.cfg` | 3 recorded runs of one prompt, 2 roles whose names meet, 1 replay, crashes, fair | a whole recording is lost only to a run in flight beside it with the same name; a replay is one run of the name asked for, as its client saw it; it is of the viewer's role, or of a run that met one of that role under the same name; a replay closes |
| `MCDriveWalk.cfg` | 6 ids: root, a folder inside and one outside, two files, a shortcut with each target, in 12 trees; 2 moves, fair | what stayed is listed, what is listed was under the root, the walk ends although shortcuts close cycles |
| `MCGatedRead.cfg` | 1 run, a local and a cloud department, no edits | **violated**: a cloud document is downloaded before the permissions config is asked (README "A file is gated before it is read, not after") |
| `MCGraphPages.cfg` | 2 runs of one prompt | **violated**: they may share a page (`runs.py` "A unique page per run") |
| `MCReplayRole.cfg` | 2 recorded runs of 2 prompts and 2 roles, 1 replay | **violated**: a replay accepted for one role shows a run of another (`replay.py` "A replay is pinned to the role that recorded it") |

Why the bounds are enough. A department decides alone, so two (one of each kind)
show every combination of gates; three paths give one that is kept, one that is
dropped and one that is outside; a ceiling of one forces the selection pass; two
edits change a config and change it back, or change both. Three checks are a
first, a middle and a last one. Two runs and two users are the least for
interference; two runs share a ledger and a department or not, and with one
department each the second gatherer of a run is left to `MCGathering`; retries
are checked in `MCPipeline`, so one check per run is enough beside the cancel
requests. In a comparison each role and each config decides of a department by
itself: two departments give one that one config takes from the narrower role
and one that the other does, two documents of one name a denial that could be of
either, and one change a config saved or a document that is gone. Three tasks
over three departments with a cap of two have a repeated department, a repeated
ask and one department too many; three failures are all a call is granted. Two
threads at a budget of two let one attempt pass the check while another is about
to spend the budget. Three recorded runs are two that meet and one that comes
after; no event between the first and the last of a run is needed, since a
replay that starts may already meet another file. A name is made of three words
there, and of the longer prompt's role one is left, the same for both roles. Two
moves put a folder away and back, or a file from a folder not yet walked into
one that was. The theorems lift the safety properties they name to all values.

Not deadlock-free by accident: `Resting`, `AllEnded`, `AllClosed` and
`ComparisonOver` say when the systems may stop, and every other state must have a successor.

## Fairness

`FairSpec`, `FairPipeline`, `FairServer` and `FairComparison` assume weak fairness of each run's
and each gatherer's own steps: asyncio runs every ready task, and every model
call is a bounded number of HTTP requests (`retry.py`: three attempts, delays
capped at 45 s) that answer or raise. An answer and a failure are
disjuncts of the same fair action, so neither is promised. Requests, edits,
cancellation and the clock are never assumed to happen. In `RunServer` a worker
thread that holds a task is assumed to go on and cancel it.

`FairLogin`: time passes, and a thread that checks a password gets to its answer;
no login is ever assumed to be tried. `FairRecordings`: a player's task runs and
`asyncio.sleep` ends. `FairWalk`: every Drive call answers or raises. Edits,
moves, restarts and crashes are never assumed to happen, and there are finitely
many edits. `Planning` has no liveness of its own: the bound on calls is part of
`RetryDisciplined`.

## Proofs

Every safety invariant and action property a passing run checks is proved for
all values of the constants, and so are the two refinements, that of
`ReviewedAnswer` by the server and by a comparison too. The proof modules assume
only what the module they are about assumes of its constants; a theorem that
needs more says so in its own hypotheses.

`GatheringProofs` has four inductive invariants for the fan-out, and `WalkInv`
for the walk of a Drive folder, below.

- `IInv` is the policy. It adds to the checked properties: a gatherer waiting
  for its selecting model holds only permitted paths and at least one
  (`HeldPermitted`), which is what makes the fallback under half of the gate
  sound; a run that has not loaded its permissions has done nothing
  (`Untouched`), so that taking the snapshot cannot falsify what was done
  before; a delivered run has no gatherer that could still write
  (`DeliveredAtRest`). From it: type correctness, `PromptsPermitted`,
  `LocalReadsPermitted`, `AnswerPermitted`, `LedgerTruthful`, and that
  `Gathering` implements `GrantedAnswer`.
- `WorkInv` is the bookkeeping (`BooksKept`): what a gatherer chose is, from its
  reading on, read, refused or an error, and it returns in its last step alone
  (`Reading`); no gatherer exists before the plan (`Unspawned`) or works after a
  cancellation (`CancelledAtRest`). From it: `NoSilentGap`,
  `CancelStopsGatherers`, and, without a run of its own, `LedgerCoversAnswer`;
  `DeliveredFromStore` needs only the step.
- `HonestInv` says what a gatherer reads and returns is permitted, labelled and
  within the ceiling. From it: `HardCeiling` and `GatesAgree`. These three
  theorems have the hypothesis `ForeignFiles = {}`: they speak of the gatherers
  of this repository, and are false of another implementation of `gather()`,
  which may return anything. What the spawn gate does with that is
  `AnswerPermitted`, proved without the hypothesis.
- `SpawnedInv`: a run has no more gatherers than `max_gatherers`, and stops none
  while it waits for them. From it, for finitely many departments:
  `SemaphoreNeverBlocks` (the plan is held to the bound of the semaphore, so no
  gatherer ever waits for a slot) and `NoRunIsStuck` (a run that waits for its
  gatherers waits for one that can go on).

`DriveWalk` is proved in the same module. `WalkInv` says what the walk knows:
each node has parents it was linked to while the walk went on, a node that was
not moved is as the tree has it, a folder that was met is on the stack or was
visited (`NodesTrue`); and what stayed in a visited folder is a node, or is in
the listing still going on (`NothingMissed`). `ListingTrue` needs in addition
what `_parent_chain` computes over any such nodes, cycles included. Its two
halves are proved by induction over the depth of the calls and the loop over the
parents: a chain that is returned is a path down from the root along links the
nodes have, without a repeated id, since an id is in the memo as None while its
parents are asked (`PathDown`); and when None is returned, the parents of every id
that came into the memo are in the memo, and the root is not (`DeadEnd`), so that
a document without a path is cut off from the root (`Severed`). Each nested call has put one
more id in the memo, so none is deeper than there are ids. Both halves rest on
what `DriveAssumption` says of Drive: the root is a folder, and nothing but a
folder is a parent.

`PipelineProofs`. The invariant `PipelineInv` ties the draft's revision to the
loop counter, puts the verdict one check behind the draft until the check, and
says an open run has emitted no terminal event; `StoryInv` that a draft waiting
for the checker was the last thing announced, under the number the loop counts.
Proved: type correctness, `OneTerminalEvent`, `ShippedAsReviewed`,
`StreamTellsLoop`, and that the loop implements `ReviewedAnswer`. A module that
hosts the pipeline takes each run a step of its own, creates some, or leaves them
be (`HostStep`); whatever is proved of such steps holds of the server's runs and
of a comparison's sides too: `ServerShipsReviewed`, `ServerKeepsStory`,
`SidesShipReviewed` and `SidesKeepStory`.

`RunServerProofs` reuses those lemmas and adds that only a run that took its
first step can have been cancelled, because its id is not known before; without
it the registry would not be exact. `ClosedInv` says, for each way a run can
end, what the pipeline and the runner have put in its stream by then. Proved:
type correctness, `RegistryIsUnfinished`, `CancelledByOwner`, `ClosedOnce`, and
`CancelIsFinal`: a run whose task was cancelled takes no further step of its own.

`ComparisonProofs` takes what a single side does from `PipelineProofs`.
`CompInv` adds four parts: the runner leaves its sides unended only if it was
cancelled, and only then is a side cancelled (`Course`); the runner itself says
`compare_started` and nothing else until its last two frames (`Outcome`); a side
gathered nothing before it loaded its permissions, after that its own reading
decides, and a document that is not there while it gathers counts as lost to it
(`Gated`); and the answer of a side that shipped is in the stream (`Heard`),
which appending frames of either side or of the runner cannot undo. Proved:
`DiffOfWholeSides`, `OneOutcome` and `OtherHalfHeard`. `ApartInv` follows the
stream itself: its frames of a side, but for what a gatherer narrates, are that
side's own events in order, and the error a failed side's runner repeats. Proved
from it: `SidesKeptApart`. `comparable_roles` looks at one config of two;
`NarrowerIfAsWelcome` says what that leaves open: a role it accepts can read no
more than the caller's if and only if the environment config lets the caller in
wherever it lets that role in (`AsWelcome`). With that, and one reading of the
permissions config for both sides, what only the narrower side kept was open to
the caller too: its models left it out, or it was not there when the caller's
side looked (`DifferenceIsChoice`); TLC finds the claim false without either
condition.

`LoginProofs`. A role that was taken away has an age; the invariant follows it
along the login: the role a user has now is fresh (`CurrentIsFresh`), a login
under way holds one that lapsed no longer ago than it has been running
(`AttemptIsRecent`), a token one that lapsed no longer ago than the token's age
and a login (`TokenIsRecent`). A token must live at least one tick: one of no
life would be refused by the request it was issued for. `LimiterInv` is about
the deque of an address: its ages are in order, so that the entries that left
the window are its first ones and pruning from the left leaves exactly the
recent wrong answers; and recent wrong answers and logins still being checked
are together within budget and threads, which is why an attempt let past the
check cannot overrun by more than its own thread. Proved: type correctness,
`RoleIsRecent` and `LimiterHolds`.

`RecordingsProofs` assumes of names only that those of one series differ; the
series of two pairs of a prompt and a role may meet in any way. `KeptInv` adds
that runs are requested in their order, so that fewer names are taken than a
series has and `unique_name` finds a free one (`NamesEnough`, by counting, and
`FirstFreeIsFree`, by a least element of a finite set); that every file was
written under the name of a run (`FilesNamed`); and that runs in flight together
know of each other, a saved run included while one of its name goes on
(`FlightsKnown`). `PinInv` is what is left of the role pin: a viewer that was let
in was let in by a run of its own role, and whatever file is under that name
since is that run's or of one in flight beside it (`FilesPinned`,
`ViewersPinned`). `ToldInv` is the content: a run's recorder holds what its
client was sent but for the word of a cancellation (`EventsAsSent`), a whole file
is the recording of an ended run of that name (`FilesTold`), and a viewer was
told the first events of the one recording in its player's hands
(`ViewersTold`), whatever has become of the file since. Proved: type
correctness, `RecordingKept`, `ReplayPinned` and `ReplayOfOneRun`. That a viewer
is never shown another role's run is not proved: it is false (`MCReplayRole`).

`PlanningProofs`. `ConfigInv`: a run's config is the operator's or a narrower
one. `RetryInv`: each wait follows a failure `is_transient` takes for a passing
one, rightly or not (`Repeatable`), and is as long as the server asked, up to
`MAX_DELAY`, and a call in progress has failed fewer than three times.
`PlanInv`: the requests are those made of the answer that was taken. Proved:
`PlanningTypeOK` and `RetryDisciplined`. `FanOut` needs in addition what
`dedupe_tasks` and `plan_to_requests` compute for a plan of any length: by
induction over the tasks, the loop's `order` lists the departments as the plan
first names them, and its `prompts` list, for each department, its asks as the
plan first makes them (`ReadingIsFaithful`, over `Listed`); joining prompts of
one ask each is the sequence of those asks (`FlattenOfSingles`); and the second
pass over tasks of distinct departments changes nothing (`DedupeOfDistinct`), so
that the cap taken between the passes is the only thing that drops a department.

Recursion. No RECURSIVE operator is used in a module that is proved about: the
recursive definitions are functions on `0..n`, which a defining equation alone
does not give. `SubsequenceProofs` proves that a step function has one
(`Recursion`), that a set which holds 0 and is closed under successors up to n
holds all of `0..n` (`UpTo`), and that a set of sequences which holds the empty
one and is closed under `Append` holds all (`Grown`). The sets stand for the
predicate an induction theorem would take; they come down to the library's facts
on finite sets. `KeptOfMore`, `KeptOfBoth`, `ReadingOfMore` and the joining of
prompts are proved from them.

Variants. Liveness is out of the prover's reach, but the half of it that is
safety is not. `WalkIsBounded`: a walk has a number of steps left that is bounded
by the square of the number of ids (a listing for each id, with room for all ids
in it), and every step of it takes at least one off, however shortcuts close
cycles. `EveryStepSpends`: a run of the pipeline has at most two steps for
each retry of its budget and five more, and each of its steps takes one off;
`ServerRunsSpend` and `SidesSpend` are the same behind the endpoints.
`RunsOnlyGoOn`: a run and its gatherers never go back, and each has four steps.
What remains to `WalkEnds`, `RunEnds` and `Resolves` is that a step which can be
taken is taken, which is the fairness assumed above.

Before each was proved, `WorkInv`, `HonestInv`, `SpawnedInv`, `WalkInv`,
`LimiterInv`, `ToldInv`, `ApartInv`, `ConfigInv`, `RetryInv`, `PlanInv` and the
variants were checked by TLC on the runs of their modules.

Only model-checked: what holds under fairness (`Resolves`, `RunEnds`,
`StreamCloses`, `ComparisonCloses`, `LockoutEnds`, `ReplayCloses`, `WalkEnds`).

## Known differences between the code and its words

Three are runs of their own (`MCGatedRead`, `MCGraphPages`, `MCReplayRole`). The
others were met while modelling; each can be seen in a behaviour of the module
named.

- Denials of the cloud path are put in the result and never in the ledger
  (`gather.py:404`, `gatherer.py:96`), while `audit.py:7` says "Every decision
  the permission layer makes is written here as one JSON line" (`Gathering`).
- A run that cannot make `out/graphs` ends its stream without any event
  (`runs.py:164`), while `app.py:271` says "execute_run already emitted
  `error`" (`RunServer.BeginFails`).
- `comparable_roles` looks at the permissions config alone. A role granted
  fewer departments there can see more than the caller when the environment
  config leaves the caller out of a department; `compare.py:35` says "those
  seeing no more than it does" (`Comparison`, `Readable`).
- `only_yours` holds what one side kept and the other did not, which is also
  what the other side's models did not want; `index.html:944` heads it "only
  ... could read" (`Comparison.BuildDiff`).
- A half's denials count a document its role may read, when the document
  vanished between the gatherer's reading and the spawn gate (`spawn.py:89`,
  "no such file in this department"); the ledger's word for it is "denied" too
  (`Comparison.SideGathered`, `Gathering`).
- A recording of a cancelled run lacks the error its client was sent, since
  that error goes past the recorder (`app.py:268`), while `app.py:236` says
  "what lands on disk is exactly what went to the browser". `ReplayOfOneRun`
  states both: a replay has all its run's client was sent, or all but that
  (`Recordings.Cancelled`).
- A call that fails for want of a key is repeated. For an answer without content
  `_plan_once` raises a text that names a missing key as the usual cause and
  ends in "blocked/unavailable" (`manager_planning.py:153`), and "unavailable" is
  one of the words `is_transient` looks for, while `retry.py:88` says "this must
  never mask a bad API key as a flaky network" and `tests/test_retry.py:94` "a bad
  key must surface immediately". `RetryDisciplined` claims nothing of whether
  such a call is repeated (`Planning.Misread`).
- The page a replay links to may be that of another run of the same prompt and
  role: one that was given the same name, or one whose recording could not be
  written after its page was copied (`replay.py:142`).
- An answer that is not a plan is repeated or not by what it says: the text of
  the error quotes the model's own words, and one of them may be among those
  `is_transient` looks for (`retry.py:45`; `Planning.Misread`).

## What is left out

- Prompt texts, model wording, formatting, styling; hashing and JWT signing;
  environment loading, Drive set-up and deployment scripts.
- `config.veto.max_retries` is taken to be a natural number. The config does
  not enforce it; with a negative one the loop body never runs.
- Recording (`AGENTIC_RECORD`) is off in `RunServer`; `Recordings` has it on and
  takes what a run emits to be any sequence of events the pipeline could emit.
- `Recordings`: how slugs are cut and joined into a name (`Series` stands for
  the result), the listing (`list_recordings`) and the pace of a replay. Names
  that leave the directory are refused before anything is read.
- `Planning`: a config that allows no gatherer (`max_gatherers: 0`) is not
  considered; the code would then plan tasks and keep none.
- `DriveWalk`: names of files (two files of one name share a path), sizes, and
  the order in which folders are taken from the stack. A page is one entry.
  `Move` changes parents; the trash is not modelled. A trashed entry keeps its
  parents, is left out of listings (`drive.py:40`) and still answers as the
  target of a shortcut (`drive.py:57`).
- The browser console (`index.html`): one viewer's page, the next candidate. Its
  cancel button takes the id of the last `run_started` (`index.html:1236`), and
  a comparison's sides carry none.
- `citations.score` and `client/viz.py`: pure functions of an answer with no
  state; a page is only written or not (`RunServer.Render`).
- The read-only endpoints: fleet, audit, replays, demo mode.
- `Comparison` keeps of an answer what `build_diff` compares and drops its text
  and scores; what a side gathers is any choice inside the gate, since
  `Gathering` shows how it is made. Pages and owners of a comparison are those
  of `RunServer`.
- That the pair is still "narrower" when the sides begin: each side loads the
  permissions config again (`manager.py:72`) after the endpoint checked the pair
  (`app.py:310`). Each half is gated by its own reading, which is checked.
- A failed append to the ledger (`OSError`, swallowed by `record`).
- Cloud listing and download block the event loop; the model takes them as part
  of one step, which is what the code does.

## Plan

Done: all modules of the table above, their runs, and the theorems on every
safety and action property of the runs. Next would be:

1. `Console`: the browser's state (run id, event queue, stale handlers) beside
   a run or a comparison.
2. A variant for a comparison's stream and one for a replay, the safety half of
   `ComparisonCloses` and `ReplayCloses`.
