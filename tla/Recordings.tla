----------------------------- MODULE Recordings -----------------------------
(***************************************************************************)
(* Recorded runs: Recorder and unique_name of                              *)
(* src/src/agentic/server/replay.py, the recording half of POST /api/run,  *)
(* and POST /api/replay/{name} of server/app.py.                           *)
(*                                                                         *)
(* A name is chosen when the run is requested, by looking at the           *)
(* directory, and written when the run ends.  A replay reads the file when *)
(* it is requested, to check its role, and again when its task begins.     *)
(* Everything here runs in the event loop, one stretch between two waits   *)
(* at a time; what a run emits is any sequence the pipeline could emit     *)
(* (module Pipeline has the events), how it is cancelled is in RunServer.  *)
(***************************************************************************)
EXTENDS Integers, Sequences, Subsequences

CONSTANTS
    MaxTakes,   \* bound: recorded runs
    Players,    \* requests for a replay
    Prompts,
    Roles,
    Names,      \* names of recordings
    Series,     \* Series[<<prompt, as>>][n]: the n-th name unique_name tries
    MaxSteps    \* bound: events of a run between its first and its last

(* A name is the slug of the prompt (cut at 48 characters) and that of the *)
(* role, joined with a dash and cut at 56; the later ones of a series end  *)
(* in "-2", "-3" and so on.  So the names of one series differ, but two    *)
(* series may be the same or meet: where the joint falls is lost, and of a *)
(* long prompt's role only the first characters are left.                  *)
ASSUME RecordingsAssumption ==
    /\ MaxTakes \in Nat \ {0}
    /\ MaxSteps \in Nat
    /\ Series \in [Prompts \X Roles -> [1..MaxTakes -> Names]]
    /\ \A pair \in Prompts \X Roles : \A m, n \in 1..MaxTakes :
          Series[pair][m] = Series[pair][n] => m = n

(* The recorded runs, numbered as they are requested.                      *)
Takes == 1..MaxTakes
NoTake == 0

Kinds == {"run_started", "progress", "run_state", "error", "cancelled"}

VARIABLES
    files,      \* recordings/<name>.json
    pages,      \* recordings/pages/<name>.html: the run whose graph it shows
    stage,      \* stage[r]: "new", "running", "ended"
    role,       \* Recorder.role
    name,       \* Recorder.name
    events,     \* Recorder.events
    live,       \* what the client of the run itself was sent
    together,   \* history: the runs in flight at some moment of r's flight
    saved,      \* history: the runs whose recording was written whole
    player,     \* the replay requests
    sent        \* what the client of a replay was sent

recorderVars == <<stage, role, name, events, live, together, saved>>
vars == <<files, pages, recorderVars, player, sent>>

NoFile == [of |-> NoTake, role |-> "none", events |-> <<>>]
(* A write that failed or died halfway: not JSON.                          *)
Torn == [of |-> NoTake, role |-> "torn", events |-> <<>>]
Recording(r, evs) == [of |-> r, role |-> role[r], events |-> evs]

Init ==
    /\ files = [n \in Names |-> NoFile]
    /\ pages = [n \in Names |-> NoTake]
    /\ stage = [r \in Takes |-> "new"]
    /\ role = [r \in Takes |-> "none"]
    /\ name = [r \in Takes |-> <<>>]
    /\ events = [r \in Takes |-> <<>>]
    /\ live = [r \in Takes |-> <<>>]
    /\ together = [r \in Takes |-> {}]
    /\ saved = {}
    /\ player = [p \in Players |-> [at |-> "idle"]]
    /\ sent = [p \in Players |-> <<>>]

-----------------------------------------------------------------------------
(* Recording                                                               *)

(* Fault: the suffix is tried once.                                        *)
UniqueNameOnce(prompt, as) ==
    LET tries == Series[<<prompt, as>>]
    IN tries[IF files[tries[1]] = NoFile THEN 1 ELSE 2]

(* unique_name: the first name of the series that no file has.             *)
UniqueName(prompt, as) ==
    LET tries == Series[<<prompt, as>>]
    IN tries[CHOOSE n \in 1..MaxTakes :
                /\ files[tries[n]] = NoFile
                /\ \A m \in 1..(n - 1) : files[tries[m]] # NoFile]

InFlight == {r \in Takes : stage[r] = "running"}

Request(r, prompt, as) ==
    /\ stage[r] = "new" /\ \A q \in 1..(r - 1) : stage[q] # "new"
    /\ stage' = [stage EXCEPT ![r] = "running"]
    /\ role' = [role EXCEPT ![r] = as]
    /\ name' = [name EXCEPT ![r] = UniqueName(prompt, as)]
    /\ together' = [q \in Takes |->
            IF q = r THEN InFlight
            ELSE IF q \in InFlight THEN together[q] \cup {r} ELSE together[q]]
    /\ UNCHANGED <<files, pages, events, live, saved, player, sent>>

(* Recorder.wrap: an event is kept and passed on.                          *)
Emit(r, kind) ==
    /\ events' = [events EXCEPT ![r] = Append(@, kind)]
    /\ live' = [live EXCEPT ![r] = Append(@, kind)]

Progress(r) ==
    /\ stage[r] = "running"
    /\ Len(events[r]) <= MaxSteps
    /\ Emit(r, IF events[r] = <<>> THEN "run_started" ELSE "progress")
    /\ UNCHANGED <<files, pages, stage, role, name, together, saved, player, sent>>

(* Recorder.save: the page first, if the run has one, then the recording.  *)
(* An OSError anywhere is swallowed by the runner; a recording whose       *)
(* writing broke off is torn, a page counts as copied.                     *)
Save(r, hasPage) ==
    LET n == name[r] IN
    /\ \/ UNCHANGED pages
       \/ hasPage /\ pages' = [pages EXCEPT ![n] = r]
    /\ \/ UNCHANGED <<files, saved>>
       \/ /\ files' = [files EXCEPT ![n] = Torn]
          /\ UNCHANGED saved
       \/ /\ hasPage => pages'[n] = r
          /\ files' = [files EXCEPT ![n] = Recording(r, events'[r])]
          /\ saved' = saved \cup {r}

(* The pipeline's last event and the runner's "finally", with no wait in   *)
(* between.  Only a run that shipped names a page, which may be missing.   *)
Ends(r, last) ==
    /\ stage[r] = "running" /\ events[r] # <<>>
    /\ Emit(r, last)
    /\ stage' = [stage EXCEPT ![r] = "ended"]
    /\ Save(r, FALSE) \/ (last = "run_state" /\ Save(r, TRUE))
    /\ UNCHANGED <<role, name, together, player, sent>>

(* A cancelled run's error goes to the stream, past the recorder.          *)
Cancelled(r) ==
    /\ stage[r] = "running" /\ events[r] # <<>>
    /\ live' = [live EXCEPT ![r] = Append(@, "cancelled")]
    /\ events' = events
    /\ stage' = [stage EXCEPT ![r] = "ended"]
    /\ Save(r, FALSE)
    /\ UNCHANGED <<role, name, together, player, sent>>

(* A run that failed before its first event records nothing.               *)
EndsSilently(r) ==
    /\ stage[r] = "running" /\ events[r] = <<>>
    /\ stage' = [stage EXCEPT ![r] = "ended"]
    /\ UNCHANGED <<files, pages, role, name, events, live, together, saved, player, sent>>

-----------------------------------------------------------------------------
(* Replaying                                                               *)

(* load_recording raises ReplayError for a file that is missing or torn.   *)
Loadable(n) == files[n] \notin {NoFile, Torn}

(* Fault: the role of the recording is not asked.                          *)
ServableToAny(n, as) == Loadable(n)

(* 404 for what cannot be loaded, 403 for another role's recording.        *)
Servable(n, as) == Loadable(n) /\ files[n].role = as

Open(p, n, as) ==
    /\ player[p].at = "idle"
    /\ player' = [player EXCEPT ![p] =
            IF Servable(n, as) THEN [at |-> "created", name |-> n, role |-> as]
            ELSE [at |-> "refused"]]
    /\ UNCHANGED <<files, pages, recorderVars, sent>>

(* _replay_payload: the answer's link is pointed at the copied page, if    *)
(* there is one by now.                                                    *)
Frame(n, rec, i) ==
    [of |-> rec.of, kind |-> rec.events[i],
     link |-> IF rec.events[i] = "run_state" THEN pages[n] ELSE NoTake]

(* What the player says for itself.                                        *)
OwnError == [of |-> NoTake, kind |-> "error", link |-> NoTake]

(* The i-th event is emitted; after the last one the stream is closed.     *)
Shown(p, rec, i) ==
    /\ sent' = [sent EXCEPT ![p] = Append(@, Frame(player[p].name, rec, i))]
    /\ player' = [player EXCEPT ![p] =
            [at |-> IF i = Len(rec.events) THEN "closed" ELSE "playing",
             name |-> @.name, role |-> @.role, data |-> rec]]

(* Fault: an unreadable recording is not caught, and nothing closes.       *)
BeginsReadable(p) ==
    /\ player[p].at = "created"
    /\ Loadable(player[p].name)
    /\ Shown(p, files[player[p].name], 1)
    /\ UNCHANGED <<files, pages, recorderVars>>

(* stream_recording begins: the file is read again; the first event has no *)
(* gap before it.  A file torn since the request ends the stream with an   *)
(* error.                                                                  *)
Begins(p) ==
    /\ player[p].at = "created"
    /\ IF Loadable(player[p].name)
       THEN Shown(p, files[player[p].name], 1)
       ELSE /\ sent' = [sent EXCEPT ![p] = <<OwnError>>]
            /\ player' = [player EXCEPT ![p].at = "failed"]
    /\ UNCHANGED <<files, pages, recorderVars>>

(* Fault: the next event is taken from what the file holds by now.         *)
PlaysFile(p) ==
    /\ player[p].at = "playing"
    /\ LET now == files[player[p].name]
           rec == IF Len(now.events) > Len(sent[p]) THEN now ELSE player[p].data
       IN Shown(p, rec, Len(sent[p]) + 1)
    /\ UNCHANGED <<files, pages, recorderVars>>

(* The gap is over: the next event.                                        *)
Plays(p) ==
    /\ player[p].at = "playing"
    /\ Shown(p, player[p].data, Len(sent[p]) + 1)
    /\ UNCHANGED <<files, pages, recorderVars>>

(* The viewer cancels; its id came with run_started, so the task runs.     *)
Stopped(p) ==
    /\ player[p].at = "playing"
    /\ sent' = [sent EXCEPT ![p] = Append(@, OwnError)]
    /\ player' = [player EXCEPT ![p].at = "stopped"]
    /\ UNCHANGED <<files, pages, recorderVars>>

-----------------------------------------------------------------------------
(* The process dies: runs and players are gone, files stay.                *)
Crash ==
    /\ stage' = [r \in Takes |-> IF stage[r] = "running" THEN "ended" ELSE stage[r]]
    /\ player' = [p \in Players |->
            IF player[p].at \in {"created", "playing"} THEN [player[p] EXCEPT !.at = "gone"]
            ELSE player[p]]
    /\ UNCHANGED <<files, pages, role, name, events, live, together, saved, sent>>

Next ==
    \/ \E r \in Takes :
         \/ \E prompt \in Prompts, as \in Roles : Request(r, prompt, as)
         \/ Progress(r)
         \/ \E last \in {"run_state", "error"} : Ends(r, last)
         \/ Cancelled(r)
         \/ EndsSilently(r)
    \/ \E p \in Players :
         \/ \E n \in Names, as \in Roles : Open(p, n, as)
         \/ Begins(p) \/ Plays(p) \/ Stopped(p)
    \/ Crash

Spec == Init /\ [][Next]_vars

(* A player's task runs, and asyncio.sleep ends.                           *)
FairRecordings == Spec /\ \A p \in Players : WF_vars(Begins(p) \/ Plays(p))

-----------------------------------------------------------------------------
Whole == [of : Takes, role : Roles, events : Seq(Kinds \ {"cancelled"}) \ {<<>>}]
Viewings ==
    [at : {"idle", "refused"}]
        \cup [at : {"created", "failed", "gone"}, name : Names, role : Roles]
        \cup [at : {"playing", "closed", "stopped", "gone"}, name : Names, role : Roles,
              data : Whole]
Frames == [of : Takes \cup {NoTake}, kind : Kinds, link : Takes \cup {NoTake}]

(* A file is absent, torn or a whole recording with at least one event,    *)
(* and a viewer plays a whole one.                                         *)
RecordingsTypeOK ==
    /\ files \in [Names -> Whole \cup {NoFile, Torn}]
    /\ pages \in [Names -> Takes \cup {NoTake}]
    /\ stage \in [Takes -> {"new", "running", "ended"}]
    /\ role \in [Takes -> Roles \cup {"none"}]
    /\ \A r \in Takes : stage[r] # "new" => role[r] \in Roles /\ name[r] \in Names
    /\ events \in [Takes -> Seq(Kinds \ {"cancelled"})]
    /\ live \in [Takes -> Seq(Kinds)]
    /\ together \in [Takes -> SUBSET Takes]
    /\ saved \subseteq Takes
    /\ player \in [Players -> Viewings]
    /\ sent \in [Players -> Seq(Frames)]

(* unique_name "does not overwrite an existing one": a recording that was  *)
(* written whole stays readable as it is, unless a run that was in flight  *)
(* at the same time was given its name too.                                *)
RecordingKept ==
    \A r \in saved :
        \/ files[name[r]].of = r
        \/ \E q \in together[r] : stage[q] = "ended" /\ name[q] = name[r]

Told(p) == Kept(sent[p], Frames \ {OwnError})

(* What a replay shows is one run of the name that was asked for, event    *)
(* for event as that run's client was sent it, and to the end unless the   *)
(* viewer stops it; that holds although the file may be replaced while the *)
(* replay is starting or going on.  Not quite "what lands on disk is       *)
(* exactly what went to the browser": the error that tells a client of a   *)
(* cancellation goes past the recorder, so that the replay of a cancelled  *)
(* run ends one event before its stream did, with nothing to tell its end. *)
(* The page it links to is that of a run of the same name (not always the  *)
(* same run: one that was given the name too, or left its page there when  *)
(* its recording could not be written).                                    *)
ReplayOfOneRun ==
    \A p \in Players : Told(p) # <<>> =>
        \E r \in Takes :
            /\ name[r] = player[p].name
            /\ \A i \in DOMAIN Told(p) :
                 /\ Told(p)[i].of = r
                 /\ Told(p)[i].kind = live[r][i]
                 /\ Told(p)[i].link \in {NoTake} \cup {q \in Takes : name[q] = name[r]}
            /\ player[p].at = "closed" =>
                 \/ Len(live[r]) = Len(Told(p))
                 \/ Len(live[r]) = Len(Told(p)) + 1 /\ live[r][Len(live[r])] = "cancelled"

(* How far the role pin of a replay goes: what a viewer is shown was       *)
(* recorded by a run of the viewer's own role, or by one that was given    *)
(* its name while a run of the viewer's role that had it was in flight.    *)
(* The role is checked on one reading of the file and another one is       *)
(* played; nothing but two such runs comes between.                        *)
ReplayPinned ==
    \A p \in Players : \A i \in DOMAIN sent[p] : sent[p][i] # OwnError =>
        LET r == sent[p][i].of IN
        \/ role[r] = player[p].role
        \/ \E q \in together[r] : name[q] = name[r] /\ role[q] = player[p].role

(* "A replay is pinned to the role that recorded it": whatever a viewer is *)
(* shown was recorded by a run of the viewer's own role.  It is not so     *)
(* where the names of two roles meet.                                      *)
ReplayOfOwnRole ==
    \A p \in Players : \A i \in DOMAIN sent[p] :
        sent[p][i] # OwnError => role[sent[p][i].of] = player[p].role

(* A replay that was accepted is closed, also when its file is torn before *)
(* it begins, unless the process dies.                                     *)
ReplayCloses ==
    \A p \in Players :
        player[p].at = "created" ~> player[p].at \in {"closed", "failed", "stopped", "gone"}
=============================================================================
