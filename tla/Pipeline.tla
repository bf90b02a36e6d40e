------------------------------ MODULE Pipeline ------------------------------
(***************************************************************************)
(* One run of src/src/agentic/pipeline.py from its first event to its last *)
(* one: gather, synthesize, then check and revise until approved or out of *)
(* retries (manager.synthesize, manager.revise, output.emit and            *)
(* veto/checker.check), with the events it emits.                          *)
(*                                                                         *)
(* A run suspends only while it waits for gatherers or for a model; an     *)
(* action is everything it does from one such answer to the next wait.     *)
(* Gathering is one wait here (module Gathering has it in full).  A draft  *)
(* is a member of Texts with its revision number.  What a model writes,    *)
(* and the narration between "run_started" and "gathered", are left out.   *)
(***************************************************************************)
EXTENDS Naturals, Sequences

CONSTANTS Runs, Texts,
          NoDraft,       \* no draft yet
          MaxRetries     \* config.veto.max_retries of the run

Drafts == [text : Texts, revision : 0 .. MaxRetries]

ASSUME PipelineAssumption == MaxRetries \in Nat /\ NoDraft \notin Drafts

VARIABLES
    stage,      \* what each run is waiting for, or how it ended
    attempt,    \* the loop counter
    compiled,   \* the current CompiledOutput
    verdict,    \* the checker's last response, and the draft it was asked about
    out         \* the events emitted so far

pipelineVars == <<stage, attempt, compiled, verdict, out>>

Waiting == {"gathering", "synthesizing", "checking", "revising"}
Ended == {"shipped", "failed", "cancelled"}
Stages == {"absent", "created"} \cup Waiting \cup Ended

(* The API answers 200 with or without a complete, parsed verdict: a       *)
(* refusal, or a truncation, can still carry one.                          *)
Responses == [stop_reason : {"end_turn", "refusal", "max_tokens"},
              parsed : {"none", "approve", "veto"}]
NoResponse == [stop_reason |-> "refusal", parsed |-> "none"]

Verdict(draft, response) == [about |-> draft, response |-> response]

Event(name, number, approved) ==
    [event |-> name, number |-> number, approved |-> approved]
Events == [event : {"run_started", "gathered", "synthesized", "veto", "revising",
                    "run_state", "error"},
           number : 0 .. MaxRetries + 1, approved : BOOLEAN]
ErrorEvent == Event("error", 0, FALSE)

Terminal == {"run_state", "error"}

(* emit(): several events in a row, with no wait between them.             *)
Emit(r, events) == out' = [out EXCEPT ![r] = @ \o events]

PipelineInit ==
    /\ stage = [r \in Runs |-> "absent"]
    /\ attempt = [r \in Runs |-> 0]
    /\ compiled = [r \in Runs |-> NoDraft]
    /\ verdict = [r \in Runs |-> Verdict(NoDraft, NoResponse)]
    /\ out = [r \in Runs |-> <<>>]

-----------------------------------------------------------------------------
(* The task exists and will run on a later turn of the loop.               *)
Create(r) ==
    /\ stage[r] = "absent"
    /\ stage' = [stage EXCEPT ![r] = "created"]
    /\ UNCHANGED <<attempt, compiled, verdict, out>>

Start(r) ==
    /\ stage[r] = "created"
    /\ stage' = [stage EXCEPT ![r] = "gathering"]
    /\ Emit(r, <<Event("run_started", 0, FALSE)>>)
    /\ UNCHANGED <<attempt, compiled, verdict>>

Gathered(r) ==
    /\ stage[r] = "gathering"
    /\ stage' = [stage EXCEPT ![r] = "synthesizing"]
    /\ Emit(r, <<Event("gathered", 0, FALSE)>>)
    /\ UNCHANGED <<attempt, compiled, verdict>>

(* The first draft goes to the checker.                                    *)
Synthesized(r, text) ==
    /\ stage[r] = "synthesizing"
    /\ compiled' = [compiled EXCEPT ![r] = [text |-> text, revision |-> 0]]
    /\ stage' = [stage EXCEPT ![r] = "checking"]
    /\ Emit(r, <<Event("synthesized", 0, FALSE)>>)
    /\ UNCHANGED <<attempt, verdict>>

(* Fault: a parsed verdict counts however the response stopped.            *)
ApprovesIfParsed(answer) == answer.parsed = "approve"

(* checker.check fails closed: anything but a complete response with a     *)
(* verdict in it is a veto.                                                *)
Approves(answer) == answer.stop_reason = "end_turn" /\ answer.parsed = "approve"

(* Fault: the loop gives up one check late.                                *)
LastCheckOver(r) == attempt[r] > MaxRetries

LastCheck(r) == attempt[r] = MaxRetries

VetoEvent(r, answer) == Event("veto", attempt[r] + 1, Approves(answer))

(* Fault: a page that cannot be written is reported beside the answer.     *)
ShippedAnyway(r, answer, rendered) ==
    /\ stage' = [stage EXCEPT ![r] = "shipped"]
    /\ Emit(r, <<VetoEvent(r, answer)>>
                 \o (IF rendered THEN <<>> ELSE <<ErrorEvent>>)
                 \o <<Event("run_state", attempt[r] + 1, Approves(answer))>>)

(* The last verdict is in: the page is written, which may raise, and the   *)
(* final state is emitted.                                                 *)
Ship(r, answer, rendered) ==
    /\ stage' = [stage EXCEPT ![r] = IF rendered THEN "shipped" ELSE "failed"]
    /\ Emit(r, <<VetoEvent(r, answer),
                 IF rendered THEN Event("run_state", attempt[r] + 1, Approves(answer))
                             ELSE ErrorEvent>>)

(* Fault: an answer that is no verdict is asked for again, unchanged.      *)
CheckedAgain(r, answer) ==
    /\ stage[r] = "checking"
    /\ verdict' = [verdict EXCEPT ![r] = Verdict(compiled[r], answer)]
    /\ \/ /\ answer.stop_reason # "end_turn"
          /\ UNCHANGED <<stage, out>>
       \/ /\ answer.stop_reason = "end_turn"
          /\ \E rendered \in BOOLEAN : Ship(r, answer, rendered)
    /\ UNCHANGED <<attempt, compiled>>

(* The checker answers: revise only when another check will follow.        *)
Checked(r, answer) ==
    /\ stage[r] = "checking"
    /\ verdict' = [verdict EXCEPT ![r] = Verdict(compiled[r], answer)]
    /\ \/ /\ Approves(answer) \/ LastCheck(r)
          /\ \E rendered \in BOOLEAN : Ship(r, answer, rendered)
       \/ /\ ~Approves(answer) /\ ~LastCheck(r)
          /\ stage' = [stage EXCEPT ![r] = "revising"]
          /\ Emit(r, <<VetoEvent(r, answer),
                       Event("revising", attempt[r] + 1, FALSE)>>)
    /\ UNCHANGED <<attempt, compiled>>

(* Fault: the revision does not count on from the draft it replaces.       *)
RevisedFromZero(r, text) ==
    /\ stage[r] = "revising"
    /\ compiled' = [compiled EXCEPT ![r] = [text |-> text, revision |-> 0]]
    /\ attempt' = [attempt EXCEPT ![r] = @ + 1]
    /\ stage' = [stage EXCEPT ![r] = "checking"]
    /\ Emit(r, <<Event("synthesized", 0, FALSE)>>)
    /\ UNCHANGED verdict

(* Fault: the last revision ships on the verdict about the one before it.  *)
RevisedUnchecked(r, text) ==
    LET draft == [text |-> text, revision |-> compiled[r].revision + 1] IN
    /\ stage[r] = "revising"
    /\ compiled' = [compiled EXCEPT ![r] = draft]
    /\ attempt' = [attempt EXCEPT ![r] = @ + 1]
    /\ stage' = [stage EXCEPT ![r] = IF attempt'[r] = MaxRetries THEN "shipped"
                                                                 ELSE "checking"]
    /\ Emit(r, <<Event("synthesized", draft.revision, FALSE)>>)
    /\ UNCHANGED verdict

(* The next draft goes to the checker.                                     *)
Revised(r, text) ==
    LET draft == [text |-> text, revision |-> compiled[r].revision + 1] IN
    /\ stage[r] = "revising"
    /\ compiled' = [compiled EXCEPT ![r] = draft]
    /\ attempt' = [attempt EXCEPT ![r] = @ + 1]
    /\ stage' = [stage EXCEPT ![r] = "checking"]
    /\ Emit(r, <<Event("synthesized", draft.revision, FALSE)>>)
    /\ UNCHANGED verdict

(* Any awaited call gives up with an exception: one error event.           *)
Fails(r) ==
    /\ stage[r] \in Waiting
    /\ stage' = [stage EXCEPT ![r] = "failed"]
    /\ Emit(r, <<ErrorEvent>>)
    /\ UNCHANGED <<attempt, compiled, verdict>>

(* A CancelledError passes pipeline.run without an event of its own.       *)
Cancelled(r) ==
    /\ stage[r] \in Waiting
    /\ stage' = [stage EXCEPT ![r] = "cancelled"]
    /\ UNCHANGED <<attempt, compiled, verdict, out>>

Advance(r) ==
    \/ Start(r)
    \/ Gathered(r)
    \/ \E text \in Texts : Synthesized(r, text)
    \/ \E answer \in Responses : Checked(r, answer)
    \/ \E text \in Texts : Revised(r, text)
    \/ Fails(r)

AllEnded == /\ \A r \in Runs : stage[r] \in Ended
            /\ UNCHANGED pipelineVars

PipelineNext ==
    \/ \E r \in Runs : Create(r) \/ Advance(r) \/ Cancelled(r)
    \/ AllEnded

PipelineSpec == PipelineInit /\ [][PipelineNext]_pipelineVars

(* The loop runs every ready task, and calls to a model return or raise.   *)
FairPipeline == PipelineSpec /\ \A r \in Runs : WF_pipelineVars(Advance(r))

-----------------------------------------------------------------------------
PipelineTypeOK ==
    /\ stage \in [Runs -> Stages]
    /\ attempt \in [Runs -> 0 .. MaxRetries]
    /\ compiled \in [Runs -> Drafts \cup {NoDraft}]
    /\ verdict \in [Runs -> [about : Drafts \cup {NoDraft}, response : Responses]]
    /\ out \in [Runs -> Seq(Events)]

LastEvent(r) == out[r][Len(out[r])]

(* An answer is announced as approved exactly when the checker's complete  *)
(* response about that very draft approved it (checker.py: "an unreviewed  *)
(* answer must never read as approved"), and the draft that is announced   *)
(* is the one of the last check the loop counted.                          *)
ShippedAsReviewed ==
    \A r \in Runs :
        stage[r] = "shipped" =>
            /\ LastEvent(r).event = "run_state"
            /\ LastEvent(r).number = verdict[r].about.revision + 1
            /\ LastEvent(r).approved <=>
                  /\ verdict[r].about = compiled[r]
                  /\ verdict[r].response = [stop_reason |-> "end_turn", parsed |-> "approve"]

(* The stream a client reads tells the story of the loop: each verdict is  *)
(* about the draft announced just before it, the final state repeats the   *)
(* last verdict, and no draft is announced that nobody will check.         *)
StreamTellsLoop ==
    \A r \in Runs : \A i \in 1 .. Len(out[r]) :
        LET e == out[r][i] IN
        /\ e.event = "veto" =>
              /\ out[r][i - 1].event = "synthesized"
              /\ out[r][i - 1].number + 1 = e.number
        /\ e.event = "run_state" =>
              /\ out[r][i - 1].event = "veto"
              /\ out[r][i - 1].number = e.number
              /\ out[r][i - 1].approved = e.approved
        /\ e.event = "revising" => e.number <= MaxRetries

(* A run ends its stream at most once: nothing follows a run_state or an   *)
(* error, whatever fails after the last verdict.                           *)
OneTerminalEvent ==
    \A r \in Runs : \A i \in 1 .. Len(out[r]) :
        out[r][i].event \in Terminal => i = Len(out[r])

(* A run that was started ends, with an answer, an error or a              *)
(* cancellation: no answer of the checker keeps the loop going for ever.   *)
RunEnds == \A r \in Runs : stage[r] = "created" ~> stage[r] \in Ended

(* What is known of the current draft.                                     *)
KnownOf(r) ==
    IF compiled[r] = NoDraft \/ verdict[r].about # compiled[r] THEN "pending"
    ELSE IF Approves(verdict[r].response) THEN "approved" ELSE "vetoed"

Answer == INSTANCE ReviewedAnswer WITH
    Reviews <- MaxRetries + 1,
    draft <- compiled,
    review <- [r \in Runs |-> KnownOf(r)],
    count <- [r \in Runs |-> IF verdict[r].about = NoDraft THEN 0
                             ELSE verdict[r].about.revision + 1],
    shipped <- [r \in Runs |-> stage[r] = "shipped"]

(* The loop implements ReviewedAnswer: no unreviewed draft ships, a vetoed *)
(* one only with the last check of the budget, an approved one is final.   *)
ShipsReviewed == Answer!Spec
=============================================================================
