--------------------------- MODULE PipelineProofs ---------------------------
(***************************************************************************)
(* What is proved of module Pipeline, for any number of runs, any texts    *)
(* and any retry budget.                                                   *)
(***************************************************************************)
EXTENDS Pipeline, TLAPS

(* Nothing was compiled before the first synthesis.                        *)
NothingYet(r) ==
    /\ compiled[r] = NoDraft
    /\ attempt[r] = 0
    /\ verdict[r].about = NoDraft

(* The draft's revision is the loop's counter.                             *)
Drafted(r) ==
    /\ compiled[r] \in Drafts
    /\ compiled[r].revision = attempt[r]

(* The verdict is one check behind the draft.                              *)
Unreviewed(r) ==
    /\ attempt[r] = 0 => verdict[r].about = NoDraft
    /\ attempt[r] > 0 =>
          /\ verdict[r].about \in Drafts
          /\ verdict[r].about.revision + 1 = attempt[r]
          /\ ~Approves(verdict[r].response)

(* What the loop knows at each of its waits and when it has shipped.       *)
Loop(r) ==
    /\ stage[r] \in {"absent", "created", "gathering", "synthesizing"} => NothingYet(r)
    /\ stage[r] = "checking" => Drafted(r) /\ Unreviewed(r)
    /\ stage[r] = "revising" => /\ Drafted(r)
                                /\ verdict[r].about = compiled[r]
                                /\ ~Approves(verdict[r].response)
                                /\ attempt[r] < MaxRetries
    /\ stage[r] = "shipped" =>
          /\ Drafted(r)
          /\ verdict[r].about = compiled[r]
          /\ Approves(verdict[r].response) \/ attempt[r] = MaxRetries
          /\ LastEvent(r) = Event("run_state", attempt[r] + 1, Approves(verdict[r].response))

(* A run that has not ended has not said so.                               *)
Open(r) ==
    stage[r] \notin Ended =>
        \A i \in 1 .. Len(out[r]) : out[r][i].event \notin Terminal

Once(r) ==
    \A i \in 1 .. Len(out[r]) : out[r][i].event \in Terminal => i = Len(out[r])

PipelineInv == /\ PipelineTypeOK
               /\ \A r \in Runs : Loop(r) /\ Open(r) /\ Once(r)

-----------------------------------------------------------------------------
(* Appending events keeps a stream a stream.                               *)
LEMMA EmitType ==
    ASSUME PipelineTypeOK, NEW r \in Runs, NEW d \in Events, NEW e \in Events,
           Emit(r, <<e>>) \/ Emit(r, <<d, e>>)
    PROVE  out' \in [Runs -> Seq(Events)]
<1>1. <<e>> \in Seq(Events) /\ <<d, e>> \in Seq(Events) /\ out[r] \in Seq(Events)
  BY DEF PipelineTypeOK
<1>2. out[r] \o <<e>> \in Seq(Events) /\ out[r] \o <<d, e>> \in Seq(Events)
  BY <1>1
<1> QED
  BY <1>2 DEF PipelineTypeOK, Emit

(* A verdict is an event of the stream.                                    *)
LEMMA VetoType ==
    ASSUME PipelineTypeOK, NEW r \in Runs, NEW answer \in Responses
    PROVE  /\ VetoEvent(r, answer) \in Events
           /\ Event("revising", attempt[r] + 1, FALSE) \in Events
           /\ Event("run_state", attempt[r] + 1, Approves(answer)) \in Events
           /\ ErrorEvent \in Events
<1>1. attempt[r] \in 0 .. MaxRetries
  BY DEF PipelineTypeOK
<1>2. attempt[r] + 1 \in 0 .. MaxRetries + 1 /\ 0 \in 0 .. MaxRetries + 1
  BY <1>1, PipelineAssumption
<1>3. Approves(answer) \in BOOLEAN
  BY DEF Approves
<1> QED
  BY <1>2, <1>3 DEF VetoEvent, Event, Events, ErrorEvent

(* What a run knows depends on its own entries only.                       *)
LEMMA OthersKeep ==
    ASSUME PipelineInv, NEW r \in Runs, NEW q \in Runs, q # r,
           stage'[q] = stage[q], attempt'[q] = attempt[q], compiled'[q] = compiled[q],
           verdict'[q] = verdict[q], out'[q] = out[q]
    PROVE  (Loop(q) /\ Open(q) /\ Once(q))'
BY DEF PipelineInv, Loop, Open, Once, NothingYet, Drafted, Unreviewed, LastEvent

(* One event that ends nothing keeps an open stream open.                  *)
LEMMA OpenAppend ==
    ASSUME NEW r \in Runs, NEW e \in Events, e.event \notin Terminal,
           out \in [Runs -> Seq(Events)], Open(r), stage[r] \notin Ended,
           Emit(r, <<e>>)
    PROVE  (Open(r) /\ Once(r))'
<1>1. out'[r] = out[r] \o <<e>> /\ out[r] \in Seq(Events)
  BY DEF Emit
<1>2. Len(out'[r]) = Len(out[r]) + 1
  BY <1>1
<1>3. ASSUME NEW i \in 1 .. Len(out'[r]) PROVE out'[r][i].event \notin Terminal
  <2>1. CASE i = Len(out[r]) + 1
    BY <1>1, <2>1
  <2>2. CASE i # Len(out[r]) + 1
    <3>1. i \in 1 .. Len(out[r]) /\ out'[r][i] = out[r][i]
      BY <1>1, <1>2, <2>2
    <3> QED
      BY <3>1 DEF Open
  <2> QED
    BY <2>1, <2>2
<1> QED
  BY <1>3 DEF Open, Once

(* An event that ends nothing, and then one that may, but ends the run.    *)
LEMMA OpenAppendTwo ==
    ASSUME NEW r \in Runs, NEW d \in Events, NEW e \in Events, d.event \notin Terminal,
           out \in [Runs -> Seq(Events)], Open(r), stage[r] \notin Ended,
           Emit(r, <<d, e>>),
           e.event \in Terminal => stage'[r] \in Ended
    PROVE  (Open(r) /\ Once(r))'
<1>1. out'[r] = out[r] \o <<d, e>> /\ out[r] \in Seq(Events)
  BY DEF Emit
<1>2. Len(out'[r]) = Len(out[r]) + 2
  BY <1>1
<1>3. ASSUME NEW i \in 1 .. Len(out'[r]), out'[r][i].event \in Terminal
      PROVE  i = Len(out'[r]) /\ stage'[r] \in Ended
  <2>1. CASE i = Len(out[r]) + 2
    <3>1. out'[r][i] = e
      BY <1>1, <2>1
    <3> QED
      BY <3>1, <2>1, <1>2, <1>3
  <2>2. CASE i = Len(out[r]) + 1
    BY <1>1, <2>2, <1>3
  <2>3. CASE i \notin {Len(out[r]) + 1, Len(out[r]) + 2}
    <3>1. i \in 1 .. Len(out[r]) /\ out'[r][i] = out[r][i]
      BY <1>1, <1>2, <2>3
    <3> QED
      BY <3>1, <1>3 DEF Open
  <2> QED
    BY <2>1, <2>2, <2>3
<1> QED
  BY <1>3 DEF Open, Once

(* The event that fails a run is its last one.                             *)
LEMMA OpenAppendLast ==
    ASSUME NEW r \in Runs, NEW e \in Events,
           out \in [Runs -> Seq(Events)], Open(r), stage[r] \notin Ended,
           Emit(r, <<e>>), stage'[r] \in Ended
    PROVE  (Open(r) /\ Once(r))'
<1>1. out'[r] = out[r] \o <<e>> /\ out[r] \in Seq(Events)
  BY DEF Emit
<1>2. Len(out'[r]) = Len(out[r]) + 1
  BY <1>1
<1>3. ASSUME NEW i \in 1 .. Len(out'[r]), i # Len(out'[r])
      PROVE  out'[r][i].event \notin Terminal
  <2>1. i \in 1 .. Len(out[r]) /\ out'[r][i] = out[r][i]
    BY <1>1, <1>2, <1>3
  <2> QED
    BY <2>1 DEF Open
<1> QED
  BY <1>3 DEF Open, Once

-----------------------------------------------------------------------------
(* Before a run exists it has no draft, no verdict and no event.           *)
LEMMA InitInv == PipelineInit => PipelineInv
<1> SUFFICES ASSUME PipelineInit PROVE PipelineInv
  OBVIOUS
<1>1. PipelineTypeOK
  <2>1. Verdict(NoDraft, NoResponse) \in
          [about : Drafts \cup {NoDraft}, response : Responses]
    BY DEF Verdict, NoResponse, Responses
  <2>2. 0 \in 0 .. MaxRetries /\ <<>> \in Seq(Events)
    BY PipelineAssumption
  <2> QED
    BY <2>1, <2>2 DEF PipelineInit, PipelineTypeOK, Stages
<1>2. \A r \in Runs : Loop(r) /\ Open(r) /\ Once(r)
  <2> SUFFICES ASSUME NEW r \in Runs PROVE Loop(r) /\ Open(r) /\ Once(r)
    OBVIOUS
  <2>1. Loop(r)
    BY DEF PipelineInit, Loop, NothingYet, Verdict
  <2>2. out[r] = <<>> /\ Len(out[r]) = 0
    BY DEF PipelineInit
  <2>3. \A i \in 1 .. Len(out[r]) : FALSE
    BY <2>2
  <2> QED
    BY <2>1, <2>3 DEF Open, Once
<1> QED
  BY <1>1, <1>2 DEF PipelineInv

(* The waits before the first draft.                                       *)
LEMMA EarlyInv ==
    ASSUME PipelineInv, NEW r \in Runs, Create(r) \/ Start(r) \/ Gathered(r)
    PROVE  PipelineInv'
<1> USE DEF PipelineInv
<1>1. Event("run_started", 0, FALSE) \in Events /\ Event("gathered", 0, FALSE) \in Events
  BY PipelineAssumption DEF Event, Events
<1>2. PipelineTypeOK'
  <2>1. out' \in [Runs -> Seq(Events)]
    <3>1. CASE Create(r)
      BY <3>1 DEF Create, PipelineTypeOK
    <3>2. CASE Start(r) \/ Gathered(r)
      BY <1>1, <3>2, EmitType DEF Start, Gathered
    <3> QED
      BY <3>1, <3>2
  <2> QED
    BY <2>1 DEF PipelineTypeOK, Create, Start, Gathered, Stages, Waiting
<1>3. Loop(r)'
  BY DEF Loop, NothingYet, Create, Start, Gathered, PipelineTypeOK
<1>4. (Open(r) /\ Once(r))'
  <2>1. CASE Create(r)
    BY <2>1 DEF Create, Open, Once, Ended, PipelineTypeOK
  <2>2. CASE Start(r)
    <3> DEFINE e == Event("run_started", 0, FALSE)
    <3>1. Emit(r, <<e>>) /\ e.event \notin Terminal /\ stage[r] \notin Ended
      BY <2>2 DEF Start, Terminal, Ended, Event
    <3> HIDE DEF e
    <3> QED
      BY <1>1, <3>1, OpenAppend DEF PipelineTypeOK, e
  <2>3. CASE Gathered(r)
    <3> DEFINE e == Event("gathered", 0, FALSE)
    <3>1. Emit(r, <<e>>) /\ e.event \notin Terminal /\ stage[r] \notin Ended
      BY <2>3 DEF Gathered, Terminal, Ended, Event
    <3> HIDE DEF e
    <3> QED
      BY <1>1, <3>1, OpenAppend DEF PipelineTypeOK, e
  <2> QED
    BY <2>1, <2>2, <2>3
<1>5. ASSUME NEW q \in Runs, q # r PROVE (Loop(q) /\ Open(q) /\ Once(q))'
  <2>1. /\ stage'[q] = stage[q] /\ attempt'[q] = attempt[q] /\ compiled'[q] = compiled[q]
        /\ verdict'[q] = verdict[q] /\ out'[q] = out[q]
    BY <1>5 DEF Create, Start, Gathered, Emit, PipelineTypeOK
  <2> QED
    BY <2>1, <1>5, OthersKeep
<1> QED
  BY <1>2, <1>3, <1>4, <1>5

(* A draft is written, the first one or a revision.                        *)
LEMMA DraftInv ==
    ASSUME PipelineInv, NEW r \in Runs, NEW text \in Texts,
           Synthesized(r, text) \/ Revised(r, text)
    PROVE  PipelineInv'
<1> USE DEF PipelineInv
<1> DEFINE n == IF stage[r] = "synthesizing" THEN 0 ELSE compiled[r].revision + 1
           e == Event("synthesized", n, FALSE)
<1>1. /\ n \in 0 .. MaxRetries
      /\ stage[r] \in {"synthesizing", "revising"}
      /\ stage[r] = "synthesizing" => NothingYet(r)
      /\ stage[r] = "revising" => /\ Drafted(r)
                                  /\ verdict[r].about = compiled[r]
                                  /\ ~Approves(verdict[r].response)
                                  /\ n = attempt[r] + 1
  BY PipelineAssumption
     DEF PipelineTypeOK, Synthesized, Revised, Loop, Drafted
<1>2. e \in Events /\ e.event \notin Terminal /\ stage[r] \notin Ended
  BY <1>1, PipelineAssumption DEF Event, Events, Terminal, Ended
<1>3. /\ Emit(r, <<e>>)
      /\ stage' = [stage EXCEPT ![r] = "checking"]
      /\ compiled' = [compiled EXCEPT ![r] = [text |-> text, revision |-> n]]
      /\ attempt' = [attempt EXCEPT ![r] = n]
      /\ verdict' = verdict
  <2>1. CASE Synthesized(r, text)
    <3>1. attempt' = [attempt EXCEPT ![r] = 0]
      BY <2>1, <1>1 DEF Synthesized, NothingYet, PipelineTypeOK
    <3> QED
      BY <2>1, <3>1 DEF Synthesized
  <2>2. CASE Revised(r, text)
    BY <2>2, <1>1 DEF Revised
  <2> QED
    BY <2>1, <2>2
<1> HIDE DEF e
<1>4. [text |-> text, revision |-> n] \in Drafts
  BY <1>1 DEF Drafts
<1>5. PipelineTypeOK'
  <2>1. out' \in [Runs -> Seq(Events)]
    BY <1>2, <1>3, EmitType
  <2> QED
    BY <1>1, <1>3, <1>4, <2>1 DEF PipelineTypeOK, Stages, Waiting
<1>6. Loop(r)'
  <2>1. /\ stage'[r] = "checking" /\ compiled'[r] = [text |-> text, revision |-> n]
        /\ attempt'[r] = n /\ verdict'[r] = verdict[r]
    BY <1>3 DEF PipelineTypeOK
  <2>2. Drafted(r)'
    BY <2>1, <1>4 DEF Drafted
  <2>3. Unreviewed(r)'
    <3>1. CASE stage[r] = "synthesizing"
      BY <3>1, <2>1, <1>1 DEF Unreviewed, NothingYet
    <3>2. CASE stage[r] = "revising"
      BY <3>2, <2>1, <1>1 DEF Unreviewed, Drafted, PipelineTypeOK
    <3> QED
      BY <1>1, <3>1, <3>2
  <2> QED
    BY <2>1, <2>2, <2>3 DEF Loop
<1>7. (Open(r) /\ Once(r))'
  BY <1>2, <1>3, OpenAppend DEF PipelineTypeOK
<1>8. ASSUME NEW q \in Runs, q # r PROVE (Loop(q) /\ Open(q) /\ Once(q))'
  <2>1. /\ stage'[q] = stage[q] /\ attempt'[q] = attempt[q] /\ compiled'[q] = compiled[q]
        /\ verdict'[q] = verdict[q] /\ out'[q] = out[q]
    BY <1>3, <1>8 DEF Emit, PipelineTypeOK
  <2> QED
    BY <2>1, <1>8, OthersKeep
<1> QED
  BY <1>5, <1>6, <1>7, <1>8

(* The checker answers: ship, fail to write the page, or revise.           *)
LEMMA CheckInv ==
    ASSUME PipelineInv, NEW r \in Runs, NEW answer \in Responses, Checked(r, answer)
    PROVE  PipelineInv'
<1> USE DEF PipelineInv
<1>1. /\ VetoEvent(r, answer) \in Events
      /\ Event("revising", attempt[r] + 1, FALSE) \in Events
      /\ Event("run_state", attempt[r] + 1, Approves(answer)) \in Events
      /\ ErrorEvent \in Events
  BY VetoType
<1>2. /\ stage[r] = "checking" /\ attempt' = attempt /\ compiled' = compiled
      /\ verdict' = [verdict EXCEPT ![r] = Verdict(compiled[r], answer)]
  BY DEF Checked
<1>3. PICK s \in {"shipped", "failed", "revising"}, e \in Events :
        /\ stage' = [stage EXCEPT ![r] = s]
        /\ Emit(r, <<VetoEvent(r, answer), e>>)
        /\ s \in {"shipped", "failed"} => Approves(answer) \/ LastCheck(r)
        /\ s = "shipped" => e = Event("run_state", attempt[r] + 1, Approves(answer))
        /\ s = "revising" => ~Approves(answer) /\ ~LastCheck(r)
        /\ e.event \in Terminal => s # "revising"
  <2>1. CASE Approves(answer) \/ LastCheck(r)
    <3>1. PICK rendered \in BOOLEAN : Ship(r, answer, rendered)
      BY <2>1 DEF Checked
    <3> DEFINE s == IF rendered THEN "shipped" ELSE "failed"
               e == IF rendered THEN Event("run_state", attempt[r] + 1, Approves(answer))
                                ELSE ErrorEvent
    <3>2. /\ s \in {"shipped", "failed", "revising"} /\ e \in Events
          /\ stage' = [stage EXCEPT ![r] = s]
          /\ Emit(r, <<VetoEvent(r, answer), e>>)
          /\ s = "shipped" => e = Event("run_state", attempt[r] + 1, Approves(answer))
          /\ s # "revising"
      BY <3>1, <1>1 DEF Ship
    <3> HIDE DEF s, e
    <3> QED
      BY <3>2, <2>1
  <2>2. CASE ~Approves(answer) /\ ~LastCheck(r)
    <3> DEFINE e == Event("revising", attempt[r] + 1, FALSE)
    <3>1. /\ stage' = [stage EXCEPT ![r] = "revising"]
          /\ Emit(r, <<VetoEvent(r, answer), e>>)
          /\ e \in Events /\ e.event \notin Terminal
      BY <2>2, <1>1 DEF Checked, Event, Terminal
    <3> HIDE DEF e
    <3> QED
      BY <3>1, <2>2
  <2> QED
    BY <2>1, <2>2
<1>4. /\ Drafted(r)
      /\ stage'[r] = s
      /\ verdict'[r].about = compiled[r] /\ verdict'[r].response = answer
      /\ compiled'[r] = compiled[r] /\ attempt'[r] = attempt[r]
  BY <1>2, <1>3 DEF PipelineTypeOK, Loop, Verdict
<1>5. PipelineTypeOK'
  <2>1. out' \in [Runs -> Seq(Events)]
    BY <1>1, <1>3, EmitType
  <2>2. Verdict(compiled[r], answer) \in
          [about : Drafts \cup {NoDraft}, response : Responses]
    BY DEF Verdict, PipelineTypeOK
  <2> QED
    BY <1>2, <1>3, <2>1, <2>2 DEF PipelineTypeOK, Stages, Waiting, Ended
<1>6. VetoEvent(r, answer).event \notin Terminal
  BY DEF VetoEvent, Event, Terminal
<1>7. (Open(r) /\ Once(r))'
  <2>1. stage[r] \notin Ended
    BY <1>2 DEF Ended
  <2>2. e.event \in Terminal => stage'[r] \in Ended
    BY <1>3, <1>4 DEF Ended
  <2> QED
    BY <1>1, <1>3, <1>6, <2>1, <2>2, OpenAppendTwo DEF PipelineTypeOK
<1>8. Loop(r)'
  <2>1. Drafted(r)'
    BY <1>4 DEF Drafted
  <2>2. s = "revising" => attempt[r] < MaxRetries
    BY <1>3, PipelineAssumption DEF PipelineTypeOK, LastCheck
  <2>3. s = "shipped" =>
          LastEvent(r)' = Event("run_state", attempt[r] + 1, Approves(answer))
    <3>1. out'[r] = out[r] \o <<VetoEvent(r, answer), e>> /\ out[r] \in Seq(Events)
      BY <1>3 DEF Emit, PipelineTypeOK
    <3>2. Len(out'[r]) = Len(out[r]) + 2 /\ out'[r][Len(out[r]) + 2] = e
      BY <3>1, <1>1
    <3> QED
      BY <3>2, <1>3 DEF LastEvent
  <2> QED
    BY <2>1, <2>2, <2>3, <1>3, <1>4 DEF Loop, LastCheck
<1>9. ASSUME NEW q \in Runs, q # r PROVE (Loop(q) /\ Open(q) /\ Once(q))'
  <2>1. /\ stage'[q] = stage[q] /\ attempt'[q] = attempt[q] /\ compiled'[q] = compiled[q]
        /\ verdict'[q] = verdict[q] /\ out'[q] = out[q]
    BY <1>2, <1>3, <1>9 DEF Emit, PipelineTypeOK
  <2> QED
    BY <2>1, <1>9, OthersKeep
<1> QED
  BY <1>5, <1>7, <1>8, <1>9

(* A run fails or is cancelled.                                            *)
LEMMA EndInv ==
    ASSUME PipelineInv, NEW r \in Runs, Fails(r) \/ Cancelled(r)
    PROVE  PipelineInv'
<1> USE DEF PipelineInv
<1>1. ErrorEvent \in Events
  BY PipelineAssumption DEF ErrorEvent, Event, Events
<1>2. PipelineTypeOK'
  <2>1. out' \in [Runs -> Seq(Events)]
    <3>1. CASE Fails(r)
      BY <3>1, <1>1, EmitType DEF Fails
    <3>2. CASE Cancelled(r)
      BY <3>2 DEF Cancelled, PipelineTypeOK
    <3> QED
      BY <3>1, <3>2
  <2> QED
    BY <2>1 DEF PipelineTypeOK, Fails, Cancelled, Stages, Ended
<1>3. stage[r] \notin Ended /\ stage'[r] \in {"failed", "cancelled"}
  BY DEF Fails, Cancelled, Waiting, Ended, PipelineTypeOK
<1>4. Loop(r)'
  BY <1>3 DEF Loop
<1>5. (Open(r) /\ Once(r))'
  <2>1. CASE Fails(r)
    BY <2>1, <1>1, <1>3, OpenAppendLast DEF Fails, Ended, PipelineTypeOK
  <2>2. CASE Cancelled(r)
    BY <2>2, <1>3 DEF Cancelled, Open, Once, Ended
  <2> QED
    BY <2>1, <2>2
<1>6. ASSUME NEW q \in Runs, q # r PROVE (Loop(q) /\ Open(q) /\ Once(q))'
  <2>1. /\ stage'[q] = stage[q] /\ attempt'[q] = attempt[q] /\ compiled'[q] = compiled[q]
        /\ verdict'[q] = verdict[q] /\ out'[q] = out[q]
    BY <1>6 DEF Fails, Cancelled, Emit, PipelineTypeOK
  <2> QED
    BY <2>1, <1>6, OthersKeep
<1> QED
  BY <1>2, <1>4, <1>5, <1>6

(* Every step of a run keeps what is known of it.                          *)
LEMMA NextInv == PipelineInv /\ [PipelineNext]_pipelineVars => PipelineInv'
<1> SUFFICES ASSUME PipelineInv, [PipelineNext]_pipelineVars PROVE PipelineInv'
  OBVIOUS
<1>1. CASE UNCHANGED pipelineVars
  BY <1>1 DEF pipelineVars, PipelineInv, PipelineTypeOK, Loop, Open, Once, NothingYet,
              Drafted, Unreviewed, LastEvent
<1>2. ASSUME NEW r \in Runs, Create(r) \/ Advance(r) \/ Cancelled(r) PROVE PipelineInv'
  BY <1>2, EarlyInv, DraftInv, CheckInv, EndInv DEF Advance
<1> QED
  BY <1>1, <1>2 DEF PipelineNext, AllEnded

(* The inductive invariant: a draft's revision is the loop's counter, its  *)
(* verdict is one behind until the check, and an open run has not told its *)
(* client that it is over.                                                 *)
THEOREM LoopInvariant == PipelineSpec => []PipelineInv
BY InitInv, NextInv, PTL DEF PipelineSpec

(* Every variable of a run keeps its type; the counter never passes the    *)
(* retry budget.                                                           *)
THEOREM RunTypeCorrect == PipelineSpec => []PipelineTypeOK
<1>1. PipelineInv => PipelineTypeOK
  BY DEF PipelineInv
<1> QED
  BY <1>1, LoopInvariant, PTL

(* The invariant says so of every run at once.                             *)
LEMMA NothingAfterTheEnd == PipelineInv => OneTerminalEvent
BY DEF PipelineInv, Once, OneTerminalEvent

(* A run_state or an error event is the last event of its run.             *)
THEOREM EndsOnce == PipelineSpec => []OneTerminalEvent
BY NothingAfterTheEnd, LoopInvariant, PTL

(* The verdict of a run that shipped is about its draft, and was announced *)
(* as it was.                                                              *)
LEMMA AsReviewed == PipelineInv => ShippedAsReviewed
<1> SUFFICES ASSUME PipelineInv, NEW r \in Runs, stage[r] = "shipped"
             PROVE  /\ LastEvent(r).event = "run_state"
                    /\ LastEvent(r).number = verdict[r].about.revision + 1
                    /\ LastEvent(r).approved <=>
                          /\ verdict[r].about = compiled[r]
                          /\ verdict[r].response
                               = [stop_reason |-> "end_turn", parsed |-> "approve"]
  BY DEF ShippedAsReviewed
<1>1. /\ Drafted(r) /\ verdict[r].about = compiled[r]
      /\ LastEvent(r) = Event("run_state", attempt[r] + 1, Approves(verdict[r].response))
  BY DEF PipelineInv, Loop
<1>2. verdict[r].response \in Responses
  BY DEF PipelineInv, PipelineTypeOK
<1>3. Approves(verdict[r].response)
        <=> verdict[r].response = [stop_reason |-> "end_turn", parsed |-> "approve"]
  BY <1>2 DEF Approves, Responses
<1> QED
  BY <1>1, <1>3 DEF Event, Drafted

(* The answer announced as approved is the draft the checker approved in a *)
(* complete response.                                                      *)
THEOREM AnnouncedAsReviewed == PipelineSpec => []ShippedAsReviewed
BY AsReviewed, LoopInvariant, PTL

-----------------------------------------------------------------------------
(* The refinement mapping, one entry of each abstract function.            *)
Counted(r) == IF verdict[r].about = NoDraft THEN 0 ELSE verdict[r].about.revision + 1

(* A step that changes neither drafts nor verdicts, and ships nothing, is  *)
(* one the abstract specification does not see.                            *)
LEMMA Unseen ==
    ASSUME UNCHANGED <<compiled, verdict>>,
           \A r \in Runs : stage'[r] = "shipped" <=> stage[r] = "shipped"
    PROVE  UNCHANGED Answer!vars
<1>1. \A r \in Runs : KnownOf(r)' = KnownOf(r)
  BY DEF KnownOf
<1>2. [r \in Runs |-> stage[r] = "shipped"]' = [r \in Runs |-> stage[r] = "shipped"]
  BY ZenonT(20)
<1> QED
  BY <1>1, <1>2 DEF Answer!vars

(* Initially no draft is written and none shipped.                         *)
LEMMA AnswerInit == PipelineInit => Answer!Init
<1> SUFFICES ASSUME PipelineInit PROVE Answer!Init
  OBVIOUS
<1>1. \A r \in Runs : /\ KnownOf(r) = "pending" /\ verdict[r].about = NoDraft
                     /\ stage[r] # "shipped"
  BY DEF PipelineInit, KnownOf, Verdict
<1> QED
  BY <1>1 DEF PipelineInit, Answer!Init

(* Writing a draft is the abstract Write.                                  *)
LEMMA DraftWrites ==
    ASSUME PipelineInv, NEW r \in Runs, NEW text \in Texts,
           Synthesized(r, text) \/ Revised(r, text)
    PROVE  Answer!Write(r)
<1> USE DEF PipelineInv
<1>1. stage[r] # "shipped" /\ verdict' = verdict
  BY DEF Synthesized, Revised
<1>2. compiled[r] = NoDraft \/ KnownOf(r) = "vetoed"
  BY DEF Loop, NothingYet, Drafted, Synthesized, Revised, KnownOf
<1>3. /\ PipelineInv'
      /\ stage' = [stage EXCEPT ![r] = "checking"]
  BY DraftInv DEF Synthesized, Revised
<1>4. /\ compiled'[r] \in Drafts
      /\ compiled' = [compiled EXCEPT ![r] = compiled'[r]]
      /\ verdict[r].about # compiled'[r]
  <2>1. stage'[r] = "checking"
    BY <1>3 DEF PipelineTypeOK
  <2>2. (Drafted(r) /\ Unreviewed(r))'
    BY <1>3, <2>1 DEF Loop
  <2>3. compiled' = [compiled EXCEPT ![r] = compiled'[r]]
    BY DEF Synthesized, Revised, PipelineTypeOK
  <2>4. attempt'[r] \in Nat
    BY <1>3, PipelineAssumption DEF PipelineTypeOK
  <2>5. verdict[r].about # compiled'[r]
    BY <2>2, <2>4, <1>1, PipelineAssumption DEF Drafted, Unreviewed, Drafts
  <2> QED
    BY <2>2, <2>3, <2>5 DEF Drafted
<1>5. \A q \in Runs : KnownOf(q)' = IF q = r THEN "pending" ELSE KnownOf(q)
  BY <1>1, <1>4 DEF KnownOf, PipelineTypeOK
<1>6. [q \in Runs |-> KnownOf(q)]' = [[q \in Runs |-> KnownOf(q)] EXCEPT ![r] = "pending"]
  BY <1>5
<1>7. \A q \in Runs : stage'[q] = "shipped" <=> stage[q] = "shipped"
  BY <1>1, <1>3 DEF PipelineTypeOK
<1>8. [q \in Runs |-> stage[q] = "shipped"]' = [q \in Runs |-> stage[q] = "shipped"]
  BY <1>7, ZenonT(20)
<1> QED
  BY <1>1, <1>2, <1>4, <1>6, <1>8 DEF Answer!Write

(* A check is the abstract Review.                                         *)
LEMMA CheckReviews ==
    ASSUME PipelineInv, NEW r \in Runs, NEW answer \in Responses, Checked(r, answer)
    PROVE  Answer!Review(r)
<1> USE DEF PipelineInv
<1> DEFINE outcome == IF Approves(answer) THEN "approved" ELSE "vetoed"
           final == stage'[r] = "shipped"
<1>1. /\ stage[r] = "checking" /\ attempt' = attempt /\ compiled' = compiled
      /\ verdict' = [verdict EXCEPT ![r] = Verdict(compiled[r], answer)]
  BY DEF Checked
<1>2. Drafted(r) /\ Unreviewed(r)
  BY <1>1 DEF Loop
<1>3. compiled[r] # NoDraft /\ attempt[r] \in 0 .. MaxRetries /\ MaxRetries \in Nat
  BY <1>2, PipelineAssumption DEF Drafted, PipelineTypeOK
<1>4. KnownOf(r) = "pending"
  BY <1>2, <1>3, PipelineAssumption DEF KnownOf, Drafted, Unreviewed
<1>5. Counted(r) = attempt[r] /\ Counted(r)' = attempt[r] + 1
  <2>1. Counted(r) = attempt[r]
    BY <1>2, <1>3, PipelineAssumption DEF Counted, Unreviewed
  <2>2. verdict'[r].about = compiled[r]
    BY <1>1 DEF Verdict, PipelineTypeOK
  <2> QED
    BY <2>1, <2>2, <1>2, <1>3 DEF Counted, Drafted
<1>6. \A q \in Runs : Counted(q)' = IF q = r THEN Counted(r) + 1 ELSE Counted(q)
  BY <1>1, <1>5 DEF Counted, PipelineTypeOK
<1>7. \A q \in Runs : KnownOf(q)' = IF q = r THEN outcome ELSE KnownOf(q)
  <2>1. verdict'[r] = Verdict(compiled[r], answer)
    BY <1>1 DEF PipelineTypeOK
  <2> QED
    BY <1>1, <1>3, <2>1 DEF KnownOf, PipelineTypeOK, Verdict
<1>8. /\ \E s \in {"shipped", "failed", "revising"} : stage' = [stage EXCEPT ![r] = s]
      /\ final => Approves(answer) \/ LastCheck(r)
  BY DEF Checked, Ship, PipelineTypeOK
<1>9. final => outcome = "approved" \/ Counted(r)' = MaxRetries + 1
  BY <1>5, <1>8 DEF LastCheck
<1>10. [q \in Runs |-> Counted(q)]'
         = [[q \in Runs |-> Counted(q)] EXCEPT ![r] = Counted(r) + 1]
  BY <1>6
<1>11. [q \in Runs |-> KnownOf(q)]' = [[q \in Runs |-> KnownOf(q)] EXCEPT ![r] = outcome]
  BY <1>7
<1>12. \A q \in Runs : q # r => stage'[q] = stage[q]
  BY <1>8 DEF PipelineTypeOK
<1>13. [q \in Runs |-> stage[q] = "shipped"]'
         = [[q \in Runs |-> stage[q] = "shipped"] EXCEPT ![r] = final]
  BY <1>12, ZenonT(20)
<1>14. final \in BOOLEAN /\ outcome \in {"approved", "vetoed"}
  OBVIOUS
<1>15. /\ Counted(r) < MaxRetries + 1
       /\ [q \in Runs |-> Counted(q)]'[r] = Counted(r)'
  BY <1>3, <1>5
<1> HIDE DEF outcome, final
<1> QED
  BY <1>1, <1>3, <1>4, <1>9, <1>10, <1>11, <1>13, <1>14, <1>15 DEF Answer!Review, Counted

(* Every step of the loop is a step of the promise, or none.               *)
LEMMA StepReviews ==
    PipelineInv /\ [PipelineNext]_pipelineVars => [Answer!Next]_(Answer!vars)
<1> SUFFICES ASSUME PipelineInv, [PipelineNext]_pipelineVars
             PROVE  [Answer!Next]_(Answer!vars)
  OBVIOUS
<1>1. CASE UNCHANGED pipelineVars
  BY <1>1, Unseen DEF pipelineVars
<1>2. ASSUME NEW r \in Runs,
             Create(r) \/ Start(r) \/ Gathered(r) \/ Fails(r) \/ Cancelled(r)
      PROVE  UNCHANGED Answer!vars
  <2>1. UNCHANGED <<compiled, verdict>>
    BY <1>2 DEF Create, Start, Gathered, Fails, Cancelled
  <2>2. /\ stage[r] # "shipped" /\ stage'[r] # "shipped"
        /\ \A q \in Runs \ {r} : stage'[q] = stage[q]
    BY <1>2 DEF Create, Start, Gathered, Fails, Cancelled, Waiting,
                PipelineInv, PipelineTypeOK
  <2> QED
    BY <2>1, <2>2, Unseen
<1>3. ASSUME NEW r \in Runs, NEW text \in Texts, Synthesized(r, text) \/ Revised(r, text)
      PROVE  Answer!Next
  BY <1>3, DraftWrites DEF Answer!Next
<1>4. ASSUME NEW r \in Runs, NEW answer \in Responses, Checked(r, answer)
      PROVE  Answer!Next
  BY <1>4, CheckReviews DEF Answer!Next
<1> QED
  BY <1>1, <1>2, <1>3, <1>4 DEF PipelineNext, AllEnded, Advance

(* The pipeline's loop implements ReviewedAnswer, for any retry budget.    *)
THEOREM ReviewImplementation == PipelineSpec => ShipsReviewed
BY InitInv, NextInv, AnswerInit, StepReviews, PTL DEF PipelineSpec, ShipsReviewed, Answer!Spec

-----------------------------------------------------------------------------
(* The stream of a run tells its loop, and a draft that waits for the      *)
(* checker was the last thing announced.                                   *)
TellsAt(r, i) ==
    /\ out[r][i].event = "veto" =>
          /\ out[r][i - 1].event = "synthesized"
          /\ out[r][i - 1].number + 1 = out[r][i].number
    /\ out[r][i].event = "run_state" =>
          /\ out[r][i - 1].event = "veto"
          /\ out[r][i - 1].number = out[r][i].number
          /\ out[r][i - 1].approved = out[r][i].approved
    /\ out[r][i].event = "revising" => out[r][i].number <= MaxRetries

Tells(r) ==
    /\ Len(out[r]) >= 1 => out[r][1].event \notin {"veto", "run_state"}
    /\ \A i \in 1 .. Len(out[r]) : TellsAt(r, i)

Announced(r) ==
    stage[r] = "checking" =>
        /\ Len(out[r]) >= 1
        /\ LastEvent(r).event = "synthesized"
        /\ LastEvent(r).number = attempt[r]

StoryInv == \A r \in Runs : Tells(r) /\ Announced(r)

(* What the stream has told stays told when more is appended.              *)
LEMMA TellsOn ==
    ASSUME NEW r \in Runs, out \in [Runs -> Seq(Events)], Tells(r), Announced(r),
           NEW more \in Seq(Events), Emit(r, more)
    PROVE  /\ out'[r] \in Seq(Events)
           /\ Len(out'[r]) = Len(out[r]) + Len(more)
           /\ \A i \in 1 .. Len(out[r]) : out'[r][i] = out[r][i] /\ TellsAt(r, i)'
           /\ \A j \in 1 .. Len(more) : out'[r][Len(out[r]) + j] = more[j]
<1>1. out'[r] = out[r] \o more /\ out[r] \in Seq(Events)
  BY DEF Emit
<1>2. \A i \in 1 .. Len(out[r]) : out'[r][i] = out[r][i]
  BY <1>1
<1>3. ASSUME NEW i \in 1 .. Len(out[r]) PROVE TellsAt(r, i)'
  <2>1. CASE i = 1
    <3>1. out'[r][1] = out[r][1] /\ TellsAt(r, 1) /\ Len(out[r]) >= 1
      BY <1>2, <2>1 DEF Tells
    <3>2. out'[r][1].event \notin {"veto", "run_state"}
      BY <3>1 DEF Tells
    <3> QED
      BY <2>1, <3>1, <3>2 DEF TellsAt
  <2>2. CASE i # 1
    <3>1. i - 1 \in 1 .. Len(out[r]) /\ TellsAt(r, i)
      BY <1>1, <2>2 DEF Tells
    <3>2. out'[r][i] = out[r][i] /\ out'[r][i - 1] = out[r][i - 1]
      BY <1>2, <3>1
    <3> QED
      BY <3>1, <3>2 DEF TellsAt
  <2> QED
    BY <2>1, <2>2
<1> QED
  BY <1>1, <1>2, <1>3

(* One more event that is neither a verdict nor a final state.             *)
LEMMA TellsOneMore ==
    ASSUME NEW r \in Runs, out \in [Runs -> Seq(Events)], Tells(r), Announced(r),
           NEW e \in Events, e.event \notin {"veto", "run_state", "revising"},
           Emit(r, <<e>>)
    PROVE  Tells(r)' /\ Len(out'[r]) >= 1 /\ LastEvent(r)' = e
<1> DEFINE more == <<e>>
<1>1. PICK k \in Nat : k = Len(out[r])
  OBVIOUS
<1>2. /\ Len(out'[r]) = k + 1
      /\ \A i \in 1 .. k : out'[r][i] = out[r][i] /\ TellsAt(r, i)'
      /\ out'[r][k + 1] = e
  <2>1. more \in Seq(Events) /\ Len(more) = 1 /\ more[1] = e /\ Emit(r, more)
    OBVIOUS
  <2> HIDE DEF more
  <2>2. /\ Len(out'[r]) = k + Len(more)
        /\ \A i \in 1 .. k : out'[r][i] = out[r][i] /\ TellsAt(r, i)'
        /\ \A j \in 1 .. Len(more) : out'[r][k + j] = more[j]
    BY <1>1, <2>1, TellsOn
  <2> QED
    BY <2>1, <2>2
<1>3. TellsAt(r, k + 1)'
  BY <1>2 DEF TellsAt
<1>4. \A i \in 1 .. Len(out'[r]) : TellsAt(r, i)'
  <2>1. \A i \in 1 .. Len(out'[r]) : i = k + 1 \/ i \in 1 .. k
    BY <1>2
  <2> QED
    BY <1>2, <1>3, <2>1
<1>5. out'[r][1].event \notin {"veto", "run_state"}
  <2>1. CASE k = 0
    BY <1>2, <2>1
  <2>2. CASE k # 0
    BY <1>1, <1>2, <2>2 DEF Tells
  <2> QED
    BY <2>1, <2>2
<1> QED
  BY <1>2, <1>4, <1>5 DEF Tells, LastEvent

(* A verdict on the draft announced last, and what follows from it.        *)
LEMMA TellsVerdict ==
    ASSUME NEW r \in Runs, out \in [Runs -> Seq(Events)], Tells(r), Announced(r),
           stage[r] = "checking", attempt[r] \in Nat,
           NEW d \in Events, d.event = "veto", d.number = attempt[r] + 1,
           NEW e \in Events, e.event \in {"run_state", "revising", "error"},
           e.event = "run_state" => e.number = d.number /\ e.approved = d.approved,
           e.event = "revising" => e.number <= MaxRetries,
           Emit(r, <<d, e>>)
    PROVE  Tells(r)'
<1> DEFINE more == <<d, e>>
<1>1. PICK k \in Nat : k = Len(out[r])
  OBVIOUS
<1>2. /\ k >= 1
      /\ out[r][k].event = "synthesized" /\ out[r][k].number = attempt[r]
  BY <1>1 DEF Announced, LastEvent
<1>3. /\ Len(out'[r]) = k + 2
      /\ \A i \in 1 .. k : out'[r][i] = out[r][i] /\ TellsAt(r, i)'
      /\ out'[r][k + 1] = d /\ out'[r][k + 2] = e
  <2>1. more \in Seq(Events) /\ Len(more) = 2 /\ more[1] = d /\ more[2] = e
        /\ Emit(r, more)
    OBVIOUS
  <2> HIDE DEF more
  <2>2. /\ Len(out'[r]) = k + Len(more)
        /\ \A i \in 1 .. k : out'[r][i] = out[r][i] /\ TellsAt(r, i)'
        /\ \A j \in 1 .. Len(more) : out'[r][k + j] = more[j]
    BY <1>1, <2>1, TellsOn
  <2>3. 1 \in 1 .. Len(more) /\ 2 \in 1 .. Len(more)
    BY <2>1
  <2>4. out'[r][k + 1] = more[1] /\ out'[r][k + 2] = more[2]
    BY <2>2, <2>3
  <2> QED
    BY <2>1, <2>2, <2>4
<1>4. TellsAt(r, k + 1)'
  <2>1. out'[r][(k + 1) - 1] = out[r][k]
    <3>1. (k + 1) - 1 = k /\ k \in 1 .. k
      BY ONLY <1>2, k \in Nat
    <3> QED
      BY <1>3, <3>1
  <2> QED
    BY <1>2, <1>3, <2>1 DEF TellsAt
<1>5. TellsAt(r, k + 2)'
  <2>1. out'[r][(k + 2) - 1] = d
    BY <1>3
  <2> QED
    BY <1>3, <2>1 DEF TellsAt
<1>6. \A i \in 1 .. Len(out'[r]) : TellsAt(r, i)'
  <2>1. \A i \in 1 .. Len(out'[r]) : i = k + 2 \/ i = k + 1 \/ i \in 1 .. k
    BY <1>3
  <2> QED
    BY <1>3, <1>4, <1>5, <2>1
<1>7. out'[r][1].event \notin {"veto", "run_state"}
  BY <1>1, <1>2, <1>3 DEF Tells
<1> QED
  BY <1>6, <1>7 DEF Tells

(* What a run's step leaves alone is told as before.                       *)
LEMMA StoryOfOthers ==
    ASSUME StoryInv, NEW q \in Runs, stage'[q] = stage[q] \/ stage'[q] # "checking",
           attempt'[q] = attempt[q], out'[q] = out[q]
    PROVE  (Tells(q) /\ Announced(q))'
BY DEF StoryInv, Tells, TellsAt, Announced, LastEvent

(* No event has been sent at the start.                                    *)
LEMMA StoryInit == PipelineInit => StoryInv
<1> SUFFICES ASSUME PipelineInit, NEW r \in Runs PROVE Tells(r) /\ Announced(r)
  BY DEF StoryInv
<1>1. out[r] = <<>> /\ stage[r] = "absent"
  BY DEF PipelineInit
<1> QED
  BY <1>1 DEF Tells, Announced

(* A run is told on whatever it does next.                                 *)
LEMMA StoryOfRun ==
    ASSUME PipelineInv, StoryInv, NEW r \in Runs,
           Create(r) \/ Advance(r) \/ Cancelled(r)
    PROVE  (Tells(r) /\ Announced(r))'
<1>1. /\ out \in [Runs -> Seq(Events)] /\ stage \in [Runs -> Stages]
      /\ attempt \in [Runs -> 0 .. MaxRetries] /\ attempt[r] \in Nat
      /\ Tells(r) /\ Announced(r) /\ Loop(r)
  BY PipelineAssumption DEF PipelineInv, PipelineTypeOK, StoryInv
<1>2. CASE Create(r) \/ Cancelled(r)
  <2>1. stage'[r] # "checking" /\ attempt' = attempt /\ out' = out
    BY <1>1, <1>2 DEF Create, Cancelled
  <2> QED
    BY <2>1, StoryOfOthers
<1>3. CASE Start(r) \/ Gathered(r) \/ Fails(r)
  <2>1. PICK e \in Events : /\ e.event \notin {"veto", "run_state", "revising"}
                            /\ Emit(r, <<e>>)
    <3>1. \A name \in {"run_started", "gathered", "error"} :
            /\ Event(name, 0, FALSE) \in Events
            /\ Event(name, 0, FALSE).event \notin {"veto", "run_state", "revising"}
      BY PipelineAssumption DEF Event, Events
    <3> QED
      BY <1>3, <3>1 DEF Start, Gathered, Fails, ErrorEvent
  <2>2. stage'[r] # "checking"
    BY <1>1, <1>3 DEF Start, Gathered, Fails
  <2> QED
    BY <1>1, <2>1, <2>2, TellsOneMore DEF Announced
<1>4. ASSUME NEW text \in Texts, Synthesized(r, text) PROVE (Tells(r) /\ Announced(r))'
  <2> DEFINE e == Event("synthesized", 0, FALSE)
  <2>1. e \in Events /\ e.event = "synthesized" /\ e.number = 0
    BY PipelineAssumption DEF Event, Events
  <2>2. Emit(r, <<e>>) /\ attempt'[r] = 0
    BY <1>1, <1>4 DEF Synthesized, Loop, NothingYet
  <2> HIDE DEF e
  <2>3. Tells(r)' /\ Len(out'[r]) >= 1 /\ LastEvent(r)' = e
    BY <1>1, <2>1, <2>2, TellsOneMore
  <2> QED
    BY <2>1, <2>2, <2>3 DEF Announced
<1>5. ASSUME NEW text \in Texts, Revised(r, text) PROVE (Tells(r) /\ Announced(r))'
  <2> DEFINE n == compiled[r].revision + 1
             e == Event("synthesized", n, FALSE)
  <2>1. n = attempt[r] + 1 /\ n \in 0 .. MaxRetries + 1
    BY <1>1, <1>5, PipelineAssumption DEF Revised, Loop, Drafted
  <2>2. e \in Events /\ e.event = "synthesized" /\ e.number = n
    BY <2>1 DEF Event, Events
  <2>3. Emit(r, <<e>>) /\ attempt'[r] = n
    BY <1>1, <1>5, <2>1 DEF Revised
  <2> HIDE DEF e, n
  <2>4. Tells(r)' /\ Len(out'[r]) >= 1 /\ LastEvent(r)' = e
    BY <1>1, <2>2, <2>3, TellsOneMore
  <2> QED
    BY <2>2, <2>3, <2>4 DEF Announced
<1>6. ASSUME NEW answer \in Responses, Checked(r, answer)
      PROVE  (Tells(r) /\ Announced(r))'
  <2> DEFINE d == VetoEvent(r, answer)
  <2>1. d \in Events /\ d.event = "veto" /\ d.number = attempt[r] + 1
        /\ d.approved = Approves(answer)
    BY VetoType DEF PipelineInv, VetoEvent, Event
  <2>2. /\ Event("revising", attempt[r] + 1, FALSE) \in Events
        /\ Event("run_state", attempt[r] + 1, Approves(answer)) \in Events
        /\ ErrorEvent \in Events
    BY VetoType DEF PipelineInv
  <2> HIDE DEF d
  <2>3. PICK e \in Events :
          /\ Emit(r, <<d, e>>)
          /\ e.event \in {"run_state", "revising", "error"}
          /\ e.event = "run_state" => e.number = d.number /\ e.approved = d.approved
          /\ e.event = "revising" => e.number <= MaxRetries
    <3>1. CASE Approves(answer) \/ LastCheck(r)
      <4>1. PICK rendered \in BOOLEAN : Ship(r, answer, rendered)
        BY <1>6, <3>1 DEF Checked
      <4>2. CASE rendered
        <5>1. Emit(r, <<d, Event("run_state", attempt[r] + 1, Approves(answer))>>)
          BY <4>1, <4>2 DEF Ship, d
        <5> QED
          BY <2>1, <2>2, <5>1 DEF Event
      <4>3. CASE ~rendered
        <5>1. Emit(r, <<d, ErrorEvent>>)
          BY <4>1, <4>3 DEF Ship, d
        <5> QED
          BY <2>2, <5>1 DEF Event, ErrorEvent
      <4> QED
        BY <4>2, <4>3
    <3>2. CASE ~Approves(answer) /\ ~LastCheck(r)
      <4>1. Emit(r, <<d, Event("revising", attempt[r] + 1, FALSE)>>)
        BY <1>6, <3>2 DEF Checked, d
      <4>2. attempt[r] + 1 <= MaxRetries
        BY <1>1, <3>2, PipelineAssumption DEF LastCheck
      <4> QED
        BY <2>2, <4>1, <4>2 DEF Event
    <3> QED
      BY <3>1, <3>2
  <2>4. stage[r] = "checking" /\ stage'[r] # "checking"
    BY <1>1, <1>6 DEF Checked, Ship
  <2>5. Tells(r)'
    BY <1>1, <2>1, <2>3, <2>4, TellsVerdict
  <2> QED
    BY <2>4, <2>5 DEF Announced
<1> QED
  BY <1>2, <1>3, <1>4, <1>5, <1>6 DEF Advance

(* A step of one run is no step of another.                                *)
LEMMA StoryNext == PipelineInv /\ StoryInv /\ [PipelineNext]_pipelineVars => StoryInv'
<1> SUFFICES ASSUME PipelineInv, StoryInv, [PipelineNext]_pipelineVars PROVE StoryInv'
  OBVIOUS
<1>1. CASE UNCHANGED pipelineVars
  BY <1>1, StoryOfOthers DEF pipelineVars, StoryInv
<1>2. ASSUME NEW r \in Runs, Create(r) \/ Advance(r) \/ Cancelled(r) PROVE StoryInv'
  <2>1. ASSUME NEW q \in Runs, q # r PROVE (Tells(q) /\ Announced(q))'
    <3>1. stage'[q] = stage[q] /\ attempt'[q] = attempt[q] /\ out'[q] = out[q]
      BY <1>2, <2>1
         DEF PipelineInv, PipelineTypeOK, Create, Advance, Cancelled, Start, Gathered,
             Synthesized, Checked, Ship, Revised, Fails, Emit
    <3> QED
      BY <3>1, StoryOfOthers
  <2> QED
    BY <1>2, <2>1, StoryOfRun DEF StoryInv
<1> QED
  BY <1>1, <1>2 DEF PipelineNext, AllEnded

(* What is known of every stream is that it tells the loop.                *)
LEMMA StoryTold == StoryInv => StreamTellsLoop
BY DEF StoryInv, Tells, TellsAt, StreamTellsLoop

(* The stream a client reads tells the story of the loop, for any retry    *)
(* budget: verdicts are about the draft announced just before, the final   *)
(* state repeats the last one, and no draft is announced that nobody will  *)
(* check.                                                                  *)
THEOREM StreamIsTheLoop == PipelineSpec => []StreamTellsLoop
BY StoryTold, InitInv, NextInv, StoryInit, StoryNext, PTL DEF PipelineSpec

-----------------------------------------------------------------------------
(* Hosts.  A pipeline run is the task of a server or the side of a         *)
(* comparison; what its host does to it beyond the steps of this module is *)
(* to end it before its first step, or to make several at once.            *)
NeverBegins(r) ==
    /\ stage[r] = "created"
    /\ \E end \in {"failed", "cancelled"} : stage' = [stage EXCEPT ![r] = end]
    /\ UNCHANGED <<attempt, compiled, verdict, out>>

CreatedAtOnce ==
    /\ \A r \in Runs : stage[r] = "absent"
    /\ stage' = [r \in Runs |-> "created"]
    /\ UNCHANGED <<attempt, compiled, verdict, out>>

HostStep ==
    \/ \E r \in Runs : Create(r) \/ Advance(r) \/ Cancelled(r) \/ NeverBegins(r)
    \/ CreatedAtOnce
    \/ UNCHANGED pipelineVars

(* A step of the loop is the loop's, whoever hosts it.                     *)
LEMMA OwnStep ==
    ASSUME NEW r \in Runs, Create(r) \/ Advance(r) \/ Cancelled(r)
    PROVE  PipelineNext
BY DEF PipelineNext

(* All runs are made at once, and none knows anything yet.                 *)
LEMMA AllCreatedInv ==
    ASSUME PipelineInv, CreatedAtOnce
    PROVE  PipelineInv'
<1>1. PipelineTypeOK'
  BY DEF PipelineInv, PipelineTypeOK, Stages, CreatedAtOnce
<1>2. \A s \in Runs : (Loop(s) /\ Open(s) /\ Once(s))'
  BY DEF PipelineInv, Loop, Open, Once, NothingYet, Ended, CreatedAtOnce
<1> QED
  BY <1>1, <1>2 DEF PipelineInv

(* A run that ends before its first step has said nothing.                 *)
LEMMA NeverBegunInv ==
    ASSUME PipelineInv, NEW s \in Runs, NeverBegins(s)
    PROVE  PipelineInv'
<1>1. PipelineTypeOK'
  BY DEF PipelineInv, PipelineTypeOK, Stages, Ended, NeverBegins
<1>2. (Loop(s) /\ Open(s) /\ Once(s))'
  BY DEF PipelineInv, PipelineTypeOK, Loop, Open, Once, Ended, NeverBegins
<1>3. ASSUME NEW q \in Runs, q # s PROVE (Loop(q) /\ Open(q) /\ Once(q))'
  <2>1. /\ stage'[q] = stage[q] /\ attempt'[q] = attempt[q] /\ compiled'[q] = compiled[q]
        /\ verdict'[q] = verdict[q] /\ out'[q] = out[q]
    BY <1>3 DEF PipelineInv, PipelineTypeOK, NeverBegins
  <2> QED
    BY <1>3, <2>1, OthersKeep
<1> QED
  BY <1>1, <1>2, <1>3 DEF PipelineInv

(* A host keeps what is known of its runs,                                 *)
LEMMA HostInv == PipelineInv /\ HostStep => PipelineInv'
BY OwnStep, NextInv, AllCreatedInv, NeverBegunInv DEF HostStep

(* reviews what it ships,                                                  *)
LEMMA HostReviews == PipelineInv /\ HostStep => [Answer!Next]_(Answer!vars)
<1> SUFFICES ASSUME PipelineInv, HostStep PROVE [Answer!Next]_(Answer!vars)
  OBVIOUS
<1>1. CASE \E r \in Runs : Create(r) \/ Advance(r) \/ Cancelled(r)
  BY <1>1, OwnStep, StepReviews
<1>2. CASE UNCHANGED pipelineVars
  BY <1>2, StepReviews
<1>3. CASE CreatedAtOnce \/ \E r \in Runs : NeverBegins(r)
  <2>1. UNCHANGED <<compiled, verdict>>
    BY <1>3 DEF CreatedAtOnce, NeverBegins
  <2>2. \A q \in Runs : stage'[q] = "shipped" <=> stage[q] = "shipped"
    BY <1>3 DEF CreatedAtOnce, NeverBegins, PipelineInv, PipelineTypeOK
  <2> QED
    BY <2>1, <2>2, Unseen
<1> QED
  BY <1>1, <1>2, <1>3 DEF HostStep

(* and lets the stream tell the loop.                                      *)
LEMMA HostTells == PipelineInv /\ StoryInv /\ HostStep => StoryInv'
<1> SUFFICES ASSUME PipelineInv, StoryInv, HostStep PROVE StoryInv'
  OBVIOUS
<1>1. CASE \E r \in Runs : Create(r) \/ Advance(r) \/ Cancelled(r)
  BY <1>1, OwnStep, StoryNext
<1>2. CASE UNCHANGED pipelineVars
  BY <1>2, StoryNext
<1>3. CASE CreatedAtOnce \/ \E r \in Runs : NeverBegins(r)
  <2>1. UNCHANGED <<attempt, out>>
    BY <1>3 DEF CreatedAtOnce, NeverBegins
  <2>2. \A q \in Runs : stage'[q] = stage[q] \/ stage'[q] # "checking"
    BY <1>3 DEF CreatedAtOnce, NeverBegins, PipelineInv, PipelineTypeOK
  <2> QED
    BY <2>1, <2>2, StoryOfOthers DEF StoryInv
<1> QED
  BY <1>1, <1>2, <1>3 DEF HostStep

-----------------------------------------------------------------------------
(* What bounds a run (the safety half of RunEnds): the waits it may still  *)
(* go through.  Each check that is not the last one costs one of the       *)
(* budget, whatever the checker answers.                                   *)
Remaining(r) ==
    LET again == 2 * (MaxRetries - attempt[r]) IN
    CASE stage[r] = "absent"       -> 2 * MaxRetries + 5
      [] stage[r] = "created"      -> 2 * MaxRetries + 4
      [] stage[r] = "gathering"    -> 2 * MaxRetries + 3
      [] stage[r] = "synthesizing" -> 2 * MaxRetries + 2
      [] stage[r] = "checking"     -> again + 1
      [] stage[r] = "revising"     -> again
      [] stage[r] \in Ended        -> 0

RunOf(r) == <<stage[r], attempt[r], compiled[r], verdict[r], out[r]>>

(* No run takes a step without spending.                                   *)
Spends == \A r \in Runs : Remaining(r)' < Remaining(r) \/ UNCHANGED RunOf(r)

Bounded == \A r \in Runs : Remaining(r) \in 0 .. 2 * MaxRetries + 5

Measured(r) ==
    /\ Remaining(r) \in 0 .. 2 * MaxRetries + 5
    /\ stage[r] \notin Ended => Remaining(r) > 0
    /\ stage[r] = "absent" => Remaining(r) = 2 * MaxRetries + 5
    /\ stage[r] = "created" => Remaining(r) = 2 * MaxRetries + 4
    /\ stage[r] = "gathering" => Remaining(r) = 2 * MaxRetries + 3
    /\ stage[r] = "synthesizing" => Remaining(r) = 2 * MaxRetries + 2
    /\ stage[r] = "checking" => Remaining(r) = 2 * (MaxRetries - attempt[r]) + 1
    /\ stage[r] = "revising" => Remaining(r) = 2 * (MaxRetries - attempt[r])
    /\ stage[r] \in Ended => Remaining(r) = 0

(* What remains is a number, and it is nothing only when the run has       *)
(* ended: a run that waits has something left.                             *)
LEMMA RemainingIs == PipelineInv => \A r \in Runs : Measured(r)
<1> SUFFICES ASSUME PipelineInv, NEW r \in Runs PROVE Measured(r)
  OBVIOUS
<1>1. /\ stage[r] \in Stages /\ attempt[r] \in 0 .. MaxRetries /\ MaxRetries \in Nat
      /\ stage[r] = "revising" => attempt[r] < MaxRetries
  BY PipelineAssumption DEF PipelineInv, PipelineTypeOK, Loop
<1>2. CASE stage[r] \in Ended
  <2>1. Remaining(r) = 0
    BY <1>2 DEF Remaining, Ended
  <2> QED
    BY <1>1, <1>2, <2>1 DEF Measured, Ended
<1>3. CASE stage[r] \notin Ended
  BY <1>1, <1>3 DEF Measured, Remaining, Stages, Waiting, Ended
<1> QED
  BY <1>2, <1>3

(* It is after a step what it is then.                                     *)
LEMMA RemainingThen == PipelineInv' => (\A r \in Runs : Measured(r))'
BY RemainingIs, PTL

(* A run that moves on has less left, and its counter never moves back.    *)
LEMMA RunSpends ==
    ASSUME PipelineInv, PipelineInv', NEW r \in Runs,
           Create(r) \/ Advance(r) \/ Cancelled(r) \/ NeverBegins(r)
    PROVE  Remaining(r)' < Remaining(r)
<1>1. /\ stage \in [Runs -> Stages] /\ attempt \in [Runs -> 0 .. MaxRetries]
      /\ MaxRetries \in Nat /\ attempt[r] \in 0 .. MaxRetries
  BY PipelineAssumption DEF PipelineInv, PipelineTypeOK
<1>2. Measured(r)
  BY RemainingIs
<1>3. Measured(r)'
  BY RemainingThen
<1>4. CASE stage'[r] \in Ended
  <2>1. stage[r] \notin Ended
    BY <1>1, <1>4 DEF Create, Advance, Start, Gathered, Synthesized, Checked, Ship, Revised,
                      Fails, Cancelled, NeverBegins, Waiting, Ended
  <2> QED
    BY <1>2, <1>3, <1>4, <2>1 DEF Measured
<1>5. CASE Create(r)
  <2>1. stage[r] = "absent" /\ stage'[r] = "created"
    BY <1>1, <1>5 DEF Create
  <2> QED
    BY <1>1, <1>2, <1>3, <2>1 DEF Measured
<1>6. CASE Start(r) \/ Gathered(r)
  <2>1. \/ stage[r] = "created" /\ stage'[r] = "gathering"
        \/ stage[r] = "gathering" /\ stage'[r] = "synthesizing"
    BY <1>1, <1>6 DEF Start, Gathered
  <2> QED
    BY <1>1, <1>2, <1>3, <2>1 DEF Measured
<1>7. ASSUME NEW text \in Texts, Synthesized(r, text) PROVE Remaining(r)' < Remaining(r)
  <2>1. /\ stage[r] = "synthesizing" /\ stage'[r] = "checking"
        /\ attempt'[r] = attempt[r]
    BY <1>1, <1>7 DEF Synthesized
  <2> QED
    BY <1>1, <1>2, <1>3, <2>1 DEF Measured
<1>8. ASSUME NEW answer \in Responses, Checked(r, answer), stage'[r] \notin Ended
      PROVE  Remaining(r)' < Remaining(r)
  <2>1. /\ stage[r] = "checking" /\ stage'[r] = "revising"
        /\ attempt'[r] = attempt[r]
    BY <1>1, <1>8 DEF Checked, Ship, Ended
  <2> QED
    BY <1>1, <1>2, <1>3, <2>1 DEF Measured
<1>9. ASSUME NEW text \in Texts, Revised(r, text) PROVE Remaining(r)' < Remaining(r)
  <2>1. /\ stage[r] = "revising" /\ stage'[r] = "checking"
        /\ attempt'[r] = attempt[r] + 1
    BY <1>1, <1>9 DEF Revised
  <2> QED
    BY <1>1, <1>2, <1>3, <2>1 DEF Measured
<1>10. CASE Fails(r) \/ Cancelled(r) \/ NeverBegins(r)
  <2>1. stage'[r] \in Ended
    BY <1>1, <1>10 DEF Fails, Cancelled, NeverBegins, Ended
  <2> QED
    BY <1>4, <2>1
<1> QED
  BY <1>4, <1>5, <1>6, <1>7, <1>8, <1>9, <1>10 DEF Advance

(* A host spends for the runs it moves on and leaves the others alone.     *)
LEMMA HostSpends == PipelineInv /\ HostStep => Spends
<1> SUFFICES ASSUME PipelineInv, HostStep, NEW q \in Runs
             PROVE  Remaining(q)' < Remaining(q) \/ UNCHANGED RunOf(q)
  BY DEF Spends
<1>1. PipelineInv' /\ PipelineTypeOK
  BY HostInv DEF PipelineInv
<1>2. ASSUME NEW r \in Runs, Create(r) \/ Advance(r) \/ Cancelled(r) \/ NeverBegins(r)
      PROVE  Remaining(q)' < Remaining(q) \/ UNCHANGED RunOf(q)
  <2>1. CASE q = r
    BY <1>1, <1>2, <2>1, RunSpends
  <2>2. CASE q # r
    BY <1>1, <1>2, <2>2
       DEF PipelineTypeOK, RunOf, Create, Advance, Cancelled, NeverBegins, Start, Gathered,
           Synthesized, Checked, Ship, Revised, Fails, Emit
  <2> QED
    BY <2>1, <2>2
<1>3. CASE CreatedAtOnce
  <2>1. stage[q] = "absent" /\ stage'[q] = "created"
    BY <1>3 DEF CreatedAtOnce
  <2>2. /\ Remaining(q) = 2 * MaxRetries + 5
        /\ Remaining(q)' = 2 * MaxRetries + 4
    BY <1>1, <2>1, RemainingIs, RemainingThen DEF Measured
  <2> QED
    BY <2>2, PipelineAssumption
<1>4. CASE UNCHANGED pipelineVars
  BY <1>4 DEF pipelineVars, RunOf
<1> QED
  BY <1>2, <1>3, <1>4 DEF HostStep

(* No run goes on for ever, whatever models and checker answer: it has a   *)
(* bounded number of steps, and every step of its own spends at least one. *)
THEOREM EveryStepSpends == PipelineSpec => []Bounded /\ [][Spends]_pipelineVars
<1>1. PipelineInv => Bounded
  BY RemainingIs DEF Bounded, Measured
<1>2. PipelineInv /\ [PipelineNext]_pipelineVars => [Spends]_pipelineVars
  <2>1. PipelineNext => HostStep
    BY DEF PipelineNext, AllEnded, HostStep
  <2> QED
    BY <2>1, HostSpends
<1> QED
  BY <1>1, <1>2, InitInv, NextInv, PTL DEF PipelineSpec
=============================================================================
