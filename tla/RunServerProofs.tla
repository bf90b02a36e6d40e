-------------------------- MODULE RunServerProofs --------------------------
(***************************************************************************)
(* What is proved of module RunServer, for any runs, users and prompts.    *)
(* The facts about a run alone come from module PipelineProofs.            *)
(***************************************************************************)
EXTENDS RunServer, PipelineProofs, SequenceTheorems

(* A run that was not requested is not anyone's, and one that was cancelled *)
(* or can be was known to its owner, which takes its first step.            *)
Registered(r) ==
    /\ r \in active <=> stage[r] \notin Ended \cup {"absent"}
    /\ stage[r] # "absent" => owner[r] # Nobody
    /\ stage[r] \in {"absent", "created"} => out[r] = <<>> /\ asked[r] = Nobody
    /\ asked[r] \in {Nobody, owner[r]}
    /\ stage[r] = "cancelled" => asked[r] # Nobody
    /\ \A u \in Users : <<u, r>> \in looked => u = owner[r] /\ out[r] # <<>>

ServerInv == /\ PipelineInv
             /\ ServerTypeOK
             /\ \A r \in Runs : Registered(r)

-----------------------------------------------------------------------------
(* Initially nothing is registered and nobody has asked anything.          *)
LEMMA ServerInitInv == ServerInit => ServerInv
<1> SUFFICES ASSUME ServerInit PROVE ServerInv
  OBVIOUS
<1>1. PipelineInv
  BY InitInv DEF ServerInit
<1>2. ServerTypeOK
  <2>1. 0 \in 0 .. MaxSecond
    BY ServerAssumption
  <2>2. \A s \in Slugs : <<0, s>> \in PageNames
    BY <2>1 DEF PageNames
  <2> QED
    BY <1>1, <2>1, <2>2 DEF ServerInit, ServerTypeOK, PipelineInv
<1>3. \A r \in Runs : Registered(r)
  BY DEF ServerInit, PipelineInit, Registered
<1> QED
  BY <1>1, <1>2, <1>3 DEF ServerInv

(* A step that touches one run keeps what is known of the others.          *)
LEMMA OthersRegistered ==
    ASSUME ServerInv, NEW r \in Runs, NEW q \in Runs, q # r,
           stage'[q] = stage[q], out'[q] = out[q], owner'[q] = owner[q],
           asked'[q] = asked[q], q \in active' <=> q \in active,
           \A u \in Users : <<u, q>> \in looked' => <<u, q>> \in looked
    PROVE  Registered(q)'
BY DEF ServerInv, Registered

(* A request registers a run that has an owner and no event yet.           *)
LEMMA RequestInv ==
    ASSUME ServerInv, NEW r \in Runs, NEW u \in Users, NEW s \in Slugs, Request(r, u, s)
    PROVE  ServerInv'
<1> USE DEF ServerInv
<1>1. PipelineInv'
  BY EarlyInv DEF Request
<1>2. ServerTypeOK'
  BY <1>1, ServerAssumption DEF ServerTypeOK, Request, PipelineInv
<1>3. Registered(r)'
  BY ServerAssumption DEF Registered, Request, Create, ServerTypeOK, PipelineTypeOK, Ended
<1>4. ASSUME NEW q \in Runs, q # r PROVE Registered(q)'
  BY <1>4, OthersRegistered DEF Request, Create, ServerTypeOK, PipelineTypeOK
<1> QED
  BY <1>1, <1>2, <1>3, <1>4

(* The first step makes the id known and keeps the entry.                  *)
LEMMA BeginInv ==
    ASSUME ServerInv, NEW r \in Runs, Begin(r)
    PROVE  ServerInv'
<1> USE DEF ServerInv
<1>1. PipelineInv'
  BY EarlyInv DEF Begin
<1>2. ServerTypeOK'
  <2>1. <<now, slug[r]>> \in PageNames
    BY DEF ServerTypeOK, PageNames
  <2> QED
    BY <1>1, <2>1 DEF ServerTypeOK, Begin, PipelineInv
<1>3. Registered(r)'
  BY DEF Registered, Begin, Start, ServerTypeOK, PipelineTypeOK, Ended
<1>4. ASSUME NEW q \in Runs, q # r PROVE Registered(q)'
  BY <1>4, OthersRegistered DEF Begin, Start, Emit, ServerTypeOK, PipelineTypeOK
<1> QED
  BY <1>1, <1>2, <1>3, <1>4

(* A run that cannot begin leaves the registry.                            *)
LEMMA BeginFailsInv ==
    ASSUME ServerInv, NEW r \in Runs, BeginFails(r)
    PROVE  ServerInv'
<1> USE DEF ServerInv
<1>1. PipelineInv'
  <2>1. NeverBegins(r)
    BY DEF BeginFails, NeverBegins
  <2> QED
    BY <2>1, NeverBegunInv
<1>2. ServerTypeOK'
  <2>1. <<>> \o <<Done>> = <<Done>>
    OBVIOUS
  <2> QED
    BY <1>1, <2>1 DEF ServerTypeOK, BeginFails, CleanUp, PipelineInv
<1>3. Registered(r)'
  BY DEF Registered, BeginFails, CleanUp, ServerTypeOK, PipelineTypeOK, Ended
<1>4. ASSUME NEW q \in Runs, q # r PROVE Registered(q)'
  BY <1>4, OthersRegistered DEF BeginFails, CleanUp, ServerTypeOK, PipelineTypeOK
<1> QED
  BY <1>1, <1>2, <1>3, <1>4

(* What an advancing run does to the entries the server watches.           *)
LEMMA AdvanceEffect ==
    ASSUME PipelineInv, NEW r \in Runs, Advance(r), stage[r] # "created"
    PROVE  /\ PipelineInv'
           /\ stage[r] \in Waiting
           /\ stage'[r] \in Waiting \cup {"shipped", "failed"}
           /\ \A q \in Runs \ {r} : stage'[q] = stage[q] /\ out'[q] = out[q]
           /\ out'[r] # <<>>
<1> USE DEF PipelineInv
<1>1. PipelineInv'
  BY EarlyInv, DraftInv, CheckInv, EndInv DEF Advance
<1>2. /\ stage[r] \in Waiting
      /\ \E s \in Waiting \cup {"shipped", "failed"} : stage' = [stage EXCEPT ![r] = s]
  BY DEF Advance, Start, Gathered, Synthesized, Checked, Ship, Revised, Fails, Waiting
<1>3. PICK d, e : Emit(r, <<e>>) \/ Emit(r, <<d, e>>)
  <2>1. CASE Gathered(r) \/ Fails(r)
    BY <2>1 DEF Gathered, Fails
  <2>2. ASSUME NEW text \in Texts, Synthesized(r, text) \/ Revised(r, text)
        PROVE  \E d, e : Emit(r, <<e>>) \/ Emit(r, <<d, e>>)
    BY <2>2 DEF Synthesized, Revised
  <2>3. ASSUME NEW answer \in Responses, Checked(r, answer)
        PROVE  \E d, e : Emit(r, <<e>>) \/ Emit(r, <<d, e>>)
    BY <2>3 DEF Checked, Ship
  <2> QED
    BY <2>1, <2>2, <2>3 DEF Advance, Start
<1>4. \A q \in Runs \ {r} : stage'[q] = stage[q] /\ out'[q] = out[q]
  BY <1>2, <1>3 DEF Emit, PipelineTypeOK
<1>5. out'[r] # <<>>
  <2>1. out[r] \in Seq(Events)
    BY DEF PipelineTypeOK
  <2>2. out'[r] = out[r] \o <<e>> \/ out'[r] = out[r] \o <<d, e>>
    BY <1>3 DEF Emit, PipelineTypeOK
  <2> QED
    BY <2>1, <2>2
<1> QED
  BY <1>1, <1>2, <1>4, <1>5 DEF PipelineTypeOK

(* An advancing run stays registered until its last step.                  *)
LEMMA ProceedInv ==
    ASSUME ServerInv, NEW r \in Runs, Proceed(r)
    PROVE  ServerInv'
<1> USE DEF ServerInv
<1>1. /\ PipelineInv'
      /\ stage[r] \in Waiting
      /\ stage'[r] \in Waiting \cup {"shipped", "failed"}
      /\ \A q \in Runs \ {r} : stage'[q] = stage[q] /\ out'[q] = out[q]
      /\ out'[r] # <<>>
  BY AdvanceEffect DEF Proceed
<1>2. \/ stage'[r] \in Ended /\ tail' = [tail EXCEPT ![r] = <<Done>>] /\ active' = active \ {r}
      \/ stage'[r] \notin Ended /\ tail' = tail /\ active' = active
  <2>1. <<>> \o <<Done>> = <<Done>>
    OBVIOUS
  <2> QED
    BY <2>1 DEF Proceed, CleanUp, LastWords
<1>3. pages' \in [PageNames -> Runs \cup {NoRun}]
  BY DEF Proceed, Render, ServerTypeOK
<1>4. ServerTypeOK'
  <2>1. tail' \in [Runs -> {<<>>, <<Done>>, <<ErrorEvent, Done>>}]
    BY <1>2 DEF ServerTypeOK
  <2>2. active' \subseteq {q \in Runs : owner'[q] # Nobody}
    BY <1>2 DEF ServerTypeOK, Proceed
  <2> QED
    BY <1>1, <1>3, <2>1, <2>2 DEF ServerTypeOK, Proceed, PipelineInv
<1>5. Registered(r)'
  BY <1>1, <1>2 DEF Registered, Proceed, Waiting, Ended
<1>6. ASSUME NEW q \in Runs, q # r PROVE Registered(q)'
  BY <1>1, <1>2, <1>6, OthersRegistered DEF Proceed
<1> QED
  BY <1>1, <1>4, <1>5, <1>6

(* Two sequences of one element.                                           *)
LEMMA Pair ==
    ASSUME NEW T, NEW a \in T, NEW b \in T
    PROVE  <<a>> \o <<b>> = <<a, b>>
<1>1. <<a>> \in Seq(T) /\ <<b>> \in Seq(T) /\ <<a, b>> \in Seq(T)
  OBVIOUS
<1>2. <<a>> \o <<b>> \in Seq(T) /\ Len(<<a>> \o <<b>>) = 2
  BY <1>1
<1>3. (<<a>> \o <<b>>)[1] = a /\ (<<a>> \o <<b>>)[2] = b
  BY <1>1
<1>4. Len(<<a, b>>) = 2 /\ <<a, b>>[1] = a /\ <<a, b>>[2] = b
  OBVIOUS
<1>5. ASSUME NEW i \in 1 .. Len(<<a>> \o <<b>>) PROVE (<<a>> \o <<b>>)[i] = <<a, b>>[i]
  <2>1. i = 1 \/ i = 2
    BY <1>2
  <2> QED
    BY <1>3, <1>4, <2>1
<1> QED
  BY <1>1, <1>2, <1>4, <1>5, SeqEqual

(* A cancelled task has taken its first step, so it cleans up.             *)
LEMMA TaskCancelledInv ==
    ASSUME ServerInv, NEW r \in Runs, TaskCancelled(r)
    PROVE  ServerInv'
<1> USE DEF ServerInv
<1>1. stage[r] # "created"
  BY DEF Registered, TaskCancelled
<1>2. /\ Cancelled(r)
      /\ tail' = [tail EXCEPT ![r] = <<ErrorEvent, Done>>]
      /\ active' = active \ {r}
  <2>1. <<ErrorEvent>> \o <<Done>> = <<ErrorEvent, Done>>
    <3>1. ErrorEvent \in {ErrorEvent, Done} /\ Done \in {ErrorEvent, Done}
      OBVIOUS
    <3> QED
      BY <3>1, Pair
  <2> QED
    BY <1>1, <2>1 DEF TaskCancelled, CleanUp
<1>3. PipelineInv'
  BY <1>2, EndInv
<1>4. ServerTypeOK'
  BY <1>2, <1>3 DEF ServerTypeOK, TaskCancelled, PipelineInv
<1>5. Registered(r)'
  BY <1>2 DEF Registered, TaskCancelled, Cancelled, Waiting, Ended, PipelineInv, PipelineTypeOK
<1>6. ASSUME NEW q \in Runs, q # r PROVE Registered(q)'
  BY <1>2, <1>6, OthersRegistered
     DEF TaskCancelled, Cancelled, PipelineInv, PipelineTypeOK
<1> QED
  BY <1>3, <1>4, <1>5, <1>6

(* Nothing known of a run depends on anything a cancel request only reads. *)
LEMMA RunUntouched ==
    ASSUME PipelineInv, UNCHANGED pipelineVars
    PROVE  PipelineInv'
BY NextInv

(* A cancel request comes from the owner of a run that began.              *)
LEMMA CancelRequestInv ==
    ASSUME ServerInv, NEW r \in Runs, NEW u \in Users, CancelLookup(u, r) \/ CancelTask(u, r)
    PROVE  ServerInv'
<1> USE DEF ServerInv
<1>1. UNCHANGED pipelineVars
  BY DEF CancelLookup, CancelTask
<1>2. PipelineInv'
  BY <1>1, RunUntouched
<1>3. ServerTypeOK'
  BY <1>2 DEF ServerTypeOK, CancelLookup, CancelTask, PipelineInv
<1>4. ASSUME NEW q \in Runs PROVE Registered(q)'
  <2>1. stage'[q] = stage[q] /\ out'[q] = out[q] /\ owner'[q] = owner[q] /\ active' = active
    BY <1>1 DEF pipelineVars, CancelLookup, CancelTask
  <2>2. CASE CancelLookup(u, r)
    BY <2>1, <2>2 DEF Registered, CancelLookup, IdKnown
  <2>3. CASE CancelTask(u, r)
    <3>1. u = owner[r] /\ out[r] # <<>>
      BY <2>3 DEF CancelTask, Registered
    <3>2. asked'[q] = asked[q] \/ (q = r /\ asked'[q] = u)
      BY <2>3 DEF CancelTask, ServerTypeOK
    <3>3. \A v \in Users : <<v, q>> \in looked' => <<v, q>> \in looked
      BY <2>3 DEF CancelTask
    <3>4. stage[q] = "cancelled" => asked'[q] = asked[q]
      BY <2>3 DEF CancelTask, ServerTypeOK, Ended
    <3> QED
      BY <2>1, <3>1, <3>2, <3>3, <3>4 DEF Registered
  <2> QED
    BY <2>2, <2>3
<1> QED
  BY <1>2, <1>3, <1>4

(* The clock and a stutter change nothing that is known.                   *)
LEMMA IdleInv ==
    ASSUME ServerInv, Tick \/ UNCHANGED serverVars
    PROVE  ServerInv'
<1> USE DEF ServerInv
<1>1. PipelineInv'
  BY RunUntouched DEF Tick, serverVars
<1>2. ServerTypeOK'
  BY <1>1, ServerAssumption
     DEF ServerTypeOK, Tick, serverVars, serverOnly, PipelineInv
<1>3. \A q \in Runs : Registered(q)'
  BY DEF Registered, Tick, serverVars, serverOnly, pipelineVars
<1> QED
  BY <1>1, <1>2, <1>3

(* Every step of the server keeps the invariant.                           *)
LEMMA ServerNextInv == ServerInv /\ [ServerNext]_serverVars => ServerInv'
BY RequestInv, BeginInv, BeginFailsInv, ProceedInv, TaskCancelledInv, CancelRequestInv, IdleInv
   DEF ServerNext, AllClosed

(* The inductive invariant: beside the facts about a run, an entry of the  *)
(* registry is its owner's, and only a run that took its first step, whose *)
(* id is therefore known, can have been cancelled.                         *)
THEOREM ServerInvariant == ServerSpec => []ServerInv
BY ServerInitInv, ServerNextInv, PTL DEF ServerSpec

(* Every variable of the server keeps its type, and no run is registered   *)
(* without an owner.                                                       *)
THEOREM ServerTypeCorrect == ServerSpec => []ServerTypeOK
<1>1. ServerInv => ServerTypeOK
  BY DEF ServerInv
<1> QED
  BY <1>1, ServerInvariant, PTL

(* _active_runs holds exactly the runs whose task is not done.             *)
THEOREM RegistryIsExact == ServerSpec => []RegistryIsUnfinished
<1>1. ServerInv => RegistryIsUnfinished
  BY DEF ServerInv, Registered, RegistryIsUnfinished, ServerTypeOK
<1> QED
  BY <1>1, ServerInvariant, PTL

(* A run ends cancelled only because its owner asked.                      *)
THEOREM OnlyOwnersCancel == ServerSpec => []CancelledByOwner
<1>1. ServerInv => CancelledByOwner
  BY DEF ServerInv, Registered, CancelledByOwner
<1> QED
  BY <1>1, ServerInvariant, PTL

(* A run whose task was cancelled takes no further step of its own.        *)
THEOREM CancelledStays == ServerSpec => CancelIsFinal
<1> DEFINE Stays == \A r \in Runs : asked[r] # Nobody => stage'[r] \in {stage[r], "cancelled"}
<1>1. ServerInv /\ [ServerNext]_serverVars => [Stays]_serverVars
  <2> SUFFICES ASSUME ServerInv, [ServerNext]_serverVars,
                      NEW q \in Runs, asked[q] # Nobody
               PROVE  stage'[q] \in {stage[q], "cancelled"}
    OBVIOUS
  <2> USE DEF ServerInv
  <2>1. CASE UNCHANGED serverVars \/ Tick \/ AllClosed
    BY <2>1 DEF serverVars, pipelineVars, Tick, AllClosed
  <2>2. ASSUME NEW r \in Runs, NEW u \in Users, CancelLookup(u, r) \/ CancelTask(u, r)
        PROVE  stage'[q] = stage[q]
    BY <2>2 DEF CancelLookup, CancelTask, pipelineVars
  <2>3. ASSUME NEW r \in Runs, NEW u \in Users, NEW s \in Slugs, Request(r, u, s)
        PROVE  stage'[q] = stage[q]
    BY <2>3 DEF Request, Create, Registered, ServerTypeOK, PipelineTypeOK
  <2>4. ASSUME NEW r \in Runs, Begin(r) \/ BeginFails(r) \/ Proceed(r)
        PROVE  stage'[q] = stage[q]
    <3>1. q # r
      BY <2>4 DEF Begin, BeginFails, Proceed
    <3>2. CASE Begin(r) \/ BeginFails(r)
      BY <3>1, <3>2 DEF Begin, Start, BeginFails, ServerTypeOK, PipelineTypeOK
    <3>3. CASE Proceed(r)
      BY <3>1, <3>3, AdvanceEffect DEF Proceed
    <3> QED
      BY <2>4, <3>2, <3>3
  <2>5. ASSUME NEW r \in Runs, TaskCancelled(r) PROVE stage'[q] \in {stage[q], "cancelled"}
    BY <2>5 DEF TaskCancelled, Cancelled, ServerTypeOK, PipelineTypeOK
  <2> QED
    BY <2>1, <2>2, <2>3, <2>4, <2>5 DEF ServerNext
<1>2. ServerSpec => [][Stays]_serverVars
  BY <1>1, ServerInvariant, PTL DEF ServerSpec
<1> QED
  BY <1>2 DEF CancelIsFinal

-----------------------------------------------------------------------------
(* What the runner put in the stream tells how the run ended: nothing yet, *)
(* nothing but the end when the pipeline said so itself or never began, or *)
(* the error of a cancellation the pipeline was silent about.              *)
ClosedAsEnded(r) ==
    /\ stage[r] \notin Ended => tail[r] = <<>>
    /\ stage[r] \in {"shipped", "failed"} =>
          /\ tail[r] = <<Done>>
          /\ out[r] = <<>> \/ LastEvent(r).event \in Terminal
    /\ stage[r] = "cancelled" =>
          /\ tail[r] = <<ErrorEvent, Done>>
          /\ \A i \in 1 .. Len(out[r]) : out[r][i].event \notin Terminal

ClosedInv == \A r \in Runs : ClosedAsEnded(r)

(* The pipeline ends a run of its own with an event that says so.          *)
LEMMA EndsSayingSo ==
    ASSUME PipelineInv, NEW r \in Runs, Advance(r), stage'[r] \in Ended
    PROVE  stage'[r] \in {"shipped", "failed"} /\ LastEvent(r)'.event \in Terminal
<1>1. out \in [Runs -> Seq(Events)] /\ stage \in [Runs -> Stages] /\ out[r] \in Seq(Events)
  BY DEF PipelineInv, PipelineTypeOK
<1>2. CASE Fails(r)
  <2>1. ErrorEvent \in Events /\ ErrorEvent.event \in Terminal
    BY PipelineAssumption DEF ErrorEvent, Event, Events, Terminal
  <2>2. out'[r] = out[r] \o <<ErrorEvent>> /\ stage'[r] = "failed"
    BY <1>1, <1>2 DEF Fails, Emit
  <2>3. Len(out'[r]) = Len(out[r]) + 1 /\ out'[r][Len(out[r]) + 1] = ErrorEvent
    BY <1>1, <2>1, <2>2
  <2> QED
    BY <2>1, <2>2, <2>3 DEF LastEvent
<1>3. ASSUME NEW answer \in Responses, Checked(r, answer)
      PROVE  stage'[r] \in {"shipped", "failed"} /\ LastEvent(r)'.event \in Terminal
  <2>1. PICK rendered \in BOOLEAN : Ship(r, answer, rendered)
    BY <1>1, <1>3 DEF Checked, Ended
  <2> DEFINE d == VetoEvent(r, answer)
             e == IF rendered THEN Event("run_state", attempt[r] + 1, Approves(answer))
                              ELSE ErrorEvent
  <2>2. d \in Events /\ e \in Events
    BY VetoType DEF PipelineInv
  <2>3. e.event \in Terminal
    BY DEF Event, ErrorEvent, Terminal
  <2>4. Emit(r, <<d, e>>) /\ stage'[r] \in {"shipped", "failed"}
    BY <1>1, <2>1 DEF Ship
  <2> HIDE DEF d, e
  <2>5. out'[r] = out[r] \o <<d, e>>
    BY <1>1, <2>4 DEF Emit
  <2>6. Len(out'[r]) = Len(out[r]) + 2 /\ out'[r][Len(out[r]) + 2] = e
    BY <1>1, <2>2, <2>5
  <2> QED
    BY <2>3, <2>4, <2>6 DEF LastEvent
<1>4. CASE \/ Start(r) \/ Gathered(r)
           \/ \E text \in Texts : Synthesized(r, text) \/ Revised(r, text)
  BY <1>1, <1>4 DEF Start, Gathered, Synthesized, Revised, Ended
<1> QED
  BY <1>2, <1>3, <1>4 DEF Advance

(* A run whose stage, events and tail stay is closed as it was.            *)
LEMMA ClosedOthers ==
    ASSUME NEW q \in Runs, ClosedAsEnded(q), stage'[q] = stage[q], out'[q] = out[q],
           tail'[q] = tail[q]
    PROVE  ClosedAsEnded(q)'
BY DEF ClosedAsEnded, LastEvent

(* No stream is open at the start.                                         *)
LEMMA ClosedInit == ServerInit => ClosedInv
BY DEF ServerInit, PipelineInit, ClosedInv, ClosedAsEnded, Ended

(* Every step keeps closed streams closed.                                 *)
LEMMA ClosedNext == ServerInv /\ ClosedInv /\ [ServerNext]_serverVars => ClosedInv'
<1> SUFFICES ASSUME ServerInv, ClosedInv, [ServerNext]_serverVars PROVE ClosedInv'
  OBVIOUS
<1>1. /\ PipelineInv /\ \A r \in Runs : Registered(r) /\ ClosedAsEnded(r) /\ Open(r)
      /\ out \in [Runs -> Seq(Events)] /\ stage \in [Runs -> Stages]
      /\ tail \in [Runs -> {<<>>, <<Done>>, <<ErrorEvent, Done>>}]
  BY DEF ServerInv, ServerTypeOK, PipelineInv, PipelineTypeOK, ClosedInv
<1>2. ASSUME UNCHANGED <<stage, out, tail>> PROVE ClosedInv'
  BY <1>1, <1>2, ClosedOthers DEF ClosedInv
<1>3. ASSUME NEW r \in Runs, NEW u \in Users, NEW s \in Slugs, Request(r, u, s)
      PROVE  ClosedInv'
  <2>1. stage' = [stage EXCEPT ![r] = "created"] /\ stage[r] = "absent"
        /\ tail' = tail /\ out' = out
    BY <1>3 DEF Request, Create
  <2>2. ClosedAsEnded(r)'
    BY <1>1, <2>1 DEF ClosedAsEnded, Ended
  <2>3. ASSUME NEW q \in Runs, q # r PROVE ClosedAsEnded(q)'
    BY <1>1, <2>1, <2>3, ClosedOthers
  <2> QED
    BY <2>2, <2>3 DEF ClosedInv
<1>4. ASSUME NEW r \in Runs, Begin(r) PROVE ClosedInv'
  <2>1. stage' = [stage EXCEPT ![r] = "gathering"] /\ stage[r] = "created" /\ tail' = tail
        /\ \A q \in Runs : q # r => out'[q] = out[q]
    BY <1>1, <1>4 DEF Begin, Start, Emit
  <2>2. ClosedAsEnded(r)'
    BY <1>1, <2>1 DEF ClosedAsEnded, Ended
  <2>3. ASSUME NEW q \in Runs, q # r PROVE ClosedAsEnded(q)'
    BY <1>1, <2>1, <2>3, ClosedOthers
  <2> QED
    BY <2>2, <2>3 DEF ClosedInv
<1>5. ASSUME NEW r \in Runs, BeginFails(r) PROVE ClosedInv'
  <2>1. <<>> \o <<Done>> = <<Done>>
    OBVIOUS
  <2>2. stage' = [stage EXCEPT ![r] = "failed"] /\ stage[r] = "created" /\ out' = out
        /\ tail' = [tail EXCEPT ![r] = <<Done>>]
    BY <1>5, <2>1 DEF BeginFails, CleanUp
  <2>3. out[r] = <<>>
    BY <1>1, <2>2 DEF Registered
  <2>4. ClosedAsEnded(r)'
    BY <1>1, <2>2, <2>3 DEF ClosedAsEnded, Ended
  <2>5. ASSUME NEW q \in Runs, q # r PROVE ClosedAsEnded(q)'
    BY <1>1, <2>2, <2>5, ClosedOthers
  <2> QED
    BY <2>4, <2>5 DEF ClosedInv
<1>6. ASSUME NEW r \in Runs, Proceed(r) PROVE ClosedInv'
  <2>1. /\ stage[r] \in Waiting
        /\ stage'[r] \in Waiting \cup {"shipped", "failed"}
        /\ \A q \in Runs \ {r} : stage'[q] = stage[q] /\ out'[q] = out[q]
    BY <1>1, <1>6, AdvanceEffect DEF Proceed
  <2>2. CASE stage'[r] \in Ended
    <3>1. <<>> \o <<Done>> = <<Done>>
      OBVIOUS
    <3>2. tail' = [tail EXCEPT ![r] = <<Done>>]
      BY <1>6, <2>2, <3>1 DEF Proceed, CleanUp, LastWords
    <3>3. stage'[r] \in {"shipped", "failed"} /\ LastEvent(r)'.event \in Terminal
      BY <1>1, <1>6, <2>2, EndsSayingSo DEF Proceed
    <3>4. ClosedAsEnded(r)'
      BY <1>1, <3>2, <3>3 DEF ClosedAsEnded, Ended
    <3>5. ASSUME NEW q \in Runs, q # r PROVE ClosedAsEnded(q)'
      BY <1>1, <2>1, <3>2, <3>5, ClosedOthers
    <3> QED
      BY <3>4, <3>5 DEF ClosedInv
  <2>3. CASE stage'[r] \notin Ended
    <3>1. tail' = tail
      BY <1>6, <2>3 DEF Proceed
    <3>2. ClosedAsEnded(r)'
      BY <1>1, <2>1, <2>3, <3>1 DEF ClosedAsEnded, Waiting, Ended
    <3>3. ASSUME NEW q \in Runs, q # r PROVE ClosedAsEnded(q)'
      BY <1>1, <2>1, <3>1, <3>3, ClosedOthers
    <3> QED
      BY <3>2, <3>3 DEF ClosedInv
  <2> QED
    BY <2>2, <2>3
<1>7. ASSUME NEW r \in Runs, TaskCancelled(r) PROVE ClosedInv'
  <2>1. <<ErrorEvent>> \o <<Done>> = <<ErrorEvent, Done>>
    <3>1. ErrorEvent \in {ErrorEvent, Done} /\ Done \in {ErrorEvent, Done}
      OBVIOUS
    <3> QED
      BY <3>1, Pair
  <2>2. stage[r] # "created"
    BY <1>1, <1>7 DEF Registered, TaskCancelled
  <2>3. /\ stage[r] \in Waiting /\ stage' = [stage EXCEPT ![r] = "cancelled"]
        /\ out' = out /\ tail' = [tail EXCEPT ![r] = <<ErrorEvent, Done>>]
    BY <1>7, <2>1, <2>2 DEF TaskCancelled, Cancelled, CleanUp
  <2>4. ClosedAsEnded(r)'
    BY <1>1, <2>3 DEF ClosedAsEnded, Open, Waiting, Ended
  <2>5. ASSUME NEW q \in Runs, q # r PROVE ClosedAsEnded(q)'
    BY <1>1, <2>3, <2>5, ClosedOthers
  <2> QED
    BY <2>4, <2>5 DEF ClosedInv
<1>8. ASSUME NEW r \in Runs, NEW u \in Users, CancelLookup(u, r) \/ CancelTask(u, r)
      PROVE  ClosedInv'
  BY <1>2, <1>8 DEF CancelLookup, CancelTask, pipelineVars
<1>9. CASE Tick \/ AllClosed \/ UNCHANGED serverVars
  BY <1>2, <1>9 DEF Tick, AllClosed, serverVars, serverOnly, pipelineVars
<1> QED
  BY <1>3, <1>4, <1>5, <1>6, <1>7, <1>8, <1>9 DEF ServerNext

(* A closed stream told its reader how the run ended in exactly one last   *)
(* event, wherever failure and cancellation met it.                        *)
THEOREM StreamsCloseOnce == ServerSpec => []ClosedOnce
<1>1. ASSUME ServerInv, ClosedInv PROVE ClosedOnce
  <2> DEFINE told(r) == {i \in 1 .. Len(Stream(r)) : Stream(r)[i].event \in Terminal}
  <2> SUFFICES ASSUME NEW r \in Runs
      PROVE  /\ Closed(r) <=> tail[r] # <<>>
             /\ Closed(r) => told(r) = {Len(Stream(r)) - 1} \/ (out[r] = <<>> /\ told(r) = {})
             /\ ~Closed(r) => \A i \in 1 .. Len(out[r]) : out[r][i].event \notin Terminal
    BY DEF ClosedOnce
  <2>1. /\ ClosedAsEnded(r) /\ Open(r) /\ Once(r)
        /\ tail[r] \in {<<>>, <<Done>>, <<ErrorEvent, Done>>}
        /\ out[r] \in Seq(Events) /\ stage[r] \in Stages
    BY <1>1 DEF ServerInv, ServerTypeOK, PipelineInv, PipelineTypeOK, ClosedInv
  <2>2. Closed(r) <=> tail[r] # <<>>
    <3>1. CASE tail[r] = <<>>
      BY <3>1 DEF Closed
    <3>2. CASE tail[r] = <<Done>>
      <4>1. Len(<<Done>>) = 1 /\ <<Done>>[1] = Done /\ <<Done>> # <<>>
        OBVIOUS
      <4> QED
        BY <3>2, <4>1 DEF Closed
    <3>3. CASE tail[r] = <<ErrorEvent, Done>>
      <4>1. /\ Len(<<ErrorEvent, Done>>) = 2 /\ <<ErrorEvent, Done>>[2] = Done
            /\ <<ErrorEvent, Done>> # <<>>
        OBVIOUS
      <4> QED
        BY <3>3, <4>1 DEF Closed
    <3> QED
      BY <2>1, <3>1, <3>2, <3>3
  <2>3. ErrorEvent.event \in Terminal /\ Done.event \notin Terminal
    BY DEF ErrorEvent, Done, Event, Terminal
  <2>4. CASE tail[r] = <<>>
    BY <2>1, <2>2, <2>4 DEF ClosedAsEnded, Open, Ended
  <2>5. CASE tail[r] = <<Done>>
    <3>1. Len(Stream(r)) = Len(out[r]) + 1 /\ Stream(r)[Len(out[r]) + 1] = Done
          /\ \A i \in 1 .. Len(out[r]) : Stream(r)[i] = out[r][i]
      BY <2>1, <2>5 DEF Stream
    <3>2. out[r] = <<>> \/ LastEvent(r).event \in Terminal
      BY <2>1, <2>5 DEF ClosedAsEnded, Stages, Ended
    <3>3. CASE out[r] = <<>>
      BY <2>2, <2>3, <2>5, <3>1, <3>3
    <3>4. CASE out[r] # <<>>
      <4>1. Len(out[r]) \in 1 .. Len(out[r])
        BY <2>1, <3>4
      <4>2. told(r) = {Len(out[r])}
        BY <2>1, <2>3, <3>1, <3>2, <3>4, <4>1 DEF Once, LastEvent
      <4> QED
        BY <2>1, <2>2, <2>5, <3>1, <4>2
    <3> QED
      BY <3>3, <3>4
  <2>6. CASE tail[r] = <<ErrorEvent, Done>>
    <3>1. Len(Stream(r)) = Len(out[r]) + 2 /\ Stream(r)[Len(out[r]) + 1] = ErrorEvent
          /\ Stream(r)[Len(out[r]) + 2] = Done
          /\ \A i \in 1 .. Len(out[r]) : Stream(r)[i] = out[r][i]
      BY <2>1, <2>6 DEF Stream
    <3>2. \A i \in 1 .. Len(out[r]) : out[r][i].event \notin Terminal
      BY <2>1, <2>6 DEF ClosedAsEnded, Stages, Ended
    <3>3. told(r) = {Len(out[r]) + 1}
      BY <2>1, <2>3, <3>1, <3>2
    <3> QED
      BY <2>1, <2>2, <2>6, <3>1, <3>3
  <2> QED
    BY <2>1, <2>4, <2>5, <2>6
<1> QED
  BY <1>1, ServerInitInv, ServerNextInv, ClosedInit, ClosedNext, PTL DEF ServerSpec

-----------------------------------------------------------------------------
(* Composition: whatever the server does is, for the pipeline of a run, a  *)
(* step of its own, its end before the first step, or nothing at all.      *)
LEMMA ServerHosts == ServerInv /\ [ServerNext]_serverVars => HostStep
<1> SUFFICES ASSUME ServerInv, [ServerNext]_serverVars PROVE HostStep
  OBVIOUS
<1>1. ASSUME NEW r \in Runs, NEW u \in Users, NEW s \in Slugs, Request(r, u, s)
      PROVE  HostStep
  BY <1>1 DEF Request, HostStep
<1>2. ASSUME NEW r \in Runs, Begin(r) \/ Proceed(r) PROVE HostStep
  BY <1>2 DEF Begin, Proceed, Advance, HostStep
<1>3. ASSUME NEW r \in Runs, BeginFails(r) PROVE HostStep
  BY <1>3 DEF BeginFails, NeverBegins, HostStep
<1>4. ASSUME NEW r \in Runs, TaskCancelled(r) PROVE HostStep
  <2>1. Cancelled(r) \/ NeverBegins(r)
    BY <1>4 DEF TaskCancelled, NeverBegins
  <2> QED
    BY <2>1 DEF HostStep
<1>5. ASSUME NEW r \in Runs, NEW u \in Users, CancelLookup(u, r) \/ CancelTask(u, r)
      PROVE  HostStep
  BY <1>5 DEF CancelLookup, CancelTask, HostStep
<1>6. CASE Tick \/ AllClosed \/ UNCHANGED serverVars
  BY <1>6 DEF Tick, AllClosed, serverVars, HostStep
<1> QED
  BY <1>1, <1>2, <1>3, <1>4, <1>5, <1>6 DEF ServerNext

(* The server implements ReviewedAnswer too: requests, cancellations that  *)
(* race the last answer and runs that cannot begin included, no unreviewed *)
(* draft ships.                                                            *)
THEOREM ServerShipsReviewed == ServerSpec => ShipsReviewed
<1>1. ServerInit => Answer!Init
  BY AnswerInit DEF ServerInit
<1>2. ServerInv /\ [ServerNext]_serverVars => [Answer!Next]_(Answer!vars)
  BY ServerHosts, HostReviews DEF ServerInv
<1> QED
  BY <1>1, <1>2, ServerInitInv, ServerNextInv, PTL DEF ServerSpec, ShipsReviewed, Answer!Spec

(* Behind the endpoints a run still announces what was reviewed, tells its *)
(* loop and ends its stream once.                                          *)
THEOREM ServerKeepsStory ==
    ServerSpec => [](ShippedAsReviewed /\ StreamTellsLoop /\ OneTerminalEvent)
<1>1. ServerInit => StoryInv
  BY StoryInit DEF ServerInit
<1>2. ServerInv /\ StoryInv /\ [ServerNext]_serverVars => StoryInv'
  BY ServerHosts, HostTells DEF ServerInv
<1>3. ServerInv /\ StoryInv => ShippedAsReviewed /\ StreamTellsLoop /\ OneTerminalEvent
  BY AsReviewed, StoryTold, NothingAfterTheEnd DEF ServerInv
<1> QED
  BY <1>1, <1>2, <1>3, ServerInitInv, ServerNextInv, PTL DEF ServerSpec

(* The server gives no run more steps than its budget has: no request and  *)
(* no cancellation makes a run start over or go round once more.           *)
THEOREM ServerRunsSpend == ServerSpec => []Bounded /\ [][Spends]_serverVars
<1>1. ServerInv => Bounded
  BY RemainingIs DEF ServerInv, Bounded, Measured
<1>2. ServerInv /\ [ServerNext]_serverVars => [Spends]_serverVars
  BY ServerHosts, HostSpends DEF ServerInv
<1> QED
  BY <1>1, <1>2, ServerInitInv, ServerNextInv, PTL DEF ServerSpec
=============================================================================
