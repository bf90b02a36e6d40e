-------------------------- MODULE ComparisonProofs --------------------------
(***************************************************************************)
(* What is proved of module Comparison, for any roles, departments, paths, *)
(* configs, texts, answers and retry budget.  The facts about a side alone *)
(* come from module PipelineProofs.                                        *)
(***************************************************************************)
EXTENDS Comparison, PipelineProofs, SubsequenceProofs

RunnerWords == {"compare_started", "compare_result", "compare_failed", "error", "done"}
Frames ==
    [side : Runs \cup {NoSide},
     event : Events \cup {Event(name, 0, FALSE) : name \in RunnerWords \cup {"gatherer_result"}}]

(* The runner creates both sides, which end without it only if it was      *)
(* cancelled; only then does a side end cancelled.                         *)
Course ==
    /\ runner \in {"idle", "created", "waiting", "done"}
    /\ runner \in {"idle", "created"} => \A s \in Runs : stage[s] = "absent"
    /\ asked => runner \in {"waiting", "done"}
    /\ runner = "done" /\ ~asked => BothBack
    /\ \A s \in Runs : stage[s] = "cancelled" => asked

(* Up to n the runner itself said compare_started and nothing else.        *)
Quiet(n) ==
    \A i \in 1 .. n : stream[i].side = NoSide => stream[i].event.event = "compare_started"

(* The stream while the runner waits, and as it left it.                   *)
Outcome ==
    /\ runner # "done" => Quiet(Len(stream)) /\ diff = <<>>
    /\ runner = "done" =>
          /\ Len(stream) >= 2
          /\ Quiet(Len(stream) - 2)
          /\ stream[Len(stream)] = Done
          /\ \/ asked /\ stream[Len(stream) - 1] = CancelledFrame /\ diff = <<>>
             \/ /\ ~asked /\ Whole
                /\ stream[Len(stream) - 1] = Named("compare_result") /\ diff = <<BuildDiff>>
             \/ /\ ~asked /\ ~Whole
                /\ stream[Len(stream) - 1] = Named("compare_failed") /\ diff = <<>>

(* A side gathered nothing before it loaded its permissions; while it      *)
(* gathers, what is not there now counts as lost; and its own reading and  *)
(* what it saw and lost decide what it has and what it was denied.         *)
Gated(s) ==
    /\ stage[s] \in {"absent", "created"} => sources[s] = {} /\ denied[s] = {}
    /\ stage[s] = "gathering" => Documents \ store \subseteq lost[s]
    /\ sources[s] \subseteq Readable(role[s], perms[s], config) \cap seen[s]
    /\ \A p \in denied[s] : \E i \in seen[s] :
          i[2] = p /\ (i \notin Readable(role[s], perms[s], config) \/ i \in lost[s])

(* The answer of a side that shipped is in the stream.                     *)
Heard(s) ==
    stage[s] = "shipped" =>
        \E i \in 1 .. Len(stream) :
            stream[i].side = s /\ stream[i].event.event = "run_state"

Typed ==
    /\ PipelineInv
    /\ stream \in Seq(Frames)
    /\ DOMAIN perms = Runs /\ DOMAIN sources = Runs /\ DOMAIN denied = Runs
    /\ DOMAIN seen = Runs /\ DOMAIN lost = Runs

CompInv ==
    /\ Typed /\ Course /\ Outcome
    /\ \A s \in Runs : Gated(s) /\ Heard(s)

-----------------------------------------------------------------------------
(* Initially nothing was asked and nothing said.                           *)
LEMMA CompInitInv == ComparisonInit => CompInv
<1> SUFFICES ASSUME ComparisonInit PROVE CompInv
  OBVIOUS
<1>1. Typed
  BY InitInv DEF ComparisonInit, Typed
<1>2. Course
  BY DEF ComparisonInit, PipelineInit, Course
<1>3. Outcome
  BY DEF ComparisonInit, Outcome, Quiet
<1>4. \A s \in Runs : Gated(s) /\ Heard(s)
  BY DEF ComparisonInit, PipelineInit, Gated, Heard
<1> QED
  BY <1>1, <1>2, <1>3, <1>4 DEF CompInv

(* What the runner says is a frame of no side.                             *)
LEMMA RunnerFrame ==
    ASSUME NEW name \in RunnerWords
    PROVE  /\ Named(name) \in Frames
           /\ Named(name).side = NoSide /\ Named(name).event.event = name
BY DEF Named, Frame, Frames, Event

(* Two sequences, one after the other.                                     *)
LEMMA Joined ==
    ASSUME NEW S, NEW a \in Seq(S), NEW b \in Seq(S)
    PROVE  /\ a \o b \in Seq(S) /\ Len(a \o b) = Len(a) + Len(b)
           /\ \A i \in 1 .. Len(a) : (a \o b)[i] = a[i]
           /\ \A i \in 1 .. Len(b) : (a \o b)[Len(a) + i] = b[i]
OBVIOUS

(* One value, or none, is a sequence.                                      *)
LEMMA OneOrNone ==
    ASSUME NEW S, NEW x \in S, NEW q, q = <<x>> \/ q = <<>>
    PROVE  q \in Seq(S)
<1>1. <<x>> \in Seq(S) /\ <<>> \in Seq(S)
  OBVIOUS
<1> QED
  BY <1>1

(* What a side emitted in a step is of events, and ends as its stream does. *)
LEMMA EmittedEnds ==
    ASSUME NEW s \in Runs, out[s] \in Seq(Events), out'[s] \in Seq(Events)
    PROVE  /\ Emitted(s) \in Seq(Events)
           /\ Len(out'[s]) > Len(out[s]) =>
                 Len(Emitted(s)) >= 1 /\ Emitted(s)[Len(Emitted(s))] = LastEvent(s)'
<1> DEFINE b == out'[s]
           m == Len(out[s]) + 1
           n == Len(b)
           d == Emitted(s)
<1>1. m \in Int /\ n \in Int /\ m >= 1 /\ \A i \in m .. n : b[i] \in Events
  OBVIOUS
<1>2. d = SubSeq(b, m, n) /\ (Len(out'[s]) > Len(out[s]) <=> m <= n)
  BY DEF Emitted
<1>5. LastEvent(s)' = b[n]
  BY DEF LastEvent
<1> HIDE DEF b, m, n, d
<1>3. /\ SubSeq(b, m, n) \in Seq(Events)
      /\ Len(SubSeq(b, m, n)) = IF m <= n THEN n - m + 1 ELSE 0
      /\ \A i \in 1 .. n - m + 1 : SubSeq(b, m, n)[i] = b[m + i - 1]
  BY <1>1, SubSeqProperties
<1>4. ASSUME m <= n PROVE Len(d) >= 1 /\ d[Len(d)] = b[n]
  <2> DEFINE k == n - m + 1
  <2>1. k \in Int /\ k >= 1 /\ k \in 1 .. k /\ m + k - 1 = n
    BY <1>1, <1>4
  <2>2. Len(SubSeq(b, m, n)) = k
    BY <1>3, <1>4
  <2>3. SubSeq(b, m, n)[k] = b[m + k - 1]
    BY <1>3, <2>1
  <2> HIDE DEF k
  <2> QED
    BY <1>2, <2>1, <2>2, <2>3
<1>6. d \in Seq(Events)
  BY <1>2, <1>3
<1> QED
  BY <1>2, <1>4, <1>5, <1>6 DEF d

(* tagged() gives each event its side.                                     *)
LEMMA TaggedFrames ==
    ASSUME NEW s, NEW S, NEW T, \A e \in S : Frame(s, e) \in T, NEW all \in Seq(S)
    PROVE  /\ Tagged(s, all) \in Seq(T) /\ Len(Tagged(s, all)) = Len(all)
           /\ \A i \in 1 .. Len(all) : Tagged(s, all)[i] = Frame(s, all[i])
<1>1. Len(all) \in Nat /\ \A i \in 1 .. Len(all) : Frame(s, all[i]) \in T
  OBVIOUS
<1> QED
  BY <1>1 DEF Tagged

SideEvents ==
    Events \cup {Event(name, 0, FALSE) : name \in RunnerWords \cup {"gatherer_result"}}

(* A side's frames are appended, and each of them carries the side.        *)
LEMMA Forwarded ==
    ASSUME stream \in Seq(Frames), NEW s \in Runs, out[s] \in Seq(Events),
           out'[s] \in Seq(Events),
           NEW before, before \in {<<>>, <<Event("gatherer_result", 0, FALSE)>>},
           Forward(s, before)
    PROVE  /\ stream' \in Seq(Frames)
           /\ Len(stream') >= Len(stream)
           /\ \A i \in 1 .. Len(stream) : stream'[i] = stream[i]
           /\ \A i \in 1 .. Len(stream') : i > Len(stream) => stream'[i].side = s
           /\ Len(out'[s]) > Len(out[s]) =>
                 \E i \in 1 .. Len(stream') :
                     stream'[i].side = s /\ stream'[i].event = LastEvent(s)'
<1> DEFINE Mine == {f \in Frames : f.side = s}
           told == Emitted(s)
           all == before \o told
           tagged == Tagged(s, all)
           own == Reported(s)
           more == tagged \o own
           last == LastEvent(s)'
<1>1. /\ told \in Seq(Events)
      /\ Len(out'[s]) > Len(out[s]) => Len(told) >= 1 /\ told[Len(told)] = last
  BY EmittedEnds
<1>2. stream' = (stream \o tagged) \o own
  BY DEF Forward
<1>3. Event("gatherer_result", 0, FALSE) \in SideEvents /\ ErrorEvent \in SideEvents
      /\ \A e \in Events : e \in SideEvents
  BY DEF SideEvents, ErrorEvent, RunnerWords
<1>4. \A e \in SideEvents : Frame(s, e) \in Mine /\ Frame(s, e).event = e
  BY DEF Frame, Frames, SideEvents
<1>5. Mine \subseteq Frames /\ \A f \in Mine : f.side = s
  OBVIOUS
<1>6. own \in Seq(Mine)
  <2> DEFINE f == Frame(s, ErrorEvent)
  <2>1. f \in Mine
    BY <1>3, <1>4
  <2>2. own = <<f>> \/ own = <<>>
    BY DEF Reported
  <2> HIDE DEF Mine, f, own
  <2> QED
    BY <2>1, <2>2, OneOrNone
<1> HIDE DEF Mine, told, own, last
<1>7. before \in Seq(SideEvents) /\ told \in Seq(SideEvents)
  <2>1. <<>> \in Seq(SideEvents) /\ <<Event("gatherer_result", 0, FALSE)>> \in Seq(SideEvents)
    <3> DEFINE g == Event("gatherer_result", 0, FALSE)
    <3>1. g \in SideEvents
      BY <1>3
    <3> HIDE DEF g
    <3>2. <<>> \in Seq(SideEvents) /\ <<g>> \in Seq(SideEvents)
      BY <3>1
    <3> QED
      BY <3>2 DEF g
  <2>2. told \in Seq(SideEvents)
    BY <1>1, <1>3
  <2> QED
    BY <2>1, <2>2
<1>8. all \in Seq(SideEvents) /\ Len(all) = Len(before) + Len(told)
      /\ \A i \in 1 .. Len(told) : all[Len(before) + i] = told[i]
  BY <1>7, Joined
<1> HIDE DEF all
<1>9. tagged \in Seq(Mine) /\ Len(tagged) = Len(all)
      /\ \A i \in 1 .. Len(all) : tagged[i] = Frame(s, all[i])
  <2> DEFINE said == SideEvents
  <2>1. (\A e \in said : Frame(s, e) \in Mine) /\ all \in Seq(said)
    BY <1>4, <1>8
  <2> HIDE DEF said
  <2> QED
    BY ONLY <2>1, TaggedFrames
<1> HIDE DEF tagged
<1>10. tagged \in Seq(Frames) /\ own \in Seq(Frames)
       /\ (\A i \in 1 .. Len(tagged) : tagged[i].side = s)
       /\ (\A i \in 1 .. Len(own) : own[i].side = s)
  BY <1>5, <1>6, <1>9
<1> DEFINE half == stream \o tagged
           n == Len(stream)
           t == Len(tagged)
           w == Len(own)
<1>11. /\ half \in Seq(Frames) /\ Len(half) = n + t
       /\ \A i \in 1 .. n : half[i] = stream[i]
       /\ \A i \in 1 .. t : half[n + i] = tagged[i]
  BY <1>10, Joined
<1> HIDE DEF half
<1>12. /\ stream' \in Seq(Frames) /\ Len(stream') = Len(half) + w
       /\ \A i \in 1 .. Len(half) : stream'[i] = half[i]
       /\ \A i \in 1 .. w : stream'[Len(half) + i] = own[i]
  BY <1>2, <1>10, <1>11, Joined DEF half
<1>13. n \in Nat /\ t \in Nat /\ w \in Nat
  BY <1>10
<1> HIDE DEF n, t, w
<1>14. /\ Len(stream') = n + t + w
       /\ \A i \in 1 .. n : stream'[i] = stream[i]
       /\ \A i \in 1 .. t : stream'[n + i] = tagged[i]
       /\ \A i \in 1 .. w : stream'[n + t + i] = own[i]
  BY <1>11, <1>12, <1>13
<1>15. ASSUME NEW i \in 1 .. Len(stream'), i > n PROVE stream'[i].side = s
  <2>1. CASE i <= n + t
    <3>1. i - n \in 1 .. t /\ i = n + (i - n)
      BY <1>13, <2>1, <1>15
    <3> QED
      BY <1>10, <1>14, <3>1 DEF t
  <2>2. CASE i > n + t
    <3>1. i - (n + t) \in 1 .. w /\ i = n + t + (i - (n + t))
      BY <1>13, <1>14, <2>2, <1>15
    <3> QED
      BY <1>10, <1>14, <3>1 DEF w
  <2> QED
    BY <1>13, <2>1, <2>2
<1>16. ASSUME Len(out'[s]) > Len(out[s])
       PROVE  \E i \in 1 .. Len(stream') : stream'[i].side = s /\ stream'[i].event = last
  <2> DEFINE k == Len(before) + Len(told)
  <2>1. Len(told) \in 1 .. Len(told) /\ told[Len(told)] = last /\ Len(before) \in Nat
    BY <1>1, <1>7, <1>16
  <2>2. k \in 1 .. Len(all) /\ all[k] = last
    BY <1>8, <2>1
  <2>3. k \in 1 .. t /\ tagged[k] = Frame(s, last) /\ last \in SideEvents
    <3>1. tagged[k] = Frame(s, all[k]) /\ k \in 1 .. t
      BY <1>9, <2>2 DEF t
    <3>2. all[k] \in SideEvents
      BY <1>8, <2>2
    <3> QED
      BY <2>2, <3>1, <3>2
  <2>4. n + k \in 1 .. Len(stream') /\ stream'[n + k] = Frame(s, last)
    BY <1>13, <1>14, <2>3
  <2> QED
    BY <2>4 DEF Frame
<1> QED
  BY <1>12, <1>13, <1>14, <1>15, <1>16 DEF n, last

-----------------------------------------------------------------------------
(* A side speaks: the runner is waiting, and only the side's own part of   *)
(* the invariant is at stake.                                              *)
LEMMA SideSpeaks ==
    ASSUME CompInv, PipelineInv', NEW s \in Runs, ~asked, stage[s] \notin Ended \cup {"absent"},
           stage'[s] # "cancelled",
           \A q \in Runs \ {s} : stage'[q] = stage[q] /\ out'[q] = out[q],
           NEW before, before \in {<<>>, <<Event("gatherer_result", 0, FALSE)>>},
           Forward(s, before),
           UNCHANGED <<store, config, role, runner, asked, diff>>,
           DOMAIN perms' = Runs, DOMAIN sources' = Runs, DOMAIN denied' = Runs,
           DOMAIN seen' = Runs, DOMAIN lost' = Runs,
           \A q \in Runs \ {s} : /\ perms'[q] = perms[q] /\ sources'[q] = sources[q]
                                 /\ denied'[q] = denied[q]
                                 /\ seen'[q] = seen[q] /\ lost'[q] = lost[q],
           Gated(s)',
           stage'[s] = "shipped" =>
              Len(out'[s]) > Len(out[s]) /\ LastEvent(s)'.event = "run_state"
    PROVE  CompInv'
<1>1. runner = "waiting"
  BY DEF CompInv, Course, BothBack
<1>2. /\ stream \in Seq(Frames) /\ out[s] \in Seq(Events) /\ out'[s] \in Seq(Events)
      /\ Quiet(Len(stream)) /\ diff = <<>>
  BY <1>1 DEF CompInv, Typed, Outcome, PipelineInv, PipelineTypeOK
<1>3. /\ stream' \in Seq(Frames)
      /\ Len(stream') >= Len(stream)
      /\ \A i \in 1 .. Len(stream) : stream'[i] = stream[i]
      /\ \A i \in 1 .. Len(stream') : i > Len(stream) => stream'[i].side = s
      /\ Len(out'[s]) > Len(out[s]) =>
            \E i \in 1 .. Len(stream') : stream'[i].side = s /\ stream'[i].event = LastEvent(s)'
  BY <1>2, Forwarded
<1>4. Typed'
  BY <1>3 DEF Typed
<1>5. Course'
  BY <1>1 DEF CompInv, Course
<1>6. Outcome'
  <2>1. ASSUME NEW i \in 1 .. Len(stream'), stream'[i].side = NoSide
        PROVE  stream'[i].event.event = "compare_started"
    <3>1. s # NoSide
      BY ComparisonAssumption
    <3>2. i \in 1 .. Len(stream)
      BY <1>2, <1>3, <2>1, <3>1
    <3> QED
      BY <1>2, <1>3, <2>1, <3>2 DEF Quiet
  <2> QED
    BY <1>1, <1>2, <2>1 DEF Outcome, Quiet
<1>7. ASSUME NEW q \in Runs, q # s PROVE (Gated(q) /\ Heard(q))'
  <2>1. Gated(q)'
    BY <1>7 DEF CompInv, Gated, Readable
  <2>2. Heard(q)'
    <3> SUFFICES ASSUME stage[q] = "shipped"
                 PROVE  \E i \in 1 .. Len(stream') :
                            stream'[i].side = q /\ stream'[i].event.event = "run_state"
      BY <1>7 DEF Heard
    <3>1. PICK i \in 1 .. Len(stream) :
             stream[i].side = q /\ stream[i].event.event = "run_state"
      BY DEF CompInv, Heard
    <3>2. i \in 1 .. Len(stream') /\ stream'[i] = stream[i]
      BY <1>2, <1>3
    <3> QED
      BY <3>1, <3>2
  <2> QED
    BY <2>1, <2>2
<1>8. Heard(s)'
  BY <1>3 DEF Heard
<1> QED
  BY <1>4, <1>5, <1>6, <1>7, <1>8 DEF CompInv

(* A side begins, or cannot.                                               *)
LEMMA SideBegins ==
    ASSUME CompInv, NEW s \in Runs, Begin(s) \/ BeginFails(s)
    PROVE  CompInv'
<1>1. /\ PipelineInv /\ stage[s] = "created" /\ stage \in [Runs -> Stages]
      /\ out \in [Runs -> Seq(Events)]
      /\ DOMAIN perms = Runs /\ DOMAIN sources = Runs /\ DOMAIN denied = Runs
      /\ DOMAIN seen = Runs /\ DOMAIN lost = Runs
  BY DEF CompInv, Typed, PipelineInv, PipelineTypeOK, Begin, BeginFails, Start
<1>2. PipelineInv'
  BY <1>1, EarlyInv, NeverBegunInv DEF Begin, BeginFails, NeverBegins
<1>3. /\ stage'[s] \in {"gathering", "failed"}
      /\ \A q \in Runs \ {s} : stage'[q] = stage[q] /\ out'[q] = out[q]
  BY <1>1 DEF Begin, BeginFails, Start, Emit
<1>4. Gated(s)'
  <2>1. sources[s] = {} /\ denied[s] = {}
    BY <1>1 DEF CompInv, Gated
  <2>2. sources' = sources /\ denied' = denied
    BY DEF Begin, BeginFails
  <2>3. stage'[s] = "gathering" => lost'[s] = Documents \ store /\ store' = store
    BY <1>1 DEF Begin, BeginFails, storeVars
  <2> QED
    BY <1>3, <2>1, <2>2, <2>3 DEF Gated
<1>5. /\ ~asked /\ Forward(s, <<>>)
      /\ UNCHANGED <<store, config, role, runner, asked, diff>>
      /\ DOMAIN perms' = Runs /\ DOMAIN sources' = Runs /\ DOMAIN denied' = Runs
      /\ DOMAIN seen' = Runs /\ DOMAIN lost' = Runs
      /\ \A q \in Runs \ {s} : /\ perms'[q] = perms[q] /\ sources'[q] = sources[q]
                               /\ denied'[q] = denied[q]
                               /\ seen'[q] = seen[q] /\ lost'[q] = lost[q]
  BY <1>1 DEF Begin, BeginFails, storeVars
<1> QED
  BY <1>1, <1>2, <1>3, <1>4, <1>5, SideSpeaks DEF Ended

(* A side's gate lets it keep only what its own permissions allow, and     *)
(* refuses only what they forbid or what has gone.                         *)
LEMMA SideGathers ==
    ASSUME CompInv, NEW s \in Runs, NEW planned \in SUBSET Departments,
           NEW listed \in SUBSET Documents, NEW kept \in SUBSET Documents,
           NEW refused \in SUBSET Documents,
           SideGathered(s, planned, listed, kept, refused)
    PROVE  CompInv'
<1> DEFINE readable == Readable(role[s], perms[s], config)
           paths == {i[2] : i \in refused}
<1>1. /\ PipelineInv /\ stage[s] = "gathering" /\ stage \in [Runs -> Stages]
      /\ out \in [Runs -> Seq(Events)]
      /\ DOMAIN perms = Runs /\ DOMAIN sources = Runs /\ DOMAIN denied = Runs
      /\ DOMAIN seen = Runs /\ DOMAIN lost = Runs
  BY DEF CompInv, Typed, PipelineInv, PipelineTypeOK, SideGathered, Gathered
<1>2. PipelineInv'
  BY <1>1, EarlyInv DEF SideGathered
<1>3. /\ stage'[s] = "synthesizing"
      /\ \A q \in Runs \ {s} : stage'[q] = stage[q] /\ out'[q] = out[q]
  BY <1>1 DEF SideGathered, Gathered, Emit
<1>4. /\ kept \subseteq readable \cap seen[s]
      /\ refused \subseteq seen[s] \ (readable \cap store)
      /\ sources' = [sources EXCEPT ![s] = kept]
      /\ denied' = [denied EXCEPT ![s] = denied[s] \cup paths]
      /\ UNCHANGED <<store, seen, lost, config, role, perms, runner, asked, diff>>
  BY DEF SideGathered, Collect, storeVars
<1>5. Gated(s)'
  <2>1. sources'[s] = kept /\ denied'[s] = denied[s] \cup paths
    BY <1>1, <1>4
  <2>2. ASSUME NEW p \in paths
        PROVE  \E i \in seen[s] : i[2] = p /\ (i \notin readable \/ i \in lost[s])
    <3>1. PICK i \in refused : p = i[2]
      BY <2>2
    <3>2. Documents \ store \subseteq lost[s]
      BY <1>1 DEF CompInv, Gated
    <3> HIDE DEF readable
    <3>3. i \in seen[s] /\ (i \notin readable \/ i \in lost[s])
      BY <1>4, <3>2
    <3> QED
      BY <3>1, <3>3
  <2>3. \A p \in denied[s] : \E i \in seen[s] :
           i[2] = p /\ (i \notin readable \/ i \in lost[s])
    BY DEF CompInv, Gated
  <2>4. Readable(role[s], perms[s], config)' = readable
    BY <1>4 DEF Readable
  <2> HIDE DEF readable, paths
  <2> QED
    BY <1>3, <1>4, <2>1, <2>2, <2>3, <2>4 DEF Gated
<1>6. /\ ~asked /\ Forward(s, <<Event("gatherer_result", 0, FALSE)>>)
      /\ DOMAIN perms' = Runs /\ DOMAIN sources' = Runs /\ DOMAIN denied' = Runs
      /\ DOMAIN seen' = Runs /\ DOMAIN lost' = Runs
      /\ \A q \in Runs \ {s} : /\ perms'[q] = perms[q] /\ sources'[q] = sources[q]
                               /\ denied'[q] = denied[q]
                               /\ seen'[q] = seen[q] /\ lost'[q] = lost[q]
  BY <1>1, <1>4 DEF SideGathered
<1> HIDE DEF readable, paths
<1> QED
  BY <1>1, <1>2, <1>3, <1>4, <1>5, <1>6, SideSpeaks DEF Ended

(* A side goes on; when it ships, its answer is the last thing it says.    *)
LEMMA SideGoesOn ==
    ASSUME CompInv, NEW s \in Runs, SideProceeds(s)
    PROVE  CompInv'
<1>1. /\ PipelineInv /\ stage \in [Runs -> Stages] /\ out \in [Runs -> Seq(Events)]
      /\ out[s] \in Seq(Events)
      /\ DOMAIN perms = Runs /\ DOMAIN sources = Runs /\ DOMAIN denied = Runs
      /\ DOMAIN seen = Runs /\ DOMAIN lost = Runs
  BY DEF CompInv, Typed, PipelineInv, PipelineTypeOK
<1>2. /\ ~asked /\ Forward(s, <<>>)
      /\ UNCHANGED <<store, seen, lost, config, role, perms, runner, asked, sources,
                     denied, diff>>
      /\ \/ \E text \in Texts : Synthesized(s, text) \/ Revised(s, text)
         \/ \E answer \in Responses : Checked(s, answer)
         \/ Fails(s)
  BY ComparisonAssumption DEF SideProceeds, storeVars
<1>3. PipelineInv'
  BY <1>1, <1>2, DraftInv, CheckInv, EndInv
<1>4. /\ stage[s] \in Waiting
      /\ stage'[s] \in {"checking", "revising", "shipped", "failed"}
      /\ \A q \in Runs \ {s} : stage'[q] = stage[q] /\ out'[q] = out[q]
  BY <1>1, <1>2
     DEF Synthesized, Revised, Checked, Ship, Fails, Emit, Waiting
<1>5. Gated(s)'
  BY <1>2, <1>4 DEF CompInv, Gated, Readable, Waiting
<1>6. ASSUME stage'[s] = "shipped"
      PROVE  Len(out'[s]) > Len(out[s]) /\ LastEvent(s)'.event = "run_state"
  <2>1. PICK answer \in Responses : Checked(s, answer)
    BY <1>1, <1>2, <1>6 DEF Synthesized, Revised, Fails
  <2>2. PICK rendered \in BOOLEAN : Ship(s, answer, rendered)
    BY <1>1, <1>6, <2>1 DEF Checked
  <2> DEFINE d == VetoEvent(s, answer)
             e == IF rendered THEN Event("run_state", attempt[s] + 1, Approves(answer))
                              ELSE ErrorEvent
  <2>3. d \in Events /\ e \in Events
    BY <1>1, VetoType DEF PipelineInv
  <2>4. out'[s] = out[s] \o <<d, e>>
    BY <1>1, <2>2 DEF Ship, Emit
  <2> HIDE DEF d, e
  <2>5. Len(out'[s]) = Len(out[s]) + 2
    BY <1>1, <2>3, <2>4
  <2>6. LastEvent(s)'.event = "run_state"
    BY <1>3, <1>6 DEF PipelineInv, Loop, Event
  <2> QED
    BY <1>1, <2>5, <2>6
<1>7. stage[s] \notin Ended \cup {"absent"} /\ stage'[s] # "cancelled"
  BY <1>4 DEF Waiting, Ended
<1>8. /\ DOMAIN perms' = Runs /\ DOMAIN sources' = Runs /\ DOMAIN denied' = Runs
      /\ DOMAIN seen' = Runs /\ DOMAIN lost' = Runs
      /\ \A q \in Runs \ {s} : /\ perms'[q] = perms[q] /\ sources'[q] = sources[q]
                               /\ denied'[q] = denied[q]
                               /\ seen'[q] = seen[q] /\ lost'[q] = lost[q]
  BY <1>1, <1>2
<1> QED
  BY <1>2, <1>3, <1>4, <1>5, <1>6, <1>7, <1>8, SideSpeaks

(* A cancelled side says nothing.                                          *)
LEMMA SideStops ==
    ASSUME CompInv, NEW s \in Runs, SideCancelled(s)
    PROVE  CompInv'
<1>1. /\ PipelineInv /\ stage \in [Runs -> Stages] /\ asked
      /\ stage[s] \in Waiting \cup {"created"}
      /\ stage' = [stage EXCEPT ![s] = "cancelled"]
      /\ UNCHANGED <<attempt, compiled, verdict, out>> /\ UNCHANGED comparisonOnly
  BY DEF CompInv, Typed, PipelineInv, PipelineTypeOK, SideCancelled, Cancelled
<1>2. PipelineInv'
  BY <1>1, EndInv, NeverBegunInv DEF SideCancelled, NeverBegins
<1>3. Typed'
  BY <1>1, <1>2 DEF CompInv, Typed, comparisonOnly, storeVars
<1>4. Course'
  BY <1>1 DEF CompInv, Course, comparisonOnly, Waiting
<1>5. Outcome'
  BY <1>1 DEF CompInv, Outcome, Quiet, comparisonOnly, storeVars
<1>6. ASSUME NEW q \in Runs PROVE (Gated(q) /\ Heard(q))'
  <2>1. stage'[q] = stage[q] \/ stage'[q] = "cancelled"
    BY <1>1
  <2> QED
    BY <1>1, <2>1 DEF CompInv, Gated, Heard, Readable, comparisonOnly, storeVars
<1> QED
  BY <1>3, <1>4, <1>5, <1>6 DEF CompInv

(* The runner announces itself and makes the tasks.                        *)
LEMMA RunnerStarts ==
    ASSUME CompInv, RunnerBegins
    PROVE  CompInv'
<1> DEFINE f == Named("compare_started")
           n == Len(stream)
<1>1. /\ PipelineInv /\ \A s \in Runs : stage[s] = "absent"
      /\ stream \in Seq(Frames) /\ n \in Nat
      /\ runner = "created" /\ ~asked /\ Quiet(n) /\ diff = <<>>
  BY DEF CompInv, Typed, Course, Outcome, RunnerBegins
<1>2. /\ runner' = "waiting" /\ stage' = [s \in Runs |-> "created"]
      /\ stream' = Append(stream, f)
      /\ UNCHANGED <<attempt, compiled, verdict, out, store, seen, lost, config, role,
                     perms, asked, sources, denied, diff>>
  BY DEF RunnerBegins, storeVars
<1>3. PipelineInv'
  BY <1>1, <1>2, AllCreatedInv DEF CreatedAtOnce
<1>4. f \in Frames /\ f.event.event = "compare_started"
  BY RunnerFrame DEF RunnerWords
<1> HIDE DEF f
<1>5. /\ stream' \in Seq(Frames) /\ Len(stream') = n + 1
      /\ stream'[n + 1] = f /\ \A i \in 1 .. n : stream'[i] = stream[i]
  BY <1>1, <1>2, <1>4
<1>6. Outcome'
  <2>1. ASSUME NEW i \in 1 .. Len(stream'), stream'[i].side = NoSide
        PROVE  stream'[i].event.event = "compare_started"
    <3>1. i = n + 1 \/ i \in 1 .. n
      BY <1>1, <1>5
    <3> QED
      BY <1>1, <1>4, <1>5, <2>1, <3>1 DEF Quiet
  <2> QED
    BY <1>1, <1>2, <2>1 DEF Outcome, Quiet
<1>7. Typed' /\ Course'
  BY <1>1, <1>2, <1>3, <1>5 DEF CompInv, Typed, Course
<1>8. \A s \in Runs : (Gated(s) /\ Heard(s))'
  BY <1>1, <1>2 DEF CompInv, Gated, Heard, Readable
<1> QED
  BY <1>6, <1>7, <1>8 DEF CompInv

(* Steps that touch neither the sides nor the stream.                      *)
LEMMA Apart ==
    ASSUME CompInv,
           UNCHANGED <<pipelineVars, storeVars, config, role, perms, sources, denied,
                       stream, diff>>,
           \/ UNCHANGED <<runner, asked>>
           \/ runner = "idle" /\ runner' = "created" /\ asked' = asked
           \/ runner = "waiting" /\ runner' = runner /\ asked' = TRUE
    PROVE  CompInv'
<1>1. PipelineInv'
  BY NextInv DEF CompInv, Typed
<1>2. Typed'
  BY <1>1 DEF CompInv, Typed, storeVars
<1>3. Course'
  BY DEF CompInv, Course, BothBack, pipelineVars
<1>4. Outcome'
  BY DEF CompInv, Course, Outcome, Quiet, Whole, BuildDiff, Half, FinalState, pipelineVars
<1>5. \A s \in Runs : (Gated(s) /\ Heard(s))'
  BY DEF CompInv, Gated, Heard, Readable, pipelineVars, storeVars
<1> QED
  BY <1>2, <1>3, <1>4, <1>5 DEF CompInv

(* A document is written or deleted: a side that gathers may see it now,   *)
(* or has lost it.                                                         *)
LEMMA DocumentChanges ==
    ASSUME CompInv, NEW i \in Documents, ChangeDocument(i)
    PROVE  CompInv'
<1>1. /\ UNCHANGED <<pipelineVars, config, role, perms, runner, asked, sources, denied,
                     stream, diff>>
      /\ DOMAIN seen' = Runs /\ DOMAIN lost' = Runs
      /\ \A s \in Runs : /\ seen[s] \subseteq seen'[s] /\ lost[s] \subseteq lost'[s]
                         /\ stage[s] = "gathering" => Documents \ store' \subseteq lost'[s]
  BY DEF ChangeDocument
<1>2. PipelineInv'
  BY <1>1, NextInv DEF CompInv, Typed
<1>3. Typed'
  BY <1>1, <1>2 DEF CompInv, Typed
<1>4. Course'
  BY <1>1 DEF CompInv, Course, BothBack, pipelineVars
<1>5. Outcome'
  BY <1>1 DEF CompInv, Outcome, Quiet, Whole, BuildDiff, Half, FinalState, pipelineVars
<1>6. ASSUME NEW s \in Runs PROVE Gated(s)' /\ Heard(s)'
  <2> DEFINE readable == Readable(role[s], perms[s], config)
  <2>1. readable' = readable /\ stage' = stage
    BY <1>1 DEF Readable, pipelineVars
  <2>2. /\ stage[s] \in {"absent", "created"} => sources[s] = {} /\ denied[s] = {}
        /\ sources[s] \subseteq readable \cap seen[s]
        /\ \A p \in denied[s] : \E j \in seen[s] :
              j[2] = p /\ (j \notin readable \/ j \in lost[s])
    BY DEF CompInv, Gated
  <2> HIDE DEF readable
  <2>3. \A p \in denied[s] : \E j \in seen'[s] :
           j[2] = p /\ (j \notin readable \/ j \in lost'[s])
    BY <1>1, <2>2
  <2>4. Gated(s)'
    BY <1>1, <2>1, <2>2, <2>3 DEF Gated, readable
  <2>5. Heard(s)'
    BY <1>1 DEF CompInv, Heard, pipelineVars
  <2> QED
    BY <2>4, <2>5
<1> QED
  BY <1>3, <1>4, <1>5, <1>6 DEF CompInv

(* The runner's last two frames.                                           *)
LEMMA RunnerEnds ==
    ASSUME CompInv, runner = "waiting", runner' = "done",
           UNCHANGED <<pipelineVars, storeVars, config, role, perms, asked, sources, denied>>,
           NEW name \in {"compare_result", "compare_failed", "error"},
           stream' = stream \o <<Named(name), Done>>,
           \/ asked /\ name = "error" /\ diff' = diff
           \/ ~asked /\ BothBack /\ Whole /\ name = "compare_result" /\ diff' = <<BuildDiff>>
           \/ ~asked /\ BothBack /\ ~Whole /\ name = "compare_failed" /\ diff' = diff
    PROVE  CompInv'
<1> DEFINE f == Named(name)
           n == Len(stream)
<1>1. /\ PipelineInv /\ stream \in Seq(Frames) /\ n \in Nat /\ Quiet(n) /\ diff = <<>>
  BY DEF CompInv, Typed, Outcome
<1>2. f \in Frames /\ Done \in Frames
  BY RunnerFrame DEF RunnerWords, Done
<1> HIDE DEF f
<1>3. /\ stream' \in Seq(Frames) /\ Len(stream') = n + 2
      /\ stream'[n + 1] = f /\ stream'[n + 2] = Done
      /\ \A i \in 1 .. n : stream'[i] = stream[i]
  <2> DEFINE d == Done
  <2>1. stream' = stream \o <<f, d>> /\ d \in Frames
    BY <1>2 DEF f
  <2> HIDE DEF d
  <2>2. <<f, d>> \in Seq(Frames) /\ Len(<<f, d>>) = 2 /\ <<f, d>>[1] = f /\ <<f, d>>[2] = d
    BY <1>2, <2>1
  <2>3. /\ stream' \in Seq(Frames) /\ Len(stream') = n + 2
        /\ stream'[n + 1] = f /\ stream'[n + 2] = d
        /\ \A i \in 1 .. n : stream'[i] = stream[i]
    BY <1>1, <2>1, <2>2
  <2> QED
    BY <2>3 DEF d
<1>4. PipelineInv'
  BY <1>1, NextInv
<1>5. Typed' /\ Course'
  BY <1>3, <1>4 DEF CompInv, Typed, Course, BothBack, pipelineVars, storeVars
<1>6. Outcome'
  <2>1. Len(stream') - 2 = n /\ Len(stream') - 1 = n + 1 /\ Len(stream') >= 2
    BY <1>1, <1>3
  <2>2. \A i \in 1 .. n : stream'[i].side = NoSide => stream'[i].event.event = "compare_started"
    BY <1>1, <1>3 DEF Quiet
  <2>3. Whole' = Whole /\ BuildDiff' = BuildDiff
    BY DEF Whole, BuildDiff, Half, FinalState, pipelineVars
  <2>4. CASE asked
    BY <1>1, <1>3, <2>1, <2>2, <2>4 DEF Outcome, Quiet, CancelledFrame, f
  <2>5. CASE ~asked
    BY <1>1, <1>3, <2>1, <2>2, <2>3, <2>5 DEF Outcome, Quiet, f
  <2> QED
    BY <2>4, <2>5
<1>7. ASSUME NEW s \in Runs PROVE (Gated(s) /\ Heard(s))'
  <2>1. Gated(s)'
    BY DEF CompInv, Gated, Readable, pipelineVars, storeVars
  <2>2. \A i \in 1 .. n : i \in 1 .. Len(stream') /\ stream'[i] = stream[i]
    BY <1>1, <1>3
  <2> QED
    BY <2>1, <2>2 DEF CompInv, Heard, pipelineVars
<1> QED
  BY <1>5, <1>6, <1>7 DEF CompInv

(* Every step keeps the invariant.                                         *)
LEMMA CompNextInv == CompInv /\ [ComparisonNext]_comparisonVars => CompInv'
<1> SUFFICES ASSUME CompInv, [ComparisonNext]_comparisonVars PROVE CompInv'
  OBVIOUS
<1>1. CASE ComparisonOver \/ UNCHANGED comparisonVars
  BY <1>1, Apart DEF ComparisonOver, comparisonVars, comparisonOnly
<1>2. ASSUME NEW yaml \in PermissionEdits, SavePermissions(yaml) PROVE CompInv'
  BY <1>2, Apart DEF SavePermissions
<1>8. ASSUME NEW i \in Documents, ChangeDocument(i) PROVE CompInv'
  BY <1>8, DocumentChanges
<1>3. CASE Compare \/ Cancel
  BY <1>3, Apart DEF Compare, Cancel
<1>4. CASE RunnerBegins
  BY <1>4, RunnerStarts
<1>5. ASSUME NEW s \in Runs, SideStep(s) PROVE CompInv'
  BY <1>5, SideBegins, SideGathers, SideGoesOn, SideStops DEF SideStep
<1>6. CASE RunnerResumes
  <2>1. CASE Whole
    BY <1>6, <2>1, RunnerEnds DEF RunnerResumes
  <2>2. CASE ~Whole
    BY <1>6, <2>2, RunnerEnds DEF RunnerResumes
  <2> QED
    BY <2>1, <2>2
<1>7. CASE RunnerCancelled
  BY <1>7, RunnerEnds DEF RunnerCancelled, CancelledFrame
<1> QED
  BY <1>1, <1>2, <1>3, <1>4, <1>5, <1>6, <1>7, <1>8 DEF ComparisonNext

(* The inductive invariant.                                                *)
THEOREM ComparisonInvariant == ComparisonSpec => []CompInv
BY CompInitInv, CompNextInv, PTL DEF ComparisonSpec

(* A diff repeats the final states of two whole sides; its sources were    *)
(* there and readable to their own side, and each denial has a cause of    *)
(* its own side's, a document it could not read or one it lost.            *)
THEOREM DiffIsOfWholeSides == ComparisonSpec => []DiffOfWholeSides
<1>1. ASSUME CompInv, diff # <<>>, NEW s \in Runs
      PROVE  LET half == IF s = Yours THEN diff[1].yours ELSE diff[1].theirs
                 last == out[s][Len(out[s])]
             IN  /\ last.event = "run_state"
                 /\ half.approved = last.approved /\ half.attempts = last.number
                 /\ half.sources
                      \subseteq Readable(role[s], perms[s], config) \cap seen[s]
                 /\ \A p \in half.denied : \E i \in seen[s] :
                       /\ i[2] = p
                       /\ \/ i \notin Readable(role[s], perms[s], config)
                          \/ i \in lost[s]
  <2> DEFINE half == IF s = Yours THEN diff[1].yours ELSE diff[1].theirs
  <2>1. Whole /\ diff = <<BuildDiff>>
    BY <1>1 DEF CompInv, Outcome
  <2>2. s = Yours \/ s = Theirs
    BY ComparisonAssumption
  <2>3. half = Half(s)
    BY <2>1, <2>2, ComparisonAssumption DEF BuildDiff
  <2>4. FinalState(s).event = "run_state"
    <3>1. stage[s] = "shipped" /\ Loop(s)
      BY <1>1, <2>1 DEF CompInv, Typed, PipelineInv, Whole
    <3>2. FinalState(s) = Event("run_state", attempt[s] + 1, Approves(verdict[s].response))
      BY <3>1 DEF Loop, LastEvent, FinalState
    <3> QED
      BY <3>2 DEF Event
  <2>5. /\ Half(s).approved = FinalState(s).approved /\ Half(s).attempts = FinalState(s).number
        /\ Half(s).sources = sources[s] /\ Half(s).denied = denied[s]
    BY DEF Half
  <2>6. Gated(s)
    BY <1>1 DEF CompInv
  <2> QED
    BY <2>3, <2>4, <2>5, <2>6 DEF FinalState, Gated
<1>2. CompInv => DiffOfWholeSides
  BY <1>1 DEF DiffOfWholeSides
<1> QED
  BY <1>2, ComparisonInvariant, PTL

(* What the runner said in a stream it left, and in one it has not left.   *)
LEMMA Words ==
    ASSUME CompInv, NEW name \in {"compare_result", "compare_failed", "error", "done"}
    PROVE  /\ runner # "done" => Occurrences(name) = {}
           /\ runner = "done" =>
                 \E said \in {"compare_result", "compare_failed", "error"} :
                    /\ stream[Len(stream) - 1] = Named(said)
                    /\ Occurrences(name) = IF name = "done" THEN {Len(stream)}
                                           ELSE IF name = said THEN {Len(stream) - 1} ELSE {}
<1> DEFINE n == Len(stream)
<1>1. stream \in Seq(Frames) /\ n \in Nat
  BY DEF CompInv, Typed
<1>2. CASE runner # "done"
  <2>1. Quiet(n)
    BY <1>2 DEF CompInv, Outcome
  <2> QED
    BY <1>2, <2>1 DEF Quiet, Occurrences
<1>3. CASE runner = "done"
  <2>1. n >= 2 /\ Quiet(n - 2) /\ stream[n] = Done
    BY <1>3 DEF CompInv, Outcome
  <2>2. PICK said \in {"compare_result", "compare_failed", "error"} : stream[n - 1] = Named(said)
    BY <1>3 DEF CompInv, Outcome, CancelledFrame
  <2>3. /\ Named(said).side = NoSide /\ Named(said).event.event = said
        /\ Done.side = NoSide /\ Done.event.event = "done"
    BY <2>2, RunnerFrame DEF RunnerWords, Done
  <2>4. \A i \in 1 .. n : i = n \/ i = n - 1 \/ i \in 1 .. (n - 2)
    BY <1>1
  <2>5. \A i \in 1 .. n :
           i \in Occurrences(name) <=> (i = n /\ name = "done") \/ (i = n - 1 /\ name = said)
    BY <1>1, <2>1, <2>2, <2>3, <2>4 DEF Quiet, Occurrences
  <2>6. n \in 1 .. n /\ n - 1 \in 1 .. n /\ Occurrences(name) \subseteq 1 .. n
    BY <1>1, <2>1 DEF Occurrences
  <2>7. Occurrences(name) = IF name = "done" THEN {n} ELSE IF name = said THEN {n - 1} ELSE {}
    BY <2>2, <2>5, <2>6
  <2> QED
    BY <1>3, <2>2, <2>7
<1> QED
  BY <1>2, <1>3

(* The stream of a comparison ends in exactly one outcome, whatever fails  *)
(* and whenever the cancellation comes.                                    *)
THEOREM EndsInOneOutcome == ComparisonSpec => []OneOutcome
<1>1. ASSUME CompInv PROVE OneOutcome
  <2> DEFINE Names3 == {"compare_result", "compare_failed", "error"}
             outcomes == UNION {Occurrences(name) : name \in Names3}
  <2>1. CASE runner # "done"
    <3>1. outcomes = {} /\ Occurrences("done") = {}
      BY <1>1, <2>1, Words
    <3>2. diff = <<>>
      BY <1>1, <2>1 DEF CompInv, Outcome
    <3> QED
      BY <2>1, <3>1, <3>2 DEF OneOutcome
  <2>2. CASE runner = "done"
    <3>1. PICK said \in Names3 :
             /\ stream[Len(stream) - 1] = Named(said)
             /\ \/ asked /\ said = "error" /\ diff = <<>>
                \/ ~asked /\ said = "compare_result" /\ diff = <<BuildDiff>>
                \/ ~asked /\ said = "compare_failed" /\ diff = <<>>
      BY <1>1, <2>2 DEF CompInv, Outcome, CancelledFrame
    <3>2. \A name \in RunnerWords : Named(name).event.event = name
      BY RunnerFrame
    <3>3. \A name \in Names3 :
             Occurrences(name) = IF name = said THEN {Len(stream) - 1} ELSE {}
      BY <1>1, <2>2, <3>1, <3>2, Words DEF RunnerWords
    <3>4. Occurrences("done") = {Len(stream)}
      BY <1>1, <2>2, Words
    <3>5. outcomes = {Len(stream) - 1}
      BY <3>1, <3>3
    <3>6. asked <=> Occurrences("error") # {}
      BY <3>1, <3>3
    <3>7. diff # <<>> <=> Occurrences("compare_result") # {}
      <4>1. <<BuildDiff>> # <<>>
        OBVIOUS
      <4> QED
        BY <3>1, <3>3, <4>1
    <3> QED
      BY <2>2, <3>4, <3>5, <3>6, <3>7 DEF OneOutcome
  <2> QED
    BY <2>1, <2>2
<1> QED
  BY <1>1, ComparisonInvariant, PTL

(* "A failure on one side does not discard the other's work".              *)
THEOREM OtherHalfIsHeard == ComparisonSpec => []OtherHalfHeard
<1>1. ASSUME CompInv, Occurrences("compare_failed") # {}
      PROVE  /\ \E s \in Runs : stage[s] = "failed"
             /\ \A s \in Runs :
                   stage[s] # "failed" =>
                       \E i \in 1 .. Len(stream) :
                           stream[i].side = s /\ stream[i].event.event = "run_state"
  <2>1. runner = "done" /\ stream[Len(stream) - 1] = Named("compare_failed")
    BY <1>1, Words
  <2>2. Named("compare_failed").event.event = "compare_failed"
        /\ Named("compare_result").event.event = "compare_result"
        /\ CancelledFrame.event.event = "error"
    BY RunnerFrame DEF RunnerWords, CancelledFrame
  <2>3. ~asked /\ ~Whole
    BY <1>1, <2>1, <2>2 DEF CompInv, Outcome
  <2>4. \A s \in Runs : stage[s] \in {"shipped", "failed"}
    BY <1>1, <2>1, <2>3 DEF CompInv, Course, BothBack, Ended
  <2> QED
    BY <1>1, <2>3, <2>4 DEF CompInv, Heard, Whole
<1>2. CompInv => OtherHalfHeard
  BY <1>1 DEF OtherHalfHeard
<1> QED
  BY <1>2, ComparisonInvariant, PTL

-----------------------------------------------------------------------------
(* The sides kept apart.  What carries a side is the side's own or what    *)
(* its gatherers narrated; the runner's words carry none.                  *)
Narrated == Event("gatherer_result", 0, FALSE)
SideFrames == [side : Runs, event : Events \cup {Narrated}]
Carried == SideFrames \cup {Named(name) : name \in RunnerWords}

Repeated(s) == IF stage[s] = "failed" THEN <<Frame(s, ErrorEvent)>> ELSE <<>>

ApartInv ==
    /\ stream \in Seq(Carried)
    /\ \A s \in Runs : Told(s) = Tagged(s, out[s]) \o Repeated(s)

(* The error a failed side repeats, and what narrates a gatherer, are      *)
(* frames of that side; only the first is the pipeline's.                  *)
LEMMA FramesOfSides ==
    ASSUME NEW s \in Runs
    PROVE  /\ Frame(s, ErrorEvent) \in OwnFrames(s) /\ Narrated \notin Events
           /\ OwnFrames(s) \subseteq Carried /\ Frame(s, Narrated) \in Carried
           /\ Frame(s, Narrated) \notin OwnFrames(s)
           /\ \A e \in Events : Frame(s, e) \in OwnFrames(s)
           /\ \A q \in Runs : q # s => /\ OwnFrames(q) \cap OwnFrames(s) = {}
                                       /\ Frame(s, Narrated) \notin OwnFrames(q)
           /\ \A name \in RunnerWords : Named(name) \notin OwnFrames(s)
<1>1. ErrorEvent \in Events /\ Narrated \notin Events
  BY PipelineAssumption DEF ErrorEvent, Event, Events, Narrated
<1> QED
  BY <1>1, ComparisonAssumption DEF Frame, OwnFrames, Carried, SideFrames, Named

(* tagged() one after the other.                                           *)
LEMMA TaggedBoth ==
    ASSUME NEW s \in Runs, NEW a \in Seq(Events), NEW b \in Seq(Events)
    PROVE  Tagged(s, a \o b) = Tagged(s, a) \o Tagged(s, b)
<1> DEFINE T == OwnFrames(s)
           both == a \o b
           x == Tagged(s, a)
           y == Tagged(s, b)
           xy == Tagged(s, both)
<1>1. \A e \in Events : Frame(s, e) \in T
  BY FramesOfSides
<1> HIDE DEF T
<1>2. /\ both \in Seq(Events) /\ Len(both) = Len(a) + Len(b)
      /\ \A i \in 1 .. Len(a) : both[i] = a[i]
      /\ \A i \in 1 .. Len(b) : both[Len(a) + i] = b[i]
  BY Joined
<1> HIDE DEF both
<1>3. /\ x \in Seq(T) /\ Len(x) = Len(a) /\ \A i \in 1 .. Len(a) : x[i] = Frame(s, a[i])
      /\ y \in Seq(T) /\ Len(y) = Len(b) /\ \A i \in 1 .. Len(b) : y[i] = Frame(s, b[i])
      /\ xy \in Seq(T) /\ Len(xy) = Len(both)
      /\ \A i \in 1 .. Len(both) : xy[i] = Frame(s, both[i])
  <2> DEFINE said == Events
  <2>1. \A e \in said : Frame(s, e) \in T
    BY <1>1
  <2>2. a \in Seq(said) /\ b \in Seq(said) /\ both \in Seq(said)
    BY <1>2
  <2> HIDE DEF said
  <2>3. x \in Seq(T) /\ Len(x) = Len(a) /\ \A i \in 1 .. Len(a) : x[i] = Frame(s, a[i])
    BY ONLY <2>1, <2>2, TaggedFrames
  <2>4. y \in Seq(T) /\ Len(y) = Len(b) /\ \A i \in 1 .. Len(b) : y[i] = Frame(s, b[i])
    BY ONLY <2>1, <2>2, TaggedFrames
  <2>5. /\ xy \in Seq(T) /\ Len(xy) = Len(both)
        /\ \A i \in 1 .. Len(both) : xy[i] = Frame(s, both[i])
    BY ONLY <2>1, <2>2, TaggedFrames
  <2> QED
    BY <2>3, <2>4, <2>5
<1> HIDE DEF x, y, xy
<1>4. /\ x \o y \in Seq(T) /\ Len(x \o y) = Len(x) + Len(y)
      /\ \A i \in 1 .. Len(x) : (x \o y)[i] = x[i]
      /\ \A i \in 1 .. Len(y) : (x \o y)[Len(x) + i] = y[i]
  <2>1. x \in Seq(T) /\ y \in Seq(T)
    BY <1>3
  <2> QED
    BY <2>1, Joined
<1>5. Len(a) \in Nat /\ Len(b) \in Nat
  OBVIOUS
<1>6. ASSUME NEW i \in 1 .. Len(xy) PROVE xy[i] = (x \o y)[i]
  <2>1. CASE i \in 1 .. Len(a)
    BY <1>2, <1>3, <1>4, <1>6, <2>1
  <2>2. CASE i \notin 1 .. Len(a)
    <3> DEFINE j == i - Len(a)
    <3>1. j \in 1 .. Len(b) /\ i = Len(a) + j
      BY <1>2, <1>3, <1>5, <2>2
    <3> HIDE DEF j
    <3>2. xy[i] = Frame(s, b[j])
      BY <1>2, <1>3, <3>1
    <3>3. (x \o y)[i] = Frame(s, b[j])
      BY <1>3, <1>4, <3>1
    <3> QED
      BY <3>2, <3>3
  <2> QED
    BY <2>1, <2>2
<1>7. xy = x \o y
  BY <1>2, <1>3, <1>4, <1>6, SameSequence
<1> QED
  BY <1>7 DEF x, y, xy, both

(* What was appended to a side's events is what the step emitted.          *)
LEMMA EmittedIs ==
    ASSUME NEW S, NEW a \in Seq(S), NEW b \in Seq(S)
    PROVE  SubSeq(a \o b, Len(a) + 1, Len(a \o b)) = b
<1> DEFINE m == Len(a) + 1
           n == Len(a \o b)
<1>1. n = Len(a) + Len(b) /\ Len(a) \in Nat /\ Len(b) \in Nat /\ a \o b \in Seq(S)
  OBVIOUS
<1>2. CASE b = <<>>
  <2>1. m \in Int /\ n \in Int /\ n < m
    BY <1>1, <1>2
  <2> HIDE DEF m, n
  <2>2. SubSeq(a \o b, m, n) = <<>>
    BY <1>1, <2>1, SubSeqEmpty
  <2> QED
    BY <1>2, <2>2 DEF m, n
<1>3. CASE b # <<>>
  <2>1. Len(b) >= 1
    BY <1>3
  <2>2. /\ m \in (Len(a) + 1) .. (Len(a) + Len(b)) /\ n \in (Len(a) + 1) .. (Len(a) + Len(b))
        /\ m - Len(a) = 1 /\ n - Len(a) = Len(b)
    BY <1>1, <2>1
  <2> HIDE DEF m, n
  <2>3. SubSeq(a \o b, m, n) = SubSeq(b, 1, Len(b))
    BY <2>2, SubSeqOfConcat2
  <2> QED
    BY <2>3, SubSeqFull DEF m, n
<1> QED
  BY <1>2, <1>3

(* Tagged events of the pipeline's are all kept for their side.            *)
LEMMA KeptOfTagged ==
    ASSUME NEW s \in Runs, NEW said \in Seq(Events),
           NEW before, before \in {<<>>, <<Narrated>>}
    PROVE  /\ Tagged(s, before \o said) \in Seq(Carried)
           /\ Kept(Tagged(s, before \o said), OwnFrames(s)) = Tagged(s, said)
           /\ Tagged(s, said) \in Seq(OwnFrames(s))
           /\ \A q \in Runs : q # s => Kept(Tagged(s, before \o said), OwnFrames(q)) = <<>>
<1> DEFINE own == OwnFrames(s)
           f == Frame(s, Narrated)
           tagged == Tagged(s, said)
           all == Tagged(s, before \o said)
<1>1. /\ f \notin own /\ own \subseteq Carried /\ f \in Carried
      /\ \A e \in Events : Frame(s, e) \in own
      /\ \A q \in Runs : q # s => own \cap OwnFrames(q) = {} /\ f \notin OwnFrames(q)
  BY FramesOfSides
<1> HIDE DEF own
<1>2. /\ tagged \in Seq(own) /\ Len(tagged) = Len(said)
      /\ \A i \in 1 .. Len(said) : tagged[i] = Frame(s, said[i])
  <2> DEFINE told == Events
  <2>1. (\A e \in told : Frame(s, e) \in own) /\ said \in Seq(told)
    BY <1>1
  <2> HIDE DEF told
  <2> QED
    BY ONLY <2>1, TaggedFrames
<1>3. all = tagged \/ all = <<f>> \o tagged
  <2>1. CASE before = <<>>
    <3>1. before \o said = said
      BY <2>1
    <3> QED
      BY <3>1
  <2>2. CASE before = <<Narrated>>
    <3> DEFINE n == Narrated
               E == Events \cup {n}
               both == <<n>> \o said
               longer == <<f>> \o tagged
               F == own \cup {f}
    <3>0. n \in E /\ said \in Seq(E) /\ tagged \in Seq(F) /\ f \in F /\ Len(said) \in Nat
      BY <1>2
    <3>1. \A e \in E : Frame(s, e) \in F
      BY <1>1
    <3> HIDE DEF n, E, F, f, tagged
    <3>2. /\ both \in Seq(E) /\ Len(both) = Len(said) + 1 /\ both[1] = n
          /\ \A i \in 1 .. Len(said) : both[i + 1] = said[i]
      BY <3>0
    <3>3. /\ longer \in Seq(F) /\ Len(longer) = Len(said) + 1 /\ longer[1] = f
          /\ \A i \in 1 .. Len(said) : longer[i + 1] = tagged[i]
      BY <1>2, <3>0
    <3> DEFINE xy == Tagged(s, both)
    <3> HIDE DEF both, longer
    <3>4. /\ xy \in Seq(F) /\ Len(xy) = Len(both)
          /\ \A i \in 1 .. Len(both) : xy[i] = Frame(s, both[i])
      BY <3>1, <3>2, TaggedFrames
    <3> HIDE DEF xy
    <3>5. ASSUME NEW i \in 1 .. Len(xy) PROVE xy[i] = longer[i]
      <4>1. CASE i = 1
        BY <3>2, <3>3, <3>4, <4>1 DEF f, n
      <4>2. CASE i # 1
        <5> DEFINE j == i - 1
        <5>1. j \in 1 .. Len(said) /\ i = j + 1
          BY <3>0, <3>2, <3>4, <4>2
        <5> HIDE DEF j
        <5>2. xy[i] = Frame(s, said[j])
          BY <3>2, <3>4, <5>1
        <5>3. longer[i] = Frame(s, said[j])
          BY <1>2, <3>3, <5>1
        <5> QED
          BY <5>2, <5>3
      <4> QED
        BY <4>1, <4>2
    <3>6. xy = longer
      BY <3>2, <3>3, <3>4, <3>5, SameSequence
    <3> QED
      BY <2>2, <3>6 DEF xy, both, longer, n
  <2> QED
    BY <2>1, <2>2
<1> HIDE DEF f, tagged, all
<1>4. <<f>> \in Seq({f}) /\ <<f>> \in Seq(Carried) /\ tagged \in Seq(Carried)
  <2>1. <<f>> \in Seq({f}) /\ <<f>> \in Seq(Carried)
    BY <1>1
  <2>2. tagged \in Seq(Carried)
    BY <1>1, <1>2
  <2> QED
    BY <2>1, <2>2
<1>5. all \in Seq(Carried)
  <2> DEFINE one == <<f>>
  <2>1. one \in Seq(Carried) /\ (all = tagged \/ all = one \o tagged)
    BY <1>3, <1>4
  <2> HIDE DEF one
  <2>2. one \o tagged \in Seq(Carried)
    BY <1>4, <2>1
  <2> QED
    BY <1>4, <2>1, <2>2
<1>6. Kept(tagged, own) = tagged /\ Kept(<<f>>, own) = <<>>
  <2>1. {f} \cap own = {} /\ own \subseteq own
    BY <1>1
  <2> DEFINE one == <<f>>
  <2>2. one \in Seq({f})
    BY <1>4
  <2> HIDE DEF one
  <2>3. Kept(tagged, own) = tagged
    BY <1>2, <2>1, KeptOfAll
  <2>4. Kept(one, own) = <<>>
    BY <2>1, <2>2, KeptOfOthers
  <2> QED
    BY <2>3, <2>4 DEF one
<1>7. Kept(all, own) = tagged
  <2> DEFINE one == <<f>>
  <2>1. one \in Seq(Carried) /\ (all = tagged \/ all = one \o tagged) /\ Kept(one, own) = <<>>
    BY <1>3, <1>4, <1>6
  <2>2. <<>> \o tagged = tagged
    BY <1>2
  <2> HIDE DEF one
  <2>3. one \in Seq(Carried) /\ tagged \in Seq(Carried)
    BY <1>4, <2>1
  <2>4. Kept(one \o tagged, own) = Kept(one, own) \o Kept(tagged, own)
    BY <2>3, KeptOfBoth
  <2> QED
    BY <1>6, <2>1, <2>2, <2>4
<1>8. ASSUME NEW q \in Runs, q # s PROVE Kept(all, OwnFrames(q)) = <<>>
  <2> DEFINE mine == own \cup {f}
             others == OwnFrames(q)
  <2>1. mine \cap others = {}
    BY <1>1, <1>8
  <2>2. all \in Seq(mine)
    <3> DEFINE one == <<f>>
    <3>1. tagged \in Seq(mine) /\ one \in Seq(mine) /\ (all = tagged \/ all = one \o tagged)
      BY <1>2, <1>3
    <3> HIDE DEF one, mine
    <3>2. one \o tagged \in Seq(mine)
      BY <3>1
    <3> QED
      BY <3>1, <3>2
  <2> HIDE DEF mine, others
  <2>3. Kept(all, others) = <<>>
    BY <2>1, <2>2, KeptOfOthers
  <2> QED
    BY <2>3 DEF others
<1> QED
  BY <1>2, <1>5, <1>7, <1>8 DEF tagged, all, own

(* A side says something: it joins what the side said before.              *)
LEMMA SideTells ==
    ASSUME ApartInv, NEW s \in Runs, stage[s] # "failed", out[s] \in Seq(Events),
           NEW said \in Seq(Events), out'[s] = out[s] \o said,
           NEW before, before \in {<<>>, <<Narrated>>}, Forward(s, before),
           \A q \in Runs : q # s => stage'[q] = stage[q] /\ out'[q] = out[q]
    PROVE  ApartInv'
<1> DEFINE all == Tagged(s, before \o said)
           own == Repeated(s)'
           half == stream \o all
<1>1. stream' = half \o own
  <2>1. Emitted(s) = said
    BY EmittedIs DEF Emitted
  <2> QED
    BY <2>1 DEF Forward, Reported, Repeated
<1>2. /\ all \in Seq(Carried) /\ Kept(all, OwnFrames(s)) = Tagged(s, said)
      /\ Tagged(s, said) \in Seq(OwnFrames(s))
      /\ \A q \in Runs : q # s => Kept(all, OwnFrames(q)) = <<>>
  BY KeptOfTagged
<1>3. own \in Seq(OwnFrames(s)) /\ own \in Seq(Carried)
  <2> DEFINE f == Frame(s, ErrorEvent)
  <2>1. f \in OwnFrames(s) /\ f \in Carried
    BY FramesOfSides
  <2>2. own = <<f>> \/ own = <<>>
    BY DEF Repeated
  <2> HIDE DEF f, own
  <2> QED
    BY <2>1, <2>2, OneOrNone
<1> HIDE DEF all, own
<1>4. stream \in Seq(Carried)
  BY DEF ApartInv
<1>5. half \in Seq(Carried) /\ stream' \in Seq(Carried)
  BY <1>1, <1>2, <1>3, <1>4
<1>6. ASSUME NEW S
      PROVE  Kept(stream', S) = (Kept(stream, S) \o Kept(all, S)) \o Kept(own, S)
  <2> DEFINE Splits(a, b) == Kept(a \o b, S) = Kept(a, S) \o Kept(b, S)
             V == Carried
  <2> HIDE DEF V
  <2>1. \A a, b \in Seq(V) : Splits(a, b)
    BY ONLY KeptOfBoth
  <2>2. stream \in Seq(V) /\ all \in Seq(V) /\ half \in Seq(V) /\ own \in Seq(V)
    BY <1>2, <1>3, <1>4, <1>5 DEF V
  <2>3. stream' = half \o own
    BY <1>1
  <2> HIDE DEF Splits
  <2>4. Splits(stream, all)
    BY ONLY <2>1, <2>2
  <2>5. Kept(half, S) = Kept(stream, S) \o Kept(all, S)
    BY <2>4 DEF Splits
  <2> HIDE DEF half
  <2>6. Splits(half, own)
    BY ONLY <2>1, <2>2
  <2>7. Kept(half \o own, S) = Kept(half, S) \o Kept(own, S)
    BY ONLY <2>6 DEF Splits
  <2> DEFINE told == Kept(stream, S) \o Kept(all, S)
             end == Kept(own, S)
             sofar == Kept(half, S)
  <2>8. sofar = told /\ Kept(stream', S) = sofar \o end
    BY ONLY <2>3, <2>5, <2>7
  <2> HIDE DEF told, end, sofar
  <2>9. Kept(stream', S) = told \o end
    BY ONLY <2>8
  <2> QED
    BY <2>9 DEF told, end
<1>7. Told(s)' = Tagged(s, out'[s]) \o Repeated(s)'
  <2> DEFINE mine == OwnFrames(s)
             told == Tagged(s, out[s])
             new == Tagged(s, said)
  <2>1. told \in Seq(mine)
    <3>1. \A e \in Events : Frame(s, e) \in mine
      BY FramesOfSides
    <3> HIDE DEF mine
    <3> QED
      BY <3>1, TaggedFrames
  <2>2. Kept(stream, mine) = told
    <3>1. Told(s) = told \o <<>>
      BY DEF ApartInv, Repeated
    <3>2. told \o <<>> = told
      BY <2>1
    <3> QED
      BY <3>1, <3>2 DEF Told
  <2>3. Kept(own, mine) = own
    BY <1>3, KeptOfAll
  <2>4. Kept(all, mine) = new
    BY <1>2
  <2>5. Tagged(s, out'[s]) = told \o new
    BY TaggedBoth
  <2>6. Told(s)' = Kept(stream', mine)
    BY DEF Told, OwnFrames
  <2> HIDE DEF told, new, mine
  <2>7. Told(s)' = (told \o new) \o own
    BY <1>6, <2>2, <2>3, <2>4, <2>6
  <2> QED
    BY <2>5, <2>7 DEF own
<1>8. ASSUME NEW q \in Runs, q # s PROVE Told(q)' = Tagged(q, out'[q]) \o Repeated(q)'
  <2> DEFINE others == OwnFrames(q)
             mine == OwnFrames(s)
  <2>1. mine \cap others = {}
    BY <1>8, FramesOfSides
  <2>2. Kept(own, others) = <<>> /\ Kept(all, others) = <<>>
    <3>1. Kept(all, others) = <<>>
      BY <1>2, <1>8
    <3>2. own \in Seq(mine)
      BY <1>3
    <3> HIDE DEF mine, others
    <3>3. Kept(own, others) = <<>>
      BY <2>1, <3>2, KeptOfOthers
    <3> QED
      BY <3>1, <3>3
  <2>3. Kept(stream, others) = Told(q) /\ Kept(stream', others) = Told(q)'
    BY DEF Told, OwnFrames
  <2>4. Kept(stream, others) \in Seq(Carried)
    BY <1>4, KeptType
  <2> HIDE DEF others
  <2>5. (Kept(stream, others) \o <<>>) \o <<>> = Kept(stream, others)
    BY <2>4
  <2>6. Told(q)' = Told(q)
    BY <1>6, <2>2, <2>3, <2>5
  <2>7. Told(q) = Tagged(q, out[q]) \o Repeated(q)
    BY DEF ApartInv
  <2>8. Repeated(q)' = Repeated(q) /\ out'[q] = out[q]
    BY <1>8 DEF Repeated
  <2> QED
    BY <2>6, <2>7, <2>8
<1> QED
  BY <1>5, <1>7, <1>8 DEF ApartInv

(* The runner says something: it carries no side.                          *)
LEMMA RunnerTells ==
    ASSUME ApartInv, NEW words \in Seq({Named(name) : name \in RunnerWords}),
           stream' = stream \o words, out' = out,
           \A s \in Runs : stage'[s] = "failed" <=> stage[s] = "failed"
    PROVE  ApartInv'
<1> DEFINE Said == {Named(name) : name \in RunnerWords}
<1>1. stream \in Seq(Carried) /\ words \in Seq(Said) /\ Said \subseteq Carried
  BY DEF ApartInv, Carried
<1> HIDE DEF Said
<1>2. words \in Seq(Carried)
  BY <1>1
<1>3. stream' \in Seq(Carried)
  BY <1>1, <1>2
<1>4. ASSUME NEW s \in Runs PROVE Told(s)' = Tagged(s, out'[s]) \o Repeated(s)'
  <2> DEFINE own == OwnFrames(s)
  <2>1. Said \cap own = {}
    BY FramesOfSides DEF Said
  <2>2. Told(s) = Kept(stream, own) /\ Told(s)' = Kept(stream', own)
    BY DEF Told, OwnFrames
  <2> HIDE DEF own
  <2>3. Kept(words, own) = <<>>
    BY <1>1, <2>1, KeptOfOthers
  <2>4. Kept(stream \o words, own) = Kept(stream, own) \o Kept(words, own)
    BY <1>1, <1>2, KeptOfBoth
  <2>5. Kept(stream, own) \in Seq(Carried)
    BY <1>1, KeptType
  <2>6. Kept(stream, own) \o <<>> = Kept(stream, own)
    BY <2>5
  <2>7. Told(s)' = Told(s)
    BY <2>2, <2>3, <2>4, <2>6
  <2>8. Repeated(s)' = Repeated(s)
    BY <1>4 DEF Repeated
  <2> QED
    BY <2>7, <2>8 DEF ApartInv
<1> QED
  BY <1>3, <1>4 DEF ApartInv

(* Nothing is said, and no side fails.                                     *)
LEMMA NothingTold ==
    ASSUME ApartInv, UNCHANGED <<stream, out>>,
           \A s \in Runs : stage'[s] = "failed" <=> stage[s] = "failed"
    PROVE  ApartInv'
BY DEF ApartInv, Told, OwnFrames, Repeated

(* Whatever a side does, it says something more, or nothing.               *)
LEMMA SideSays ==
    ASSUME CompInv, NEW s \in Runs,
           \/ Start(s)
           \/ BeginFails(s)
           \/ Gathered(s)
           \/ SideProceeds(s)
    PROVE  /\ out[s] \in Seq(Events) /\ stage[s] # "failed"
           /\ \E said \in Seq(Events) : out'[s] = out[s] \o said
           /\ \A q \in Runs : q # s => stage'[q] = stage[q] /\ out'[q] = out[q]
<1>1. /\ out \in [Runs -> Seq(Events)] /\ stage \in [Runs -> Stages] /\ out[s] \in Seq(Events)
      /\ PipelineTypeOK
  BY DEF CompInv, Typed, PipelineInv, PipelineTypeOK
<1>2. ASSUME NEW evs \in Seq(Events), Emit(s, evs) \/ (evs = <<>> /\ out' = out)
      PROVE  /\ \E said \in Seq(Events) : out'[s] = out[s] \o said
             /\ \A q \in Runs : q # s => out'[q] = out[q]
  <2>1. out[s] \o <<>> = out[s]
    BY <1>1
  <2>2. out'[s] = out[s] \o evs
    BY <1>1, <1>2, <2>1 DEF Emit
  <2> QED
    BY <1>1, <1>2, <2>2 DEF Emit
<1>3. ASSUME NEW e \in Events, NEW d \in Events
      PROVE  <<e>> \in Seq(Events) /\ <<d, e>> \in Seq(Events)
  OBVIOUS
<1>4. ASSUME NEW k \in 0 .. MaxRetries + 1, NEW b \in BOOLEAN,
             NEW w \in {"run_started", "gathered", "synthesized", "revising", "run_state", "error"}
      PROVE  Event(w, k, b) \in Events
  BY DEF Event, Events
<1>5. 0 \in 0 .. MaxRetries + 1 /\ FALSE \in BOOLEAN /\ ErrorEvent \in Events
  BY PipelineAssumption DEF ErrorEvent, Event, Events
<1>6. \E evs \in Seq(Events) : Emit(s, evs) \/ (evs = <<>> /\ out' = out)
  <2>1. CASE Start(s) \/ Gathered(s)
    BY <1>3, <1>4, <1>5, <2>1 DEF Start, Gathered
  <2>2. CASE BeginFails(s)
    <3> DEFINE none == <<>>
    <3>1. none \in Seq(Events) /\ none = <<>> /\ out' = out
      BY <2>2 DEF BeginFails
    <3> HIDE DEF none
    <3> QED
      BY <3>1
  <2>3. ASSUME NEW text \in Texts, Synthesized(s, text) PROVE \E evs \in Seq(Events) : Emit(s, evs)
    BY <1>3, <1>4, <1>5, <2>3 DEF Synthesized
  <2>4. ASSUME NEW text \in Texts, Revised(s, text) PROVE \E evs \in Seq(Events) : Emit(s, evs)
    <3> DEFINE e == Event("synthesized", compiled[s].revision + 1, FALSE)
    <3>1. compiled[s].revision + 1 \in 0 .. MaxRetries + 1
      <4>1. compiled[s].revision = attempt[s] /\ attempt[s] < MaxRetries /\ attempt[s] \in Nat
        BY <1>1, <2>4 DEF Revised, CompInv, Typed, PipelineInv, Loop, Drafted, PipelineTypeOK
      <4> QED
        BY <4>1, PipelineAssumption
    <3>2. e \in Events
      BY <1>4, <3>1
    <3>3. Emit(s, <<e>>)
      BY <2>4 DEF Revised
    <3> HIDE DEF e
    <3> QED
      BY <1>3, <3>2, <3>3
  <2>5. ASSUME NEW answer \in Responses, Checked(s, answer)
        PROVE  \E evs \in Seq(Events) : Emit(s, evs)
    <3> DEFINE d == VetoEvent(s, answer)
               more == Event("revising", attempt[s] + 1, FALSE)
               state == Event("run_state", attempt[s] + 1, Approves(answer))
               error == ErrorEvent
    <3>1. d \in Events /\ more \in Events /\ state \in Events /\ error \in Events
      BY <1>1, VetoType
    <3>2. Emit(s, <<d, more>>) \/ Emit(s, <<d, state>>) \/ Emit(s, <<d, error>>)
      BY <2>5 DEF Checked, Ship
    <3> HIDE DEF d, more, state, error
    <3> QED
      BY <1>3, <3>1, <3>2
  <2>6. CASE Fails(s)
    <3> DEFINE error == ErrorEvent
    <3>1. error \in Events /\ Emit(s, <<error>>)
      BY <1>5, <2>6 DEF Fails
    <3> HIDE DEF error
    <3> QED
      BY <1>3, <3>1
  <2> QED
    BY <2>1, <2>2, <2>3, <2>4, <2>5, <2>6, ComparisonAssumption DEF SideProceeds
<1>7. /\ stage[s] # "failed"
      /\ \A q \in Runs : q # s => stage'[q] = stage[q]
  BY <1>1 DEF Start, BeginFails, Gathered, SideProceeds, Synthesized, Revised, Checked, Ship,
              Fails, Waiting
<1> QED
  BY <1>1, <1>2, <1>6, <1>7

(* No frame has been sent at the start.                                    *)
LEMMA ApartInitInv == ComparisonInit => ApartInv
<1> SUFFICES ASSUME ComparisonInit PROVE ApartInv
  OBVIOUS
<1> DEFINE none == <<>>
<1>1. stream = none /\ none \in Seq(Carried)
  BY DEF ComparisonInit
<1>2. ASSUME NEW s \in Runs PROVE Told(s) = Tagged(s, out[s]) \o Repeated(s)
  <2>1. Told(s) = <<>>
    BY <1>1, KeptOfNone DEF Told
  <2>2. out[s] = <<>> /\ Repeated(s) = <<>>
    BY DEF ComparisonInit, PipelineInit, Repeated
  <2>3. Tagged(s, <<>>) = <<>>
    BY DEF Tagged
  <2>4. <<>> \o <<>> = <<>>
    OBVIOUS
  <2> QED
    BY <2>1, <2>2, <2>3, <2>4
<1> QED
  BY <1>1, <1>2 DEF ApartInv

(* Every step of a side or of the stream keeps the sides apart.            *)
LEMMA ApartNextInv == CompInv /\ ApartInv /\ [ComparisonNext]_comparisonVars => ApartInv'
<1> SUFFICES ASSUME CompInv, ApartInv, [ComparisonNext]_comparisonVars PROVE ApartInv'
  OBVIOUS
<1>1. CASE ComparisonOver \/ UNCHANGED comparisonVars
  BY <1>1, NothingTold DEF ComparisonOver, comparisonVars, comparisonOnly, pipelineVars
<1>2. ASSUME NEW yaml \in PermissionEdits, SavePermissions(yaml) PROVE ApartInv'
  BY <1>2, NothingTold DEF SavePermissions, pipelineVars
<1>10. ASSUME NEW i \in Documents, ChangeDocument(i) PROVE ApartInv'
  BY <1>10, NothingTold DEF ChangeDocument, pipelineVars
<1>3. CASE Compare \/ Cancel
  BY <1>3, NothingTold DEF Compare, Cancel, pipelineVars
<1>4. ASSUME NEW name \in RunnerWords, NEW word \in RunnerWords
      PROVE  /\ <<Named(name)>> \in Seq({Named(any) : any \in RunnerWords})
             /\ <<Named(name), Named(word)>> \in Seq({Named(any) : any \in RunnerWords})
  <2> DEFINE f == Named(name)
             g == Named(word)
             Said == {Named(any) : any \in RunnerWords}
  <2>1. f \in Said /\ g \in Said
    OBVIOUS
  <2> HIDE DEF f, g, Said
  <2>2. <<f>> \in Seq(Said) /\ <<f, g>> \in Seq(Said)
    BY <2>1
  <2> QED
    BY <2>2 DEF f, g, Said
<1>5. CASE RunnerBegins
  <2> DEFINE word == Named("compare_started")
  <2>1. <<word>> \in Seq({Named(any) : any \in RunnerWords})
    BY <1>4 DEF RunnerWords
  <2>2. stream' = stream \o <<word>> /\ out' = out
    <3>1. stream \in Seq(Carried) /\ word \in Carried
      BY DEF ApartInv, Carried, RunnerWords
    <3>2. stream' = Append(stream, word) /\ out' = out
      BY <1>5 DEF RunnerBegins
    <3> HIDE DEF word
    <3> QED
      BY <3>1, <3>2, AppendIsConcat
  <2>3. \A s \in Runs : stage'[s] = "failed" <=> stage[s] = "failed"
    BY <1>5 DEF RunnerBegins, CompInv, Course
  <2> QED
    BY <2>1, <2>2, <2>3, RunnerTells
<1>6. CASE RunnerResumes \/ RunnerCancelled
  <2>1. \E name \in {"compare_result", "compare_failed", "error"} :
           stream' = stream \o <<Named(name), Named("done")>>
    BY <1>6 DEF RunnerResumes, RunnerCancelled, CancelledFrame, Done
  <2>2. PICK name \in {"compare_result", "compare_failed", "error"} :
           stream' = stream \o <<Named(name), Named("done")>>
    BY <2>1
  <2>3. <<Named(name), Named("done")>> \in Seq({Named(any) : any \in RunnerWords})
    BY <1>4 DEF RunnerWords
  <2>4. out' = out /\ stage' = stage
    BY <1>6 DEF RunnerResumes, RunnerCancelled, pipelineVars
  <2> QED
    BY <2>2, <2>3, <2>4, RunnerTells
<1>7. ASSUME NEW s \in Runs, Begin(s) \/ BeginFails(s) \/ SideProceeds(s) PROVE ApartInv'
  <2>1. Forward(s, <<>>)
    BY <1>7 DEF Begin, BeginFails, SideProceeds
  <2>2. /\ out[s] \in Seq(Events) /\ stage[s] # "failed"
        /\ \E said \in Seq(Events) : out'[s] = out[s] \o said
        /\ \A q \in Runs : q # s => stage'[q] = stage[q] /\ out'[q] = out[q]
    BY <1>7, SideSays DEF Begin
  <2> QED
    BY <2>1, <2>2, SideTells
<1>8. ASSUME NEW s \in Runs, NEW planned \in SUBSET Departments,
             NEW listed \in SUBSET Documents, NEW kept \in SUBSET Documents,
             NEW refused \in SUBSET Documents,
             SideGathered(s, planned, listed, kept, refused)
      PROVE  ApartInv'
  <2>1. Forward(s, <<Narrated>>) /\ Gathered(s)
    BY <1>8 DEF SideGathered, Narrated
  <2>2. /\ out[s] \in Seq(Events) /\ stage[s] # "failed"
        /\ \E said \in Seq(Events) : out'[s] = out[s] \o said
        /\ \A q \in Runs : q # s => stage'[q] = stage[q] /\ out'[q] = out[q]
    BY <2>1, SideSays
  <2> QED
    BY <2>1, <2>2, SideTells
<1>9. ASSUME NEW s \in Runs, SideCancelled(s) PROVE ApartInv'
  <2>1. /\ stage \in [Runs -> Stages] /\ stage[s] # "failed"
        /\ stage' = [stage EXCEPT ![s] = "cancelled"]
        /\ UNCHANGED <<stream, out>>
    BY <1>9 DEF CompInv, Typed, PipelineInv, PipelineTypeOK, SideCancelled, Cancelled,
                comparisonOnly, Waiting
  <2> QED
    BY <2>1, NothingTold
<1> QED
  BY <1>1, <1>2, <1>3, <1>5, <1>6, <1>7, <1>8, <1>9, <1>10 DEF ComparisonNext, SideStep

(* A reader can take the one stream apart: what carries a side is what     *)
(* that side's own pipeline emitted, whole and in order, however the two   *)
(* are interleaved.                                                        *)
THEOREM StreamCanBeTakenApart == ComparisonSpec => []SidesKeptApart
<1>1. ASSUME CompInv, ApartInv, NEW s \in Runs
      PROVE  /\ [i \in 1 .. Len(Told(s)) |-> Told(s)[i].event]
                  = out[s] \o IF stage[s] = "failed" THEN <<ErrorEvent>> ELSE <<>>
             /\ \A i \in 1 .. Len(stream) : stream[i].side = s =>
                   \/ stream[i] \in OwnFrames(s)
                   \/ stream[i].event = Event("gatherer_result", 0, FALSE)
  <2> DEFINE error == ErrorEvent
             own == IF stage[s] = "failed" THEN <<error>> ELSE <<>>
             all == out[s] \o own
             T == OwnFrames(s)
  <2>1. out[s] \in Seq(Events) /\ error \in Events
    <3>1. error \in Events
      BY PipelineAssumption DEF ErrorEvent, Event, Events
    <3> QED
      BY <1>1, <3>1 DEF CompInv, Typed, PipelineInv, PipelineTypeOK
  <2>2. \A e \in Events : Frame(s, e) \in T /\ Frame(s, e).event = e
    BY FramesOfSides DEF Frame
  <2>3. Tagged(s, own) = Repeated(s)
    <3>1. Tagged(s, <<>>) = <<>> /\ Tagged(s, <<error>>) = <<Frame(s, error)>>
      BY DEF Tagged
    <3> QED
      BY <3>1 DEF Repeated
  <2> HIDE DEF error, T
  <2>4. own \in Seq(Events) /\ all \in Seq(Events)
    <3>1. own \in Seq(Events)
      <4>1. own = <<error>> \/ own = <<>>
        OBVIOUS
      <4> HIDE DEF own
      <4> QED
        BY <2>1, <4>1, OneOrNone
    <3> HIDE DEF own
    <3> QED
      BY <2>1, <3>1
  <2> HIDE DEF own
  <2>5. Told(s) = Tagged(s, all)
    BY <1>1, <2>1, <2>3, <2>4, TaggedBoth DEF ApartInv
  <2> HIDE DEF all
  <2>6. /\ Tagged(s, all) \in Seq(T) /\ Len(Tagged(s, all)) = Len(all)
        /\ \A i \in 1 .. Len(all) : Tagged(s, all)[i] = Frame(s, all[i])
    <3>1. (\A e \in Events : Frame(s, e) \in T) /\ all \in Seq(Events)
      BY <2>2, <2>4
    <3> QED
      BY <3>1, TaggedFrames
  <2>7. [i \in 1 .. Len(Told(s)) |-> Told(s)[i].event] = all
    <3>1. \A i \in 1 .. Len(all) : Told(s)[i].event = all[i]
      BY <2>2, <2>4, <2>5, <2>6
    <3>2. all = [i \in 1 .. Len(all) |-> all[i]]
      BY <2>4
    <3> QED
      BY <2>5, <2>6, <3>1, <3>2
  <2>8. ASSUME NEW i \in 1 .. Len(stream), stream[i].side = s
        PROVE  \/ stream[i] \in OwnFrames(s)
               \/ stream[i].event = Event("gatherer_result", 0, FALSE)
    <3>1. stream[i] \in Carried
      BY <1>1 DEF ApartInv
    <3>2. \A name \in RunnerWords : Named(name).side = NoSide
      BY RunnerFrame
    <3>3. stream[i] \in SideFrames
      BY <2>8, <3>1, <3>2, ComparisonAssumption DEF Carried
    <3> QED
      BY <2>8, <3>3 DEF SideFrames, OwnFrames, Narrated
  <2> QED
    BY <2>7, <2>8 DEF all, own, error
<1>2. CompInv /\ ApartInv => SidesKeptApart
  BY <1>1 DEF SidesKeptApart
<1> QED
  BY <1>2, CompInitInv, CompNextInv, ApartInitInv, ApartNextInv, PTL DEF ComparisonSpec

-----------------------------------------------------------------------------
(* Composition: both sides are pipeline runs, however they interleave.     *)
LEMMA ComparisonHosts == CompInv /\ [ComparisonNext]_comparisonVars => HostStep
<1> SUFFICES ASSUME CompInv, [ComparisonNext]_comparisonVars PROVE HostStep
  OBVIOUS
<1>1. CASE RunnerBegins
  BY <1>1 DEF RunnerBegins, CompInv, Course, CreatedAtOnce, HostStep
<1>2. ASSUME NEW s \in Runs, SideStep(s) PROVE HostStep
  <2>1. CASE \/ Begin(s)
             \/ \E planned \in SUBSET Departments,
                   listed, kept, refused \in SUBSET Documents :
                   SideGathered(s, planned, listed, kept, refused)
    BY <2>1 DEF Begin, SideGathered, Advance, HostStep
  <2>2. CASE BeginFails(s)
    BY <2>2 DEF BeginFails, NeverBegins, HostStep
  <2>3. CASE SideProceeds(s)
    <3>1. Advance(s)
      BY <2>3, ComparisonAssumption DEF SideProceeds, Advance
    <3> QED
      BY <3>1 DEF HostStep
  <2>4. CASE SideCancelled(s)
    <3>1. Cancelled(s) \/ NeverBegins(s)
      BY <2>4 DEF SideCancelled, NeverBegins
    <3> QED
      BY <3>1 DEF HostStep
  <2> QED
    BY <1>2, <2>1, <2>2, <2>3, <2>4 DEF SideStep
<1>3. ASSUME NEW yaml \in PermissionEdits, SavePermissions(yaml) PROVE HostStep
  BY <1>3 DEF SavePermissions, HostStep
<1>6. ASSUME NEW i \in Documents, ChangeDocument(i) PROVE HostStep
  BY <1>6 DEF ChangeDocument, HostStep
<1>4. CASE Compare \/ Cancel \/ RunnerResumes \/ RunnerCancelled
  BY <1>4 DEF Compare, Cancel, RunnerResumes, RunnerCancelled, HostStep
<1>5. CASE ComparisonOver \/ UNCHANGED comparisonVars
  BY <1>5 DEF ComparisonOver, comparisonVars, HostStep
<1> QED
  BY <1>1, <1>2, <1>3, <1>4, <1>5, <1>6 DEF ComparisonNext

(* The two sides of a comparison implement ReviewedAnswer.                 *)
THEOREM SidesShipReviewed == ComparisonSpec => ShipsReviewed
<1>1. ComparisonInit => Answer!Init
  BY AnswerInit DEF ComparisonInit
<1>2. CompInv /\ [ComparisonNext]_comparisonVars => [Answer!Next]_(Answer!vars)
  BY ComparisonHosts, HostReviews DEF CompInv, Typed
<1> QED
  BY <1>1, <1>2, CompInitInv, CompNextInv, PTL DEF ComparisonSpec, ShipsReviewed, Answer!Spec

(* Each side announces what was reviewed, tells its loop and ends once; so *)
(* the final states a diff repeats are true.                               *)
THEOREM SidesKeepStory ==
    ComparisonSpec => [](ShippedAsReviewed /\ StreamTellsLoop /\ OneTerminalEvent)
<1>1. ComparisonInit => StoryInv
  BY StoryInit DEF ComparisonInit
<1>2. CompInv /\ StoryInv /\ [ComparisonNext]_comparisonVars => StoryInv'
  BY ComparisonHosts, HostTells DEF CompInv, Typed
<1>3. CompInv /\ StoryInv => ShippedAsReviewed /\ StreamTellsLoop /\ OneTerminalEvent
  BY AsReviewed, StoryTold, NothingAfterTheEnd DEF CompInv, Typed
<1> QED
  BY <1>1, <1>2, <1>3, CompInitInv, CompNextInv, PTL DEF ComparisonSpec

-----------------------------------------------------------------------------
(* comparable_roles reads the permissions config alone, and the gate reads *)
(* two: a comparable role reads no more than the caller exactly when the   *)
(* environment config lets the caller into every department, with anything *)
(* in it, that it lets the comparable role into.                           *)
AsWelcome(mine, other, yaml, env) ==
    \A d \in DepartmentsForRole(other, yaml) \cap Departments :
        other \in env[d] /\ Inside[d] # {} => mine \in env[d]

(* ComparableRoles means narrower if and only if AsWelcome.                *)
THEOREM NarrowerIfAsWelcome ==
    ASSUME NEW yaml, NEW env, NEW mine, NEW other \in ComparableRoles(mine, yaml)
    PROVE  Readable(other, yaml, env) \subseteq Readable(mine, yaml, env)
             <=> AsWelcome(mine, other, yaml, env)
<1>1. /\ RoleKnown(mine, yaml) /\ RoleKnown(other, yaml)
      /\ DepartmentsForRole(other, yaml) \subseteq DepartmentsForRole(mine, yaml)
  BY DEF ComparableRoles, RoleKnown
<1>2. ASSUME AsWelcome(mine, other, yaml, env), NEW i \in Readable(other, yaml, env)
      PROVE  i \in Readable(mine, yaml, env)
  <2>1. i \in Items /\ i[1] \in Departments
    BY DEF Readable, Items
  <2>2. /\ i[1] \in DepartmentsForRole(other, yaml) /\ other \in env[i[1]]
        /\ i[2] \in Inside[i[1]]
    BY DEF Readable, Allowed, DepartmentAllowed, Check, PathWithin
  <2>3. mine \in env[i[1]]
    BY <1>2, <2>1, <2>2 DEF AsWelcome
  <2> QED
    BY <1>1, <2>1, <2>2, <2>3 DEF Readable, Allowed, DepartmentAllowed, Check, PathWithin
<1>3. ASSUME Readable(other, yaml, env) \subseteq Readable(mine, yaml, env),
             NEW d \in DepartmentsForRole(other, yaml) \cap Departments,
             other \in env[d], NEW p \in Inside[d]
      PROVE  mine \in env[d]
  <2>1. p \in Paths
    BY PermissionsAssumption
  <2>2. <<d, p>> \in Readable(other, yaml, env)
    BY <1>1, <1>3, <2>1
       DEF Readable, Items, Allowed, DepartmentAllowed, Check, PathWithin
  <2>3. <<d, p>> \in Readable(mine, yaml, env)
    BY <1>3, <2>2
  <2> QED
    BY <2>3 DEF Readable, Allowed, DepartmentAllowed
<1> QED
  BY <1>2, <1>3 DEF AsWelcome

(* build_diff calls the sources of one side "only" its own.  When both     *)
(* sides read the same permissions config, under which the pair was still  *)
(* comparable, and the caller is as welcome, what only the narrower side   *)
(* cites is something the caller was permitted to read: it did not choose  *)
(* it, or it was not there when the caller's side looked.                  *)
OnlyTheirsIsChoice ==
    (/\ diff # <<>> /\ perms[Yours] = perms[Theirs]
     /\ role[Theirs] \in ComparableRoles(role[Yours], perms[Yours])
     /\ AsWelcome(role[Yours], role[Theirs], perms[Yours], config))
        => diff[1].only_theirs \subseteq Readable(role[Yours], perms[Yours], config)

(* What only the narrower side cites, the caller was permitted to read,    *)
(* unless the configs say otherwise than comparable_roles assumed.         *)
THEOREM DifferenceIsChoice == ComparisonSpec => []OnlyTheirsIsChoice
<1>1. ASSUME CompInv, diff # <<>>, perms[Yours] = perms[Theirs],
             role[Theirs] \in ComparableRoles(role[Yours], perms[Yours]),
             AsWelcome(role[Yours], role[Theirs], perms[Yours], config)
      PROVE  diff[1].only_theirs \subseteq Readable(role[Yours], perms[Yours], config)
  <2>1. diff = <<BuildDiff>>
    BY <1>1 DEF CompInv, Outcome
  <2>2. diff[1].only_theirs = sources[Theirs] \ sources[Yours]
    BY <2>1 DEF BuildDiff
  <2>3. sources[Theirs] \subseteq Readable(role[Theirs], perms[Yours], config)
    BY <1>1, ComparisonAssumption DEF CompInv, Gated
  <2>4. Readable(role[Theirs], perms[Yours], config)
          \subseteq Readable(role[Yours], perms[Yours], config)
    BY <1>1, NarrowerIfAsWelcome
  <2> QED
    BY <2>2, <2>3, <2>4
<1>2. CompInv => OnlyTheirsIsChoice
  BY <1>1 DEF OnlyTheirsIsChoice
<1> QED
  BY <1>2, CompInitInv, CompNextInv, PTL DEF ComparisonSpec

(* Nor does a comparison give its sides more steps than each has.          *)
THEOREM SidesSpend == ComparisonSpec => []Bounded /\ [][Spends]_comparisonVars
<1>1. CompInv => Bounded
  BY RemainingIs DEF CompInv, Typed, Bounded, Measured
<1>2. CompInv /\ [ComparisonNext]_comparisonVars => [Spends]_comparisonVars
  BY ComparisonHosts, HostSpends DEF CompInv, Typed
<1> QED
  BY <1>1, <1>2, CompInitInv, CompNextInv, PTL DEF ComparisonSpec
=============================================================================
