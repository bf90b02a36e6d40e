-------------------------- MODULE RecordingsProofs --------------------------
(***************************************************************************)
(* What is proved of module Recordings, for any number of recorded runs    *)
(* and of replays, any prompts and any roles, and names that meet in       *)
(* whatever way.                                                           *)
(***************************************************************************)
EXTENDS Recordings, SubsequenceProofs, FiniteSetTheorems

Stages == {"new", "running", "ended"}

RunsTypeOK ==
    /\ DOMAIN files = Names
    /\ stage \in [Takes -> Stages]
    /\ DOMAIN name = Takes
    /\ \A r \in Takes : stage[r] # "new" => name[r] \in Names
    /\ together \in [Takes -> SUBSET Takes]
    /\ saved \subseteq Takes

(* Runs are requested in their order, so there are names enough.           *)
RequestedInOrder ==
    \A r \in Takes, q \in Takes : q < r /\ stage[r] # "new" => stage[q] # "new"

(* A file that exists was written under the name of a run.                 *)
FilesNamed ==
    \A n \in Names : files[n] # NoFile => \E r \in Takes : stage[r] # "new" /\ name[r] = n

(* Runs that are in flight together know of each other, and so does a      *)
(* saved run of one that has its name and is still in flight or was saved  *)
(* too.                                                                    *)
FlightsKnown ==
    /\ \A r, q \in InFlight : q # r => q \in together[r]
    /\ \A r \in Takes : \A q \in together[r] : r \in together[q] /\ stage[q] # "new"
    /\ \A r, q \in saved : q # r /\ name[q] = name[r] => q \in together[r]
    /\ \A r \in saved :
         /\ stage[r] = "ended"
         /\ files[name[r]] # NoFile
         /\ \A q \in InFlight : name[q] = name[r] => q \in together[r]

KeptInv == RunsTypeOK /\ RequestedInOrder /\ FilesNamed /\ FlightsKnown /\ RecordingKept

-----------------------------------------------------------------------------
(* unique_name finds a free name, if there is one.                         *)
LEMMA FirstFreeIsFree ==
    ASSUME NEW prompt \in Prompts, NEW as \in Roles, NEW k \in 1..MaxTakes,
           files[Series[<<prompt, as>>][k]] = NoFile
    PROVE  UniqueName(prompt, as) \in Names /\ files[UniqueName(prompt, as)] = NoFile
<1> DEFINE tries == Series[<<prompt, as>>]
           free == {n \in 1..MaxTakes : files[tries[n]] = NoFile}
           IsFirst(n) == /\ files[tries[n]] = NoFile
                         /\ \A m \in 1..(n - 1) : files[tries[m]] # NoFile
<1>0. tries \in [1..MaxTakes -> Names]
  BY RecordingsAssumption
<1>1. PICK n \in free : \A m \in free : n <= m
  <2>1. free \subseteq 1..MaxTakes /\ k \in free /\ MaxTakes \in Nat
    BY RecordingsAssumption
  <2> HIDE DEF free
  <2> QED
    BY <2>1, LeastMember
<1>2. n \in 1..MaxTakes /\ IsFirst(n)
  <2>1. ASSUME NEW m \in 1..(n - 1) PROVE files[tries[m]] # NoFile
    <3>1. m \in 1..MaxTakes /\ ~(n <= m)
      BY RecordingsAssumption
    <3> HIDE DEF tries
    <3> QED
      BY <1>1, <3>1
  <2> QED
    BY <2>1
<1> DEFINE first == CHOOSE m \in 1..MaxTakes : IsFirst(m)
<1>3. first \in 1..MaxTakes /\ IsFirst(first)
  BY <1>2
<1>4. UniqueName(prompt, as) = tries[first]
  BY DEF UniqueName
<1> HIDE DEF first, tries
<1> QED
  BY <1>0, <1>3, <1>4

(* The r-th run finds a free name: there are fewer runs before it than     *)
(* names in its series, and each has one.                                  *)
LEMMA NamesEnough ==
    ASSUME RunsTypeOK, RequestedInOrder, FilesNamed, NEW r \in Takes, stage[r] = "new",
           NEW prompt \in Prompts, NEW as \in Roles
    PROVE  \E k \in 1..MaxTakes : files[Series[<<prompt, as>>][k]] = NoFile
<1> DEFINE tries == Series[<<prompt, as>>]
<1>1. /\ tries \in [1..MaxTakes -> Names]
      /\ \A m, n \in 1..MaxTakes : tries[m] = tries[n] => m = n
      /\ MaxTakes \in Nat /\ r \in 1..MaxTakes
  BY RecordingsAssumption DEF Takes
<1> SUFFICES ASSUME \A k \in 1..MaxTakes : files[tries[k]] # NoFile PROVE FALSE
  OBVIOUS
<1> HIDE DEF tries
<1> DEFINE Owns(k, q) == q \in Takes /\ stage[q] # "new" /\ name[q] = tries[k]
           owner == [k \in 1..MaxTakes |-> CHOOSE q : Owns(k, q)]
           before == Takes \ {r}
<1>2. ASSUME NEW k \in 1..MaxTakes PROVE Owns(k, owner[k])
  <2>1. \E q : Owns(k, q)
    BY <1>1 DEF FilesNamed
  <2> HIDE DEF Owns
  <2> QED
    BY <2>1
<1>3. owner \in [1..MaxTakes -> before]
  BY <1>2
<1>4. /\ IsFiniteSet(1..MaxTakes) /\ Cardinality(1..MaxTakes) = MaxTakes
  BY <1>1, FS_Interval
<1>5. /\ IsFiniteSet(before) /\ Cardinality(before) = MaxTakes - 1
  BY <1>1, <1>4, FS_RemoveElement DEF Takes
<1> HIDE DEF owner, before
<1>6. PICK m, n \in 1..MaxTakes : m # n /\ owner[m] = owner[n]
  <2> DEFINE tried == 1..MaxTakes
  <2>1. Cardinality(before) < Cardinality(tried)
    BY <1>1, <1>4, <1>5
  <2>2. /\ owner \in [tried -> before] /\ IsFiniteSet(tried) /\ IsFiniteSet(before)
    BY <1>3, <1>4, <1>5
  <2> HIDE DEF tried
  <2>3. \E m, n \in tried : m # n /\ owner[m] = owner[n]
    BY ONLY <2>1, <2>2, FS_PigeonHole, Zenon
  <2> QED
    BY <2>3 DEF tried
<1>7. tries[m] = name[owner[m]] /\ tries[n] = name[owner[n]]
  BY <1>2
<1> QED
  BY <1>1, <1>6, <1>7

(* Initially there is nothing.                                             *)
LEMMA KeptInitInv == Init => KeptInv
<1> SUFFICES ASSUME Init PROVE KeptInv
  OBVIOUS
<1> USE DEF Init
<1>1. RunsTypeOK
  BY DEF RunsTypeOK, Stages
<1>2. RequestedInOrder /\ FilesNamed
  BY DEF RequestedInOrder, FilesNamed
<1>3. FlightsKnown /\ RecordingKept
  BY DEF FlightsKnown, InFlight, RecordingKept
<1> QED
  BY <1>1, <1>2, <1>3 DEF KeptInv

(* A run is requested: its name is that of no file, hence of no saved run. *)
LEMMA RequestKept ==
    ASSUME KeptInv, NEW r \in Takes, NEW prompt \in Prompts, NEW as \in Roles,
           Request(r, prompt, as)
    PROVE  KeptInv'
<1> USE DEF KeptInv
<1> DEFINE new == UniqueName(prompt, as)
<1>2. r \in 1..MaxTakes /\ r \in Nat
  BY RecordingsAssumption DEF Takes
<1>4. new \in Names /\ files[new] = NoFile
  <2>1. stage[r] = "new"
    BY DEF Request
  <2>2. \E k \in 1..MaxTakes : files[Series[<<prompt, as>>][k]] = NoFile
    BY <2>1, NamesEnough
  <2> QED
    BY <2>2, FirstFreeIsFree
<1> HIDE DEF new
<1>5. /\ stage' = [stage EXCEPT ![r] = "running"]
      /\ name' = [name EXCEPT ![r] = new]
      /\ stage[r] = "new"
      /\ files' = files /\ saved' = saved
  BY DEF Request, new
<1>6. \A p, q \in Takes : p # r /\ q \in together[p] => q \in together'[p]
  BY DEF Request, RunsTypeOK, InFlight
<1>7. RunsTypeOK'
  <2>1. together' \in [Takes -> SUBSET Takes]
    BY DEF Request, RunsTypeOK, InFlight
  <2> QED
    BY <1>4, <1>5, <2>1 DEF RunsTypeOK, Stages
<1>8. RequestedInOrder'
  <2>1. /\ \A q \in Takes : stage'[q] = IF q = r THEN "running" ELSE stage[q]
        /\ \A q \in Takes : name'[q] = IF q = r THEN new ELSE name[q]
    BY <1>5 DEF RunsTypeOK
  <2>2. \A q \in Takes : q < r => stage[q] # "new"
    BY <1>2, RecordingsAssumption DEF Request, Takes
  <2>3. \A p, q \in Takes : q < p /\ stage'[p] # "new" => stage'[q] # "new"
    BY <2>1, <2>2 DEF RequestedInOrder
  <2> QED
    BY <2>3 DEF RequestedInOrder
<1>9. FilesNamed'
  BY <1>5 DEF FilesNamed, RunsTypeOK
<1>10. InFlight' = InFlight \cup {r}
  BY <1>5 DEF InFlight, RunsTypeOK
<1>11. r \notin saved
  BY <1>5 DEF FlightsKnown
<1>12. FlightsKnown'
  <2>1. ASSUME NEW p \in InFlight', NEW q \in InFlight', q # p
        PROVE  q \in together'[p]
    BY <1>5, <1>10, <2>1 DEF Request, RunsTypeOK, InFlight, FlightsKnown
  <2>2. ASSUME NEW p \in saved
        PROVE  /\ stage'[p] = "ended"
               /\ files[name'[p]] # NoFile
               /\ \A q \in InFlight' : name'[q] = name'[p] => q \in together'[p]
    <3>1. p # r /\ p \in Takes /\ name'[p] = name[p] /\ files[name[p]] # NoFile
      BY <1>5, <1>11 DEF RunsTypeOK, FlightsKnown
    <3>2. name'[r] # name'[p]
      BY <1>4, <1>5, <3>1 DEF RunsTypeOK
    <3>3. ASSUME NEW q \in InFlight', name'[q] = name'[p] PROVE q \in together'[p]
      <4>1. q \in InFlight /\ q # r /\ q \in Takes
        BY <1>5, <1>10, <3>2, <3>3 DEF InFlight
      <4>2. q \in together[p]
        BY <1>5, <3>1, <3>3, <4>1 DEF FlightsKnown, RunsTypeOK
      <4> QED
        BY <1>6, <3>1, <4>1, <4>2
    <3> QED
      BY <1>5, <3>1, <3>3 DEF FlightsKnown, RunsTypeOK
  <2>3. ASSUME NEW p \in Takes, NEW q \in together'[p]
        PROVE  p \in together'[q] /\ stage'[q] # "new"
    <3>1. /\ \A x \in Takes : together'[x] = IF x = r THEN InFlight
                 ELSE IF x \in InFlight THEN together[x] \cup {r} ELSE together[x]
          /\ r \notin InFlight
      BY <1>5 DEF Request, InFlight
    <3>2. q \in Takes /\ InFlight \subseteq Takes
      BY <1>7 DEF RunsTypeOK, InFlight
    <3>3. \A x \in Takes : r \notin together[x] /\ (stage[x] # "new" => stage'[x] # "new")
      BY <1>5 DEF FlightsKnown, RunsTypeOK
    <3>4. CASE p = r
      BY <1>5, <3>1, <3>2, <3>4 DEF InFlight, RunsTypeOK
    <3>5. CASE p # r /\ q = r
      BY <1>5, <3>1, <3>3, <3>5 DEF RunsTypeOK
    <3>6. CASE p # r /\ q # r
      <4>1. q \in together[p]
        BY <3>1, <3>6
      <4> QED
        BY <1>6, <3>2, <3>3, <3>6, <4>1 DEF FlightsKnown
    <3> QED
      BY <3>4, <3>5, <3>6
  <2>4. ASSUME NEW p \in saved, NEW q \in saved, q # p, name'[q] = name'[p]
        PROVE  q \in together'[p]
    <3>1. p # r /\ q # r /\ p \in Takes /\ q \in Takes
      BY <1>11 DEF RunsTypeOK
    <3>2. q \in together[p]
      BY <1>5, <2>4, <3>1 DEF FlightsKnown, RunsTypeOK
    <3> QED
      BY <1>6, <3>1, <3>2
  <2> QED
    BY <1>5, <2>1, <2>2, <2>3, <2>4 DEF FlightsKnown
<1>13. RecordingKept'
  <2> SUFFICES ASSUME NEW p \in saved
               PROVE  \/ files[name'[p]].of = p
                      \/ \E q \in together'[p] : stage'[q] = "ended" /\ name'[q] = name'[p]
    BY <1>5 DEF RecordingKept
  <2>1. p # r /\ p \in Takes /\ name'[p] = name[p]
    BY <1>5, <1>11 DEF RunsTypeOK
  <2>2. CASE files[name[p]].of = p
    BY <2>1, <2>2
  <2>3. ASSUME NEW q \in together[p], stage[q] = "ended", name[q] = name[p]
        PROVE  q \in together'[p] /\ stage'[q] = "ended" /\ name'[q] = name'[p]
    <3>1. q \in Takes /\ q # r
      BY <1>5, <2>1, <2>3 DEF RunsTypeOK
    <3> QED
      BY <1>5, <1>6, <2>1, <2>3, <3>1 DEF RunsTypeOK
  <2> QED
    BY <2>2, <2>3 DEF RecordingKept
<1> QED
  BY <1>7, <1>8, <1>9, <1>12, <1>13

(* A run ends and may write its file, whole or torn: whoever's recording   *)
(* that was has been in flight together with it.                           *)
LEMMA EndKept ==
    ASSUME KeptInv, NEW r \in Takes, stage[r] = "running",
           stage' = [stage EXCEPT ![r] = "ended"],
           \/ files' = files /\ saved' = saved
           \/ files' = [files EXCEPT ![name[r]] = Torn] /\ saved' = saved
           \/ \E evs : /\ files' = [files EXCEPT ![name[r]] = Recording(r, evs)]
                       /\ saved' = saved \cup {r},
           name' = name, together' = together
    PROVE  KeptInv'
<1> USE DEF KeptInv
<1>1. name[r] \in Names /\ r \notin saved /\ r \in InFlight
  BY DEF RunsTypeOK, FlightsKnown, InFlight
<1>2. r # NoTake
  BY RecordingsAssumption DEF Takes, NoTake
<1>3. /\ Torn # NoFile /\ Torn.of = NoTake
      /\ \A evs : Recording(r, evs) # NoFile /\ Recording(r, evs).of = r
  BY <1>2 DEF Torn, NoFile, Recording
<1>4. /\ \A n \in Names : n # name[r] => files'[n] = files[n]
      /\ \A n \in Names : files[n] # NoFile => files'[n] # NoFile
      /\ DOMAIN files' = Names
      /\ saved' \subseteq saved \cup {r}
      /\ r \in saved' => files'[name[r]].of = r /\ files'[name[r]] # NoFile
      /\ \A n \in Names : files'[n] # files[n] => n = name[r]
  BY <1>1, <1>3 DEF RunsTypeOK
<1>5. InFlight' = InFlight \ {r}
  BY DEF InFlight, RunsTypeOK, Stages
<1>6. RunsTypeOK'
  BY <1>4 DEF RunsTypeOK, Stages
<1>7. RequestedInOrder'
  BY DEF RequestedInOrder, RunsTypeOK
<1>8. FilesNamed'
  <2> SUFFICES ASSUME NEW n \in Names, files'[n] # NoFile
               PROVE  \E q \in Takes : stage'[q] # "new" /\ name[q] = n
    BY DEF FilesNamed
  <2>1. CASE n = name[r]
    BY <2>1 DEF RunsTypeOK
  <2>2. CASE n # name[r]
    BY <1>4, <2>2 DEF FilesNamed, RunsTypeOK
  <2> QED
    BY <2>1, <2>2
<1>9. \A p \in saved : p \in Takes /\ name[p] \in Names /\ p # r /\ stage[p] = "ended"
  BY <1>1 DEF RunsTypeOK, FlightsKnown
<1>10. FlightsKnown'
  <2>1. ASSUME NEW p \in saved'
        PROVE  /\ stage'[p] = "ended"
               /\ files'[name[p]] # NoFile
               /\ \A q \in InFlight' : name[q] = name[p] => q \in together[p]
    <3>1. CASE p = r
      BY <1>1, <1>4, <1>5, <2>1, <3>1 DEF FlightsKnown, RunsTypeOK
    <3>2. CASE p \in saved
      BY <1>4, <1>5, <1>9, <3>2 DEF FlightsKnown, RunsTypeOK
    <3> QED
      BY <1>4, <2>1, <3>1, <3>2
  <2>2. ASSUME NEW p \in saved', NEW q \in saved', q # p, name[q] = name[p]
        PROVE  q \in together[p]
    <3>1. CASE p \in saved /\ q \in saved
      BY <2>2, <3>1 DEF FlightsKnown
    <3>2. CASE p \in saved /\ q = r
      BY <1>1, <2>2, <3>2 DEF FlightsKnown
    <3>3. CASE p = r /\ q \in saved
      <4>1. r \in together[q]
        BY <1>1, <2>2, <3>3 DEF FlightsKnown
      <4> QED
        BY <1>9, <3>3, <4>1 DEF FlightsKnown
    <3> QED
      BY <1>4, <2>2, <3>1, <3>2, <3>3
  <2>3. \A p \in Takes : \A q \in together[p] : p \in together[q] /\ stage'[q] # "new"
    BY DEF FlightsKnown, RunsTypeOK
  <2> QED
    BY <1>5, <2>1, <2>2, <2>3 DEF FlightsKnown
<1>11. RecordingKept'
  <2> SUFFICES ASSUME NEW p \in saved'
               PROVE  \/ files'[name[p]].of = p
                      \/ \E q \in together[p] : stage'[q] = "ended" /\ name[q] = name[p]
    BY DEF RecordingKept
  <2>1. CASE p = r
    BY <1>4, <2>1
  <2>2. CASE p \in saved /\ name[p] = name[r]
    <3>1. r \in together[p] /\ stage'[r] = "ended"
      BY <1>1, <2>2 DEF FlightsKnown, RunsTypeOK
    <3> QED
      BY <2>2, <3>1
  <2>3. CASE p \in saved /\ name[p] # name[r]
    <3>1. files'[name[p]] = files[name[p]]
      BY <1>4, <1>9, <2>3
    <3>2. \A q \in together[p] : stage[q] = "ended" => stage'[q] = "ended"
      BY <1>9, <2>3 DEF RunsTypeOK
    <3> QED
      BY <2>3, <3>1, <3>2 DEF RecordingKept
  <2> QED
    BY <1>4, <2>1, <2>2, <2>3
<1> QED
  BY <1>6, <1>7, <1>8, <1>10, <1>11

(* Runs that die are in flight no more.                                    *)
LEMMA CrashKept ==
    ASSUME KeptInv, Crash
    PROVE  KeptInv'
<1> USE DEF KeptInv
<1>1. \A r \in Takes : /\ stage'[r] = IF stage[r] = "running" THEN "ended" ELSE stage[r]
                       /\ stage'[r] = "new" <=> stage[r] = "new"
  BY DEF Crash, RunsTypeOK
<1>2. stage' \in [Takes -> Stages]
  BY <1>1 DEF Crash, RunsTypeOK, Stages
<1>3. InFlight' = {}
  BY <1>1 DEF InFlight
<1>4. RunsTypeOK' /\ RequestedInOrder' /\ FilesNamed'
  BY <1>1, <1>2 DEF Crash, RunsTypeOK, RequestedInOrder, FilesNamed
<1>5. FlightsKnown'
  BY <1>1, <1>3 DEF Crash, RunsTypeOK, FlightsKnown
<1>6. RecordingKept'
  <2>1. \A r \in saved : \A q \in together[r] : stage[q] = "ended" => stage'[q] = "ended"
    BY <1>1 DEF RunsTypeOK
  <2> QED
    BY <2>1 DEF Crash, RecordingKept
<1> QED
  BY <1>4, <1>5, <1>6

(* Every other step leaves names, files and flights alone.                 *)
LEMMA OtherKept ==
    ASSUME KeptInv, UNCHANGED <<files, stage, name, together, saved>>
    PROVE  KeptInv'
BY DEF KeptInv, RunsTypeOK, RequestedInOrder, FilesNamed, FlightsKnown, InFlight, RecordingKept

(* Every step keeps the invariant.                                         *)
LEMMA KeptNextInv == KeptInv /\ [Next]_vars => KeptInv'
<1> SUFFICES ASSUME KeptInv, [Next]_vars PROVE KeptInv'
  OBVIOUS
<1>1. ASSUME NEW r \in Takes, NEW prompt \in Prompts, NEW as \in Roles,
             Request(r, prompt, as)
      PROVE  KeptInv'
  BY <1>1, RequestKept
<1>2. ASSUME NEW r \in Takes, Progress(r) PROVE KeptInv'
  BY <1>2, OtherKept DEF Progress
<1>3. ASSUME NEW r \in Takes, NEW last, Ends(r, last) PROVE KeptInv'
  BY <1>3, EndKept DEF Ends, Save
<1>4. ASSUME NEW r \in Takes, Cancelled(r) PROVE KeptInv'
  BY <1>4, EndKept DEF Cancelled, Save
<1>5. ASSUME NEW r \in Takes, EndsSilently(r) PROVE KeptInv'
  BY <1>5, EndKept DEF EndsSilently
<1>6. ASSUME NEW p \in Players, NEW n \in Names, NEW as \in Roles, Open(p, n, as)
      PROVE  KeptInv'
  BY <1>6, OtherKept DEF Open, recorderVars
<1>7. ASSUME NEW p \in Players, Begins(p) \/ Plays(p) \/ Stopped(p) PROVE KeptInv'
  BY <1>7, OtherKept DEF Begins, Plays, Stopped, recorderVars
<1>8. CASE Crash
  BY <1>8, CrashKept
<1>9. CASE UNCHANGED vars
  BY <1>9, OtherKept DEF vars, recorderVars
<1> QED
  BY <1>1, <1>2, <1>3, <1>4, <1>5, <1>6, <1>7, <1>8, <1>9 DEF Next

(* unique_name "does not overwrite an existing one": a recording that was  *)
(* written whole is lost only to a run that was in flight beside it.       *)
THEOREM RecordingsAreKept == Spec => []RecordingKept
<1>1. KeptInv => RecordingKept
  BY DEF KeptInv
<1> QED
  BY <1>1, KeptInitInv, KeptNextInv, PTL DEF Spec

-----------------------------------------------------------------------------
(* The role pin.  The run r was recorded as the role as, or was given its  *)
(* name beside a run that was.                                             *)
Pinned(r, as) ==
    /\ r \in Takes /\ stage[r] # "new"
    /\ \/ role[r] = as
       \/ \E q \in Takes :
             q \in together[r] /\ stage[q] # "new" /\ name[q] = name[r] /\ role[q] = as

(* A recording named n was written by a run of the role as.                *)
Bearer(n, as) ==
    \E q \in Takes : q \in saved /\ stage[q] # "new" /\ name[q] = n /\ role[q] = as

(* A whole file is that of a saved run of its name and of its role.        *)
FileOf(rec, n) ==
    /\ rec.of \in Takes /\ rec.of \in saved /\ stage[rec.of] # "new"
    /\ name[rec.of] = n /\ role[rec.of] = rec.role

FilesPinned == \A n \in Names : files[n] \in Whole => FileOf(files[n], n)

(* What a viewer waits for had been recorded as the viewer's role; what it *)
(* plays and was shown is pinned to that role.                             *)
ViewersPinned ==
    \A p \in Players :
        /\ player[p].at \in {"idle", "refused", "created"} => sent[p] = <<>>
        /\ player[p].at = "created" => Bearer(player[p].name, player[p].role)
        /\ player[p].at = "playing" =>
              /\ player[p] \in [at : {"playing"}, name : Names, role : Roles, data : Whole]
              /\ Pinned(player[p].data.of, player[p].role)
              /\ Len(sent[p]) < Len(player[p].data.events)
        /\ \A i \in DOMAIN sent[p] :
              sent[p][i] = OwnError \/ Pinned(sent[p][i].of, player[p].role)

PinInv == RecordingsTypeOK /\ FilesPinned /\ ViewersPinned

(* No run, no file and a torn file are told from runs and whole files.     *)
LEMMA NoRunIsNotOne == NoTake \notin Takes /\ NoFile \notin Whole /\ Torn \notin Whole
BY RecordingsAssumption DEF Takes, NoTake, NoFile, Torn, Whole

(* Nothing is pinned at the start.                                         *)
LEMMA PinInitInv == Init => PinInv
<1> SUFFICES ASSUME Init PROVE PinInv
  OBVIOUS
<1> USE DEF Init
<1>1. RecordingsTypeOK
  BY DEF RecordingsTypeOK, Viewings
<1>2. FilesPinned
  BY NoRunIsNotOne DEF FilesPinned
<1>3. ViewersPinned
  BY DEF ViewersPinned
<1> QED
  BY <1>1, <1>2, <1>3 DEF PinInv

(* Runs that were requested keep name and role, and who was in flight with *)
(* them; what is saved stays counted.                                      *)
FlightsStay ==
    /\ saved \subseteq saved'
    /\ \A q \in Takes : stage[q] # "new" =>
          /\ stage'[q] # "new" /\ name'[q] = name[q] /\ role'[q] = role[q]
          /\ together[q] \subseteq together'[q]

(* While that is so, what is pinned to a role stays pinned to it.          *)
LEMMA PinsStay ==
    ASSUME FlightsStay
    PROVE  /\ \A r, as : Pinned(r, as) => Pinned(r, as)'
           /\ \A n, as : Bearer(n, as) => Bearer(n, as)'
           /\ \A rec, n : FileOf(rec, n) => FileOf(rec, n)'
<1>1. ASSUME NEW r, NEW as, Pinned(r, as) PROVE Pinned(r, as)'
  <2>1. CASE role[r] = as
    BY <1>1, <2>1 DEF Pinned, FlightsStay
  <2>2. CASE \E q \in Takes :
               q \in together[r] /\ stage[q] # "new" /\ name[q] = name[r] /\ role[q] = as
    BY <1>1, <2>2 DEF Pinned, FlightsStay
  <2> QED
    BY <1>1, <2>1, <2>2 DEF Pinned
<1>2. ASSUME NEW n, NEW as, Bearer(n, as) PROVE Bearer(n, as)'
  BY <1>2 DEF Bearer, FlightsStay
<1>3. ASSUME NEW rec, NEW n, FileOf(rec, n) PROVE FileOf(rec, n)'
  BY <1>3 DEF FileOf, FlightsStay
<1> QED
  BY <1>1, <1>2, <1>3

(* So is what the viewers were shown, when nothing is sent to them.        *)
LEMMA ViewersStayPinned ==
    ASSUME ViewersPinned, UNCHANGED <<player, sent>>, FlightsStay
    PROVE  ViewersPinned'
BY PinsStay DEF ViewersPinned

(* The file of a name that was recorded as the role as is pinned to it:    *)
(* two runs that were saved under one name were in flight together.        *)
LEMMA BearerPins ==
    ASSUME KeptInv, FilesPinned, NEW n \in Names, NEW as, Bearer(n, as), files[n] \in Whole
    PROVE  Pinned(files[n].of, as)
<1>1. PICK q \in Takes : q \in saved /\ stage[q] # "new" /\ name[q] = n /\ role[q] = as
  BY DEF Bearer
<1>2. FileOf(files[n], n)
  BY DEF FilesPinned
<1>3. q = files[n].of \/ q \in together[files[n].of]
  BY <1>1, <1>2 DEF FileOf, KeptInv, FlightsKnown
<1> QED
  BY <1>1, <1>2, <1>3 DEF Pinned, FileOf

(* A run is requested.                                                     *)
LEMMA RequestPinned ==
    ASSUME KeptInv, KeptInv', PinInv, NEW r \in Takes, NEW prompt \in Prompts,
           NEW as \in Roles, Request(r, prompt, as)
    PROVE  PinInv'
<1> USE DEF PinInv
<1>1. /\ stage' = [stage EXCEPT ![r] = "running"] /\ stage[r] = "new"
      /\ role' = [role EXCEPT ![r] = as]
      /\ name' = [name EXCEPT ![r] = UniqueName(prompt, as)]
      /\ UNCHANGED <<files, pages, events, live, saved, player, sent>>
  BY DEF Request
<1>3. stage \in [Takes -> Stages] /\ DOMAIN name = Takes /\ role \in [Takes -> Roles \cup {"none"}]
  BY DEF KeptInv, RunsTypeOK, RecordingsTypeOK
<1>4. RecordingsTypeOK'
  <2>1. /\ \A q \in Takes : stage'[q] # "new" => name'[q] \in Names
        /\ stage' \in [Takes -> Stages]
        /\ together' \in [Takes -> SUBSET Takes]
    BY DEF KeptInv, RunsTypeOK
  <2>2. \A q \in Takes : stage'[q] # "new" => role'[q] \in Roles
    BY <1>1, <1>3 DEF RecordingsTypeOK
  <2>3. role' \in [Takes -> Roles \cup {"none"}]
    BY <1>1, <1>3
  <2> QED
    BY <1>1, <2>1, <2>2, <2>3 DEF RecordingsTypeOK, Stages
<1>5. FlightsStay
  <2>1. \A q \in Takes : q # r => together[q] \subseteq together'[q]
    BY DEF Request
  <2> QED
    BY <1>1, <1>3, <2>1 DEF FlightsStay
<1>6. FilesPinned'
  BY <1>1, <1>5, PinsStay DEF FilesPinned
<1> QED
  BY <1>1, <1>4, <1>5, <1>6, ViewersStayPinned

(* A run goes on or ends, and may write its file under its name.           *)
LEMMA RunPinned ==
    ASSUME PinInv, NEW r \in Takes, stage[r] = "running",
           stage' = [stage EXCEPT ![r] = "ended"] \/ stage' = stage,
           UNCHANGED <<role, name, together, player, sent>>,
           events' \in [Takes -> Seq(Kinds \ {"cancelled"})],
           live' \in [Takes -> Seq(Kinds)],
           pages' = pages \/ pages' = [pages EXCEPT ![name[r]] = r],
           \/ saved' = saved /\ files' = files
           \/ saved' = saved /\ files' = [files EXCEPT ![name[r]] = Torn]
           \/ /\ events'[r] # <<>> /\ files' = [files EXCEPT ![name[r]] = Recording(r, events'[r])]
              /\ saved' = saved \cup {r}
    PROVE  PinInv'
<1> USE DEF PinInv
<1>1. name[r] \in Names /\ role[r] \in Roles
  BY DEF RecordingsTypeOK
<1>2. events'[r] # <<>> => Recording(r, events'[r]) \in Whole
  BY <1>1 DEF Recording, Whole
<1>3. RecordingsTypeOK'
  <2>1. files' \in [Names -> Whole \cup {NoFile, Torn}]
    BY <1>1, <1>2 DEF RecordingsTypeOK
  <2>2. pages' \in [Names -> Takes \cup {NoTake}]
    BY <1>1 DEF RecordingsTypeOK
  <2>3. /\ stage' \in [Takes -> {"new", "running", "ended"}]
        /\ \A q \in Takes : stage'[q] # "new" => stage[q] # "new"
    <3>1. stage \in [Takes -> {"new", "running", "ended"}]
      BY DEF RecordingsTypeOK
    <3>2. CASE stage' = stage
      BY <3>1, <3>2
    <3>3. CASE stage' = [stage EXCEPT ![r] = "ended"]
      BY <3>1, <3>3
    <3> QED
      BY <3>2, <3>3
  <2> QED
    BY <2>1, <2>2, <2>3 DEF RecordingsTypeOK
<1>4. FlightsStay
  BY DEF FlightsStay, RecordingsTypeOK
<1>5. stage'[r] # "new"
  BY DEF RecordingsTypeOK
<1>6. FilesPinned'
  <2> SUFFICES ASSUME NEW n \in Names, files'[n] \in Whole PROVE FileOf(files[n], n)'
    BY DEF FilesPinned
  <2>1. CASE files'[n] = files[n]
    <3>1. FileOf(files[n], n)
      BY <2>1 DEF FilesPinned
    <3>2. FileOf(files[n], n)'
      BY <1>4, <2>1, <3>1, PinsStay DEF FileOf
    <3> QED
      BY <3>2
  <2>2. CASE n = name[r] /\ files'[n] = Recording(r, events'[r]) /\ r \in saved'
    BY <1>1, <1>5, <2>2 DEF Recording, FileOf
  <2>3. CASE files'[n] = Torn
    BY <2>3, NoRunIsNotOne
  <2> QED
    BY <1>1, <2>1, <2>2, <2>3 DEF RecordingsTypeOK
<1> QED
  BY <1>3, <1>4, <1>6, ViewersStayPinned

(* The viewer p moves; the others and all the runs stay.                   *)
LEMMA ViewerPinned ==
    ASSUME PinInv, NEW p \in Players, NEW v \in Viewings, NEW s \in Seq(Frames),
           UNCHANGED <<files, pages, recorderVars>>,
           player' = [player EXCEPT ![p] = v],
           sent' = [sent EXCEPT ![p] = s],
           v.at \in {"idle", "refused", "created"} => s = <<>>,
           v.at = "created" => Bearer(v.name, v.role),
           v.at = "playing" =>
              /\ v \in [at : {"playing"}, name : Names, role : Roles, data : Whole]
              /\ Pinned(v.data.of, v.role)
              /\ Len(s) < Len(v.data.events),
           \A i \in DOMAIN s : s[i] = OwnError \/ Pinned(s[i].of, v.role)
    PROVE  PinInv'
<1> USE DEF PinInv
<1>1. RecordingsTypeOK'
  BY DEF RecordingsTypeOK, recorderVars
<1>2. FilesPinned'
  BY DEF FilesPinned, FileOf, recorderVars
<1>3. /\ \A q, a : Pinned(q, a)' <=> Pinned(q, a)
      /\ \A n, a : Bearer(n, a)' <=> Bearer(n, a)
  BY DEF Pinned, Bearer, recorderVars
<1>4. ViewersPinned'
  <2> SUFFICES ASSUME NEW q \in Players
      PROVE  /\ player'[q].at \in {"idle", "refused", "created"} => sent'[q] = <<>>
             /\ player'[q].at = "created" => Bearer(player[q].name, player[q].role)'
             /\ player'[q].at = "playing" =>
                   /\ player'[q] \in [at : {"playing"}, name : Names, role : Roles, data : Whole]
                   /\ Pinned(player[q].data.of, player[q].role)'
                   /\ Len(sent'[q]) < Len(player'[q].data.events)
             /\ \A i \in DOMAIN sent'[q] :
                   sent'[q][i] = OwnError \/ Pinned(sent[q][i].of, player[q].role)'
    BY DEF ViewersPinned
  <2>1. CASE q = p
    <3>1. player'[q] = v /\ sent'[q] = s
      BY <2>1 DEF RecordingsTypeOK
    <3> QED
      BY <1>3, <3>1
  <2>2. CASE q # p
    <3>1. player'[q] = player[q] /\ sent'[q] = sent[q]
      BY <2>2 DEF RecordingsTypeOK
    <3> QED
      BY <1>3, <3>1 DEF ViewersPinned
  <2> QED
    BY <2>1, <2>2
<1> QED
  BY <1>1, <1>2, <1>4

(* The i-th event of a recording of the viewer's role is a frame of that   *)
(* role.                                                                   *)
LEMMA FrameIsPinned ==
    ASSUME PinInv, NEW n \in Names, NEW rec \in Whole, NEW as, Pinned(rec.of, as),
           NEW i \in 1..Len(rec.events)
    PROVE  Frame(n, rec, i) \in Frames /\ Pinned(Frame(n, rec, i).of, as)
<1>1. rec.of \in Takes /\ rec.events \in Seq(Kinds \ {"cancelled"})
  BY DEF Whole
<1>2. rec.events[i] \in Kinds
  BY <1>1
<1>3. pages[n] \in Takes \cup {NoTake}
  BY DEF PinInv, RecordingsTypeOK
<1> QED
  BY <1>1, <1>2, <1>3 DEF Frame, Frames

(* A replay shows one more event of a recording of the viewer's role.      *)
LEMMA ShownPinned ==
    ASSUME PinInv, NEW p \in Players, NEW rec \in Whole,
           UNCHANGED <<files, pages, recorderVars>>,
           player[p].name \in Names, player[p].role \in Roles,
           Pinned(rec.of, player[p].role),
           NEW i \in 1..Len(rec.events), i = Len(sent[p]) + 1,
           Shown(p, rec, i)
    PROVE  PinInv'
<1> DEFINE v == [at |-> IF i = Len(rec.events) THEN "closed" ELSE "playing",
                 name |-> player[p].name, role |-> player[p].role, data |-> rec]
           f == Frame(player[p].name, rec, i)
           s == Append(sent[p], f)
<1>1. sent[p] \in Seq(Frames) /\ player \in [Players -> Viewings]
  BY DEF PinInv, RecordingsTypeOK
<1>2. f \in Frames /\ Pinned(f.of, player[p].role)
  BY FrameIsPinned
<1>3. player' = [player EXCEPT ![p] = v] /\ sent' = [sent EXCEPT ![p] = s]
  BY <1>1 DEF Shown
<1>4. v \in Viewings /\ v.role = player[p].role /\ v.data = rec
      /\ v.at \in {"closed", "playing"} /\ (v.at = "playing" => i # Len(rec.events))
  BY DEF Viewings
<1>5. v.at = "playing" =>
        v \in [at : {"playing"}, name : Names, role : Roles, data : Whole]
  OBVIOUS
<1>6. s \in Seq(Frames) /\ Len(s) = i
      /\ \A j \in DOMAIN s : s[j] = f \/ (j \in DOMAIN sent[p] /\ s[j] = sent[p][j])
  <2> HIDE DEF f
  <2> QED
    BY <1>1, <1>2
<1>7. \A j \in DOMAIN s : s[j] = OwnError \/ Pinned(s[j].of, v.role)
  <2> HIDE DEF f, s, v
  <2> QED
    BY <1>2, <1>4, <1>6 DEF PinInv, ViewersPinned
<1>8. Len(rec.events) \in Nat
  BY DEF Whole
<1> HIDE DEF f, s, v
<1>9. v.at = "playing" => Len(s) < Len(v.data.events)
  BY <1>4, <1>6, <1>8
<1> QED
  BY <1>2, <1>3, <1>4, <1>5, <1>6, <1>7, <1>9, ViewerPinned

(* A replay ends with the player's own error.                              *)
LEMMA ErrorPinned ==
    ASSUME PinInv, NEW p \in Players, NEW v \in Viewings,
           v.at \in {"failed", "stopped"}, v.role = player[p].role,
           NEW s, s = <<OwnError>> \/ s = Append(sent[p], OwnError),
           UNCHANGED <<files, pages, recorderVars>>,
           player' = [player EXCEPT ![p] = v],
           sent' = [sent EXCEPT ![p] = s]
    PROVE  PinInv'
<1>1. OwnError \in Frames
  BY DEF OwnError, Frames, Kinds
<1>2. sent[p] \in Seq(Frames)
  BY DEF PinInv, RecordingsTypeOK
<1>3. s \in Seq(Frames)
      /\ \A j \in DOMAIN s : s[j] = OwnError \/ (j \in DOMAIN sent[p] /\ s[j] = sent[p][j])
  <2>1. CASE s = <<OwnError>>
    <3>1. s \in Seq(Frames) /\ DOMAIN s = {1} /\ s[1] = OwnError
      BY <1>1, <2>1
    <3> QED
      BY <3>1
  <2>2. CASE s = Append(sent[p], OwnError)
    BY <1>1, <1>2, <2>2
  <2> QED
    BY <2>1, <2>2
<1>4. \A j \in DOMAIN s : s[j] = OwnError \/ Pinned(s[j].of, v.role)
  BY <1>3 DEF PinInv, ViewersPinned
<1>5. v.at \notin {"idle", "refused", "created", "playing"}
  OBVIOUS
<1>6. s \in Seq(Frames)
  BY <1>3
<1> QED
  BY <1>4, <1>5, <1>6, ViewerPinned

(* A viewer who opens a recording is refused, or waits to play it.         *)
LEMMA OpenPinned ==
    ASSUME PinInv, NEW p \in Players, NEW n \in Names, NEW as \in Roles, Open(p, n, as)
    PROVE  PinInv'
<1> DEFINE v == IF Servable(n, as) THEN [at |-> "created", name |-> n, role |-> as]
                ELSE [at |-> "refused"]
<1>1. v \in Viewings
  BY DEF Viewings
<1>2. player[p].at = "idle" /\ sent[p] = <<>> /\ player \in [Players -> Viewings]
      /\ sent \in [Players -> Seq(Frames)]
  BY DEF Open, PinInv, ViewersPinned, RecordingsTypeOK
<1>3. player' = [player EXCEPT ![p] = v] /\ sent' = [sent EXCEPT ![p] = <<>>]
  BY <1>2 DEF Open
<1>4. ASSUME Servable(n, as) PROVE Bearer(n, as)
  <2>1. files[n] \in Whole /\ files[n].role = as
    BY <1>4 DEF Servable, Loadable, PinInv, RecordingsTypeOK
  <2>2. FileOf(files[n], n)
    BY <2>1 DEF PinInv, FilesPinned
  <2> QED
    BY <2>1, <2>2 DEF FileOf, Bearer
<1>5. v.at = "created" => Bearer(v.name, v.role)
  BY <1>4
<1>6. v.at # "playing" /\ UNCHANGED <<files, pages, recorderVars>>
  BY DEF Open
<1> DEFINE s == <<>>
<1>7. s \in Seq(Frames) /\ DOMAIN s = {} /\ s = <<>> /\ sent' = [sent EXCEPT ![p] = s]
  BY <1>3
<1> HIDE DEF v, s
<1> QED
  BY <1>1, <1>3, <1>5, <1>6, <1>7, ViewerPinned

(* A playback begins on a whole file of its role, or ends with an error.   *)
LEMMA BeginsPinned ==
    ASSUME KeptInv, PinInv, NEW p \in Players, Begins(p)
    PROVE  PinInv'
<1> DEFINE n == player[p].name
<1>1. /\ player[p] \in [at : {"created"}, name : Names, role : Roles]
      /\ Bearer(n, player[p].role) /\ sent[p] = <<>>
      /\ UNCHANGED <<files, pages, recorderVars>>
  BY DEF Begins, PinInv, RecordingsTypeOK, ViewersPinned, Viewings
<1>2. CASE Loadable(n)
  <2>0. files[n] \in Whole /\ n \in Names
    BY <1>1, <1>2 DEF Loadable, PinInv, RecordingsTypeOK
  <2>1. files[n] \in Whole /\ Pinned(files[n].of, player[p].role)
    BY <1>1, <2>0, BearerPins DEF PinInv
  <2>2. 1 \in 1..Len(files[n].events) /\ 1 = Len(sent[p]) + 1
    BY <1>1, <2>1 DEF Whole
  <2>3. Shown(p, files[n], 1)
    BY <1>2 DEF Begins
  <2> QED
    BY <1>1, <2>1, <2>2, <2>3, ShownPinned
<1>3. CASE ~Loadable(n)
  <2> DEFINE v == [player[p] EXCEPT !.at = "failed"]
  <2>1. v \in Viewings /\ v.at = "failed" /\ v.role = player[p].role
    BY <1>1 DEF Viewings
  <2>2. player' = [player EXCEPT ![p] = v] /\ sent' = [sent EXCEPT ![p] = <<OwnError>>]
    BY <1>3 DEF Begins
  <2> HIDE DEF v
  <2> QED
    BY <1>1, <2>1, <2>2, ErrorPinned
<1> QED
  BY <1>2, <1>3

(* A playback goes on with the file it began with.                         *)
LEMMA PlaysPinned ==
    ASSUME PinInv, NEW p \in Players, Plays(p) \/ Stopped(p)
    PROVE  PinInv'
<1>1. /\ player[p] \in [at : {"playing"}, name : Names, role : Roles, data : Whole]
      /\ Pinned(player[p].data.of, player[p].role)
      /\ Len(sent[p]) < Len(player[p].data.events)
      /\ sent[p] \in Seq(Frames)
      /\ UNCHANGED <<files, pages, recorderVars>>
  BY DEF Plays, Stopped, PinInv, RecordingsTypeOK, ViewersPinned
<1>2. CASE Plays(p)
  <2>1. player[p].data \in Whole /\ player[p].name \in Names /\ player[p].role \in Roles
    BY <1>1
  <2>2. Len(sent[p]) + 1 \in 1..Len(player[p].data.events)
    BY <1>1, <2>1 DEF Whole
  <2> QED
    BY <1>1, <1>2, <2>1, <2>2, ShownPinned DEF Plays
<1>3. CASE Stopped(p)
  <2> DEFINE v == [player[p] EXCEPT !.at = "stopped"]
             s == Append(sent[p], OwnError)
  <2>1. v \in Viewings /\ v.at = "stopped" /\ v.role = player[p].role
    BY <1>1 DEF Viewings
  <2>2. player' = [player EXCEPT ![p] = v] /\ sent' = [sent EXCEPT ![p] = s]
    BY <1>3 DEF Stopped
  <2>3. s = Append(sent[p], OwnError)
    OBVIOUS
  <2> HIDE DEF v, s
  <2> QED
    BY <1>1, <2>1, <2>2, <2>3, ErrorPinned
<1> QED
  BY <1>2, <1>3

(* The process dies: whoever was served is not any more.                   *)
LEMMA CrashPinned ==
    ASSUME PinInv, Crash
    PROVE  PinInv'
<1> USE DEF PinInv
<1>1. \A r \in Takes : stage'[r] = IF stage[r] = "running" THEN "ended" ELSE stage[r]
  BY DEF Crash
<1>2. stage' \in [Takes -> {"new", "running", "ended"}]
  BY <1>1 DEF Crash, RecordingsTypeOK
<1>3. ASSUME NEW p \in Players
      PROVE  /\ player'[p] \in Viewings
             /\ \/ player'[p] = player[p] /\ player[p].at \notin {"created", "playing"}
                \/ player'[p].at = "gone" /\ player'[p].role = player[p].role
  <2>1. player'[p] = IF player[p].at \in {"created", "playing"}
                     THEN [player[p] EXCEPT !.at = "gone"] ELSE player[p]
    BY DEF Crash
  <2>2. player[p] \in Viewings
    BY DEF RecordingsTypeOK
  <2>3. CASE player[p].at = "created"
    <3>1. player[p] \in [at : {"created"}, name : Names, role : Roles]
      BY <2>2, <2>3 DEF Viewings
    <3> QED
      BY <2>1, <2>3, <3>1 DEF Viewings
  <2>4. CASE player[p].at = "playing"
    <3>1. player[p] \in [at : {"playing"}, name : Names, role : Roles, data : Whole]
      BY <2>4 DEF ViewersPinned
    <3> QED
      BY <2>1, <2>4, <3>1 DEF Viewings
  <2> QED
    BY <2>1, <2>2, <2>3, <2>4
<1>4. player' \in [Players -> Viewings]
  BY <1>3 DEF Crash
<1>5. RecordingsTypeOK'
  BY <1>1, <1>2, <1>4 DEF Crash, RecordingsTypeOK
<1>6. FlightsStay
  BY <1>1 DEF Crash, FlightsStay
<1>7. FilesPinned'
  BY <1>6, PinsStay DEF Crash, FilesPinned
<1>8. ViewersPinned'
  BY <1>3, <1>6, PinsStay DEF Crash, ViewersPinned
<1> QED
  BY <1>5, <1>7, <1>8

(* Every step keeps files and viewers pinned.                              *)
LEMMA PinNextInv == KeptInv /\ KeptInv' /\ PinInv /\ [Next]_vars => PinInv'
<1> SUFFICES ASSUME KeptInv, KeptInv', PinInv, [Next]_vars PROVE PinInv'
  OBVIOUS
<1>1. ASSUME NEW r \in Takes, NEW prompt \in Prompts, NEW as \in Roles,
             Request(r, prompt, as)
      PROVE  PinInv'
  BY <1>1, RequestPinned
<1>2. ASSUME NEW r \in Takes, NEW kind \in Kinds, Emit(r, kind)
      PROVE  /\ live' \in [Takes -> Seq(Kinds)]
             /\ kind # "cancelled" => /\ events' \in [Takes -> Seq(Kinds \ {"cancelled"})]
                                      /\ events'[r] # <<>>
  <2>1. /\ live \in [Takes -> Seq(Kinds)] /\ live[r] \in Seq(Kinds)
        /\ events \in [Takes -> Seq(Kinds \ {"cancelled"})]
        /\ events[r] \in Seq(Kinds \ {"cancelled"})
    BY DEF PinInv, RecordingsTypeOK
  <2>2. Append(live[r], kind) \in Seq(Kinds)
    BY <2>1
  <2>3. kind # "cancelled" => /\ Append(events[r], kind) \in Seq(Kinds \ {"cancelled"})
                              /\ Append(events[r], kind) # <<>>
    <3> SUFFICES ASSUME kind \in Kinds \ {"cancelled"}
                 PROVE  /\ Append(events[r], kind) \in Seq(Kinds \ {"cancelled"})
                        /\ Append(events[r], kind) # <<>>
      OBVIOUS
    <3>1. Append(events[r], kind) \in Seq(Kinds \ {"cancelled"})
      BY <2>1
    <3>2. Len(Append(events[r], kind)) = Len(events[r]) + 1 /\ Len(events[r]) \in Nat
      BY <2>1
    <3> QED
      BY <3>1, <3>2
  <2> QED
    BY <1>2, <2>1, <2>2, <2>3 DEF Emit
<1>3. ASSUME NEW r \in Takes, Progress(r) PROVE PinInv'
  <2>1. /\ live' \in [Takes -> Seq(Kinds)]
        /\ events' \in [Takes -> Seq(Kinds \ {"cancelled"})]
    BY <1>2, <1>3 DEF Progress, Kinds
  <2> QED
    BY <1>3, <2>1, RunPinned DEF Progress
<1>4. ASSUME NEW r \in Takes, NEW last \in {"run_state", "error"}, Ends(r, last)
      PROVE  PinInv'
  <2>1. /\ live' \in [Takes -> Seq(Kinds)]
        /\ events' \in [Takes -> Seq(Kinds \ {"cancelled"})]
        /\ events'[r] # <<>>
    BY <1>2, <1>4 DEF Ends, Kinds
  <2> QED
    BY <1>4, <2>1, RunPinned DEF Ends, Save
<1>5. ASSUME NEW r \in Takes, Cancelled(r) PROVE PinInv'
  <2>1. /\ live' \in [Takes -> Seq(Kinds)]
        /\ events' \in [Takes -> Seq(Kinds \ {"cancelled"})]
        /\ events'[r] # <<>>
    BY <1>5 DEF Cancelled, PinInv, RecordingsTypeOK, Kinds
  <2> QED
    BY <1>5, <2>1, RunPinned DEF Cancelled, Save
<1>6. ASSUME NEW r \in Takes, EndsSilently(r) PROVE PinInv'
  BY <1>6, RunPinned DEF EndsSilently, PinInv, RecordingsTypeOK
<1>7. ASSUME NEW p \in Players, NEW n \in Names, NEW as \in Roles, Open(p, n, as)
      PROVE  PinInv'
  BY <1>7, OpenPinned
<1>8. ASSUME NEW p \in Players, Begins(p) \/ Plays(p) \/ Stopped(p) PROVE PinInv'
  BY <1>8, BeginsPinned, PlaysPinned
<1>9. CASE Crash
  BY <1>9, CrashPinned
<1>10. CASE UNCHANGED vars
  BY <1>10 DEF vars, recorderVars, PinInv, RecordingsTypeOK, FilesPinned, ViewersPinned,
               FileOf, Bearer, Pinned
<1> QED
  BY <1>1, <1>3, <1>4, <1>5, <1>6, <1>7, <1>8, <1>9, <1>10 DEF Next

(* The types and the role pin: what a viewer is shown was recorded by a    *)
(* run of the viewer's own role, or by one that was given the name of such *)
(* a run while that was in flight, whatever becomes of the files           *)
(* meanwhile.                                                              *)
THEOREM ReplaysArePinned == Spec => [](RecordingsTypeOK /\ ReplayPinned)
<1>1. PinInv => RecordingsTypeOK /\ ReplayPinned
  <2> SUFFICES ASSUME PinInv PROVE ReplayPinned
    BY DEF PinInv
  <2>1. \A p \in Players : \A i \in DOMAIN sent[p] :
          sent[p][i] # OwnError => Pinned(sent[p][i].of, player[p].role)
    BY DEF PinInv, ViewersPinned
  <2> QED
    BY <2>1 DEF ReplayPinned, Pinned
<1> QED
  BY <1>1, KeptInitInv, KeptNextInv, PinInitInv, PinNextInv, PTL DEF Spec
-----------------------------------------------------------------------------
(* Event for event.  The recording rec is that of a run that has ended     *)
(* with the name n.                                                        *)
TakeOf(rec, n) ==
    /\ rec.of \in Takes /\ stage[rec.of] = "ended" /\ name[rec.of] = n
    /\ rec.events = events[rec.of]

(* The pages of n are those of runs with that name.                        *)
NamedLinks(n) == {NoTake} \cup {q \in Takes : stage[q] # "new" /\ name[q] = n}

(* The recorder has what the client was sent, but for the cancellation's   *)
(* error, and files have what it had.                                      *)
EventsAsSent ==
    \A r \in Takes :
        \/ live[r] = events[r]
        \/ stage[r] = "ended" /\ live[r] = Append(events[r], "cancelled")

FilesTold ==
    /\ \A n \in Names : files[n] \in Whole => TakeOf(files[n], n)
    /\ \A n \in Names : pages[n] \in NamedLinks(n)

(* What p was told are the first events of rec, linked as n.               *)
ToldInOrder(p, rec, n) ==
    /\ Len(Told(p)) <= Len(rec.events)
    /\ \A i \in DOMAIN Told(p) :
          /\ Told(p)[i].of = rec.of
          /\ Told(p)[i].kind = rec.events[i]
          /\ Told(p)[i].link \in NamedLinks(n)

(* A viewer was told nothing of a run, or the first events of the one      *)
(* recording it plays; the next one follows the last one sent.             *)
Watches(p) ==
    /\ TakeOf(player[p].data, player[p].name)
    /\ ToldInOrder(p, player[p].data, player[p].name)
    /\ player[p].at = "playing" => Len(Told(p)) = Len(sent[p])
    /\ player[p].at = "closed" => Len(Told(p)) = Len(player[p].data.events)

ViewersTold ==
    \A p \in Players : (Told(p) = <<>> /\ player[p].at # "playing") \/ Watches(p)

ToldInv == EventsAsSent /\ FilesTold /\ ViewersTold

(* Initially nobody was told anything.                                     *)
LEMMA ToldInitInv == Init => ToldInv
<1> SUFFICES ASSUME Init PROVE ToldInv
  OBVIOUS
<1>1. EventsAsSent
  BY DEF Init, EventsAsSent
<1>2. FilesTold
  BY NoRunIsNotOne DEF Init, FilesTold, NamedLinks
<1>3. ViewersTold
  BY KeptOfNone DEF Init, ViewersTold, Told
<1> QED
  BY <1>1, <1>2, <1>3 DEF ToldInv

(* Recordings of ended runs stay what they are, and pages keep their runs, *)
(* as long as ended runs are left alone.                                   *)
RunsGoOn ==
    /\ \A q \in Takes : stage[q] # "new" =>
          stage'[q] # "new" /\ name'[q] = name[q]
    /\ \A q \in Takes : stage[q] = "ended" =>
          stage'[q] = "ended" /\ events'[q] = events[q]

(* While runs go on, what was a take of a run stays one.                   *)
LEMMA TakesStay ==
    ASSUME RunsGoOn
    PROVE  /\ \A rec, n : TakeOf(rec, n) => TakeOf(rec, n)'
           /\ \A n : NamedLinks(n) \subseteq NamedLinks(n)'
BY DEF RunsGoOn, TakeOf, NamedLinks

(* While runs go on, a viewer to whom nothing is sent was told the truth.  *)
LEMMA ViewersStayTold ==
    ASSUME ViewersTold, RunsGoOn, UNCHANGED <<player, sent>>
    PROVE  ViewersTold'
<1> SUFFICES ASSUME NEW p \in Players, Watches(p) PROVE Watches(p)'
  BY DEF ViewersTold, Told
<1>1. /\ TakeOf(player[p].data, player[p].name)'
      /\ NamedLinks(player[p].name) \subseteq NamedLinks(player[p].name)'
  BY TakesStay DEF Watches
<1>2. Told(p)' = Told(p)
  BY DEF Told
<1>3. ToldInOrder(p, player[p].data, player[p].name)'
  BY <1>1, <1>2 DEF Watches, ToldInOrder
<1> QED
  BY <1>1, <1>2, <1>3 DEF Watches

(* A run is requested: it has sent nothing, and no file.                   *)
LEMMA RequestTold ==
    ASSUME KeptInv, PinInv, ToldInv, NEW r \in Takes, NEW prompt \in Prompts,
           NEW as \in Roles, Request(r, prompt, as)
    PROVE  ToldInv'
<1>1. RunsGoOn
  BY DEF Request, RunsGoOn, KeptInv, RunsTypeOK, PinInv, RecordingsTypeOK
<1>2. UNCHANGED <<files, pages, events, live, player, sent>>
  BY DEF Request
<1>3. EventsAsSent' /\ FilesTold'
  BY <1>1, <1>2, TakesStay DEF ToldInv, EventsAsSent, RunsGoOn, FilesTold
<1> QED
  BY <1>1, <1>2, <1>3, ViewersStayTold DEF ToldInv

(* What a run emits is recorded, but not that it was cancelled.            *)
LEMMA EmitTold ==
    ASSUME PinInv, EventsAsSent, NEW r \in Takes, NEW kind \in Kinds, stage[r] = "running",
           stage' = [stage EXCEPT ![r] = "ended"] \/ (stage' = stage /\ kind # "cancelled"),
           live' = [live EXCEPT ![r] = Append(@, kind)],
           events' = IF kind = "cancelled" THEN events
                     ELSE [events EXCEPT ![r] = Append(@, kind)]
    PROVE  EventsAsSent'
<1>1. /\ DOMAIN events = Takes /\ DOMAIN live = Takes /\ DOMAIN stage = Takes
      /\ live[r] = events[r]
  BY DEF PinInv, RecordingsTypeOK, EventsAsSent
<1> SUFFICES ASSUME NEW q \in Takes
             PROVE  \/ live'[q] = events'[q]
                    \/ stage'[q] = "ended" /\ live'[q] = Append(events'[q], "cancelled")
  BY DEF EventsAsSent
<1>2. CASE q # r
  <2>1. live'[q] = live[q] /\ events'[q] = events[q] /\ stage'[q] = stage[q]
    BY <1>1, <1>2
  <2> QED
    BY <2>1 DEF EventsAsSent
<1>3. CASE q = r
  BY <1>1, <1>3
<1> QED
  BY <1>2, <1>3

(* A run goes on or ends; the file it may write has all that was recorded. *)
LEMMA RunTold ==
    ASSUME KeptInv, PinInv, ToldInv, EventsAsSent', NEW r \in Takes, stage[r] = "running",
           stage' = [stage EXCEPT ![r] = "ended"] \/ (stage' = stage /\ files' = files),
           UNCHANGED <<role, name, player, sent>>,
           \A q \in Takes : q # r => events'[q] = events[q],
           pages' = pages \/ pages' = [pages EXCEPT ![name[r]] = r],
           \/ files' = files
           \/ files' = [files EXCEPT ![name[r]] = Torn]
           \/ files' = [files EXCEPT ![name[r]] = Recording(r, events'[r])]
    PROVE  ToldInv'
<1>1. /\ stage \in [Takes -> {"new", "running", "ended"}] /\ name[r] \in Names
      /\ DOMAIN files = Names /\ DOMAIN pages = Names
  BY DEF PinInv, RecordingsTypeOK
<1>2. RunsGoOn
  BY <1>1 DEF RunsGoOn
<1>3. ASSUME NEW n \in Names, files'[n] \in Whole PROVE TakeOf(files[n], n)'
  <2>1. CASE files'[n] = files[n]
    <3>1. TakeOf(files[n], n)
      BY <1>3, <2>1 DEF ToldInv, FilesTold
    <3> QED
      BY <1>2, <2>1, <3>1, TakesStay DEF TakeOf
  <2>2. CASE files'[n] = Torn
    BY <1>3, <2>2, NoRunIsNotOne
  <2>3. CASE n = name[r] /\ files'[n] = Recording(r, events'[r]) /\ stage' = [stage EXCEPT ![r] = "ended"]
    BY <1>1, <2>3 DEF TakeOf, Recording
  <2> QED
    BY <1>1, <2>1, <2>2, <2>3
<1>4. ASSUME NEW n \in Names PROVE pages'[n] \in NamedLinks(n)'
  <2>1. CASE pages'[n] = pages[n]
    BY <1>2, <2>1, TakesStay DEF ToldInv, FilesTold
  <2>2. CASE n = name[r] /\ pages'[n] = r
    BY <1>1, <2>2 DEF NamedLinks
  <2> QED
    BY <1>1, <2>1, <2>2
<1>5. FilesTold'
  BY <1>3, <1>4 DEF FilesTold
<1>6. ViewersTold'
  BY <1>2, ViewersStayTold DEF ToldInv
<1> QED
  BY <1>5, <1>6 DEF ToldInv

(* The viewer p moves; the others and all the runs stay.                   *)
LEMMA ViewerTold ==
    ASSUME PinInv, ToldInv, NEW p \in Players, UNCHANGED <<files, pages, recorderVars>>,
           \A q \in Players : q # p => player'[q] = player[q] /\ sent'[q] = sent[q],
           (Told(p)' = <<>> /\ player'[p].at # "playing") \/ Watches(p)'
    PROVE  ToldInv'
<1>1. EventsAsSent' /\ FilesTold'
  BY DEF ToldInv, EventsAsSent, FilesTold, TakeOf, NamedLinks, recorderVars
<1>2. ASSUME NEW q \in Players, q # p
      PROVE  (Told(q)' = <<>> /\ player'[q].at # "playing") \/ Watches(q)'
  <2>1. player'[q] = player[q] /\ sent'[q] = sent[q] /\ Told(q)' = Told(q)
    BY <1>2 DEF Told
  <2>2. CASE Told(q) = <<>> /\ player[q].at # "playing"
    BY <2>1, <2>2
  <2>3. CASE Watches(q)
    <3>1. \A n : NamedLinks(n)' = NamedLinks(n)
      BY DEF NamedLinks, recorderVars
    <3>2. \A rec, n : TakeOf(rec, n)' <=> TakeOf(rec, n)
      BY DEF TakeOf, recorderVars
    <3>3. \A rec, n : ToldInOrder(q, rec, n)' <=> ToldInOrder(q, rec, n)
      BY <2>1, <3>1 DEF ToldInOrder
    <3> QED
      BY <2>1, <2>3, <3>2, <3>3 DEF Watches
  <2> QED
    BY <2>2, <2>3 DEF ToldInv, ViewersTold
<1> QED
  BY <1>1, <1>2 DEF ToldInv, ViewersTold

(* What a viewer is sent is told, unless it is the player's own error.     *)
LEMMA ToldMore ==
    ASSUME NEW p \in Players, NEW f \in Frames, sent[p] \in Seq(Frames),
           sent'[p] = Append(sent[p], f)
    PROVE  /\ Told(p) \in Seq(Frames)
           /\ Told(p)' = IF f = OwnError THEN Told(p) ELSE Append(Told(p), f)
<1> DEFINE s == sent[p]
           own == Frames \ {OwnError}
<1>1. Told(p) = Kept(s, own) /\ Told(p)' = Kept(Append(s, f), own)
  BY DEF Told
<1>2. f \in own <=> f # OwnError
  OBVIOUS
<1>3. s \in Seq(Frames)
  OBVIOUS
<1> HIDE DEF s, own
<1>4. Kept(s, own) \in Seq(Frames)
  BY <1>3, KeptType
<1>5. Kept(Append(s, f), own) = IF f \in own THEN Append(Kept(s, own), f) ELSE Kept(s, own)
  BY <1>3, KeptOfMore
<1> QED
  BY <1>1, <1>2, <1>4, <1>5

(* One more event of the recording rec is shown.                           *)
LEMMA ShownTold ==
    ASSUME PinInv, ToldInv, NEW p \in Players, NEW rec \in Whole,
           UNCHANGED <<files, pages, recorderVars>>,
           player[p].name \in Names, TakeOf(rec, player[p].name),
           Len(Told(p)) = Len(sent[p]), ToldInOrder(p, rec, player[p].name),
           NEW i \in 1..Len(rec.events), i = Len(sent[p]) + 1,
           Shown(p, rec, i)
    PROVE  ToldInv'
<1> DEFINE n == player[p].name
           f == Frame(n, rec, i)
           told == Told(p)
           said == sent[p]
           evs == rec.events
<1>1. sent \in [Players -> Seq(Frames)] /\ player \in [Players -> Viewings] /\ said \in Seq(Frames)
  BY DEF PinInv, RecordingsTypeOK
<1>2. evs \in Seq(Kinds \ {"cancelled"}) /\ rec.of \in Takes /\ Len(evs) \in Nat
  BY DEF Whole
<1>3. /\ f.of = rec.of /\ f.kind = evs[i] /\ f.kind \in Kinds
      /\ f.link \in NamedLinks(n)
      /\ f \in Frames /\ f # OwnError
  <2>1. evs[i] \in Kinds
    BY <1>2
  <2>2. f.of = rec.of /\ f.kind = evs[i] /\ f.link \in {NoTake, pages[n]}
    BY DEF Frame
  <2>3. pages[n] \in NamedLinks(n) /\ NoTake \in NamedLinks(n)
    BY DEF ToldInv, FilesTold, NamedLinks
  <2>4. f = [of |-> f.of, kind |-> f.kind, link |-> f.link]
    BY DEF Frame
  <2>5. NamedLinks(n) \subseteq Takes \cup {NoTake}
    BY DEF NamedLinks
  <2>6. OwnError.of = NoTake /\ rec.of # NoTake
    BY <1>2, NoRunIsNotOne DEF OwnError
  <2> HIDE DEF f, n
  <2>7. f \in Frames
    BY <1>2, <2>1, <2>2, <2>3, <2>4, <2>5 DEF Frames
  <2> QED
    BY <2>1, <2>2, <2>3, <2>6, <2>7
<1>4. /\ sent'[p] = Append(said, f)
      /\ player'[p].name = n /\ player'[p].data = rec
      /\ player'[p].at \in {"closed", "playing"}
      /\ player'[p].at = "closed" => i = Len(evs)
      /\ \A q \in Players : q # p => player'[q] = player[q] /\ sent'[q] = sent[q]
  BY <1>1 DEF Shown
<1>5. told \in Seq(Frames) /\ Told(p)' = Append(told, f)
  <2> HIDE DEF f
  <2> QED
    BY <1>1, <1>3, <1>4, ToldMore
<1>6. Len(told) = i - 1 /\ Len(said) = i - 1 /\ i \in Nat
  BY <1>1
<1> HIDE DEF f
<1>7. /\ Len(Told(p)') = i /\ Len(sent'[p]) = i /\ DOMAIN (Told(p)') = 1..i
      /\ Told(p)'[i] = f
      /\ \A j \in 1..(i - 1) : j \in DOMAIN told /\ Told(p)'[j] = told[j]
  <2> HIDE DEF told, said
  <2> QED
    BY <1>1, <1>3, <1>4, <1>5, <1>6
<1>8. TakeOf(rec, n)' /\ NamedLinks(n)' = NamedLinks(n)
  BY <1>4 DEF TakeOf, NamedLinks, recorderVars
<1>9. ASSUME NEW j \in 1..i
      PROVE  /\ Told(p)'[j].of = rec.of
             /\ Told(p)'[j].kind = evs[j]
             /\ Told(p)'[j].link \in NamedLinks(n)
  <2>1. CASE j = i
    BY <1>3, <1>7, <2>1
  <2>2. CASE j # i
    <3>1. j \in 1..(i - 1)
      BY <1>6, <2>2
    <3> QED
      BY <1>7, <3>1 DEF ToldInOrder
  <2> QED
    BY <2>1, <2>2
<1>10. Watches(p)'
  <2>1. TakeOf(player[p].data, player[p].name)'
    BY <1>4, <1>8 DEF TakeOf
  <2>2. NamedLinks(player[p].name)' = NamedLinks(n)
    BY <1>4, <1>8 DEF NamedLinks
  <2>3. ToldInOrder(p, player[p].data, player[p].name)'
    BY <1>4, <1>7, <1>9, <2>2 DEF ToldInOrder
  <2> QED
    BY <1>4, <1>7, <2>1, <2>3 DEF Watches
<1> QED
  BY <1>4, <1>10, ViewerTold

(* A viewer who opens a recording has been told nothing yet.               *)
LEMMA OpenTold ==
    ASSUME PinInv, ToldInv, NEW p \in Players, NEW n \in Names, NEW as \in Roles,
           Open(p, n, as)
    PROVE  ToldInv'
<1>1. sent[p] = <<>> /\ Told(p)' = <<>>
  BY KeptOfNone DEF Open, PinInv, ViewersPinned, Told
<1>2. /\ player'[p].at # "playing"
      /\ \A q \in Players : q # p => player'[q] = player[q] /\ sent'[q] = sent[q]
      /\ UNCHANGED <<files, pages, recorderVars>>
  BY DEF Open, PinInv, RecordingsTypeOK
<1> QED
  BY <1>1, <1>2, ViewerTold

(* A playback that begins has told nothing of the file yet.                *)
LEMMA BeginsTold ==
    ASSUME PinInv, ToldInv, NEW p \in Players, Begins(p)
    PROVE  ToldInv'
<1> DEFINE n == player[p].name
<1>1. /\ player[p] \in [at : {"created"}, name : Names, role : Roles]
      /\ sent[p] = <<>>
      /\ UNCHANGED <<files, pages, recorderVars>>
      /\ sent \in [Players -> Seq(Frames)] /\ player \in [Players -> Viewings]
  BY DEF Begins, PinInv, RecordingsTypeOK, ViewersPinned, Viewings
<1>2. Told(p) = <<>>
  BY <1>1, KeptOfNone DEF Told
<1>3. CASE Loadable(n)
  <2>1. files[n] \in Whole /\ TakeOf(files[n], n)
    BY <1>1, <1>3 DEF Loadable, PinInv, RecordingsTypeOK, ToldInv, FilesTold
  <2>2. 1 \in 1..Len(files[n].events) /\ 1 = Len(sent[p]) + 1
    BY <1>1, <2>1 DEF Whole
  <2>3. Shown(p, files[n], 1)
    BY <1>3 DEF Begins
  <2>4. Len(Told(p)) = Len(sent[p]) /\ ToldInOrder(p, files[n], n)
    BY <1>1, <1>2, <2>2 DEF ToldInOrder
  <2> QED
    BY <1>1, <2>1, <2>2, <2>3, <2>4, ShownTold
<1>4. CASE ~Loadable(n)
  <2>1. /\ sent'[p] = <<OwnError>> /\ player'[p].at = "failed"
        /\ \A q \in Players : q # p => player'[q] = player[q] /\ sent'[q] = sent[q]
    BY <1>1, <1>4 DEF Begins
  <2>2. sent[p] \in Seq(Frames) /\ OwnError \in Frames /\ sent'[p] = Append(sent[p], OwnError)
    BY <1>1, <2>1 DEF OwnError, Frames, Kinds
  <2>3. Told(p)' = <<>>
    BY <1>2, <2>2, ToldMore
  <2> QED
    BY <1>1, <2>1, <2>3, ViewerTold
<1> QED
  BY <1>3, <1>4

(* What is played next is the next frame of the recording.                 *)
LEMMA PlaysTold ==
    ASSUME PinInv, ToldInv, NEW p \in Players, Plays(p) \/ Stopped(p)
    PROVE  ToldInv'
<1>1. /\ player[p] \in [at : {"playing"}, name : Names, role : Roles, data : Whole]
      /\ Len(sent[p]) < Len(player[p].data.events)
      /\ sent[p] \in Seq(Frames) /\ Watches(p)
      /\ UNCHANGED <<files, pages, recorderVars>>
      /\ sent \in [Players -> Seq(Frames)] /\ player \in [Players -> Viewings]
  BY DEF Plays, Stopped, PinInv, RecordingsTypeOK, ViewersPinned, ToldInv, ViewersTold
<1>2. CASE Plays(p)
  <2>1. player[p].data \in Whole /\ player[p].name \in Names /\ player[p].role \in Roles
    BY <1>1
  <2>2. Len(sent[p]) + 1 \in 1..Len(player[p].data.events)
    BY <1>1, <2>1 DEF Whole
  <2>3. Shown(p, player[p].data, Len(sent[p]) + 1)
    BY <1>2 DEF Plays
  <2>4. /\ TakeOf(player[p].data, player[p].name)
        /\ Len(Told(p)) = Len(sent[p])
        /\ ToldInOrder(p, player[p].data, player[p].name)
    BY <1>1 DEF Watches
  <2> QED
    BY <1>1, <2>1, <2>2, <2>3, <2>4, ShownTold
<1>3. CASE Stopped(p)
  <2>1. /\ sent'[p] = Append(sent[p], OwnError)
        /\ player'[p] = [player[p] EXCEPT !.at = "stopped"]
        /\ \A q \in Players : q # p => player'[q] = player[q] /\ sent'[q] = sent[q]
    BY <1>1, <1>3 DEF Stopped
  <2>2. OwnError \in Frames
    BY DEF OwnError, Frames, Kinds
  <2>3. Told(p)' = Told(p)
    BY <1>1, <2>1, <2>2, ToldMore
  <2>4. /\ player'[p].at = "stopped" /\ player'[p].name = player[p].name
        /\ player'[p].data = player[p].data
    BY <1>1, <2>1
  <2>5. Watches(p)'
    BY <1>1, <2>3, <2>4 DEF Watches, TakeOf, ToldInOrder, NamedLinks, recorderVars
  <2> QED
    BY <1>1, <2>1, <2>5, ViewerTold
<1> QED
  BY <1>2, <1>3

(* The process dies: runs end as they are, and viewers play no more.       *)
LEMMA CrashTold ==
    ASSUME PinInv, ToldInv, Crash
    PROVE  ToldInv'
<1>1. RunsGoOn
  BY DEF Crash, RunsGoOn
<1>2. EventsAsSent' /\ FilesTold'
  BY <1>1, TakesStay DEF Crash, ToldInv, EventsAsSent, RunsGoOn, FilesTold
<1>3. ASSUME NEW p \in Players
      PROVE  (Told(p)' = <<>> /\ player'[p].at # "playing") \/ Watches(p)'
  <2>1. Told(p)' = Told(p) /\ player'[p].at \notin {"playing", "created"}
    <3>1. player[p] \in Viewings
      BY DEF PinInv, RecordingsTypeOK
    <3>2. player'[p] = IF player[p].at \in {"created", "playing"}
                       THEN [player[p] EXCEPT !.at = "gone"] ELSE player[p]
      BY DEF Crash
    <3>3. player'[p].at \notin {"playing", "created"}
      BY <3>1, <3>2 DEF Viewings
    <3> QED
      BY <3>3 DEF Crash, Told
  <2>2. CASE Told(p) = <<>>
    BY <2>1, <2>2
  <2>3. CASE Watches(p)
    <3>1. /\ player'[p].data = player[p].data /\ player'[p].name = player[p].name
          /\ player'[p].at = "closed" => player[p].at = "closed"
      <4>1. CASE player[p].at \in {"created", "playing"}
        BY <4>1 DEF Crash
      <4>2. CASE player[p].at \notin {"created", "playing"}
        BY <4>2 DEF Crash
      <4> QED
        BY <4>1, <4>2
    <3>2. /\ TakeOf(player[p].data, player[p].name)'
          /\ NamedLinks(player[p].name) \subseteq NamedLinks(player[p].name)'
      BY <1>1, <2>3, <3>1, TakesStay DEF Watches, TakeOf, NamedLinks
    <3>3. ToldInOrder(p, player[p].data, player[p].name)'
      BY <2>1, <2>3, <3>1, <3>2 DEF Watches, ToldInOrder
    <3> QED
      BY <2>1, <2>3, <3>1, <3>2, <3>3 DEF Watches
  <2> QED
    BY <2>2, <2>3 DEF ToldInv, ViewersTold
<1> QED
  BY <1>2, <1>3 DEF ToldInv, ViewersTold

(* Every step keeps recordings and viewers true to what was sent.          *)
LEMMA ToldNextInv == KeptInv /\ PinInv /\ ToldInv /\ [Next]_vars => ToldInv'
<1> SUFFICES ASSUME KeptInv, PinInv, ToldInv, [Next]_vars PROVE ToldInv'
  OBVIOUS
<1>1. /\ events \in [Takes -> Seq(Kinds \ {"cancelled"})]
      /\ live \in [Takes -> Seq(Kinds)] /\ EventsAsSent
  BY DEF PinInv, RecordingsTypeOK, ToldInv
<1>2. ASSUME NEW r \in Takes, NEW prompt \in Prompts, NEW as \in Roles,
             Request(r, prompt, as)
      PROVE  ToldInv'
  BY <1>2, RequestTold
<1>3. ASSUME NEW r \in Takes, Progress(r) PROVE ToldInv'
  <2> DEFINE kind == IF events[r] = <<>> THEN "run_started" ELSE "progress"
  <2>0. stage[r] = "running" /\ stage' = stage
    BY <1>3 DEF Progress
  <2>1. kind \in Kinds /\ kind # "cancelled" /\ Emit(r, kind)
    BY <1>3 DEF Progress, Kinds
  <2> HIDE DEF kind
  <2>2. EventsAsSent'
    BY <1>1, <2>1, <2>0, EmitTold DEF Emit
  <2>3. \A q \in Takes : q # r => events'[q] = events[q]
    BY <1>1, <2>1 DEF Emit
  <2> QED
    BY <1>3, <2>2, <2>3, RunTold DEF Progress
<1>4. ASSUME NEW r \in Takes, NEW last \in {"run_state", "error"}, Ends(r, last)
      PROVE  ToldInv'
  <2>0. stage[r] = "running" /\ stage' = [stage EXCEPT ![r] = "ended"]
    BY <1>4 DEF Ends
  <2>1. last \in Kinds /\ last # "cancelled" /\ Emit(r, last)
    BY <1>4 DEF Ends, Kinds
  <2>2. EventsAsSent'
    BY <1>1, <2>1, <2>0, EmitTold DEF Emit
  <2>3. \A q \in Takes : q # r => events'[q] = events[q]
    BY <1>1, <2>1 DEF Emit
  <2> QED
    BY <1>4, <2>2, <2>3, RunTold DEF Ends, Save
<1>5. ASSUME NEW r \in Takes, Cancelled(r) PROVE ToldInv'
  <2>1. EventsAsSent'
    BY <1>1, <1>5, EmitTold DEF Cancelled, Kinds
  <2>2. \A q \in Takes : q # r => events'[q] = events[q]
    BY <1>5 DEF Cancelled
  <2> QED
    BY <1>5, <2>1, <2>2, RunTold DEF Cancelled, Save
<1>6. ASSUME NEW r \in Takes, EndsSilently(r) PROVE ToldInv'
  <2>1. EventsAsSent'
    BY <1>1, <1>6 DEF EndsSilently, EventsAsSent, PinInv, RecordingsTypeOK
  <2>2. \A q \in Takes : q # r => events'[q] = events[q]
    BY <1>6 DEF EndsSilently
  <2> QED
    BY <1>6, <2>1, <2>2, RunTold DEF EndsSilently
<1>7. ASSUME NEW p \in Players, NEW n \in Names, NEW as \in Roles, Open(p, n, as)
      PROVE  ToldInv'
  BY <1>7, OpenTold
<1>8. ASSUME NEW p \in Players, Begins(p) \/ Plays(p) \/ Stopped(p) PROVE ToldInv'
  BY <1>8, BeginsTold, PlaysTold
<1>9. CASE Crash
  BY <1>9, CrashTold
<1>10. CASE UNCHANGED vars
  <2>1. RunsGoOn /\ UNCHANGED <<player, sent>>
    BY <1>10 DEF vars, recorderVars, RunsGoOn
  <2>2. EventsAsSent' /\ FilesTold'
    BY <1>10, <2>1, TakesStay DEF vars, recorderVars, ToldInv, EventsAsSent, FilesTold
  <2> QED
    BY <2>1, <2>2, ViewersStayTold DEF ToldInv
<1> QED
  BY <1>2, <1>3, <1>4, <1>5, <1>6, <1>7, <1>8, <1>9, <1>10 DEF Next

(* What a replay shows is one run of the name that was asked for, event    *)
(* for event as that run's client was sent it, whatever becomes of the     *)
(* file; of a cancelled run it lacks the last one.                         *)
THEOREM ReplaysAreTrue == Spec => []ReplayOfOneRun
<1>1. PinInv /\ ToldInv => ReplayOfOneRun
  <2> SUFFICES ASSUME PinInv, ToldInv, NEW p \in Players, Told(p) # <<>>
      PROVE  \E r \in Takes :
               /\ name[r] = player[p].name
               /\ \A i \in DOMAIN Told(p) :
                    /\ Told(p)[i].of = r
                    /\ Told(p)[i].kind = live[r][i]
                    /\ Told(p)[i].link \in {NoTake} \cup {q \in Takes : name[q] = name[r]}
               /\ player[p].at = "closed" =>
                    \/ Len(live[r]) = Len(Told(p))
                    \/ Len(live[r]) = Len(Told(p)) + 1 /\ live[r][Len(live[r])] = "cancelled"
    BY DEF ReplayOfOneRun
  <2> DEFINE r == player[p].data.of
             told == Told(p)
             evs == events[r]
             said == live[r]
  <2>1. Watches(p)
    BY DEF ToldInv, ViewersTold
  <2>2. /\ r \in Takes /\ name[r] = player[p].name
        /\ player[p].data.events = evs
    BY <2>1 DEF Watches, TakeOf
  <2>3. NamedLinks(player[p].name) \subseteq {NoTake} \cup {q \in Takes : name[q] = name[r]}
    BY <2>2 DEF NamedLinks
  <2>4. /\ said = evs \/ said = Append(evs, "cancelled")
        /\ evs \in Seq(Kinds)
    BY <2>2 DEF ToldInv, EventsAsSent, PinInv, RecordingsTypeOK
  <2>5. /\ Len(told) <= Len(evs)
        /\ \A i \in DOMAIN told :
             told[i].of = r /\ told[i].kind = evs[i] /\ told[i].link \in NamedLinks(player[p].name)
    BY <2>1, <2>2 DEF Watches, ToldInOrder
  <2>6. told \in Seq(Frames)
    <3>1. sent[p] \in Seq(Frames)
      BY DEF PinInv, RecordingsTypeOK
    <3> QED
      BY <3>1, KeptType DEF Told
  <2>7. player[p].at = "closed" => Len(told) = Len(evs)
    BY <2>1, <2>2 DEF Watches
  <2> HIDE DEF r, told, evs, said
  <2>8. ASSUME NEW i \in DOMAIN told PROVE evs[i] = said[i]
    <3>1. i \in 1..Len(evs) /\ Len(evs) \in Nat
      BY <2>4, <2>5, <2>6
    <3>2. Append(evs, "cancelled")[i] = evs[i]
      BY <2>4, <3>1 DEF Kinds
    <3> QED
      BY <2>4, <3>2, Zenon
  <2>9. player[p].at = "closed" =>
          \/ Len(said) = Len(told)
          \/ Len(said) = Len(told) + 1 /\ said[Len(said)] = "cancelled"
    BY <2>4, <2>7
  <2>10. \A i \in DOMAIN Told(p) :
            /\ Told(p)[i].of = r
            /\ Told(p)[i].kind = live[r][i]
            /\ Told(p)[i].link \in {NoTake} \cup {q \in Takes : name[q] = name[r]}
    BY <2>3, <2>5, <2>8 DEF told, said
  <2>11. player[p].at = "closed" =>
            \/ Len(live[r]) = Len(Told(p))
            \/ Len(live[r]) = Len(Told(p)) + 1 /\ live[r][Len(live[r])] = "cancelled"
    BY <2>9 DEF told, said
  <2> QED
    BY <2>2, <2>10, <2>11, Zenon
<1> QED
  BY <1>1, KeptInitInv, KeptNextInv, PinInitInv, PinNextInv, ToldInitInv, ToldNextInv, PTL
  DEF Spec
=============================================================================
