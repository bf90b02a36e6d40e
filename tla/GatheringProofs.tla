-------------------------- MODULE GatheringProofs --------------------------
(***************************************************************************)
(* Theorems about Gathering for any number of runs, departments, documents *)
(* and edits, and for any gatherer behind the seam; and, at the end, about *)
(* DriveWalk, the listing a gatherer of the cloud starts from, for any     *)
(* Drive trees and any moves.                                              *)
(*                                                                         *)
(* The argument: a gatherer that waits for its selecting model holds only  *)
(* permitted paths, and at least one of them (HeldPermitted); a run that   *)
(* has not loaded its permissions yet has done nothing (Untouched); and a  *)
(* delivered run has no gatherer left that could write a result            *)
(* (DeliveredAtRest).  With these the snapshot a prompt was built under is *)
(* the snapshot the run has now.                                           *)
(*                                                                         *)
(* The second half is about results: what a gatherer read is accounted for *)
(* and the ledger explains what was delivered (WorkInv), whoever gathers;  *)
(* of this repository's own gatherers alone, with no foreign files, that   *)
(* what they hold is granted and within the ceiling (HonestInv).           *)
(***************************************************************************)
EXTENDS Gathering, DriveWalk, SubsequenceProofs

(* The fallback re-lists the department under the environment half of the  *)
(* gate; it is as strict as the full one because some path of the          *)
(* department already passed the full gate.                                *)
HeldPermitted ==
    \A r \in Runs, d \in Departments :
        gatherer[<<r, d>>] = "selecting" =>
            /\ d \in LocalDepartments
            /\ DepartmentAllowed(role[r], d, perms[r], env[r])
            /\ \A p \in allowed[<<r, d>>] : Permitted(r, d, p)

Untouched ==
    \A r \in Runs :
        phase[r] \in {"new", "accepted"} =>
            /\ perms[r] = NoRoles
            /\ \A d \in Departments : gatherer[<<r, d>>] = "none"
            /\ \A x \in prompts \cup opened : x.run # r
            /\ \A e \in ledger : e.run # r

DeliveredAtRest ==
    \A r \in Runs, d \in Departments :
        phase[r] = "delivered" => gatherer[<<r, d>>] \in {"none", "done"}

Safe ==
    /\ HeldPermitted
    /\ Untouched
    /\ DeliveredAtRest
    /\ PromptsPermitted
    /\ LocalReadsPermitted
    /\ AnswerPermitted
    /\ LedgerTruthful

IInv == TypeOK /\ Safe

-----------------------------------------------------------------------------
(* The gate and the reference it is held to say the same.                  *)
LEMMA GateIsPermitted ==
    ASSUME NEW r \in Runs, NEW d \in Departments, NEW p \in Paths
    PROVE  Allowed(p, role[r], d, perms[r], env[r]) <=> Permitted(r, d, p)
BY DEF Allowed, DepartmentAllowed, Check, PathWithin, RoleKnown,
       DepartmentsForRole, Permitted

(* Whatever a gatherer returns, under whatever label and claimed role, a   *)
(* file that passes the spawn gate is labelled with its department, stays  *)
(* inside it, was asked for in the trusted role and is granted by both     *)
(* configs; a local one is a file the department holds.                    *)
THEOREM SpawnGateSound ==
    ASSUME NEW returned, NEW d \in Departments, NEW claimed, NEW trusted,
           NEW policy, NEW config,
           NEW f \in Enforce(returned, d, claimed, trusted, policy, config)
    PROVE  /\ f \in returned /\ f.department = d /\ claimed = trusted
           /\ trusted \in DOMAIN policy /\ d \in policy[trusted]
           /\ trusted \in config[d]
           /\ f.path \in Inside[d]
           /\ d \in CloudDepartments \/ f.path \in store[d]
BY DEF Enforce, Allowed, DepartmentAllowed, DepartmentsForRole, RoleKnown,
       Check, PathWithin, IsDepartmentFile

-----------------------------------------------------------------------------
(* Initially every variable has its type.                                  *)
LEMMA InitTypeOK == Init => TypeOK
<1> SUFFICES ASSUME Init PROVE TypeOK
  OBVIOUS
<1> USE GatheringAssumption DEF Init
<1>1. NoRoles \in PermissionsConfigs
  <2>1. NoRoles \in [{} -> SUBSET Departments]
    BY DEF NoRoles
  <2> QED
    BY <2>1 DEF PermissionsConfigs
<1>2. [d \in Departments |-> {}] \in EnvironmentConfigs
  BY DEF EnvironmentConfigs
<1>3. store \in [Departments -> SUBSET Paths] /\ edits \in 0 .. MaxEdits
  OBVIOUS
<1>4. phase \in [Runs -> Phases] /\ gatherer \in [Tasks -> GathererStates]
  BY DEF Phases, GathererStates
<1> QED
  BY <1>1, <1>2, <1>3, <1>4 DEF TypeOK

(* What a gatherer is gated to is a set of paths of its department.        *)
LEMMA GateType ==
    ASSUME TypeOK, NEW r \in Runs, NEW d \in Departments, NEW S
    PROVE  /\ Gate(r, d, S) \subseteq S
           /\ EnvironmentGate(r, d, S) \subseteq S
           /\ Readable(d, S) \subseteq S
           /\ Readable(d, S) \subseteq Paths
BY DEF Gate, EnvironmentGate, Readable, TypeOK

(* The records of what was read or sent are well typed.                    *)
LEMMA ItemsType ==
    ASSUME NEW r \in Runs, NEW d \in Departments, NEW S, S \subseteq Paths
    PROVE  /\ Items(r, d, S) \subseteq ItemSet
           /\ Labelled(d, S) \subseteq Files
           /\ \A x \in Items(r, d, S) : x.run = r /\ x.department = d /\ x.path \in S
BY DEF Items, ItemSet, Labelled, Files

(* Lines of the ledger are well typed, whoever wrote them.                 *)
LEMMA EntriesType ==
    ASSUME TypeOK, NEW r \in Runs, NEW d \in Departments, NEW S, S \subseteq Paths,
           NEW decision \in {"allow", "deny"},
           NEW at \in {"pre-read", "spawn-gate"}
    PROVE  /\ Entries(r, d, S, decision, at) \subseteq Decisions
           /\ \A e \in Entries(r, d, S, decision, at) :
                 /\ e.run = r /\ e.role = role[r] /\ e.department = d
                 /\ e.path \in S /\ e.decision = decision /\ e.stage = at
BY DEF Entries, LedgerContext, Decisions, TypeOK

(* What the spawn gate keeps and strips of a result, and what it writes.   *)
LEMMA SurvivorsType ==
    ASSUME TypeOK, NEW r \in Runs, NEW d \in Departments
    PROVE  /\ Survivors(r, d) \subseteq files[<<r, d>>]
           /\ files[<<r, d>>] \subseteq Files
           /\ PathsOf(Survivors(r, d)) \subseteq Paths
           /\ Stripped(r, d) \subseteq Paths
BY DEF TypeOK, Tasks, Survivors, Enforce, PathsOf, Files, Stripped

(* So are those the spawn gate writes for a whole run.                     *)
LEMMA GateDecisionsType ==
    ASSUME TypeOK, NEW r \in Runs
    PROVE  /\ GateDecisions(r) \subseteq Decisions
           /\ \A e \in GateDecisions(r) :
                 /\ e.run = r /\ e.role = role[r] /\ e.stage = "spawn-gate"
                 /\ e.decision = "allow" =>
                       e.path \in PathsOf(Survivors(r, e.department))
<1> SUFFICES ASSUME NEW e \in GateDecisions(r)
             PROVE  /\ e \in Decisions
                    /\ e.run = r /\ e.role = role[r] /\ e.stage = "spawn-gate"
                    /\ e.decision = "allow" =>
                          e.path \in PathsOf(Survivors(r, e.department))
  OBVIOUS
<1>1. PICK d \in Departments :
         \/ e \in Entries(r, d, Stripped(r, d), "deny", "spawn-gate")
         \/ e \in Entries(r, d, PathsOf(Survivors(r, d)), "allow", "spawn-gate")
  BY DEF GateDecisions, Planned
<1>2. Stripped(r, d) \subseteq Paths /\ PathsOf(Survivors(r, d)) \subseteq Paths
  BY SurvivorsType
<1>3. CASE e \in Entries(r, d, Stripped(r, d), "deny", "spawn-gate")
  BY <1>2, <1>3, EntriesType
<1>4. CASE e \in Entries(r, d, PathsOf(Survivors(r, d)), "allow", "spawn-gate")
  BY <1>2, <1>4, EntriesType
<1> QED
  BY <1>1, <1>3, <1>4

(* One step keeps the types; one lemma for each group of actions.          *)
LEMMA EnvironmentTypeOK ==
    ASSUME TypeOK, Environment PROVE TypeOK'
<1> USE GatheringAssumption, PermissionsAssumption DEF TypeOK
<1>1. ASSUME NEW yaml \in PermissionEdits, SavePermissions(yaml) PROVE TypeOK'
  BY <1>1 DEF SavePermissions
<1>2. ASSUME NEW yaml \in EnvironmentEdits, SaveEnvironment(yaml) PROVE TypeOK'
  BY <1>2 DEF SaveEnvironment
<1>3. ASSUME NEW d \in Departments, NEW p \in Paths, ChangeStore(d, p)
      PROVE  TypeOK'
  BY <1>3 DEF ChangeStore
<1> QED
  BY <1>1, <1>2, <1>3 DEF Environment

(* The steps of a run keep every type.                                     *)
LEMMA RunTypeOK ==
    ASSUME TypeOK, NEW r \in Runs, RunStep(r) PROVE TypeOK'
<1> USE DEF TypeOK, configVars, resultVars
<1>1. CASE Accept(r)
  BY <1>1 DEF Accept, Phases
<1>2. CASE LoadPermissions(r)
  BY <1>2 DEF LoadPermissions, Phases
<1>3. ASSUME NEW chosen \in SUBSET Departments, Plan(r, chosen) PROVE TypeOK'
  BY <1>3 DEF Plan, Phases, GathererStates
<1>4. CASE PlanFails(r)
  BY <1>4 DEF PlanFails, Phases
<1>5. CASE GathererFailureSeen(r)
  BY <1>5 DEF GathererFailureSeen, Phases
<1>6. CASE Cancel(r)
  BY <1>6 DEF Cancel, Phases, GathererStates
<1>7. CASE Deliver(r)
  <2>1. /\ phase' \in [Runs -> Phases]
        /\ UNCHANGED <<configVars, role, env, perms, gatherer, allowed,
                       documents, errors, prompts, opened>>
    BY <1>7 DEF Deliver, Phases
  <2>2. \A d \in Departments :
           /\ Survivors(r, d) \subseteq Files /\ Stripped(r, d) \subseteq Paths
    BY SurvivorsType
  <2>3. files' \in [Tasks -> SUBSET Files]
    BY <1>7, <2>2 DEF Deliver, Tasks
  <2>4. denied' \in [Tasks -> SUBSET Paths]
    BY <1>7, <2>2 DEF Deliver, Tasks
  <2>6. ledger' \in SUBSET Decisions
    BY <1>7, GateDecisionsType DEF Deliver
  <2> QED
    BY <2>1, <2>3, <2>4, <2>6
<1> QED
  BY <1>1, <1>2, <1>3, <1>4, <1>5, <1>6, <1>7 DEF RunStep

(* The steps of a gatherer keep every type.                                *)
LEMMA GathererTypeOK ==
    ASSUME TypeOK, NEW r \in Runs, NEW d \in Departments, GathererStep(r, d)
    PROVE  TypeOK'
<1> USE GatheringAssumption DEF TypeOK, configVars, runVars, resultVars
<1>0. /\ <<r, d>> \in Tasks /\ store[d] \subseteq Paths
      /\ {"none", "queued", "selecting", "assessing", "done", "raised"}
            \subseteq GathererStates
  BY DEF Tasks, GathererStates
<1>1. CASE StartLocal(r, d)
  <2> DEFINE readable == Gate(r, d, store[d])
             refused  == store[d] \ readable
  <2>1. readable \subseteq Paths /\ refused \subseteq Paths
    BY <1>0, GateType
  <2>2. /\ Readable(d, readable) \subseteq Paths
        /\ Items(r, d, Readable(d, readable)) \subseteq ItemSet
    BY <2>1, GateType, ItemsType
  <2>3. /\ Entries(r, d, readable, "allow", "pre-read") \subseteq Decisions
        /\ Entries(r, d, refused, "deny", "pre-read") \subseteq Decisions
    <3> HIDE DEF TypeOK, readable, refused
    <3> QED
      BY ONLY TypeOK, <2>1, EntriesType
  <2>4. /\ allowed' \in [Tasks -> SUBSET Paths] /\ denied' \in [Tasks -> SUBSET Paths]
        /\ ledger' \in SUBSET Decisions
        /\ UNCHANGED <<configVars, runVars, files>>
    BY <1>0, <1>1, <2>1, <2>3 DEF StartLocal
  <2>5. /\ documents' \in [Tasks -> SUBSET Paths]
        /\ errors' \in [Tasks -> SUBSET Paths]
        /\ gatherer' \in [Tasks -> GathererStates]
        /\ opened' \in SUBSET ItemSet /\ prompts' \in SUBSET ItemSet
    <3>1. CASE /\ gatherer' = [gatherer EXCEPT ![<<r, d>>] = "done"]
               /\ UNCHANGED <<documents, errors, opened, prompts>>
      BY <1>0, <3>1
    <3>2. CASE /\ errors' = [errors EXCEPT ![<<r, d>>] = readable \ Readable(d, readable)]
               /\ opened' = opened \cup Items(r, d, Readable(d, readable))
               /\ prompts' = prompts \cup Items(r, d, Readable(d, readable))
               /\ gatherer' = [gatherer EXCEPT ![<<r, d>>] = "selecting"]
               /\ UNCHANGED documents
      BY <1>0, <2>1, <2>2, <3>2
    <3>3. CASE /\ errors' = [errors EXCEPT ![<<r, d>>] = readable \ Readable(d, readable)]
               /\ ReadAndAssess(r, d, readable)
      BY <1>0, <2>1, <2>2, <3>3 DEF ReadAndAssess
    <3> QED
      BY <1>1, <3>1, <3>2, <3>3 DEF StartLocal
  <2> QED
    BY <2>4, <2>5
<1>2. CASE GlobRaises(r, d)
  BY <1>0, <1>2 DEF GlobRaises
<1>3. ASSUME NEW picks \in SUBSET Paths, Selected(r, d, picks) PROVE TypeOK'
  <2> DEFINE chosen == picks \cap allowed[<<r, d>>]
  <2>1. /\ chosen \subseteq Paths /\ Readable(d, chosen) \subseteq Paths
        /\ Items(r, d, Readable(d, chosen)) \subseteq ItemSet
    BY GateType, ItemsType
  <2>2. /\ allowed' \in [Tasks -> SUBSET Paths] /\ errors' \in [Tasks -> SUBSET Paths]
        /\ UNCHANGED <<configVars, runVars, files, denied, ledger>>
    BY <1>0, <1>3, <2>1 DEF Selected
  <2>3. /\ documents' \in [Tasks -> SUBSET Paths]
        /\ gatherer' \in [Tasks -> GathererStates]
        /\ opened' \in SUBSET ItemSet /\ prompts' \in SUBSET ItemSet
    BY <1>0, <1>3, <2>1 DEF Selected, ReadAndAssess
  <2> QED
    BY <2>2, <2>3
<1>4. CASE SelectionFails(r, d)
  <2> DEFINE readable == EnvironmentGate(r, d, store[d])
  <2>1. readable \subseteq Paths
    BY <1>0, GateType
  <2>2. PICK ranked \in SUBSET readable :
           /\ files' = [files EXCEPT ![<<r, d>>] = Labelled(d, Readable(d, ranked))]
           /\ errors' = [errors EXCEPT ![<<r, d>>] = ranked \ Readable(d, ranked)]
           /\ opened' = opened \cup Items(r, d, Readable(d, ranked))
    BY <1>4 DEF SelectionFails
  <2>3. /\ Labelled(d, Readable(d, ranked)) \subseteq Files
        /\ Items(r, d, Readable(d, ranked)) \subseteq ItemSet
    <3>1. Readable(d, ranked) \subseteq Paths
      BY GateType
    <3> QED
      BY ONLY <3>1, ItemsType
  <2>4. /\ files' \in [Tasks -> SUBSET Files] /\ errors' \in [Tasks -> SUBSET Paths]
        /\ opened' \in SUBSET ItemSet
    BY <1>0, <2>1, <2>2, <2>3
  <2>5. /\ denied' \in [Tasks -> SUBSET Paths]
        /\ gatherer' \in [Tasks -> GathererStates]
        /\ UNCHANGED <<configVars, runVars, allowed, documents, prompts, ledger>>
    BY <1>0, <1>4 DEF SelectionFails
  <2> QED
    BY <2>4, <2>5
<1>5. CASE StartCloud(r, d)
  <2> DEFINE listed == EnvironmentGate(r, d, store[d])
  <2>1. listed \subseteq Paths
    BY <1>0, GateType
  <2>2. PICK ranked \in SUBSET listed, lost \in SUBSET listed :
          LET fetched == Readable(d, ranked) \ lost
              texts   == Gate(r, d, fetched)
          IN
          /\ allowed' = [allowed EXCEPT ![<<r, d>>] = ranked]
          /\ opened' = opened \cup Items(r, d, fetched)
          /\ errors' = [errors EXCEPT ![<<r, d>>] = ranked \ fetched]
          /\ denied' = [denied EXCEPT ![<<r, d>>] =
                          (store[d] \ listed) \cup (fetched \ texts)]
          /\ documents' = [documents EXCEPT ![<<r, d>>] = texts]
          /\ prompts' = prompts \cup Items(r, d, texts)
          /\ gatherer' = [gatherer EXCEPT ![<<r, d>>] =
                            IF texts = {} THEN "done" ELSE "assessing"]
    BY <1>5 DEF StartCloud, kSubset
  <2> DEFINE fetched == Readable(d, ranked) \ lost
             texts   == Gate(r, d, fetched)
  <2>3. fetched \subseteq Paths /\ texts \subseteq Paths
    BY GateType
  <2>4. Items(r, d, fetched) \subseteq ItemSet /\ Items(r, d, texts) \subseteq ItemSet
    BY <2>3, ItemsType
  <2>5. UNCHANGED <<configVars, runVars, files, ledger>>
    BY <1>5 DEF StartCloud
  <2>6. /\ allowed' \in [Tasks -> SUBSET Paths] /\ errors' \in [Tasks -> SUBSET Paths]
        /\ denied' \in [Tasks -> SUBSET Paths]
        /\ documents' \in [Tasks -> SUBSET Paths]
        /\ gatherer' \in [Tasks -> GathererStates]
    BY <1>0, <2>1, <2>2, <2>3
  <2>7. opened' \in SUBSET ItemSet /\ prompts' \in SUBSET ItemSet
    BY <2>2, <2>4
  <2> QED
    BY <2>5, <2>6, <2>7
<1>6. CASE CloudListFails(r, d)
  BY <1>0, <1>6 DEF CloudListFails
<1>7. ASSUME NEW returned \in SUBSET ForeignFiles, ForeignGatherer(r, d, returned)
      PROVE  TypeOK'
  BY <1>0, <1>7 DEF ForeignGatherer
<1>8. ASSUME NEW relevant \in SUBSET Paths, Assessed(r, d, relevant) PROVE TypeOK'
  <2> DEFINE keepers == IF relevant = {} THEN documents[<<r, d>>] ELSE relevant
  <2>1. Labelled(d, keepers) \subseteq Files
    BY <1>0, ItemsType
  <2> QED
    BY <1>0, <1>8, <2>1 DEF Assessed
<1>9. CASE AssessmentFails(r, d)
  <2>1. Labelled(d, documents[<<r, d>>]) \subseteq Files
    BY <1>0, ItemsType
  <2> QED
    BY <1>0, <1>9, <2>1 DEF AssessmentFails
<1> QED
  BY <1>1, <1>2, <1>3, <1>4, <1>5, <1>6, <1>7, <1>8, <1>9 DEF GathererStep

(* Every step keeps every type.                                            *)
LEMMA NextTypeOK == TypeOK /\ [Next]_vars => TypeOK'
<1> SUFFICES ASSUME TypeOK, [Next]_vars PROVE TypeOK'
  OBVIOUS
<1>1. CASE UNCHANGED vars
  BY <1>1 DEF TypeOK, vars
<1> QED
  BY <1>1, EnvironmentTypeOK, RunTypeOK, GathererTypeOK DEF Next, Resting

(* Every reachable state has the declared types.                           *)
THEOREM TypeCorrect == Spec => []TypeOK
BY InitTypeOK, NextTypeOK, PTL DEF Spec

-----------------------------------------------------------------------------
(* The safety half of the invariant.                                       *)

(* It holds before a run has begun.                                        *)
LEMMA InitSafe == Init => Safe
BY DEF Init, Safe, HeldPermitted, Untouched, DeliveredAtRest, PromptsPermitted,
       LocalReadsPermitted, AnswerPermitted, LedgerTruthful, Tasks

(* A step that touches neither snapshots nor gatherers nor what they made. *)
LEMMA StutterSafe ==
    ASSUME Safe,
           UNCHANGED <<phase, role, env, perms, gatherer, allowed, files, prompts,
                       opened, ledger>>
    PROVE  Safe'
BY DEF Safe, HeldPermitted, Untouched, DeliveredAtRest, PromptsPermitted,
       LocalReadsPermitted, AnswerPermitted, LedgerTruthful, Permitted

(* A run that has done nothing may take its snapshots: no prompt, no read  *)
(* and no ledger line depends on them yet.                                 *)
LEMMA SnapshotSafe ==
    ASSUME TypeOK, Safe, NEW r \in Runs,
           phase[r] \in {"new", "accepted"},
           NEW next \in {"accepted", "planning", "failed"},
           phase' = [phase EXCEPT ![r] = next],
           next = "accepted" => perms'[r] = NoRoles,
           \A q \in Runs \ {r} : perms'[q] = perms[q] /\ env'[q] = env[q],
           UNCHANGED <<role, gatherer, allowed, files, prompts, opened, ledger>>
    PROVE  Safe'
<1>1. \A q \in Runs : q # r => phase'[q] = phase[q]
  BY DEF TypeOK
<1>2. phase'[r] = next
  BY DEF TypeOK
<1>3. \A q \in Runs, d \in Departments : \A p :
         q # r => (Permitted(q, d, p)' <=> Permitted(q, d, p))
  BY DEF Permitted
<1>4. /\ \A d \in Departments : gatherer[<<r, d>>] = "none"
      /\ \A x \in prompts \cup opened : x.run # r /\ x.run \in Runs
                                        /\ x.department \in Departments
      /\ \A e \in ledger : e.run # r /\ e.run \in Runs /\ e.department \in Departments
  BY DEF Safe, Untouched, TypeOK, ItemSet, Decisions
<1>5. HeldPermitted'
  <2> SUFFICES ASSUME NEW q \in Runs, NEW d \in Departments,
                      gatherer[<<q, d>>] = "selecting"
               PROVE  /\ d \in LocalDepartments
                      /\ DepartmentAllowed(role[q], d, perms'[q], env'[q])
                      /\ \A p \in allowed[<<q, d>>] : Permitted(q, d, p)'
    BY DEF HeldPermitted
  <2>1. q # r
    BY <1>4
  <2> QED
    BY <1>3, <2>1 DEF Safe, HeldPermitted
<1>6. Untouched'
  BY <1>1, <1>2, <1>4 DEF Safe, Untouched
<1>7. DeliveredAtRest'
  BY <1>1, <1>2 DEF Safe, DeliveredAtRest
<1>8. PromptsPermitted' /\ LocalReadsPermitted'
  BY <1>3, <1>4 DEF Safe, PromptsPermitted, LocalReadsPermitted
<1>9. AnswerPermitted'
  BY <1>1, <1>2, <1>3 DEF Safe, AnswerPermitted
<1>10. LedgerTruthful'
  BY <1>3, <1>4 DEF Safe, LedgerTruthful
<1> QED
  BY <1>5, <1>6, <1>7, <1>8, <1>9, <1>10 DEF Safe

(* A run that moves on without new material: planned, failed or cancelled. *)
LEMMA RunMovesSafe ==
    ASSUME TypeOK, Safe, NEW r \in Runs,
           NEW next \in {"gathering", "failed", "cancelled"},
           phase' = [phase EXCEPT ![r] = next],
           \A t \in Tasks : gatherer'[t] = gatherer[t]
                            \/ (t[1] = r /\ gatherer'[t] \in {"queued", "stopped"}),
           UNCHANGED <<role, env, perms, allowed, files, prompts, opened, ledger>>
    PROVE  Safe'
<1>1. /\ \A q \in Runs : q # r => phase'[q] = phase[q]
      /\ phase'[r] = next
  BY DEF TypeOK
<1>2. \A q \in Runs, d \in Departments :
         \/ gatherer'[<<q, d>>] = gatherer[<<q, d>>]
         \/ q = r /\ gatherer'[<<q, d>>] \in {"queued", "stopped"}
  BY DEF Tasks
<1>3. HeldPermitted'
  BY <1>2 DEF Safe, HeldPermitted, Permitted
<1>4. Untouched'
  BY <1>1, <1>2 DEF Safe, Untouched
<1>5. DeliveredAtRest'
  BY <1>1, <1>2 DEF Safe, DeliveredAtRest
<1>6. PromptsPermitted' /\ LocalReadsPermitted' /\ LedgerTruthful'
  BY DEF Safe, PromptsPermitted, LocalReadsPermitted, LedgerTruthful, Permitted
<1>7. AnswerPermitted'
  BY <1>1 DEF Safe, AnswerPermitted, Permitted
<1> QED
  BY <1>3, <1>4, <1>5, <1>6, <1>7 DEF Safe

(* A gatherer's step: it was spawned and has not returned, so its run has  *)
(* taken its snapshots and has not been delivered.  Whatever the step adds *)
(* must be permitted.                                                      *)
LEMMA GathererMovesSafe ==
    ASSUME TypeOK, Safe, NEW r \in Runs, NEW d \in Departments,
           gatherer[<<r, d>>] \in {"queued", "selecting", "assessing"},
           UNCHANGED runVars,
           NEW next \in GathererStates \ {"none"},
           gatherer' = [gatherer EXCEPT ![<<r, d>>] = next],
           \A t \in Tasks \ {<<r, d>>} :
              allowed'[t] = allowed[t] /\ files'[t] = files[t],
           next = "selecting" =>
              /\ d \in LocalDepartments
              /\ DepartmentAllowed(role[r], d, perms[r], env[r])
              /\ \A p \in allowed'[<<r, d>>] : Permitted(r, d, p),
           \A x \in prompts' \ prompts :
              x.run = r /\ x.department = d /\ Permitted(r, d, x.path),
           \A x \in opened' \ opened :
              /\ x.run = r /\ x.department = d
              /\ d \in LocalDepartments => Permitted(r, d, x.path),
           \A e \in ledger' \ ledger :
              /\ e.run = r /\ e.role = role[r] /\ e.department = d
              /\ e.decision = "allow" => Permitted(r, d, e.path)
              /\ e.stage = "pre-read" /\ e.decision = "deny" =>
                    ~Permitted(r, d, e.path)
    PROVE  Safe'
<1>1. phase[r] \notin {"new", "accepted", "delivered"}
  BY DEF Safe, Untouched, DeliveredAtRest
<1>2. \A q \in Runs, c \in Departments :
         /\ <<q, c>> \in Tasks
         /\ <<q, c>> # <<r, d>> =>
               /\ gatherer'[<<q, c>>] = gatherer[<<q, c>>]
               /\ allowed'[<<q, c>>] = allowed[<<q, c>>]
               /\ files'[<<q, c>>] = files[<<q, c>>]
         /\ <<q, c>> = <<r, d>> => gatherer'[<<q, c>>] = next
  BY DEF TypeOK, Tasks
<1>3. /\ phase' = phase /\ role' = role
      /\ \A q, c, p : Permitted(q, c, p)' <=> Permitted(q, c, p)
      /\ \A q, c : DepartmentAllowed(role[q], c, perms[q], env[q])'
                     <=> DepartmentAllowed(role[q], c, perms[q], env[q])
  BY DEF runVars, Permitted
<1>4. HeldPermitted'
  <2> SUFFICES ASSUME NEW q \in Runs, NEW c \in Departments,
                      gatherer'[<<q, c>>] = "selecting"
               PROVE  /\ c \in LocalDepartments
                      /\ DepartmentAllowed(role[q], c, perms[q], env[q])
                      /\ \A p \in allowed'[<<q, c>>] : Permitted(q, c, p)
    BY <1>3 DEF HeldPermitted
  <2>1. CASE <<q, c>> = <<r, d>>
    BY <1>2, <2>1
  <2>2. CASE <<q, c>> # <<r, d>>
    BY <1>2, <2>2 DEF Safe, HeldPermitted
  <2> QED
    BY <2>1, <2>2
<1>5. Untouched'
  <2> SUFFICES ASSUME NEW q \in Runs, phase[q] \in {"new", "accepted"}
               PROVE  /\ perms[q] = NoRoles
                      /\ \A c \in Departments : gatherer'[<<q, c>>] = "none"
                      /\ \A x \in prompts' \cup opened' : x.run # q
                      /\ \A e \in ledger' : e.run # q
    BY <1>3 DEF Untouched, runVars
  <2>1. q # r
    BY <1>1
  <2> QED
    BY <1>2, <2>1 DEF Safe, Untouched
<1>6. DeliveredAtRest'
  <2> SUFFICES ASSUME NEW q \in Runs, NEW c \in Departments, phase[q] = "delivered"
               PROVE  gatherer'[<<q, c>>] \in {"none", "done"}
    BY <1>3 DEF DeliveredAtRest
  <2>1. <<q, c>> # <<r, d>>
    BY <1>1
  <2> QED
    BY <1>2, <2>1 DEF Safe, DeliveredAtRest
<1>7. PromptsPermitted'
  BY <1>3 DEF Safe, PromptsPermitted
<1>8. LocalReadsPermitted'
  BY <1>3 DEF Safe, LocalReadsPermitted
<1>9. AnswerPermitted'
  <2> SUFFICES ASSUME NEW q \in Runs, NEW c \in Departments, phase[q] = "delivered",
                      NEW f \in files'[<<q, c>>]
               PROVE  f.department = c /\ Permitted(q, c, f.path)
    BY <1>3 DEF AnswerPermitted
  <2>1. <<q, c>> # <<r, d>>
    BY <1>1
  <2> QED
    BY <1>2, <2>1 DEF Safe, AnswerPermitted
<1>10. LedgerTruthful'
  BY <1>3 DEF Safe, LedgerTruthful
<1> QED
  BY <1>4, <1>5, <1>6, <1>7, <1>8, <1>9, <1>10 DEF Safe

(* A task that returns without reading, prompting or recording anything    *)
(* more keeps the safety facts.                                            *)
LEMMA TaskDoneSafe ==
    ASSUME TypeOK, Safe, NEW r \in Runs, NEW d \in Departments,
           gatherer[<<r, d>>] \in {"queued", "selecting", "assessing"},
           gatherer' = [gatherer EXCEPT ![<<r, d>>] = "done"],
           UNCHANGED <<runVars, allowed, prompts, opened, ledger>>,
           \A t \in Tasks \ {<<r, d>>} :
              allowed'[t] = allowed[t] /\ files'[t] = files[t]
    PROVE  Safe'
<1>1. PICK next \in GathererStates \ {"none"} : next = "done"
  BY DEF GathererStates
<1>2. UNCHANGED runVars /\ gatherer' = [gatherer EXCEPT ![<<r, d>>] = next]
  BY <1>1
<1>3. /\ next # "selecting"
      /\ prompts' \ prompts = {} /\ opened' \ opened = {} /\ ledger' \ ledger = {}
  BY <1>1
<1> QED
  BY <1>2, <1>3, GathererMovesSafe

(* The steps of a run keep the safety facts.                               *)
LEMMA RunSafe ==
    ASSUME TypeOK, Safe, NEW r \in Runs, RunStep(r) PROVE Safe'
<1> USE DEF configVars, resultVars
<1>1. CASE Accept(r)
  <2>1. /\ phase[r] = "new" /\ phase' = [phase EXCEPT ![r] = "accepted"]
        /\ \A q \in Runs \ {r} : perms'[q] = perms[q] /\ env'[q] = env[q]
        /\ UNCHANGED <<role, perms, gatherer, allowed, files, prompts, opened, ledger>>
    BY <1>1 DEF Accept, TypeOK
  <2>2. perms'[r] = NoRoles
    BY <2>1 DEF Safe, Untouched
  <2> QED
    BY <2>1, <2>2, SnapshotSafe
<1>2. CASE LoadPermissions(r)
  <2>1. PICK next \in {"planning", "failed"} : phase' = [phase EXCEPT ![r] = next]
    BY <1>2 DEF LoadPermissions
  <2>2. /\ phase[r] = "accepted"
        /\ \A q \in Runs \ {r} : perms'[q] = perms[q] /\ env'[q] = env[q]
        /\ UNCHANGED <<role, gatherer, allowed, files, prompts, opened, ledger>>
    BY <1>2 DEF LoadPermissions, TypeOK
  <2> QED
    BY <2>1, <2>2, SnapshotSafe
<1>3. ASSUME NEW chosen \in SUBSET Departments, Plan(r, chosen) PROVE Safe'
  <2>1. \A t \in Tasks :
           gatherer'[t] = gatherer[t] \/ (t[1] = r /\ gatherer'[t] = "queued")
    BY <1>3 DEF Plan
  <2>2. PICK next \in {"gathering"} :
           /\ phase' = [phase EXCEPT ![r] = next]
           /\ UNCHANGED <<role, env, perms, allowed, files, prompts, opened, ledger>>
    BY <1>3 DEF Plan
  <2> QED
    BY <2>1, <2>2, RunMovesSafe
<1>4. CASE PlanFails(r)
  <2>1. PICK next \in {"failed"} :
           /\ phase' = [phase EXCEPT ![r] = next]
           /\ UNCHANGED <<role, env, perms, gatherer, allowed, files, prompts, opened,
                          ledger>>
    BY <1>4 DEF PlanFails
  <2>2. \A t \in Tasks : gatherer'[t] = gatherer[t]
    BY <2>1
  <2> QED
    BY <2>1, <2>2, RunMovesSafe
<1>5. CASE GathererFailureSeen(r)
  <2>1. PICK next \in {"failed"} :
           /\ phase' = [phase EXCEPT ![r] = next]
           /\ UNCHANGED <<role, env, perms, gatherer, allowed, files, prompts, opened,
                          ledger>>
    BY <1>5 DEF GathererFailureSeen
  <2>2. \A t \in Tasks : gatherer'[t] = gatherer[t]
    BY <2>1
  <2> QED
    BY <2>1, <2>2, RunMovesSafe
<1>6. CASE Cancel(r)
  <2>1. \A t \in Tasks :
           gatherer'[t] = gatherer[t] \/ (t[1] = r /\ gatherer'[t] = "stopped")
    BY <1>6 DEF Cancel
  <2>2. PICK next \in {"cancelled"} :
           /\ phase' = [phase EXCEPT ![r] = next]
           /\ UNCHANGED <<role, env, perms, allowed, files, prompts, opened, ledger>>
    BY <1>6 DEF Cancel
  <2> QED
    BY <2>1, <2>2, RunMovesSafe
<1>7. CASE Deliver(r)
  <2>1. /\ phase[r] = "gathering" /\ phase'[r] = "delivered"
        /\ \A q \in Runs : q # r => phase'[q] = phase[q]
        /\ ledger' = ledger \cup GateDecisions(r)
        /\ UNCHANGED <<role, env, perms, gatherer, allowed, prompts, opened>>
    BY <1>7 DEF Deliver, TypeOK
  <2>2. \A q \in Runs, d \in Departments :
           files'[<<q, d>>] = IF q = r THEN Survivors(r, d) ELSE files[<<q, d>>]
    BY <1>7 DEF Deliver, Tasks
  <2>3. \A d \in Departments : gatherer[<<r, d>>] \in {"none", "done"}
    BY <1>7 DEF Deliver, Planned
  <2>4. \A d \in Departments : \A f \in Survivors(r, d) :
           f.department = d /\ Permitted(r, d, f.path)
    BY DEF Survivors, Enforce, Allowed, DepartmentAllowed, DepartmentsForRole,
           RoleKnown, Check, PathWithin, Permitted
  <2>5. HeldPermitted' /\ PromptsPermitted' /\ LocalReadsPermitted'
    BY <2>1 DEF Safe, HeldPermitted, PromptsPermitted, LocalReadsPermitted, Permitted
  <2>6. Untouched'
    <3>1. \A e \in GateDecisions(r) : e.run = r
      BY GateDecisionsType
    <3> QED
      BY <2>1, <3>1 DEF Safe, Untouched
  <2>7. DeliveredAtRest'
    BY <2>1, <2>3 DEF Safe, DeliveredAtRest
  <2>8. AnswerPermitted'
    BY <2>1, <2>2, <2>4 DEF Safe, AnswerPermitted, Permitted
  <2>9. LedgerTruthful'
    <3>1. \A e \in GateDecisions(r) :
             /\ e.role = role[e.run] /\ e.stage = "spawn-gate"
             /\ e.decision = "allow" => Permitted(e.run, e.department, e.path)
      BY <2>4, GateDecisionsType DEF PathsOf, Decisions
    <3>2. \A q, c, p : Permitted(q, c, p)' <=> Permitted(q, c, p)
      BY <2>1 DEF Permitted
    <3> QED
      BY <2>1, <3>1, <3>2 DEF Safe, LedgerTruthful
  <2> QED
    BY <2>5, <2>6, <2>7, <2>8, <2>9 DEF Safe
<1> QED
  BY <1>1, <1>2, <1>3, <1>4, <1>5, <1>6, <1>7 DEF RunStep

(* Reading what is permitted, after which the task waits for the assessing *)
(* model or returns.                                                       *)
LEMMA GathererSafe ==
    ASSUME TypeOK, Safe, NEW r \in Runs, NEW d \in Departments, GathererStep(r, d)
    PROVE  Safe'
<1> USE DEF configVars, resultVars
<1>0. /\ <<r, d>> \in Tasks /\ store[d] \subseteq Paths
      /\ {"selecting", "assessing", "done", "raised"} \subseteq GathererStates \ {"none"}
      /\ \A S : \A p \in Gate(r, d, S) : Permitted(r, d, p)
      /\ \A S : \A p \in S \ Gate(r, d, S) : p \in Paths => ~Permitted(r, d, p)
      /\ \A S : \A x \in Items(r, d, S) : x.run = r /\ x.department = d /\ x.path \in S
      /\ \A S : Readable(d, S) \subseteq S
  BY GateIsPermitted DEF Tasks, GathererStates, TypeOK, Gate, Items, Readable,
     Allowed, DepartmentAllowed, DepartmentsForRole, RoleKnown, Check, PathWithin, Permitted
<1>1. CASE StartLocal(r, d)
  <2> DEFINE readable == Gate(r, d, store[d])
             refused  == store[d] \ readable
  <2>1. /\ d \in LocalDepartments /\ gatherer[<<r, d>>] = "queued"
        /\ allowed' = [allowed EXCEPT ![<<r, d>>] = readable]
        /\ ledger' = ledger \cup Entries(r, d, readable, "allow", "pre-read")
                            \cup Entries(r, d, refused, "deny", "pre-read")
        /\ UNCHANGED <<runVars, files>>
    BY <1>1 DEF StartLocal
  <2>2. allowed'[<<r, d>>] = readable
        /\ \A t \in Tasks \ {<<r, d>>} : allowed'[t] = allowed[t] /\ files'[t] = files[t]
    BY <1>0, <2>1 DEF TypeOK
  <2>3. PICK next \in {"done", "selecting", "assessing"} :
           /\ gatherer' = [gatherer EXCEPT ![<<r, d>>] = next]
           /\ next = "selecting" => readable # {}
           /\ opened' \ opened \subseteq Items(r, d, Readable(d, readable))
           /\ prompts' \ prompts \subseteq Items(r, d, Readable(d, readable))
    <3>1. CASE readable = {}
      BY <1>1, <3>1 DEF StartLocal
    <3>2. CASE readable # {} /\ TooLarge(readable)
      BY <1>1, <3>2 DEF StartLocal
    <3>3. CASE readable # {} /\ ~TooLarge(readable)
      <4>1. ReadAndAssess(r, d, readable)
        BY <1>1, <3>3 DEF StartLocal
      <4> QED
        BY <4>1 DEF ReadAndAssess
    <3> QED
      BY <3>1, <3>2, <3>3
  <2>4. \A p \in readable : Permitted(r, d, p)
    BY <1>0
  <2>5. readable # {} => DepartmentAllowed(role[r], d, perms[r], env[r])
    BY DEF Gate, Allowed
  <2>6. \A e \in ledger' \ ledger :
           /\ e.run = r /\ e.role = role[r] /\ e.department = d
           /\ e.decision = "allow" => Permitted(r, d, e.path)
           /\ e.stage = "pre-read" /\ e.decision = "deny" => ~Permitted(r, d, e.path)
    BY <1>0, <2>1, <2>4 DEF Entries, LedgerContext
  <2>7. /\ \A x \in prompts' \ prompts :
              x.run = r /\ x.department = d /\ Permitted(r, d, x.path)
        /\ \A x \in opened' \ opened :
              x.run = r /\ x.department = d /\ Permitted(r, d, x.path)
    BY <1>0, <2>3, <2>4
  <2>8. next = "selecting" =>
           /\ d \in LocalDepartments
           /\ DepartmentAllowed(role[r], d, perms[r], env[r])
           /\ \A p \in allowed'[<<r, d>>] : Permitted(r, d, p)
    BY <2>1, <2>2, <2>3, <2>4, <2>5
  <2>9. next \in GathererStates \ {"none"} /\ gatherer[<<r, d>>] = "queued"
    BY <1>0, <2>1
  <2>10. UNCHANGED runVars /\ gatherer[<<r, d>>] \in {"queued", "selecting", "assessing"}
    BY <2>1
  <2>11. gatherer' = [gatherer EXCEPT ![<<r, d>>] = next]
         /\ \A t \in Tasks \ {<<r, d>>} : allowed'[t] = allowed[t] /\ files'[t] = files[t]
    BY <2>2, <2>3
  <2> HIDE DEF readable, refused
  <2> QED
    BY ONLY TypeOK, Safe, <2>6, <2>7, <2>8, <2>9, <2>10, <2>11, GathererMovesSafe
<1>2. CASE GlobRaises(r, d)
  BY <1>0, <1>2, GathererMovesSafe DEF GlobRaises
<1>3. ASSUME NEW picks \in SUBSET Paths, Selected(r, d, picks) PROVE Safe'
  <2> DEFINE chosen == picks \cap allowed[<<r, d>>]
  <2>1. /\ gatherer[<<r, d>>] = "selecting"
        /\ allowed' = [allowed EXCEPT ![<<r, d>>] = chosen]
        /\ ReadAndAssess(r, d, chosen)
        /\ UNCHANGED <<runVars, files, ledger>>
    BY <1>3 DEF Selected
  <2>2. \A p \in chosen : Permitted(r, d, p)
    BY <2>1 DEF Safe, HeldPermitted
  <2>3. \A t \in Tasks \ {<<r, d>>} : allowed'[t] = allowed[t] /\ files'[t] = files[t]
    BY <2>1 DEF TypeOK
  <2>4. PICK next \in {"done", "assessing"} :
           /\ gatherer' = [gatherer EXCEPT ![<<r, d>>] = next]
           /\ opened' \ opened \subseteq Items(r, d, Readable(d, chosen))
           /\ prompts' \ prompts \subseteq Items(r, d, Readable(d, chosen))
    BY <2>1 DEF ReadAndAssess
  <2>5. /\ \A x \in prompts' \ prompts :
              x.run = r /\ x.department = d /\ Permitted(r, d, x.path)
        /\ \A x \in opened' \ opened :
              x.run = r /\ x.department = d /\ Permitted(r, d, x.path)
    BY <1>0, <2>2, <2>4
  <2> HIDE DEF chosen
  <2> QED
    BY <1>0, <2>1, <2>3, <2>4, <2>5, GathererMovesSafe
<1>4. CASE SelectionFails(r, d)
  <2> DEFINE readable == EnvironmentGate(r, d, store[d])
  <2>1. /\ gatherer[<<r, d>>] = "selecting"
        /\ gatherer' = [gatherer EXCEPT ![<<r, d>>] = "done"]
        /\ UNCHANGED <<runVars, allowed, prompts, ledger>>
    BY <1>4 DEF SelectionFails
  <2>2. PICK ranked \in SUBSET readable :
           /\ files' = [files EXCEPT ![<<r, d>>] = Labelled(d, Readable(d, ranked))]
           /\ opened' = opened \cup Items(r, d, Readable(d, ranked))
    BY <1>4 DEF SelectionFails
  <2>3. \A p \in readable : Permitted(r, d, p)
    BY <2>1 DEF Safe, HeldPermitted, EnvironmentGate, DepartmentAllowed, Check,
                DepartmentsForRole, RoleKnown, PathWithin, Permitted
  <2>4. \A t \in Tasks \ {<<r, d>>} : allowed'[t] = allowed[t] /\ files'[t] = files[t]
    BY <2>1, <2>2 DEF TypeOK
  <2>5. \A x \in opened' \ opened :
           x.run = r /\ x.department = d /\ Permitted(r, d, x.path)
    BY <1>0, <2>2, <2>3
  <2> HIDE DEF readable
  <2> QED
    BY <1>0, <2>1, <2>4, <2>5, GathererMovesSafe
<1>5. CASE StartCloud(r, d)
  <2>1. /\ d \in CloudDepartments /\ gatherer[<<r, d>>] = "queued"
        /\ UNCHANGED <<runVars, files, ledger>>
    BY <1>5 DEF StartCloud
  <2>2. PICK fetched, ranked :
           /\ allowed' = [allowed EXCEPT ![<<r, d>>] = ranked]
           /\ opened' = opened \cup Items(r, d, fetched)
           /\ prompts' = prompts \cup Items(r, d, Gate(r, d, fetched))
           /\ gatherer' = [gatherer EXCEPT ![<<r, d>>] =
                             IF Gate(r, d, fetched) = {} THEN "done" ELSE "assessing"]
    BY <1>5 DEF StartCloud
  <2>3. PICK next \in {"done", "assessing"} :
           gatherer' = [gatherer EXCEPT ![<<r, d>>] = next]
    BY <2>2
  <2>4. \A t \in Tasks \ {<<r, d>>} : allowed'[t] = allowed[t] /\ files'[t] = files[t]
    BY <2>1, <2>2 DEF TypeOK
  <2>5. \A x \in prompts' \ prompts :
           x.run = r /\ x.department = d /\ Permitted(r, d, x.path)
    BY <1>0, <2>2
  <2>6. d \notin LocalDepartments /\ \A x \in opened' \ opened : x.run = r /\ x.department = d
    BY <1>0, <2>1, <2>2 DEF LocalDepartments
  <2> QED
    BY <1>0, <2>1, <2>3, <2>4, <2>5, <2>6, GathererMovesSafe
<1>6. CASE CloudListFails(r, d)
  BY <1>0, <1>6, GathererMovesSafe DEF CloudListFails
<1>7. ASSUME NEW returned \in SUBSET ForeignFiles, ForeignGatherer(r, d, returned)
      PROVE  Safe'
  <2>1. \A t \in Tasks \ {<<r, d>>} : allowed'[t] = allowed[t] /\ files'[t] = files[t]
    BY <1>7 DEF ForeignGatherer, TypeOK
  <2>2. /\ gatherer[<<r, d>>] \in {"queued", "selecting", "assessing"}
        /\ gatherer' = [gatherer EXCEPT ![<<r, d>>] = "done"]
        /\ UNCHANGED <<runVars, allowed, prompts, opened, ledger>>
    BY <1>7 DEF ForeignGatherer
  <2> QED
    BY <2>1, <2>2, TaskDoneSafe
<1>8. ASSUME NEW relevant \in SUBSET Paths, Assessed(r, d, relevant) PROVE Safe'
  <2>1. \A t \in Tasks \ {<<r, d>>} : allowed'[t] = allowed[t] /\ files'[t] = files[t]
    BY <1>8 DEF Assessed, TypeOK
  <2>2. /\ gatherer[<<r, d>>] \in {"queued", "selecting", "assessing"}
        /\ gatherer' = [gatherer EXCEPT ![<<r, d>>] = "done"]
        /\ UNCHANGED <<runVars, allowed, prompts, opened, ledger>>
    BY <1>8 DEF Assessed
  <2> QED
    BY <2>1, <2>2, TaskDoneSafe
<1>9. CASE AssessmentFails(r, d)
  <2>1. \A t \in Tasks \ {<<r, d>>} : allowed'[t] = allowed[t] /\ files'[t] = files[t]
    BY <1>9 DEF AssessmentFails, TypeOK
  <2>2. /\ gatherer[<<r, d>>] \in {"queued", "selecting", "assessing"}
        /\ gatherer' = [gatherer EXCEPT ![<<r, d>>] = "done"]
        /\ UNCHANGED <<runVars, allowed, prompts, opened, ledger>>
    BY <1>9 DEF AssessmentFails
  <2> QED
    BY <2>1, <2>2, TaskDoneSafe
<1> QED
  BY <1>1, <1>2, <1>3, <1>4, <1>5, <1>6, <1>7, <1>8, <1>9 DEF GathererStep

(* Every step keeps the safety facts.                                      *)
LEMMA NextSafe == TypeOK /\ Safe /\ [Next]_vars => Safe'
<1> SUFFICES ASSUME TypeOK, Safe, [Next]_vars PROVE Safe'
  OBVIOUS
<1>1. CASE UNCHANGED vars
  BY <1>1, StutterSafe DEF vars
<1>2. CASE Environment
  BY <1>2, StutterSafe DEF Environment, SavePermissions, SaveEnvironment, ChangeStore
<1> QED
  BY <1>1, <1>2, RunSafe, GathererSafe DEF Next, Resting

(* The inductive invariant: types, and what each gatherer holds is         *)
(* permitted by the snapshots its run took before it started.              *)
THEOREM Invariance == Spec => []IInv
<1>1. Init => IInv
  BY InitTypeOK, InitSafe DEF IInv
<1>2. IInv /\ [Next]_vars => IInv'
  BY NextTypeOK, NextSafe DEF IInv
<1> QED
  BY <1>1, <1>2, PTL DEF Spec

(* No document its principal may not read ever reaches a model prompt.     *)
THEOREM PromptsArePermitted == Spec => []PromptsPermitted
<1>1. IInv => PromptsPermitted
  BY DEF IInv, Safe
<1> QED
  BY <1>1, Invariance, PTL

(* A local document is opened only under the full gate.                    *)
THEOREM LocalReadsArePermitted == Spec => []LocalReadsPermitted
<1>1. IInv => LocalReadsPermitted
  BY DEF IInv, Safe
<1> QED
  BY <1>1, Invariance, PTL

(* Whatever gatherers return, a delivered run holds permitted files only.  *)
THEOREM AnswersArePermitted == Spec => []AnswerPermitted
<1>1. IInv => AnswerPermitted
  BY DEF IInv, Safe
<1> QED
  BY <1>1, Invariance, PTL

(* No ledger line misattributes a decision, for any number of runs.        *)
THEOREM LedgerIsTruthful == Spec => []LedgerTruthful
<1>1. IInv => LedgerTruthful
  BY DEF IInv, Safe
<1> QED
  BY <1>1, Invariance, PTL

-----------------------------------------------------------------------------
(* Gathering implements GrantedAnswer.                                     *)

(* A step of one run leaves the abstract state of the others alone.        *)
LEMMA OnlyOneRun ==
    ASSUME NEW r \in Runs,
           role' = role,
           \A q \in Runs \ {r} :
              /\ phase'[q] = phase[q] /\ perms'[q] = perms[q] /\ env'[q] = env[q]
              /\ phase[q] = "delivered" =>
                    \A d \in Departments : files'[<<q, d>>] = files[<<q, d>>]
    PROVE  /\ Stage' = [Stage EXCEPT ![r] = Stage'[r]]
           /\ Granted' = [Granted EXCEPT ![r] = Granted'[r]]
           /\ Material' = [Material EXCEPT ![r] = Material'[r]]
<1>1. \A q \in Runs \ {r} : Stage'[q] = Stage[q]
  BY DEF Stage
<1>2. \A q \in Runs \ {r} : Granted'[q] = Granted[q]
  BY DEF Granted, Permitted
<1>3. \A q \in Runs \ {r} : Material'[q] = Material[q]
  BY DEF Material
<1>4. /\ Stage = [q \in Runs |-> Stage[q]] /\ Stage' = [q \in Runs |-> Stage'[q]]
      /\ Granted = [q \in Runs |-> Granted[q]] /\ Granted' = [q \in Runs |-> Granted'[q]]
      /\ Material = [q \in Runs |-> Material[q]]
      /\ Material' = [q \in Runs |-> Material'[q]]
  BY DEF Stage, Granted, Material
<1> QED
  BY <1>1, <1>2, <1>3, <1>4

(* A step that changes nothing the promise speaks of.                      *)
LEMMA PromiseStutters ==
    ASSUME UNCHANGED <<phase, role, env, perms>>,
           \A q \in Runs, d \in Departments :
              phase[q] = "delivered" => files'[<<q, d>>] = files[<<q, d>>]
    PROVE  UNCHANGED Promise!vars
<1>1. Stage' = Stage
  BY DEF Stage
<1>2. Granted' = Granted
  BY DEF Granted, Permitted
<1>3. Material' = Material
  BY DEF Material
<1> QED
  BY <1>1, <1>2, <1>3 DEF Promise!vars

(* Initially nothing is granted and nothing delivered.                     *)
LEMMA PromiseInit == Init => Promise!Init
<1> SUFFICES ASSUME Init PROVE Promise!Init
  OBVIOUS
<1>1. Stage = [r \in Runs |-> "waiting"]
  BY DEF Init, Stage
<1>2. Granted = [r \in Runs |-> {}]
  BY DEF Init, Granted, Permitted, NoRoles
<1>3. Material = [r \in Runs |-> {}]
  BY DEF Init, Material
<1> QED
  BY <1>1, <1>2, <1>3 DEF Promise!Init

(* A step of a run is a grant, a delivery, a drop or nothing.              *)
LEMMA RunKeepsPromise ==
    ASSUME IInv, NEW r \in Runs, RunStep(r)
    PROVE  [Promise!Next]_(Promise!vars)
<1> USE DEF configVars, resultVars
<1>0. TypeOK /\ Safe
  BY DEF IInv
<1>1. CASE Accept(r)
  <2>1. /\ phase[r] = "new" /\ phase'[r] = "accepted" /\ role' = role
        /\ \A q \in Runs \ {r} : phase'[q] = phase[q] /\ env'[q] = env[q]
        /\ perms' = perms /\ perms[r] = NoRoles /\ files' = files
    BY <1>0, <1>1 DEF Accept, TypeOK, Safe, Untouched
  <2>2. Stage' = Stage
    BY <2>1 DEF Stage
  <2>3. \A i \in Departments \X Paths :
           ~Permitted(r, i[1], i[2]) /\ ~Permitted(r, i[1], i[2])'
    BY <2>1 DEF Permitted, NoRoles
  <2>4. \A q \in Runs : \A i \in Departments \X Paths :
           Permitted(q, i[1], i[2])' <=> Permitted(q, i[1], i[2])
    BY <2>1, <2>3 DEF Permitted
  <2>5. Granted' = Granted
    BY <2>4 DEF Granted
  <2>6. Material' = Material
    BY <2>1 DEF Material
  <2> QED
    BY <2>2, <2>5, <2>6 DEF Promise!vars
<1>2. CASE LoadPermissions(r)
  <2>1. /\ phase[r] = "accepted" /\ phase'[r] \in {"planning", "failed"}
        /\ phase'[r] = "failed" => perms' = perms
        /\ \A q \in Runs \ {r} : phase'[q] = phase[q] /\ perms'[q] = perms[q]
        /\ role' = role /\ env' = env /\ files' = files
    BY <1>0, <1>2 DEF LoadPermissions, TypeOK
  <2>2. /\ Stage' = [Stage EXCEPT ![r] = Stage'[r]]
        /\ Granted' = [Granted EXCEPT ![r] = Granted'[r]]
        /\ Material' = [Material EXCEPT ![r] = Material'[r]]
    BY <2>1, OnlyOneRun
  <2>3. /\ Stage[r] = "waiting"
        /\ Stage'[r] = IF phase'[r] = "planning" THEN "granted" ELSE "dropped"
    BY <2>1 DEF Stage
  <2>4. Granted'[r] \in SUBSET (Departments \X Paths)
    BY DEF Granted
  <2>5. Material' = Material
    BY <2>1, <2>2 DEF Material
  <2>6. CASE phase'[r] = "planning"
    BY <2>2, <2>3, <2>4, <2>5, <2>6 DEF Promise!Next, Promise!Grant, Promise!Item
  <2>7. CASE phase'[r] = "failed"
    <3>1. Granted' = Granted
      BY <2>1, <2>7 DEF Granted, Permitted
    <3> QED
      BY <2>2, <2>3, <2>5, <2>7, <3>1 DEF Promise!Next, Promise!Drop
  <2> QED
    BY <2>1, <2>6, <2>7
<1>3. ASSUME NEW chosen \in SUBSET Departments, Plan(r, chosen)
      PROVE  [Promise!Next]_(Promise!vars)
  <2>1. /\ phase[r] = "planning" /\ phase'[r] = "gathering"
        /\ \A q \in Runs \ {r} : phase'[q] = phase[q]
        /\ UNCHANGED <<role, env, perms, files>>
    BY <1>0, <1>3 DEF Plan, TypeOK
  <2>2. Stage' = Stage
    BY <2>1 DEF Stage
  <2>3. Granted' = Granted
    BY <2>1 DEF Granted, Permitted
  <2>4. Material' = Material
    BY <2>1 DEF Material
  <2> QED
    BY <2>2, <2>3, <2>4 DEF Promise!vars
<1>4. ASSUME phase[r] \in {"accepted", "planning", "gathering"},
             phase'[r] \in {"failed", "cancelled"},
             \A q \in Runs \ {r} : phase'[q] = phase[q],
             UNCHANGED <<role, env, perms, files>>
      PROVE  [Promise!Next]_(Promise!vars)
  <2>1. Stage' = [Stage EXCEPT ![r] = Stage'[r]]
    BY <1>4, OnlyOneRun
  <2>2. Stage[r] \in {"waiting", "granted"} /\ Stage'[r] = "dropped"
    BY <1>4 DEF Stage
  <2>3. Granted' = Granted
    BY <1>4 DEF Granted, Permitted
  <2>4. Material' = Material
    BY <1>4 DEF Material
  <2> QED
    BY <2>1, <2>2, <2>3, <2>4 DEF Promise!Next, Promise!Drop
<1>5. CASE PlanFails(r)
  BY <1>0, <1>4, <1>5 DEF PlanFails, TypeOK
<1>6. CASE GathererFailureSeen(r)
  BY <1>0, <1>4, <1>6 DEF GathererFailureSeen, TypeOK
<1>7. CASE Cancel(r)
  BY <1>0, <1>4, <1>7 DEF Cancel, TypeOK
<1>8. CASE Deliver(r)
  <2>1. /\ phase[r] = "gathering" /\ phase'[r] = "delivered"
        /\ \A q \in Runs \ {r} : phase'[q] = phase[q]
        /\ UNCHANGED <<role, env, perms>>
        /\ \A q \in Runs \ {r}, d \in Departments : files'[<<q, d>>] = files[<<q, d>>]
    BY <1>0, <1>8 DEF Deliver, TypeOK, Tasks
  <2>2. /\ Stage' = [Stage EXCEPT ![r] = Stage'[r]]
        /\ Material' = [Material EXCEPT ![r] = Material'[r]]
    BY <2>1, OnlyOneRun
  <2>3. Stage[r] = "granted" /\ Stage'[r] = "delivered"
    BY <2>1 DEF Stage
  <2>4. Granted' = Granted
    BY <2>1 DEF Granted, Permitted
  <2>5. AnswerPermitted'
    BY <1>0, RunSafe DEF Safe
  <2>6. Material'[r] \in SUBSET Granted[r]
    BY <2>1, <2>5 DEF AnswerPermitted, Material, Granted, Permitted
  <2> QED
    BY <2>2, <2>3, <2>4, <2>6 DEF Promise!Next, Promise!Deliver
<1> QED
  BY <1>1, <1>2, <1>3, <1>5, <1>6, <1>7, <1>8 DEF RunStep

(* A gatherer writes only its own result, and never that of a delivered run. *)
LEMMA GathererKeepsPromise ==
    ASSUME IInv, NEW r \in Runs, NEW d \in Departments, GathererStep(r, d)
    PROVE  UNCHANGED Promise!vars
<1>1. UNCHANGED <<phase, role, env, perms>>
  BY DEF GathererStep, StartLocal, GlobRaises, Selected, SelectionFails, StartCloud,
         CloudListFails, ForeignGatherer, Assessed, AssessmentFails, runVars
<1>2. gatherer[<<r, d>>] \in {"queued", "selecting", "assessing"}
  BY DEF GathererStep, StartLocal, GlobRaises, Selected, SelectionFails, StartCloud,
         CloudListFails, ForeignGatherer, Assessed, AssessmentFails
<1>3. phase[r] # "delivered"
  BY <1>2 DEF IInv, Safe, DeliveredAtRest
<1>4. \E fs : files' = [files EXCEPT ![<<r, d>>] = fs]
  <2>1. files = [files EXCEPT ![<<r, d>>] = files[<<r, d>>]]
    BY DEF IInv, TypeOK
  <2>2. CASE SelectionFails(r, d)
    BY <2>2 DEF SelectionFails
  <2>3. CASE files' = files
    BY <2>1, <2>3
  <2> QED
    BY <2>2, <2>3 DEF GathererStep, StartLocal, GlobRaises, Selected, StartCloud,
       CloudListFails, ForeignGatherer, Assessed, AssessmentFails, resultVars
<1>5. \A q \in Runs, c \in Departments :
         phase[q] = "delivered" => files'[<<q, c>>] = files[<<q, c>>]
  BY <1>3, <1>4 DEF IInv, TypeOK, Tasks
<1> QED
  BY <1>1, <1>5, PromiseStutters

(* What a run may use is settled before the planner is asked, and its      *)
(* material is delivered once, inside that grant, and never altered.       *)
THEOREM Implementation == Spec => KeepsPromise
<1>1. IInv /\ [Next]_vars => [Promise!Next]_(Promise!vars)
  <2> SUFFICES ASSUME IInv, [Next]_vars PROVE [Promise!Next]_(Promise!vars)
    OBVIOUS
  <2>1. CASE UNCHANGED vars
    BY <2>1, PromiseStutters DEF vars
  <2>2. CASE Environment
    BY <2>2, PromiseStutters DEF Environment, SavePermissions, SaveEnvironment,
       ChangeStore
  <2> QED
    BY <2>1, <2>2, RunKeepsPromise, GathererKeepsPromise DEF Next, Resting
<1> QED
  BY <1>1, PromiseInit, Invariance, PTL DEF Spec, KeepsPromise, Promise!Spec

-----------------------------------------------------------------------------
(* The bookkeeping half: what a gatherer has read, what it returns and     *)
(* what the ledger says of it.                                             *)

(* max_files_per_gatherer, with the one file a model is always asked about. *)
Ceiling == IF MaxFiles = 0 THEN 1 ELSE MaxFiles

(* A gatherer returns in its last step, after it has read; what it chose   *)
(* is then read, refused or an error.                                      *)
Reading(t) ==
    /\ gatherer[t] # "done" => files[t] = {}
    /\ gatherer[t] \in {"none", "queued", "selecting"} => documents[t] = {}
    /\ gatherer[t] = "assessing" => documents[t] # {}
    /\ gatherer[t] \in {"assessing", "done"} /\ documents[t] # {} =>
          allowed[t] \subseteq documents[t] \cup errors[t] \cup denied[t]
    /\ gatherer[t] = "done" /\ documents[t] # {} =>
          documents[t] \cap (PathsOf(files[t]) \cup denied[t]) # {}

(* No gatherer before the plan, and none at work after a cancellation that *)
(* no failure of a gatherer came before.                                   *)
Unspawned ==
    \A r \in Runs, d \in Departments :
        phase[r] \in {"new", "accepted", "planning"} => gatherer[<<r, d>>] = "none"

CancelledAtRest ==
    \A r \in Runs, d \in Departments :
        phase[r] = "cancelled" /\ ~Raised(r) =>
            gatherer[<<r, d>>] \in {"none", "done", "stopped"}

WorkInv ==
    /\ \A t \in Tasks : Reading(t)
    /\ Unspawned
    /\ CancelledAtRest
    /\ LedgerCoversAnswer

(* Of the gatherers of this repository alone: what they read and return is *)
(* permitted, labelled with their department and within the ceiling.       *)
Honest(r, d) ==
    /\ \A p \in documents[<<r, d>>] : Permitted(r, d, p)
    /\ Cardinality(documents[<<r, d>>]) <= Ceiling
    /\ \A f \in files[<<r, d>>] : f.department = d /\ Permitted(r, d, f.path)
    /\ Cardinality(files[<<r, d>>]) <= Ceiling

HonestInv == \A r \in Runs, d \in Departments : Honest(r, d)

-----------------------------------------------------------------------------
(* The steps of a gatherer, by what they do to its result.                 *)

(* It waits for its model, or has raised.                                  *)
Continues(r, d) ==
    /\ gatherer[<<r, d>>] \in {"queued", "selecting"}
    /\ gatherer'[<<r, d>>] \in {"selecting", "raised"}
    /\ documents'[<<r, d>>] = {} /\ files'[<<r, d>>] = {}

(* It has read something, and accounts for all that it chose.              *)
Reads(r, d) ==
    /\ gatherer'[<<r, d>>] = "assessing"
    /\ documents'[<<r, d>>] # {} /\ files'[<<r, d>>] = {}
    /\ \A p \in documents'[<<r, d>>] : Permitted(r, d, p)
    /\ Cardinality(documents'[<<r, d>>]) <= Ceiling
    /\ allowed'[<<r, d>>] \subseteq documents'[<<r, d>>] \cup errors'[<<r, d>>]
                                      \cup denied'[<<r, d>>]

(* It returns permitted files, or nothing, without an assessment.          *)
ReturnsUnassessed(r, d) ==
    /\ gatherer'[<<r, d>>] = "done" /\ documents'[<<r, d>>] = {}
    /\ \E found \in SUBSET Paths :
          /\ files'[<<r, d>>] = Labelled(d, found)
          /\ \A p \in found : Permitted(r, d, p)
          /\ Cardinality(found) <= Ceiling

(* It returns some of what it read.                                        *)
ReturnsAssessed(r, d) ==
    /\ gatherer[<<r, d>>] = "assessing" /\ gatherer'[<<r, d>>] = "done"
    /\ UNCHANGED <<allowed, documents, errors, denied>>
    /\ \E kept \in SUBSET documents[<<r, d>>] :
          kept # {} /\ files'[<<r, d>>] = Labelled(d, kept)

(* Another implementation returns what it likes.                           *)
ReturnsForeign(r, d) ==
    /\ ForeignFiles # {}
    /\ gatherer'[<<r, d>>] = "done" /\ documents'[<<r, d>>] = {}

Outcome(r, d) ==
    \/ Continues(r, d)
    \/ Reads(r, d)
    \/ ReturnsUnassessed(r, d)
    \/ ReturnsAssessed(r, d)
    \/ ReturnsForeign(r, d)

(* Nothing of any other task changes.                                      *)
OnlyTask(t) ==
    \A u \in Tasks \ {t} :
        /\ gatherer'[u] = gatherer[u] /\ documents'[u] = documents[u]
        /\ allowed'[u] = allowed[u] /\ files'[u] = files[u]
        /\ errors'[u] = errors[u] /\ denied'[u] = denied[u]

Work(r, d) ==
    /\ UNCHANGED runVars
    /\ ledger \subseteq ledger'
    /\ gatherer[<<r, d>>] \in {"queued", "selecting", "assessing"}
    /\ OnlyTask(<<r, d>>)
    /\ \A x \in (prompts' \ prompts) \cup (opened' \ opened) : x.run = r
    /\ Outcome(r, d)

-----------------------------------------------------------------------------
(* The two limits and the ceiling they stay under.                         *)
LEMMA Limits == /\ Limit \in Nat /\ Cap \in Nat /\ Ceiling \in Nat
                /\ Limit <= Ceiling /\ Cap <= Ceiling
BY GatheringAssumption DEF Limit, Cap, Ceiling, Least

(* A part of a bounded set of documents is bounded.                        *)
LEMMA PartBounded ==
    ASSUME NEW S \in SUBSET Paths, NEW n \in Nat, Cardinality(S) <= n,
           NEW T \in SUBSET S
    PROVE  IsFiniteSet(T) /\ Cardinality(T) \in Nat /\ Cardinality(T) <= n
<1>1. IsFiniteSet(S)
  BY GatheringAssumption, FS_Subset
<1>2. IsFiniteSet(T) /\ Cardinality(T) <= Cardinality(S)
  BY <1>1, FS_Subset
<1>3. Cardinality(S) \in Nat /\ Cardinality(T) \in Nat
  BY <1>1, <1>2, FS_CardinalityType
<1> QED
  BY <1>2, <1>3

(* A result holds at most as many files as documents it was made from.     *)
LEMMA LabelledBounded ==
    ASSUME NEW d \in Departments, NEW S \in SUBSET Paths, NEW n \in Nat,
           Cardinality(S) <= n
    PROVE  /\ IsFiniteSet(Labelled(d, S))
           /\ Cardinality(Labelled(d, S)) \in Nat
           /\ Cardinality(Labelled(d, S)) <= n
<1> DEFINE label == [p \in S |-> [department |-> d, path |-> p]]
           result == Labelled(d, S)
<1>1. IsFiniteSet(S) /\ Cardinality(S) \in Nat
  BY GatheringAssumption, FS_Subset, FS_CardinalityType
<1>2. label \in Surjection(S, result)
  <2>1. label \in [S -> result]
    BY DEF Labelled
  <2>2. \A f \in result : \E p \in S : label[p] = f
    BY DEF Labelled
  <2> QED
    BY <2>1, <2>2 DEF Surjection
<1>3. IsFiniteSet(result) /\ Cardinality(result) <= Cardinality(S)
  <2> HIDE DEF label, result
  <2> QED
    BY <1>1, <1>2, FS_Surjection
<1>4. Cardinality(result) \in Nat
  BY <1>3, FS_CardinalityType
<1> QED
  BY <1>1, <1>3, <1>4

(* An empty result is one made from no document.                           *)
LEMMA LabelledNone ==
    ASSUME NEW d \in Departments
    PROVE  /\ Labelled(d, {}) = {}
           /\ \A S \in SUBSET Paths : PathsOf(Labelled(d, S)) = S
           /\ \A S \in SUBSET Paths : \A f \in Labelled(d, S) :
                 f.department = d /\ f.path \in S
<1>1. Labelled(d, {}) = {}
  BY DEF Labelled
<1>2. ASSUME NEW S \in SUBSET Paths PROVE PathsOf(Labelled(d, S)) = S
  <2>1. \A p \in S : [department |-> d, path |-> p] \in Labelled(d, S)
    BY DEF Labelled
  <2>2. \A f \in Labelled(d, S) : f.path \in S
    BY DEF Labelled
  <2>3. ASSUME NEW p \in S PROVE p \in PathsOf(Labelled(d, S))
    <3>1. [department |-> d, path |-> p].path = p
      OBVIOUS
    <3> QED
      BY <2>1, <3>1 DEF PathsOf
  <2>4. \A p \in PathsOf(Labelled(d, S)) : p \in S
    BY <2>2 DEF PathsOf
  <2> QED
    BY <2>3, <2>4
<1>3. \A S \in SUBSET Paths : \A f \in Labelled(d, S) :
         f.department = d /\ f.path \in S
  BY DEF Labelled
<1> QED
  BY <1>1, <1>2, <1>3

(* Nothing found is within any ceiling.                                    *)
LEMMA NothingFound ==
    ASSUME NEW r \in Runs, NEW d \in Departments,
           gatherer'[<<r, d>>] = "done", documents'[<<r, d>>] = {},
           files'[<<r, d>>] = {}
    PROVE  ReturnsUnassessed(r, d)
<1>1. Cardinality({}) <= Ceiling
  BY FS_EmptySet, Limits
<1>2. files'[<<r, d>>] = Labelled(d, {})
  BY LabelledNone
<1> QED
  BY <1>1, <1>2 DEF ReturnsUnassessed

(* What follows a selection or a small department: read all that was       *)
(* chosen, within the limit.                                               *)
LEMMA ReadAndAssessWorks ==
    ASSUME TypeOK, NEW r \in Runs, NEW d \in Departments,
           NEW chosen \in SUBSET Paths, ReadAndAssess(r, d, chosen),
           \A p \in chosen : Permitted(r, d, p),
           Cardinality(chosen) <= Limit,
           allowed'[<<r, d>>] = chosen,
           chosen \ Readable(d, chosen) \subseteq errors'[<<r, d>>],
           files' = files, files[<<r, d>>] = {}
    PROVE  Reads(r, d) \/ ReturnsUnassessed(r, d)
<1> DEFINE texts == Readable(d, chosen)
<1>1. texts \subseteq chosen
  BY DEF Readable
<1>2. /\ documents'[<<r, d>>] = texts
      /\ gatherer'[<<r, d>>] = IF texts = {} THEN "done" ELSE "assessing"
  BY DEF ReadAndAssess, TypeOK, Tasks
<1>3. Cardinality(texts) <= Ceiling
  <2>1. Cardinality(chosen) \in Nat
    BY GatheringAssumption, FS_Subset, FS_CardinalityType
  <2>2. Cardinality(chosen) <= Ceiling
    BY <2>1, Limits
  <2> HIDE DEF texts
  <2> QED
    BY <1>1, <2>2, Limits, PartBounded
<1>4. CASE texts = {}
  <2> HIDE DEF texts
  <2> QED
    BY <1>2, <1>4, NothingFound
<1>5. CASE texts # {}
  <2>1. allowed'[<<r, d>>] \subseteq texts \cup errors'[<<r, d>>]
    OBVIOUS
  <2> HIDE DEF texts
  <2> QED
    BY <1>1, <1>2, <1>3, <1>5, <2>1 DEF Reads
<1> QED
  BY <1>4, <1>5

(* Every step of a gatherer works on its own task and ends in one of the   *)
(* outcomes above.                                                         *)
LEMMA GathererWorks ==
    ASSUME IInv, WorkInv, NEW r \in Runs, NEW d \in Departments, GathererStep(r, d)
    PROVE  Work(r, d)
<1> USE DEF runVars, resultVars
<1> DEFINE t == <<r, d>>
<1>0. /\ TypeOK /\ Safe /\ t \in Tasks /\ store[d] \subseteq Paths
      /\ DOMAIN gatherer = Tasks /\ DOMAIN documents = Tasks /\ DOMAIN files = Tasks
      /\ DOMAIN allowed = Tasks /\ DOMAIN errors = Tasks /\ DOMAIN denied = Tasks
      /\ documents[t] \in SUBSET Paths
      /\ gatherer[t] # "done" => files[t] = {}
      /\ gatherer[t] \in {"none", "queued", "selecting"} => documents[t] = {}
      /\ gatherer[t] = "assessing" => documents[t] # {}
  BY DEF IInv, TypeOK, Tasks, WorkInv, Reading
<1>1. CASE StartLocal(r, d)
  <2> DEFINE readable == Gate(r, d, store[d])
             refused  == store[d] \ readable
  <2>1. /\ d \in LocalDepartments /\ gatherer[t] = "queued"
        /\ allowed' = [allowed EXCEPT ![t] = readable]
        /\ denied' = [denied EXCEPT ![t] = refused]
        /\ ledger \subseteq ledger'
        /\ UNCHANGED <<phase, role, env, perms, files>>
    BY <1>1 DEF StartLocal
  <2>2. readable \in SUBSET Paths /\ Readable(d, readable) \in SUBSET Paths
    BY <1>0, GateType
  <2>3. \A p \in readable : Permitted(r, d, p)
    BY <2>2, GateIsPermitted DEF Gate
  <2>4. \A x \in Items(r, d, Readable(d, readable)) : x.run = r
    BY <2>2, ItemsType
  <2> HIDE DEF readable, refused
  <2>5. allowed'[t] = readable
    BY <1>0, <2>1
  <2>6. CASE /\ gatherer' = [gatherer EXCEPT ![t] = "done"]
             /\ UNCHANGED <<documents, errors, opened, prompts>>
    <3>1. OnlyTask(t)
      BY <1>0, <2>1, <2>6 DEF OnlyTask
    <3>2. ReturnsUnassessed(r, d)
      BY <1>0, <2>1, <2>6, NothingFound
    <3> QED
      BY <2>1, <2>6, <3>1, <3>2 DEF Work, Outcome
  <2>7. CASE /\ errors' = [errors EXCEPT ![t] = readable \ Readable(d, readable)]
             /\ opened' = opened \cup Items(r, d, Readable(d, readable))
             /\ prompts' = prompts \cup Items(r, d, Readable(d, readable))
             /\ gatherer' = [gatherer EXCEPT ![t] = "selecting"]
             /\ UNCHANGED documents
    <3>1. OnlyTask(t)
      BY <1>0, <2>1, <2>7 DEF OnlyTask
    <3>2. Continues(r, d)
      BY <1>0, <2>1, <2>7 DEF Continues
    <3>3. \A x \in (prompts' \ prompts) \cup (opened' \ opened) : x.run = r
      BY <2>4, <2>7
    <3> QED
      BY <2>1, <3>1, <3>2, <3>3 DEF Work, Outcome
  <2>8. CASE /\ ~TooLarge(readable)
             /\ errors' = [errors EXCEPT ![t] = readable \ Readable(d, readable)]
             /\ ReadAndAssess(r, d, readable)
    <3>1. OnlyTask(t)
      BY <1>0, <2>1, <2>8 DEF OnlyTask, ReadAndAssess
    <3>2. Cardinality(readable) \in Nat /\ Cardinality(readable) <= Limit
      <4>1. Cardinality(readable) \in Nat
        BY <2>2, GatheringAssumption, FS_Subset, FS_CardinalityType
      <4> QED
        BY <2>8, <4>1, Limits DEF TooLarge
    <3>3. readable \ Readable(d, readable) \subseteq errors'[t]
      BY <1>0, <2>8
    <3>4. Reads(r, d) \/ ReturnsUnassessed(r, d)
      BY <1>0, <2>1, <2>2, <2>3, <2>5, <2>8, <3>2, <3>3, ReadAndAssessWorks
    <3>5. \A x \in (prompts' \ prompts) \cup (opened' \ opened) : x.run = r
      BY <2>4, <2>8 DEF ReadAndAssess
    <3> QED
      BY <2>1, <3>1, <3>4, <3>5 DEF Work, Outcome
  <2> QED
    BY <1>1, <2>6, <2>7, <2>8 DEF StartLocal, readable
<1>2. CASE GlobRaises(r, d)
  <2>1. /\ gatherer[t] \in {"queued", "selecting"}
        /\ gatherer' = [gatherer EXCEPT ![t] = "raised"]
        /\ UNCHANGED <<phase, role, env, perms, allowed, documents, files, denied,
                       errors, prompts, opened, ledger>>
    BY <1>2 DEF GlobRaises
  <2>2. OnlyTask(t)
    BY <1>0, <2>1 DEF OnlyTask
  <2>3. Continues(r, d)
    BY <1>0, <2>1 DEF Continues
  <2> QED
    BY <2>1, <2>2, <2>3 DEF Work, Outcome
<1>3. ASSUME NEW picks \in SUBSET Paths, Selected(r, d, picks) PROVE Work(r, d)
  <2> DEFINE chosen == picks \cap allowed[t]
  <2>1. /\ gatherer[t] = "selecting" /\ Cardinality(picks) <= Limit
        /\ allowed' = [allowed EXCEPT ![t] = chosen]
        /\ errors' = [errors EXCEPT ![t] = @ \cup (picks \ chosen)
                                             \cup (chosen \ Readable(d, chosen))]
        /\ ReadAndAssess(r, d, chosen)
        /\ UNCHANGED <<phase, role, env, perms, files, denied, ledger>>
    BY <1>3 DEF Selected
  <2>2. chosen \in SUBSET picks /\ \A p \in chosen : Permitted(r, d, p)
    BY <1>0, <2>1 DEF Safe, HeldPermitted
  <2>3. \A x \in Items(r, d, Readable(d, chosen)) : x.run = r
    BY <2>2, GateType, ItemsType, <1>0
  <2> HIDE DEF chosen
  <2>4. Cardinality(chosen) <= Limit
    BY <2>1, <2>2, Limits, PartBounded
  <2>5. allowed'[t] = chosen /\ chosen \ Readable(d, chosen) \subseteq errors'[t]
    BY <1>0, <2>1
  <2>6. OnlyTask(t)
    BY <1>0, <2>1 DEF OnlyTask, ReadAndAssess
  <2>7. Reads(r, d) \/ ReturnsUnassessed(r, d)
    BY <1>0, <2>1, <2>2, <2>4, <2>5, ReadAndAssessWorks
  <2>8. \A x \in (prompts' \ prompts) \cup (opened' \ opened) : x.run = r
    BY <2>1, <2>3 DEF ReadAndAssess
  <2> QED
    BY <2>1, <2>6, <2>7, <2>8 DEF Work, Outcome
<1>4. CASE SelectionFails(r, d)
  <2> DEFINE readable == EnvironmentGate(r, d, store[d])
  <2>1. /\ gatherer[t] = "selecting"
        /\ denied' = [denied EXCEPT ![t] = store[d] \ readable]
        /\ gatherer' = [gatherer EXCEPT ![t] = "done"]
        /\ UNCHANGED <<phase, role, env, perms, allowed, documents, prompts, ledger>>
    BY <1>4 DEF SelectionFails
  <2>2. PICK ranked \in SUBSET readable :
           /\ Cardinality(ranked) <= Cap
           /\ files' = [files EXCEPT ![t] = Labelled(d, Readable(d, ranked))]
           /\ errors' = [errors EXCEPT ![t] = ranked \ Readable(d, ranked)]
           /\ opened' = opened \cup Items(r, d, Readable(d, ranked))
    BY <1>4 DEF SelectionFails
  <2>3. \A p \in readable : Permitted(r, d, p)
    BY <1>0, <2>1 DEF Safe, HeldPermitted, EnvironmentGate, DepartmentAllowed, Check,
                DepartmentsForRole, RoleKnown, PathWithin, Permitted
  <2>4. readable \in SUBSET Paths /\ Readable(d, ranked) \in SUBSET ranked
    BY <1>0, GateType DEF Readable
  <2> DEFINE found == Readable(d, ranked)
  <2>5. \A x \in Items(r, d, found) : x.run = r
    BY <1>0, <2>4, GateType, ItemsType
  <2> HIDE DEF readable, found
  <2>6. Cardinality(ranked) \in Nat /\ Cardinality(readable) \in Nat
    BY <2>4, GatheringAssumption, FS_Subset, FS_CardinalityType
  <2>7. Cardinality(ranked) <= Ceiling
    BY <2>2, <2>6, Limits
  <2>8. found \in SUBSET Paths /\ Cardinality(found) <= Ceiling
    BY <2>2, <2>4, <2>7, Limits, PartBounded DEF found
  <2>9. OnlyTask(t)
    BY <1>0, <2>1, <2>2 DEF OnlyTask
  <2>10. files'[t] = Labelled(d, found)
    BY <1>0, <2>2 DEF found
  <2>11. ReturnsUnassessed(r, d)
    BY <1>0, <2>1, <2>3, <2>4, <2>8, <2>10 DEF ReturnsUnassessed, found
  <2> QED
    BY <2>1, <2>2, <2>5, <2>9, <2>11 DEF Work, Outcome, found
<1>5. CASE StartCloud(r, d)
  <2> DEFINE listed == EnvironmentGate(r, d, store[d])
  <2>1. gatherer[t] = "queued" /\ UNCHANGED <<phase, role, env, perms, files, ledger>>
    BY <1>5 DEF StartCloud
  <2>2. PICK ranked \in SUBSET listed : \E lost \in SUBSET ranked :
           LET fetched == Readable(d, ranked) \ lost
               texts   == Gate(r, d, fetched)
           IN
           /\ Cardinality(ranked) = Least(Cap, Cardinality(listed))
           /\ allowed' = [allowed EXCEPT ![<<r, d>>] = ranked]
           /\ opened' = opened \cup Items(r, d, fetched)
           /\ errors' = [errors EXCEPT ![<<r, d>>] = ranked \ fetched]
           /\ denied' = [denied EXCEPT ![<<r, d>>] =
                           (store[d] \ listed) \cup (fetched \ texts)]
           /\ documents' = [documents EXCEPT ![<<r, d>>] = texts]
           /\ prompts' = prompts \cup Items(r, d, texts)
           /\ gatherer' = [gatherer EXCEPT ![<<r, d>>] =
                             IF texts = {} THEN "done" ELSE "assessing"]
    BY <1>5 DEF StartCloud, kSubset
  <2>21. PICK lost \in SUBSET ranked :
           LET fetched == Readable(d, ranked) \ lost
               texts   == Gate(r, d, fetched)
           IN
           /\ opened' = opened \cup Items(r, d, fetched)
           /\ errors' = [errors EXCEPT ![<<r, d>>] = ranked \ fetched]
           /\ denied' = [denied EXCEPT ![<<r, d>>] =
                           (store[d] \ listed) \cup (fetched \ texts)]
           /\ documents' = [documents EXCEPT ![<<r, d>>] = texts]
           /\ prompts' = prompts \cup Items(r, d, texts)
           /\ gatherer' = [gatherer EXCEPT ![<<r, d>>] =
                             IF texts = {} THEN "done" ELSE "assessing"]
    BY <2>2
  <2>22. /\ Cardinality(ranked) = Least(Cap, Cardinality(listed))
         /\ allowed' = [allowed EXCEPT ![<<r, d>>] = ranked]
    BY <2>2
  <2> DEFINE fetched == Readable(d, ranked) \ lost
             texts   == Gate(r, d, fetched)
  <2>3. /\ listed \in SUBSET Paths /\ fetched \in SUBSET ranked
        /\ texts \in SUBSET fetched
    BY <1>0, GateType DEF Readable, Gate
  <2>4. \A p \in texts : Permitted(r, d, p)
    BY <2>3, GateIsPermitted DEF Gate
  <2> HIDE DEF listed, fetched, texts
  <2>5. /\ \A x \in Items(r, d, fetched) : x.run = r
        /\ \A x \in Items(r, d, texts) : x.run = r
    <3>1. fetched \subseteq Paths /\ texts \subseteq Paths
      BY <2>3
    <3> QED
      BY <3>1, ItemsType
  <2>6. /\ allowed'[t] = ranked /\ errors'[t] = ranked \ fetched
        /\ fetched \ texts \subseteq denied'[t] /\ documents'[t] = texts
        /\ gatherer'[t] = (IF texts = {} THEN "done" ELSE "assessing")
        /\ files'[t] = {}
    BY <1>0, <2>1, <2>21, <2>22 DEF fetched, texts
  <2>7. Cardinality(ranked) \in Nat /\ Cardinality(listed) \in Nat
    BY <2>3, GatheringAssumption, FS_Subset, FS_CardinalityType
  <2>8. Cardinality(ranked) <= Ceiling
    BY <2>22, <2>7, Limits DEF Least
  <2>9. Cardinality(texts) <= Ceiling
    BY <2>3, <2>8, Limits, PartBounded
  <2>10. OnlyTask(t)
    BY <1>0, <2>1, <2>21, <2>22 DEF OnlyTask
  <2>11. Reads(r, d) \/ ReturnsUnassessed(r, d)
    <3>1. CASE texts = {}
      BY <2>6, <3>1, NothingFound
    <3>2. CASE texts # {}
      BY <2>3, <2>4, <2>6, <2>9, <3>2 DEF Reads
    <3> QED
      BY <3>1, <3>2
  <2>12. \A x \in (prompts' \ prompts) \cup (opened' \ opened) : x.run = r
    BY <2>21, <2>5 DEF fetched, texts
  <2> QED
    BY <2>1, <2>10, <2>11, <2>12 DEF Work, Outcome
<1>6. CASE CloudListFails(r, d)
  <2>1. /\ gatherer[t] = "queued" /\ gatherer' = [gatherer EXCEPT ![t] = "done"]
        /\ UNCHANGED <<phase, role, env, perms, allowed, documents, files, denied,
                       errors, prompts, opened, ledger>>
    BY <1>6 DEF CloudListFails
  <2>2. OnlyTask(t)
    BY <1>0, <2>1 DEF OnlyTask
  <2>3. ReturnsUnassessed(r, d)
    BY <1>0, <2>1, NothingFound
  <2> QED
    BY <2>1, <2>2, <2>3 DEF Work, Outcome
<1>7. ASSUME NEW returned \in SUBSET ForeignFiles, ForeignGatherer(r, d, returned)
      PROVE  Work(r, d)
  <2>1. /\ gatherer[t] = "queued" /\ gatherer' = [gatherer EXCEPT ![t] = "done"]
        /\ files' = [files EXCEPT ![t] = returned] /\ returned # {}
        /\ UNCHANGED <<phase, role, env, perms, allowed, documents, denied,
                       errors, prompts, opened, ledger>>
    BY <1>7 DEF ForeignGatherer
  <2>2. OnlyTask(t)
    BY <1>0, <2>1 DEF OnlyTask
  <2>3. ReturnsForeign(r, d)
    BY <1>0, <2>1 DEF ReturnsForeign
  <2> QED
    BY <2>1, <2>2, <2>3 DEF Work, Outcome
<1>8. ASSUME NEW kept \in SUBSET documents[t], kept # {},
             gatherer[t] = "assessing",
             gatherer' = [gatherer EXCEPT ![t] = "done"],
             files' = [files EXCEPT ![t] = Labelled(d, kept)],
             UNCHANGED <<phase, role, env, perms, allowed, documents, denied,
                         errors, prompts, opened, ledger>>
      PROVE  Work(r, d)
  <2>1. OnlyTask(t)
    BY <1>0, <1>8 DEF OnlyTask
  <2>2. ReturnsAssessed(r, d)
    BY <1>0, <1>8 DEF ReturnsAssessed
  <2> QED
    BY <1>8, <2>1, <2>2 DEF Work, Outcome
<1>9. ASSUME NEW relevant \in SUBSET Paths, Assessed(r, d, relevant)
      PROVE  Work(r, d)
  <2> DEFINE keepers == IF relevant = {} THEN documents[t] ELSE relevant
  <2>1. /\ gatherer[t] = "assessing" /\ relevant \subseteq documents[t]
        /\ gatherer' = [gatherer EXCEPT ![t] = "done"]
        /\ files' = [files EXCEPT ![t] = Labelled(d, keepers)]
        /\ UNCHANGED <<phase, role, env, perms, allowed, documents, denied,
                       errors, prompts, opened, ledger>>
    BY <1>9 DEF Assessed
  <2>2. keepers \in SUBSET documents[t] /\ keepers # {}
    BY <1>0, <2>1
  <2> HIDE DEF keepers
  <2> QED
    BY <1>8, <2>1, <2>2
<1>10. CASE AssessmentFails(r, d)
  <2>1. /\ gatherer[t] = "assessing"
        /\ gatherer' = [gatherer EXCEPT ![t] = "done"]
        /\ files' = [files EXCEPT ![t] = Labelled(d, documents[t])]
        /\ UNCHANGED <<phase, role, env, perms, allowed, documents, denied,
                       errors, prompts, opened, ledger>>
    BY <1>10 DEF AssessmentFails
  <2> QED
    BY <1>0, <1>8, <2>1
<1> QED
  BY <1>1, <1>2, <1>3, <1>4, <1>5, <1>6, <1>7, <1>9, <1>10 DEF GathererStep

-----------------------------------------------------------------------------
(* The bookkeeping invariant.                                              *)

(* The books are empty, and kept, at the start.                            *)
LEMMA InitWork == Init => WorkInv
BY DEF Init, WorkInv, Reading, Unspawned, CancelledAtRest, LedgerCoversAnswer, Tasks

(* A step that touches no run, no gatherer and no result.                  *)
LEMMA StutterWork ==
    ASSUME WorkInv,
           UNCHANGED <<phase, gatherer, allowed, documents, files, denied, errors,
                       ledger>>
    PROVE  WorkInv'
BY DEF WorkInv, Reading, Unspawned, CancelledAtRest, LedgerCoversAnswer, Raised

(* A run moves on and its gatherers stay as they are: accepted, loaded or  *)
(* failed.                                                                 *)
LEMMA RunMovesWork ==
    ASSUME TypeOK, WorkInv, NEW r \in Runs,
           NEW next \in {"accepted", "planning", "failed"},
           phase' = [phase EXCEPT ![r] = next],
           next \in {"accepted", "planning"} =>
              phase[r] \in {"new", "accepted", "planning"},
           UNCHANGED <<gatherer, allowed, documents, files, denied, errors, ledger>>
    PROVE  WorkInv'
<1>1. phase'[r] = next /\ \A q \in Runs \ {r} : phase'[q] = phase[q]
  BY DEF TypeOK
<1>2. \A t \in Tasks : Reading(t)'
  BY DEF WorkInv, Reading
<1>3. Unspawned' /\ CancelledAtRest' /\ LedgerCoversAnswer'
  BY <1>1 DEF WorkInv, Unspawned, CancelledAtRest, LedgerCoversAnswer, Raised
<1> QED
  BY <1>2, <1>3 DEF WorkInv

(* The steps of a run keep the books.                                      *)
LEMMA RunWork ==
    ASSUME IInv, WorkInv, NEW r \in Runs, RunStep(r) PROVE WorkInv'
<1> USE DEF configVars, resultVars
<1>0. TypeOK /\ Safe /\ \A q \in Runs, d \in Departments : <<q, d>> \in Tasks
  BY DEF IInv, Tasks
<1>1. CASE Accept(r)
  BY <1>0, <1>1, RunMovesWork DEF Accept
<1>2. CASE LoadPermissions(r)
  BY <1>0, <1>2, RunMovesWork DEF LoadPermissions
<1>3. ASSUME NEW chosen \in SUBSET Departments, Plan(r, chosen) PROVE WorkInv'
  <2>1. /\ phase[r] = "planning" /\ phase' = [phase EXCEPT ![r] = "gathering"]
        /\ gatherer' = [t \in Tasks |->
              IF t[1] = r /\ t[2] \in chosen THEN "queued" ELSE gatherer[t]]
        /\ UNCHANGED <<allowed, documents, files, denied, errors, ledger>>
    BY <1>3 DEF Plan
  <2>2. phase'[r] = "gathering" /\ \A q \in Runs \ {r} : phase'[q] = phase[q]
    BY <1>0, <2>1 DEF TypeOK
  <2>3. \A t \in Tasks : gatherer'[t] = gatherer[t]
                         \/ (gatherer[t] = "none" /\ gatherer'[t] = "queued")
    BY <2>1 DEF WorkInv, Unspawned, Tasks
  <2>4. \A q \in Runs \ {r}, d \in Departments :
           gatherer'[<<q, d>>] = gatherer[<<q, d>>]
    BY <1>0, <2>1
  <2>5. \A t \in Tasks : Reading(t)'
    BY <2>1, <2>3 DEF WorkInv, Reading
  <2>6. Unspawned' /\ CancelledAtRest' /\ LedgerCoversAnswer'
    BY <2>1, <2>2, <2>4 DEF WorkInv, Unspawned, CancelledAtRest, LedgerCoversAnswer,
                           Raised
  <2> QED
    BY <2>5, <2>6 DEF WorkInv
<1>4. CASE PlanFails(r)
  BY <1>0, <1>4, RunMovesWork DEF PlanFails
<1>5. CASE GathererFailureSeen(r)
  BY <1>0, <1>5, RunMovesWork DEF GathererFailureSeen
<1>6. CASE Cancel(r)
  <2>1. /\ phase[r] \in {"accepted", "planning", "gathering"}
        /\ phase' = [phase EXCEPT ![r] = "cancelled"]
        /\ gatherer' = [t \in Tasks |->
              IF /\ t[1] = r /\ ~Raised(r)
                 /\ gatherer[t] \in {"queued", "selecting", "assessing"}
              THEN "stopped" ELSE gatherer[t]]
        /\ UNCHANGED <<allowed, documents, files, denied, errors, ledger>>
    BY <1>6 DEF Cancel
  <2>2. phase'[r] = "cancelled" /\ \A q \in Runs \ {r} : phase'[q] = phase[q]
    BY <1>0, <2>1 DEF TypeOK
  <2>3. \A q \in Runs \ {r}, d \in Departments :
           gatherer'[<<q, d>>] = gatherer[<<q, d>>]
    BY <1>0, <2>1
  <2>4. \A t \in Tasks : gatherer'[t] \in {gatherer[t], "stopped"}
    BY <2>1
  <2>5. \A t \in Tasks : Reading(t)'
    <3> SUFFICES ASSUME NEW t \in Tasks PROVE Reading(t)'
      OBVIOUS
    <3>1. Reading(t)
      BY DEF WorkInv
    <3>2. gatherer'[t] = gatherer[t]
          \/ (gatherer[t] \in {"queued", "selecting", "assessing"} /\ gatherer'[t] = "stopped")
      BY <2>1
    <3> QED
      BY <2>1, <3>1, <3>2 DEF Reading
  <2>6. ASSUME NEW q \in Runs, NEW d \in Departments,
               phase'[q] = "cancelled", ~Raised(q)'
        PROVE  gatherer'[<<q, d>>] \in {"none", "done", "stopped"}
    <3>1. CASE q = r
      <4>1. ~Raised(r)
        <5> SUFFICES ASSUME NEW c \in Departments, gatherer[<<r, c>>] = "raised"
                     PROVE  FALSE
          BY DEF Raised
        <5>1. gatherer'[<<r, c>>] = "raised"
          BY <1>0, <2>1
        <5> QED
          BY <2>6, <3>1, <5>1 DEF Raised
      <4>2. gatherer[<<r, d>>] \in GathererStates \ {"raised"}
        BY <1>0, <4>1 DEF TypeOK, Raised
      <4> QED
        BY <1>0, <2>1, <3>1, <4>1, <4>2 DEF GathererStates
    <3>2. CASE q # r
      <4>1. phase[q] = "cancelled" /\ gatherer'[<<q, d>>] = gatherer[<<q, d>>]
        BY <2>2, <2>3, <2>6, <3>2
      <4>2. ~Raised(q)
        BY <2>3, <2>6, <3>2 DEF Raised
      <4> QED
        BY <4>1, <4>2 DEF WorkInv, CancelledAtRest
    <3> QED
      BY <3>1, <3>2
  <2>7. CancelledAtRest'
    BY <2>6 DEF CancelledAtRest
  <2>8. Unspawned' /\ LedgerCoversAnswer'
    BY <2>1, <2>2, <2>3 DEF WorkInv, Unspawned, LedgerCoversAnswer
  <2> QED
    BY <2>5, <2>7, <2>8 DEF WorkInv
<1>7. CASE Deliver(r)
  <2>1. /\ phase[r] = "gathering" /\ phase' = [phase EXCEPT ![r] = "delivered"]
        /\ \A d \in Planned(r) : gatherer[<<r, d>>] = "done"
        /\ files' = [t \in Tasks |-> IF t[1] = r THEN Survivors(r, t[2]) ELSE files[t]]
        /\ denied' = [t \in Tasks |->
                        IF t[1] = r THEN denied[t] \cup Stripped(r, t[2]) ELSE denied[t]]
        /\ ledger' = ledger \cup GateDecisions(r)
        /\ UNCHANGED <<gatherer, allowed, documents, errors>>
    BY <1>7 DEF Deliver
  <2>2. phase'[r] = "delivered" /\ \A q \in Runs \ {r} : phase'[q] = phase[q]
    BY <1>0, <2>1 DEF TypeOK
  <2>3. \A d \in Departments : Survivors(r, d) \subseteq files[<<r, d>>]
    BY <1>0, SurvivorsType
  <2>4. ASSUME NEW t \in Tasks PROVE Reading(t)'
    <3>1. Reading(t)
      BY DEF WorkInv
    <3>2. CASE t[1] # r
      BY <2>1, <3>1, <3>2 DEF Reading
    <3>3. CASE t[1] = r
      <4>1. PICK d \in Departments : t = <<r, d>>
        BY <3>3 DEF Tasks
      <4>2. files'[t] = Survivors(r, d) /\ denied'[t] = denied[t] \cup Stripped(r, d)
        BY <2>1, <4>1
      <4>3. PathsOf(files[t]) \subseteq PathsOf(files'[t]) \cup denied'[t]
        BY <4>1, <4>2 DEF Stripped
      <4>4. files[t] = {} => files'[t] = {}
        BY <2>3, <4>1, <4>2
      <4>5. /\ gatherer'[t] = gatherer[t] /\ documents'[t] = documents[t]
            /\ allowed'[t] = allowed[t] /\ errors'[t] = errors[t]
            /\ denied[t] \subseteq denied'[t]
        BY <2>1, <4>2
      <4> HIDE <2>1
      <4> QED
        BY <3>1, <4>3, <4>4, <4>5 DEF Reading
    <3> QED
      BY <3>2, <3>3
  <2>5. ASSUME NEW q \in Runs, NEW d \in Departments, phase'[q] = "delivered",
               NEW f \in files'[<<q, d>>]
        PROVE  \E e \in ledger' :
                  /\ e.run = q /\ e.department = d /\ e.path = f.path
                  /\ e.stage = "spawn-gate" /\ e.decision = "allow"
    <3>1. CASE q # r
      BY <1>0, <2>1, <2>2, <2>5, <3>1 DEF WorkInv, LedgerCoversAnswer
    <3>2. CASE q = r
      <4>1. f \in Survivors(r, d) /\ f \in files[<<r, d>>]
        BY <1>0, <2>1, <2>3, <2>5, <3>2
      <4>2. d \in Planned(r)
        BY <1>0, <4>1 DEF WorkInv, Reading, Planned
      <4>3. f.path \in PathsOf(Survivors(r, d))
        BY <4>1 DEF PathsOf
      <4> DEFINE e == [run |-> r, role |-> role[r], department |-> d, path |-> f.path,
                       decision |-> "allow", stage |-> "spawn-gate"]
      <4>4. e \in Entries(r, d, PathsOf(Survivors(r, d)), "allow", "spawn-gate")
        BY <4>3 DEF Entries, LedgerContext
      <4>5. e \in ledger'
        BY <2>1, <4>2, <4>4 DEF GateDecisions
      <4> QED
        BY <3>2, <4>5
    <3> QED
      BY <3>1, <3>2
  <2>6. LedgerCoversAnswer'
    BY <2>5 DEF LedgerCoversAnswer
  <2>7. Unspawned' /\ CancelledAtRest'
    BY <2>1, <2>2 DEF WorkInv, Unspawned, CancelledAtRest, Raised
  <2> QED
    BY <2>4, <2>6, <2>7 DEF WorkInv
<1> QED
  BY <1>1, <1>2, <1>3, <1>4, <1>5, <1>6, <1>7 DEF RunStep

(* So do the steps of a gatherer.                                          *)
LEMMA GathererWork ==
    ASSUME IInv, WorkInv, NEW r \in Runs, NEW d \in Departments, Work(r, d)
    PROVE  WorkInv'
<1> DEFINE t == <<r, d>>
<1>1. /\ phase' = phase /\ ledger \subseteq ledger' /\ OnlyTask(t) /\ t \in Tasks
      /\ gatherer[t] \in {"queued", "selecting", "assessing"}
      /\ \A q \in Runs, c \in Departments : <<q, c>> \in Tasks
  BY DEF Work, runVars, Tasks
<1>2. \A u \in Tasks \ {t} : Reading(u)'
  BY <1>1 DEF OnlyTask, WorkInv, Reading
<1>3. Reading(t)'
  <2>1. Reading(t)
    BY <1>1 DEF WorkInv
  <2>2. CASE Continues(r, d)
    BY <2>2 DEF Continues, Reading
  <2>3. CASE Reads(r, d)
    BY <2>3 DEF Reads, Reading
  <2>4. CASE ReturnsUnassessed(r, d)
    BY <2>4 DEF ReturnsUnassessed, Reading
  <2>5. CASE ReturnsAssessed(r, d)
    <3>1. PICK kept \in SUBSET documents[t] :
             kept # {} /\ files'[t] = Labelled(d, kept)
      BY <2>5 DEF ReturnsAssessed
    <3>2. kept \in SUBSET Paths
      BY <1>1 DEF IInv, TypeOK
    <3>3. PathsOf(files'[t]) = kept
      BY <3>1, <3>2, LabelledNone
    <3> QED
      BY <2>1, <2>5, <3>1, <3>3 DEF ReturnsAssessed, Reading
  <2>6. CASE ReturnsForeign(r, d)
    BY <2>6 DEF ReturnsForeign, Reading
  <2> QED
    BY <2>2, <2>3, <2>4, <2>5, <2>6 DEF Work, Outcome
<1>4. Unspawned'
  <2>1. phase[r] \notin {"new", "accepted", "planning"}
    BY <1>1 DEF WorkInv, Unspawned
  <2> QED
    BY <1>1, <2>1 DEF WorkInv, Unspawned, OnlyTask
<1>5. CancelledAtRest'
  <2> SUFFICES ASSUME NEW q \in Runs, NEW c \in Departments,
                      phase[q] = "cancelled", ~Raised(q)'
               PROVE  gatherer'[<<q, c>>] \in {"none", "done", "stopped"}
    BY <1>1 DEF CancelledAtRest
  <2>1. ~Raised(q)
    <3> SUFFICES ASSUME NEW b \in Departments, gatherer[<<q, b>>] = "raised"
                 PROVE  FALSE
      BY DEF Raised
    <3>1. <<q, b>> # t
      BY <1>1
    <3>2. gatherer'[<<q, b>>] = "raised"
      BY <1>1, <3>1 DEF OnlyTask
    <3> QED
      BY <3>2 DEF Raised
  <2>2. gatherer[<<q, c>>] \in {"none", "done", "stopped"}
    BY <2>1 DEF WorkInv, CancelledAtRest
  <2>3. <<q, c>> # t
    BY <1>1, <2>2
  <2> QED
    BY <1>1, <2>2, <2>3 DEF OnlyTask
<1>6. LedgerCoversAnswer'
  <2>1. phase[r] # "delivered"
    BY <1>1 DEF IInv, Safe, DeliveredAtRest
  <2>2. \A q \in Runs, c \in Departments :
           phase[q] = "delivered" => files'[<<q, c>>] = files[<<q, c>>]
    BY <1>1, <2>1 DEF OnlyTask
  <2> QED
    BY <1>1, <2>2 DEF WorkInv, LedgerCoversAnswer
<1> QED
  BY <1>2, <1>3, <1>4, <1>5, <1>6 DEF WorkInv

(* Every step keeps the books.                                             *)
LEMMA NextWork == IInv /\ WorkInv /\ [Next]_vars => WorkInv'
<1> SUFFICES ASSUME IInv, WorkInv, [Next]_vars PROVE WorkInv'
  OBVIOUS
<1>1. CASE UNCHANGED vars
  BY <1>1, StutterWork DEF vars
<1>2. CASE Environment
  BY <1>2, StutterWork DEF Environment, SavePermissions, SaveEnvironment, ChangeStore
<1> QED
  BY <1>1, <1>2, RunWork, GathererWorks, GathererWork DEF Next, Resting

(* The books are kept in every reachable state.                            *)
THEOREM BooksKept == Spec => []WorkInv
BY InitWork, NextWork, Invariance, PTL DEF Spec

(* The ledger explains every answer, for any number of runs and gatherers. *)
THEOREM AnswersAreExplained == Spec => []LedgerCoversAnswer
<1>1. WorkInv => LedgerCoversAnswer
  BY DEF WorkInv
<1> QED
  BY <1>1, BooksKept, PTL

(* What a gatherer chose it read, refused or reported, and it never keeps  *)
(* all that it read to itself: at any number of gatherers and runs.        *)
THEOREM NoGapIsSilent == Spec => []NoSilentGap
<1>1. WorkInv => NoSilentGap
  BY DEF WorkInv, Reading, NoSilentGap
<1> QED
  BY <1>1, BooksKept, PTL

-----------------------------------------------------------------------------
(* What only this repository's gatherers promise.                          *)

(* No result has been written at the start.                                *)
LEMMA InitHonest == Init => HonestInv
BY FS_EmptySet, Limits DEF Init, HonestInv, Honest, Tasks

(* A task that has read and returned nothing is within every bound.        *)
LEMMA NothingHonest ==
    ASSUME NEW r \in Runs, NEW d \in Departments,
           documents'[<<r, d>>] = {}, files'[<<r, d>>] = {}
    PROVE  Honest(r, d)'
BY FS_EmptySet, Limits DEF Honest, Ceiling

(* A step that leaves a task and what its run was granted alone.           *)
LEMMA StutterHonest ==
    ASSUME NEW r \in Runs, NEW d \in Departments, Honest(r, d),
           role' = role, perms'[r] = perms[r], env'[r] = env[r],
           documents'[<<r, d>>] = documents[<<r, d>>],
           files'[<<r, d>>] = files[<<r, d>>]
    PROVE  Honest(r, d)'
BY DEF Honest, Permitted, Ceiling

(* Taking a snapshot grants nothing to material already gathered: there is *)
(* none.  Delivering only takes files away.                                *)
LEMMA RunHonest ==
    ASSUME IInv, WorkInv, HonestInv, NEW r \in Runs, RunStep(r) PROVE HonestInv'
<1> USE DEF configVars, resultVars
<1>0. TypeOK /\ Safe /\ \A q \in Runs, d \in Departments : <<q, d>> \in Tasks
  BY DEF IInv, Tasks
<1> SUFFICES ASSUME NEW q \in Runs, NEW d \in Departments PROVE Honest(q, d)'
  BY DEF HonestInv
<1>1. Honest(q, d)
  BY DEF HonestInv
<1>2. ASSUME phase[r] \in {"new", "accepted"},
             \A p \in Runs \ {r} : perms'[p] = perms[p] /\ env'[p] = env[p],
             UNCHANGED <<role, documents, files>>
      PROVE  Honest(q, d)'
  <2>1. CASE q = r
    <3>1. gatherer[<<r, d>>] = "none"
      BY <1>2 DEF WorkInv, Unspawned
    <3>2. documents[<<r, d>>] = {} /\ files[<<r, d>>] = {}
      BY <1>0, <3>1 DEF WorkInv, Reading
    <3> QED
      BY <1>2, <2>1, <3>2, NothingHonest
  <2>2. CASE q # r
    BY <1>1, <1>2, <2>2, StutterHonest
  <2> QED
    BY <2>1, <2>2
<1>3. CASE Accept(r)
  BY <1>0, <1>2, <1>3 DEF Accept, TypeOK
<1>4. CASE LoadPermissions(r)
  BY <1>0, <1>2, <1>4 DEF LoadPermissions, TypeOK
<1>5. ASSUME UNCHANGED <<role, perms, env, documents, files>> PROVE Honest(q, d)'
  BY <1>1, <1>5, StutterHonest
<1>6. CASE Deliver(r)
  <2>1. /\ UNCHANGED <<role, perms, env, documents>>
        /\ files'[<<q, d>>] = IF q = r THEN Survivors(r, d) ELSE files[<<q, d>>]
    BY <1>0, <1>6 DEF Deliver
  <2>2. CASE q # r
    BY <1>1, <2>1, <2>2, StutterHonest
  <2>3. CASE q = r
    <3>1. files'[<<q, d>>] \subseteq files[<<q, d>>]
      BY <1>0, <2>1, <2>3, SurvivorsType
    <3>2. IsFiniteSet(files[<<q, d>>])
      <4>1. files[<<q, d>>] \subseteq Labelled(d, Paths)
        BY <1>0, <1>1 DEF Honest, Labelled, TypeOK, Files
      <4>2. IsFiniteSet(Paths) /\ Cardinality(Paths) \in Nat
        BY GatheringAssumption, FS_CardinalityType
      <4>3. IsFiniteSet(Labelled(d, Paths))
        BY <4>2, LabelledBounded
      <4> QED
        BY <4>1, <4>3, FS_Subset
    <3>3. /\ Cardinality(files'[<<q, d>>]) <= Cardinality(files[<<q, d>>])
          /\ Cardinality(files'[<<q, d>>]) \in Nat /\ Cardinality(files[<<q, d>>]) \in Nat
      BY <3>1, <3>2, FS_Subset, FS_CardinalityType
    <3>4. Cardinality(files'[<<q, d>>]) <= Ceiling
      BY <1>1, <3>3, Limits DEF Honest
    <3> QED
      BY <1>1, <2>1, <3>1, <3>4 DEF Honest, Permitted, Ceiling
  <2> QED
    BY <2>2, <2>3
<1> QED
  BY <1>3, <1>4, <1>5, <1>6 DEF RunStep, Plan, PlanFails, GathererFailureSeen, Cancel

(* A gatherer of this repository returns permitted files, and no more than *)
(* the ceiling allows.                                                     *)
LEMMA GathererHonest ==
    ASSUME ForeignFiles = {}, IInv, WorkInv, HonestInv,
           NEW r \in Runs, NEW d \in Departments, Work(r, d)
    PROVE  HonestInv'
<1> SUFFICES ASSUME NEW q \in Runs, NEW c \in Departments PROVE Honest(q, c)'
  BY DEF HonestInv
<1> DEFINE t == <<r, d>>
<1>1. /\ UNCHANGED <<role, perms, env>> /\ OnlyTask(t) /\ t \in Tasks
      /\ <<q, c>> \in Tasks /\ Honest(q, c) /\ Honest(r, d) /\ Reading(t)
      /\ documents[t] \in SUBSET Paths
      /\ \A p : Permitted(r, d, p)' <=> Permitted(r, d, p)
      /\ Cardinality({}) <= Ceiling
  BY FS_EmptySet, Limits
     DEF Work, runVars, Tasks, HonestInv, WorkInv, IInv, TypeOK, Permitted
<1>2. CASE <<q, c>> # t
  BY <1>1, <1>2, StutterHonest DEF OnlyTask
<1>3. CASE <<q, c>> = t
  <2>0. q = r /\ c = d
    BY <1>3
  <2>1. CASE Continues(r, d)
    BY <2>0, <2>1, NothingHonest DEF Continues
  <2>2. CASE Reads(r, d)
    BY <1>1, <2>0, <2>2 DEF Reads, Honest, Ceiling
  <2>3. ASSUME NEW found \in SUBSET Paths, files'[t] = Labelled(d, found),
               \A p \in found : Permitted(r, d, p), Cardinality(found) <= Ceiling,
               documents'[t] \in {{}, documents[t]}
        PROVE  Honest(r, d)'
    <3>1. Cardinality(files'[t]) <= Ceiling
      BY <2>3, Limits, LabelledBounded
    <3>2. \A f \in files'[t] : f.department = d /\ Permitted(r, d, f.path)
      BY <2>3, LabelledNone
    <3> QED
      BY <1>1, <2>3, <3>1, <3>2 DEF Honest, Ceiling
  <2>4. CASE ReturnsUnassessed(r, d)
    BY <2>0, <2>3, <2>4 DEF ReturnsUnassessed
  <2>5. CASE ReturnsAssessed(r, d)
    <3>1. PICK kept \in SUBSET documents[t] : files'[t] = Labelled(d, kept)
      BY <2>5 DEF ReturnsAssessed
    <3>2. kept \in SUBSET Paths /\ \A p \in kept : Permitted(r, d, p)
      BY <1>1 DEF Honest
    <3>3. Cardinality(kept) <= Ceiling
      BY <1>1, Limits, PartBounded DEF Honest
    <3>4. documents'[t] = documents[t]
      BY <2>5 DEF ReturnsAssessed
    <3> QED
      BY <2>0, <2>3, <3>1, <3>2, <3>3, <3>4
  <2> QED
    BY <2>1, <2>2, <2>4, <2>5 DEF Work, Outcome, ReturnsForeign
<1> QED
  BY <1>2, <1>3

(* Every step keeps it, where the gatherers are this repository's.         *)
LEMMA NextHonest ==
    ASSUME ForeignFiles = {}
    PROVE  IInv /\ WorkInv /\ HonestInv /\ [Next]_vars => HonestInv'
<1> SUFFICES ASSUME IInv, WorkInv, HonestInv, [Next]_vars PROVE HonestInv'
  OBVIOUS
<1>1. CASE UNCHANGED <<role, perms, env, documents, files>>
  BY <1>1, StutterHonest DEF HonestInv
<1>2. CASE Environment
  BY <1>1, <1>2 DEF Environment, SavePermissions, SaveEnvironment, ChangeStore
<1> QED
  BY <1>1, <1>2, RunHonest, GathererWorks, GathererHonest DEF Next, Resting, vars

(* The gatherers of this repository stay inside the gate and the ceiling.  *)
THEOREM GatherersAreHonest ==
    ASSUME ForeignFiles = {} PROVE Spec => []HonestInv
BY InitHonest, NextHonest, Invariance, BooksKept, PTL DEF Spec

(* max_files_per_gatherer is a hard ceiling, whatever the model asks for.  *)
THEOREM CeilingHolds == ASSUME ForeignFiles = {} PROVE Spec => []HardCeiling
<1>1. TypeOK /\ HonestInv => HardCeiling
  BY DEF HonestInv, Honest, HardCeiling, Tasks, Ceiling
<1> QED
  BY <1>1, GatherersAreHonest, TypeCorrect, PTL

-----------------------------------------------------------------------------
(* Action properties.                                                      *)

(* Only its own delivery delivers a run.                                   *)
LEMMA DeliveredByDeliver ==
    ASSUME TypeOK, [Next]_vars, NEW r \in Runs,
           phase[r] = "gathering", phase'[r] = "delivered"
    PROVE  Deliver(r)
<1>1. phase' # phase
  OBVIOUS
<1>2. PICK q \in Runs : RunStep(q)
  <2>1. ~Environment /\ ~Resting /\ ~UNCHANGED vars
    BY <1>1 DEF Environment, SavePermissions, SaveEnvironment, ChangeStore, Resting,
                vars
  <2>2. ASSUME NEW q \in Runs, NEW d \in Departments, GathererStep(q, d)
        PROVE  UNCHANGED <<phase, role, env, perms>>
    BY <2>2 DEF GathererStep, StartLocal, GlobRaises, Selected, SelectionFails,
         StartCloud, CloudListFails, ForeignGatherer, Assessed, AssessmentFails, runVars
  <2> QED
    BY <1>1, <2>1, <2>2 DEF Next
<1>3. \E next \in Phases : phase' = [phase EXCEPT ![q] = next]
                           /\ (next = "delivered" => Deliver(q))
  BY <1>2 DEF RunStep, Accept, LoadPermissions, Plan, PlanFails, GathererFailureSeen,
              Cancel, Deliver, Phases
<1> QED
  BY <1>3 DEF TypeOK

(* Local files of an answer were in their department when it was delivered. *)
THEOREM DeliveriesComeFromStore == Spec => DeliveredFromStore
<1>1. TypeOK /\ [Next]_vars =>
         [\A r \in Runs, d \in LocalDepartments :
             phase[r] = "gathering" /\ phase'[r] = "delivered" =>
                 PathsOf(files'[<<r, d>>]) \subseteq store[d]]_vars
  <2> SUFFICES ASSUME TypeOK, [Next]_vars, NEW r \in Runs, NEW d \in LocalDepartments,
                      phase[r] = "gathering", phase'[r] = "delivered",
                      NEW f \in files'[<<r, d>>]
               PROVE  f.path \in store[d]
    BY DEF PathsOf
  <2>1. Deliver(r) /\ d \in Departments /\ d \notin CloudDepartments
    BY DeliveredByDeliver DEF LocalDepartments
  <2>2. f \in Survivors(r, d)
    BY <2>1 DEF Deliver, Tasks
  <2> QED
    BY <2>1, <2>2 DEF Survivors, Enforce, IsDepartmentFile
<1> QED
  BY <1>1, TypeCorrect, PTL DEF Spec, DeliveredFromStore

(* Between this repository's gatherers and the spawn gate no edit of any   *)
(* config comes: it strips nothing but local documents that vanished.      *)
THEOREM GatesDoAgree == ASSUME ForeignFiles = {} PROVE Spec => GatesAgree
<1>1. IInv /\ HonestInv /\ [Next]_vars =>
         [\A r \in Runs, d \in Departments :
             phase[r] = "gathering" /\ phase'[r] = "delivered" =>
                 \A f \in files[<<r, d>>] \ files'[<<r, d>>] :
                     d \in LocalDepartments /\ f.path \notin store[d]]_vars
  <2> SUFFICES ASSUME IInv, HonestInv, [Next]_vars, NEW r \in Runs,
                      NEW d \in Departments,
                      phase[r] = "gathering", phase'[r] = "delivered",
                      NEW f \in files[<<r, d>>], f \notin files'[<<r, d>>]
               PROVE  d \in LocalDepartments /\ f.path \notin store[d]
    OBVIOUS
  <2>1. Deliver(r) /\ TypeOK
    BY DeliveredByDeliver DEF IInv
  <2>2. f \notin Survivors(r, d)
    BY <2>1 DEF Deliver, Tasks
  <2>3. f.department = d /\ Permitted(r, d, f.path) /\ f.path \in Paths
    BY <2>1 DEF HonestInv, Honest, TypeOK, Tasks, Files
  <2>4. Allowed(f.path, role[r], d, perms[r], env[r])
    BY <2>3, GateIsPermitted
  <2> QED
    BY <2>2, <2>3, <2>4 DEF Survivors, Enforce, IsDepartmentFile, LocalDepartments
<1> QED
  BY <1>1, GatherersAreHonest, Invariance, PTL DEF Spec, GatesAgree

(* A cancelled run opens nothing and asks no model again, unless a failed  *)
(* sibling had already resolved it.                                        *)
THEOREM CancelledRunsStop == Spec => CancelStopsGatherers
<1>1. IInv /\ WorkInv /\ [Next]_vars =>
         [\A r \in Runs :
             phase[r] = "cancelled" /\ ~Raised(r) =>
                 \A x \in (prompts' \ prompts) \cup (opened' \ opened) : x.run # r]_vars
  <2> SUFFICES ASSUME IInv, WorkInv, [Next]_vars, NEW r \in Runs,
                      phase[r] = "cancelled", ~Raised(r),
                      NEW x \in (prompts' \ prompts) \cup (opened' \ opened)
               PROVE  x.run # r
    OBVIOUS
  <2>1. CASE UNCHANGED <<prompts, opened>>
    BY <2>1
  <2>2. \A q \in Runs : RunStep(q) => UNCHANGED <<prompts, opened>>
    BY DEF RunStep, Accept, LoadPermissions, Plan, PlanFails, GathererFailureSeen,
           Cancel, Deliver
  <2>3. Environment \/ Resting \/ UNCHANGED vars => UNCHANGED <<prompts, opened>>
    BY DEF Environment, SavePermissions, SaveEnvironment, ChangeStore, Resting, vars
  <2>4. ASSUME NEW q \in Runs, NEW d \in Departments, GathererStep(q, d)
        PROVE  x.run # r
    <3>1. /\ gatherer[<<q, d>>] \in {"queued", "selecting", "assessing"}
          /\ x.run = q
      BY <2>4, GathererWorks DEF Work
    <3>2. q # r
      BY <3>1 DEF WorkInv, CancelledAtRest
    <3> QED
      BY <3>1, <3>2
  <2> QED
    BY <2>1, <2>2, <2>3, <2>4 DEF Next
<1> QED
  BY <1>1, BooksKept, Invariance, PTL DEF Spec, CancelStopsGatherers

-----------------------------------------------------------------------------
(* Progress: what of the liveness of a run is a matter of safety.          *)

(* How much is left of a run, and of a gatherer.                           *)
AheadOfRun == [new |-> 4, accepted |-> 3, planning |-> 2, gathering |-> 1,
               delivered |-> 0, failed |-> 0, cancelled |-> 0]
AheadOfTask == [none |-> 4, queued |-> 3, selecting |-> 2, assessing |-> 1,
                done |-> 0, raised |-> 0, stopped |-> 0]

(* No run and no gatherer ever goes back or starts again, and a step that  *)
(* moves none of them changes nothing but the world around them.           *)
Onward ==
    /\ \A r \in Runs :
          phase'[r] = phase[r] \/ AheadOfRun[phase'[r]] < AheadOfRun[phase[r]]
    /\ \A t \in Tasks :
          gatherer'[t] = gatherer[t]
            \/ AheadOfTask[gatherer'[t]] < AheadOfTask[gatherer[t]]
    /\ phase' = phase /\ gatherer' = gatherer =>
          UNCHANGED <<role, env, perms, allowed, documents, files, denied, errors,
                      prompts, opened, ledger>>

(* The plan's bound is the semaphore's: no gatherer ever waits for a slot. *)
SlotsSuffice ==
    \A r \in Runs, d \in Departments : gatherer[<<r, d>>] = "queued" => HasSlot(r)

(* A run that waits for its gatherers waits for one that can go on, unless *)
(* it can go on itself, to its answer or to its failure.                   *)
NeverStuck ==
    \A r \in Runs : phase[r] = "gathering" =>
        \/ Raised(r)
        \/ \A d \in Planned(r) : gatherer[<<r, d>>] = "done"
        \/ \E d \in Departments :
              \/ gatherer[<<r, d>>] \in {"selecting", "assessing"}
              \/ gatherer[<<r, d>>] = "queued" /\ HasSlot(r)

(* A run spawns no more gatherers than max_gatherers, and stops none while *)
(* it still waits for them.                                                *)
SpawnedInv ==
    /\ \A r \in Runs : Cardinality(Planned(r)) <= MaxGatherers
    /\ \A r \in Runs, d \in Departments :
          phase[r] = "gathering" => gatherer[<<r, d>>] # "stopped"

(* A run's step takes it on, and its gatherers with it.                    *)
LEMMA RunOnward ==
    ASSUME IInv, WorkInv, NEW r \in Runs, RunStep(r)
    PROVE  Onward
<1> USE DEF configVars, resultVars
<1>1. /\ phase \in [Runs -> Phases] /\ gatherer \in [Tasks -> GathererStates]
      /\ \A d \in Departments : <<r, d>> \in Tasks
  BY DEF IInv, TypeOK, Tasks
<1>2. ASSUME NEW next \in Phases, phase' = [phase EXCEPT ![r] = next],
             AheadOfRun[next] < AheadOfRun[phase[r]],
             \A t \in Tasks :
                gatherer'[t] = gatherer[t]
                  \/ AheadOfTask[gatherer'[t]] < AheadOfTask[gatherer[t]]
      PROVE  Onward
  <2>1. phase'[r] = next /\ \A q \in Runs \ {r} : phase'[q] = phase[q]
    BY <1>1, <1>2
  <2>2. phase' # phase
    BY <1>2, <2>1, <1>1 DEF Phases, AheadOfRun
  <2> QED
    BY <1>2, <2>1, <2>2 DEF Onward
<1> DEFINE Follows(next) ==
             \/ phase[r] = "new" /\ next = "accepted"
             \/ phase[r] = "accepted" /\ next \in {"planning", "failed", "cancelled"}
             \/ phase[r] = "planning" /\ next \in {"failed", "cancelled"}
             \/ phase[r] = "gathering" /\ next \in {"delivered", "failed", "cancelled"}
<1>3. \A next \in Phases : Follows(next) => AheadOfRun[next] < AheadOfRun[phase[r]]
  BY DEF AheadOfRun
<1>4. ASSUME UNCHANGED gatherer, ~\E chosen \in SUBSET Departments : Plan(r, chosen)
      PROVE  Onward
  <2>1. PICK next \in Phases : phase' = [phase EXCEPT ![r] = next] /\ Follows(next)
    BY <1>4 DEF RunStep, Accept, LoadPermissions, PlanFails, GathererFailureSeen, Cancel,
                Deliver, Phases
  <2>2. phase' = [phase EXCEPT ![r] = next]
    BY <2>1
  <2>3. AheadOfRun[next] < AheadOfRun[phase[r]]
    BY <1>3, <2>1
  <2>4. \A t \in Tasks :
           gatherer'[t] = gatherer[t]
             \/ AheadOfTask[gatherer'[t]] < AheadOfTask[gatherer[t]]
    BY <1>4
  <2> QED
    BY <1>2, <2>2, <2>3, <2>4
<1>5. ASSUME NEW chosen \in SUBSET Departments, Plan(r, chosen) PROVE Onward
  <2>1. /\ phase[r] = "planning" /\ phase' = [phase EXCEPT ![r] = "gathering"]
        /\ gatherer' = [t \in Tasks |->
              IF t[1] = r /\ t[2] \in chosen THEN "queued" ELSE gatherer[t]]
    BY <1>5 DEF Plan
  <2>2. \A t \in Tasks : gatherer'[t] = gatherer[t]
                         \/ (gatherer[t] = "none" /\ gatherer'[t] = "queued")
    BY <2>1 DEF WorkInv, Unspawned, Tasks
  <2>3. "gathering" \in Phases /\ AheadOfRun["gathering"] < AheadOfRun[phase[r]]
    BY <2>1 DEF Phases, AheadOfRun
  <2>4. AheadOfTask["queued"] < AheadOfTask["none"]
    BY DEF AheadOfTask
  <2>5. \A t \in Tasks :
           gatherer'[t] = gatherer[t]
             \/ AheadOfTask[gatherer'[t]] < AheadOfTask[gatherer[t]]
    BY <2>2, <2>4
  <2> QED
    BY <1>2, <2>1, <2>3, <2>5
<1>6. CASE Cancel(r)
  <2>1. /\ phase[r] \in {"accepted", "planning", "gathering"}
        /\ phase' = [phase EXCEPT ![r] = "cancelled"]
        /\ \A t \in Tasks : gatherer'[t] = gatherer[t]
              \/ /\ gatherer[t] \in {"queued", "selecting", "assessing"}
                 /\ gatherer'[t] = "stopped"
    BY <1>6 DEF Cancel
  <2>2. "cancelled" \in Phases /\ AheadOfRun["cancelled"] < AheadOfRun[phase[r]]
    BY <2>1 DEF Phases, AheadOfRun
  <2>3. \A s \in {"queued", "selecting", "assessing"} :
           AheadOfTask["stopped"] < AheadOfTask[s]
    BY DEF AheadOfTask
  <2>4. \A t \in Tasks :
           gatherer'[t] = gatherer[t]
             \/ AheadOfTask[gatherer'[t]] < AheadOfTask[gatherer[t]]
    BY <2>1, <2>3
  <2> QED
    BY <1>2, <2>1, <2>2, <2>4
<1> QED
  BY <1>4, <1>5, <1>6 DEF RunStep, Accept, LoadPermissions, PlanFails,
                          GathererFailureSeen, Deliver

(* A gatherer's step takes that gatherer on and touches no other.          *)
LEMMA GathererOnward ==
    ASSUME IInv, WorkInv, NEW r \in Runs, NEW d \in Departments, GathererStep(r, d)
    PROVE  Onward
<1> DEFINE t == <<r, d>>
<1>1. Work(r, d) /\ t \in Tasks
  BY GathererWorks DEF Tasks
<1>2. AheadOfTask[gatherer'[t]] < AheadOfTask[gatherer[t]]
  <2>1. \/ gatherer[t] = "queued" /\ gatherer'[t] \in {"selecting", "assessing", "done",
                                                       "raised"}
        \/ gatherer[t] = "selecting" /\ gatherer'[t] \in {"assessing", "done", "raised"}
        \/ gatherer[t] = "assessing" /\ gatherer'[t] = "done"
    <3>1. gatherer \in [Tasks -> GathererStates]
      BY DEF IInv, TypeOK
    <3>2. CASE StartLocal(r, d)
      BY <1>1, <3>1, <3>2 DEF StartLocal, ReadAndAssess
    <3>3. CASE GlobRaises(r, d)
      BY <1>1, <3>1, <3>3 DEF GlobRaises
    <3>4. CASE \E picks \in SUBSET Paths : Selected(r, d, picks)
      BY <1>1, <3>1, <3>4 DEF Selected, ReadAndAssess
    <3>5. CASE SelectionFails(r, d)
      BY <1>1, <3>1, <3>5 DEF SelectionFails
    <3>6. CASE StartCloud(r, d)
      BY <1>1, <3>1, <3>6 DEF StartCloud
    <3>7. CASE CloudListFails(r, d) \/ AssessmentFails(r, d)
      BY <1>1, <3>1, <3>7 DEF CloudListFails, AssessmentFails
    <3>8. CASE \E returned \in SUBSET ForeignFiles : ForeignGatherer(r, d, returned)
      BY <1>1, <3>1, <3>8 DEF ForeignGatherer
    <3>9. CASE \E relevant \in SUBSET Paths : Assessed(r, d, relevant)
      BY <1>1, <3>1, <3>9 DEF Assessed
    <3> QED
      BY <3>2, <3>3, <3>4, <3>5, <3>6, <3>7, <3>8, <3>9 DEF GathererStep
  <2> QED
    BY <2>1 DEF AheadOfTask
<1>3. gatherer' # gatherer
  <2>1. gatherer[t] \in GathererStates
    BY <1>1 DEF IInv, TypeOK
  <2> QED
    BY <1>2, <2>1 DEF AheadOfTask, GathererStates
<1>4. phase' = phase /\ \A u \in Tasks \ {t} : gatherer'[u] = gatherer[u]
  BY <1>1 DEF Work, OnlyTask, runVars
<1> QED
  BY <1>2, <1>3, <1>4 DEF Onward

(* So every step goes on.                                                  *)
LEMMA NextOnward == IInv /\ WorkInv /\ [Next]_vars => [Onward]_vars
<1> SUFFICES ASSUME IInv, WorkInv, [Next]_vars PROVE [Onward]_vars
  OBVIOUS
<1>1. CASE UNCHANGED vars
  BY <1>1
<1>2. CASE Environment
  BY <1>2 DEF Environment, SavePermissions, SaveEnvironment, ChangeStore, Onward
<1> QED
  BY <1>1, <1>2, RunOnward, GathererOnward DEF Next, Resting

(* Nothing is spawned at the start.                                        *)
LEMMA InitSpawned == Init => SpawnedInv
<1> SUFFICES ASSUME Init PROVE SpawnedInv
  OBVIOUS
<1>1. \A r \in Runs : Planned(r) = {}
  BY DEF Init, Planned, Tasks
<1>2. \A r \in Runs : Cardinality(Planned(r)) <= MaxGatherers
  BY <1>1, FS_EmptySet, GatheringAssumption
<1>3. \A r \in Runs : phase[r] # "gathering"
  BY DEF Init
<1> QED
  BY <1>2, <1>3 DEF SpawnedInv

(* Every step keeps it: only a plan spawns, and only within the bound.     *)
LEMMA NextSpawned == IInv /\ WorkInv /\ SpawnedInv /\ [Next]_vars => SpawnedInv'
<1> SUFFICES ASSUME IInv, WorkInv, SpawnedInv, [Next]_vars PROVE SpawnedInv'
  OBVIOUS
<1> USE DEF configVars, resultVars
<1>1. /\ phase \in [Runs -> Phases] /\ gatherer \in [Tasks -> GathererStates]
      /\ \A r \in Runs, d \in Departments : <<r, d>> \in Tasks
  BY DEF IInv, TypeOK, Tasks
<1>2. ASSUME \A t \in Tasks : gatherer[t] = "none" <=> gatherer'[t] = "none",
             \A r \in Runs, d \in Departments :
                phase'[r] = "gathering" =>
                    phase[r] = "gathering"
                      /\ (gatherer'[<<r, d>>] = "stopped" =>
                            gatherer[<<r, d>>] = "stopped")
      PROVE  SpawnedInv'
  <2>1. \A r \in Runs : Planned(r)' = Planned(r)
    BY <1>1, <1>2 DEF Planned
  <2> QED
    BY <1>2, <2>1 DEF SpawnedInv
<1>3. CASE UNCHANGED <<phase, gatherer>>
  BY <1>2, <1>3
<1>4. ASSUME NEW r \in Runs, NEW chosen \in SUBSET Departments, Plan(r, chosen)
      PROVE  SpawnedInv'
  <2>1. /\ phase[r] = "planning" /\ phase' = [phase EXCEPT ![r] = "gathering"]
        /\ Cardinality(chosen) <= MaxGatherers
        /\ gatherer' = [t \in Tasks |->
              IF t[1] = r /\ t[2] \in chosen THEN "queued" ELSE gatherer[t]]
    BY <1>4 DEF Plan
  <2>2. \A d \in Departments :
           gatherer'[<<r, d>>] = IF d \in chosen THEN "queued" ELSE "none"
    BY <1>1, <2>1 DEF WorkInv, Unspawned
  <2>3. Planned(r)' = chosen
    BY <2>2 DEF Planned
  <2>4. \A q \in Runs \ {r}, d \in Departments :
           phase'[q] = phase[q] /\ gatherer'[<<q, d>>] = gatherer[<<q, d>>]
    BY <1>1, <2>1
  <2>5. \A q \in Runs \ {r} : Planned(q)' = Planned(q)
    BY <2>4 DEF Planned
  <2> QED
    BY <2>1, <2>2, <2>3, <2>4, <2>5 DEF SpawnedInv
<1>5. ASSUME NEW r \in Runs, Cancel(r) PROVE SpawnedInv'
  <2>1. /\ phase' = [phase EXCEPT ![r] = "cancelled"]
        /\ gatherer' = [t \in Tasks |->
              IF /\ t[1] = r /\ ~Raised(r)
                 /\ gatherer[t] \in {"queued", "selecting", "assessing"}
              THEN "stopped" ELSE gatherer[t]]
    BY <1>5 DEF Cancel
  <2>2. phase'[r] = "cancelled"
        /\ \A q \in Runs \ {r}, d \in Departments :
              phase'[q] = phase[q] /\ gatherer'[<<q, d>>] = gatherer[<<q, d>>]
    BY <1>1, <2>1
  <2>3. \A t \in Tasks : gatherer[t] = "none" <=> gatherer'[t] = "none"
    BY <2>1
  <2> QED
    BY <1>2, <2>2, <2>3
<1>6. ASSUME NEW r \in Runs, RunStep(r), UNCHANGED gatherer,
             ~\E chosen \in SUBSET Departments : Plan(r, chosen)
      PROVE  SpawnedInv'
  <2>1. \E next \in Phases \ {"gathering"} : phase' = [phase EXCEPT ![r] = next]
    BY <1>6, <1>5 DEF RunStep, Accept, LoadPermissions, PlanFails, GathererFailureSeen,
           Cancel, Deliver, Phases
  <2>2. \A q \in Runs : phase'[q] = "gathering" => phase[q] = "gathering"
    BY <1>1, <2>1
  <2> QED
    BY <1>2, <1>6, <2>2
<1>7. ASSUME NEW r \in Runs, RunStep(r) PROVE SpawnedInv'
  <2>1. \/ \E chosen \in SUBSET Departments : Plan(r, chosen)
        \/ Cancel(r)
        \/ UNCHANGED gatherer
    BY <1>7 DEF RunStep, Accept, LoadPermissions, PlanFails, GathererFailureSeen, Deliver
  <2> QED
    BY <1>4, <1>5, <1>6, <1>7, <2>1
<1>8. ASSUME NEW r \in Runs, NEW d \in Departments, GathererStep(r, d)
      PROVE  SpawnedInv'
  <2>1. Work(r, d)
    BY <1>8, GathererWorks
  <2>2. /\ phase' = phase /\ gatherer[<<r, d>>] # "none"
        /\ \A u \in Tasks \ {<<r, d>>} : gatherer'[u] = gatherer[u]
        /\ gatherer'[<<r, d>>] \notin {"none", "stopped"}
    BY <2>1 DEF Work, OnlyTask, runVars, Outcome, Continues, Reads, ReturnsUnassessed,
                ReturnsAssessed, ReturnsForeign
  <2>3. \A t \in Tasks : gatherer[t] = "none" <=> gatherer'[t] = "none"
    BY <2>2
  <2>4. \A t \in Tasks : gatherer'[t] = "stopped" => gatherer[t] = "stopped"
    BY <2>2
  <2> QED
    BY <1>1, <1>2, <2>2, <2>3, <2>4
<1> QED
  BY <1>3, <1>7, <1>8 DEF Next, Environment, SavePermissions, SaveEnvironment,
                          ChangeStore, Resting, vars

(* A queued gatherer has a slot: the others in flight are planned too, and *)
(* there is one fewer of them than the plan may hold.                      *)
LEMMA SlotLeft ==
    ASSUME IsFiniteSet(Departments) PROVE SpawnedInv => SlotsSuffice
<1> SUFFICES ASSUME SpawnedInv, NEW r \in Runs, NEW d \in Departments,
                    gatherer[<<r, d>>] = "queued"
             PROVE  HasSlot(r)
  BY DEF SlotsSuffice
<1> DEFINE flying == {e \in Departments : gatherer[<<r, e>>] \in InFlightStates}
<1>1. IsFiniteSet(Planned(r)) /\ d \in Planned(r)
  <2>1. Planned(r) \subseteq Departments /\ d \in Planned(r)
    BY DEF Planned
  <2> QED
    BY <2>1, FS_Subset
<1>2. /\ IsFiniteSet(Planned(r) \ {d})
      /\ Cardinality(Planned(r) \ {d}) = Cardinality(Planned(r)) - 1
  BY <1>1, FS_RemoveElement
<1>3. flying \subseteq Planned(r) \ {d}
  BY DEF InFlightStates, Planned
<1>4. Cardinality(flying) <= Cardinality(Planned(r) \ {d})
  BY <1>2, <1>3, FS_Subset
<1>5. /\ Cardinality(Planned(r)) \in Nat /\ Cardinality(flying) \in Nat
      /\ Cardinality(Planned(r)) <= MaxGatherers /\ MaxGatherers \in Nat
  BY <1>1, <1>2, <1>3, FS_Subset, FS_CardinalityType, GatheringAssumption DEF SpawnedInv
<1> QED
  BY <1>2, <1>4, <1>5 DEF HasSlot

(* The semaphore of spawn_gatherers, which bounds the gatherers in flight  *)
(* by max_gatherers, never makes one wait: the plan is held to the same    *)
(* bound, and a run whose gatherers outlive it spawns no others.           *)
THEOREM SemaphoreNeverBlocks ==
    ASSUME IsFiniteSet(Departments) PROVE Spec => []SlotsSuffice
BY InitSpawned, NextSpawned, SlotLeft, Invariance, BooksKept, PTL DEF Spec

(* The wait of plan_and_gather for its gatherers is never a deadlock: one  *)
(* of them can go on, or all have returned, or a failure is there to see.  *)
THEOREM NoRunIsStuck ==
    ASSUME IsFiniteSet(Departments) PROVE Spec => []NeverStuck
<1>1. TypeOK /\ SpawnedInv /\ SlotsSuffice => NeverStuck
  <2> SUFFICES ASSUME TypeOK, SpawnedInv, SlotsSuffice, NEW r \in Runs,
                      phase[r] = "gathering", ~Raised(r),
                      NEW d \in Planned(r), gatherer[<<r, d>>] # "done"
               PROVE  \/ gatherer[<<r, d>>] \in {"selecting", "assessing"}
                      \/ gatherer[<<r, d>>] = "queued" /\ HasSlot(r)
    BY DEF NeverStuck, Planned
  <2>1. d \in Departments /\ gatherer[<<r, d>>] \in GathererStates
    BY DEF TypeOK, Tasks, Planned
  <2>2. gatherer[<<r, d>>] \notin {"none", "raised", "stopped", "done"}
    BY <2>1 DEF Planned, Raised, SpawnedInv
  <2> QED
    BY <2>1, <2>2 DEF GathererStates, SlotsSuffice
<1> QED
  BY <1>1, InitSpawned, NextSpawned, SemaphoreNeverBlocks, TypeCorrect, Invariance,
     BooksKept, PTL DEF Spec

(* Runs and gatherers only go on.  Each has at most four steps, so between *)
(* edits of the world a run and its gatherers come to rest: the half of    *)
(* Resolves that fairness does not decide.                                 *)
THEOREM RunsOnlyGoOn == Spec => [][Onward]_vars
BY NextOnward, Invariance, BooksKept, PTL DEF Spec

-----------------------------------------------------------------------------
(* The walk of a Drive tree (module DriveWalk).                            *)

(* The Drive stays a tree of folders and what they hold.                   *)
DriveTyped ==
    /\ tree \in [Ids -> EntrySet]
    /\ tree[Root].kind = "folder"
    /\ \A i \in Ids : OnlyFolders(tree, tree[i].parents)
    /\ LinksOf(tree) \subseteq links
    /\ steady \subseteq Ids

WalkTyped ==
    /\ progress \in {"walking", "listed", "failed"}
    /\ stack \subseteq Ids /\ visited \subseteq Ids
    /\ current \in Ids \cup {Nowhere}
    /\ due \subseteq Ids /\ got \subseteq Ids

(* What the walk knows of an id was true of it, and of one that was not    *)
(* moved it still is; a folder it met is walked, or will be.               *)
NodesTrue ==
    /\ DOMAIN nodes \subseteq Ids
    /\ \A i \in DOMAIN nodes :
          /\ nodes[i] \in EntrySet
          /\ nodes[i].kind = tree[i].kind
          /\ i \in steady => nodes[i] = tree[i]
          /\ \A p \in ParentsOf(nodes[i]) : <<i, p>> \in links
          /\ nodes[i].kind = "folder" => i \in stack \cup visited

(* A folder that was walked has given up what stayed in it, or is about to.*)
NothingMissed ==
    /\ Root \in stack \cup visited
    /\ \A i \in got : tree[i].kind # "shortcut" => i \in DOMAIN nodes
    /\ \A f \in visited, i \in steady :
          f \in ParentsOf(tree[i]) /\ tree[i].kind # "shortcut"
              => i \in DOMAIN nodes \/ (current = f /\ i \in due)
    /\ progress = "listed" => stack = {} /\ current = Nowhere

WalkInv == DriveTyped /\ WalkTyped /\ NodesTrue /\ NothingMissed
-----------------------------------------------------------------------------
(* Initially the stack is the root, and nothing was met.                   *)
LEMMA InitWalk == DriveInit => WalkInv
<1> SUFFICES ASSUME DriveInit PROVE WalkInv
  OBVIOUS
<1> USE DriveAssumption
<1>1. DriveTyped
  BY DEF DriveInit, DriveTyped
<1>2. WalkTyped
  BY DEF DriveInit, WalkTyped
<1>3. DOMAIN nodes = {}
  BY DEF DriveInit
<1>4. NodesTrue
  BY <1>3 DEF NodesTrue
<1>5. NothingMissed
  BY DEF DriveInit, NothingMissed
<1> QED
  BY <1>1, <1>2, <1>4, <1>5 DEF WalkInv

(* A shortcut gives its target, with the target's own metadata; anything   *)
(* else gives itself.                                                      *)
LEMMA ResolvedIs ==
    ASSUME DriveTyped, NEW i \in Ids
    PROVE  /\ Resolved(i).id \in Ids
           /\ Resolved(i).entry = tree[Resolved(i).id]
           /\ tree[i].kind # "shortcut" => Resolved(i).id = i
<1>1. tree[i] \in EntrySet /\ tree[i].target \in Ids \cup {Nowhere}
  BY DEF DriveTyped, EntrySet
<1> QED
  BY <1>1 DEF Resolved

(* A folder leaves the stack: what stayed in it is due, or was met when it *)
(* was walked before.                                                      *)
LEMMA PopKeeps ==
    ASSUME WalkInv, NEW f \in Ids, Pop(f)
    PROVE  WalkInv'
<1> USE DEF WalkInv
<1>1. DriveTyped'
  BY DEF Pop, treeVars, DriveTyped, OnlyFolders, LinksOf, ParentsOf
<1>2. WalkTyped'
  BY DEF Pop, WalkTyped, Children
<1>3. NodesTrue'
  <2>1. stack' \cup visited' = stack \cup visited
    BY DEF Pop
  <2> QED
    BY <2>1 DEF Pop, treeVars, NodesTrue, ParentsOf
<1>4. NothingMissed'
  <2>1. (Root \in stack \cup visited)'
    BY DEF Pop, NothingMissed
  <2>2. (\A i \in got : tree[i].kind # "shortcut" => i \in DOMAIN nodes)'
    BY DEF Pop, treeVars, NothingMissed
  <2>3. ASSUME NEW g \in visited', NEW i \in steady',
               (g \in ParentsOf(tree[i]))', (tree[i].kind # "shortcut")'
        PROVE  (i \in DOMAIN nodes \/ (current = g /\ i \in due))'
    <3>1. i \in steady /\ i \in Ids /\ g \in ParentsOf(tree[i]) /\ tree[i].kind # "shortcut"
      BY <2>3 DEF Pop, treeVars, DriveTyped, ParentsOf
    <3>2. current = Nowhere /\ Nowhere \notin Ids
      BY DriveAssumption DEF Pop
    <3>3. CASE g \in visited
      <4>1. i \in DOMAIN nodes
        BY <3>1, <3>2, <3>3 DEF NothingMissed, WalkTyped
      <4> QED
        BY <4>1 DEF Pop
    <3>4. CASE g \notin visited
      <4>1. g = f /\ current' = f /\ due' = Children(f)
        BY <3>4 DEF Pop
      <4> QED
        BY <3>1, <4>1 DEF Children
    <3> QED
      BY <3>3, <3>4
  <2>4. (progress = "listed" => stack = {} /\ current = Nowhere)'
    BY DEF Pop
  <2> QED
    BY <2>1, <2>2, <2>3, <2>4 DEF NothingMissed
<1> QED
  BY <1>1, <1>2, <1>3, <1>4

(* An entry is listed: what is noted of it, or of its target, is what the  *)
(* Drive holds now, and a folder goes onto the stack.                      *)
LEMMA ListedKeeps ==
    ASSUME WalkInv, NEW i \in Ids, Listed(i)
    PROVE  WalkInv'
<1> USE DEF WalkInv
<1> DEFINE f == Resolved(i)
<1>1. f.id \in Ids /\ f.entry = tree[f.id] /\ (tree[i].kind # "shortcut" => f.id = i)
  BY ResolvedIs
<1>2. /\ nodes' = [n \in DOMAIN nodes \cup {f.id} |-> IF n = f.id THEN f.entry ELSE nodes[n]]
      /\ stack' = IF f.entry.kind = "folder" THEN stack \cup {f.id} ELSE stack
      /\ got' = got \cup {i}
      /\ UNCHANGED <<tree, moved, steady, links, progress, visited, current, due>>
      /\ progress = "walking"
  BY DEF Listed, treeVars
<1> HIDE DEF f
<1>3. DriveTyped'
  BY <1>2 DEF DriveTyped, OnlyFolders, LinksOf, ParentsOf
<1>4. WalkTyped'
  BY <1>1, <1>2 DEF WalkTyped
<1>5. DOMAIN nodes' = DOMAIN nodes \cup {f.id}
  BY <1>2
<1>6. NodesTrue'
  <2>1. DOMAIN nodes' \subseteq Ids
    BY <1>1, <1>5 DEF NodesTrue
  <2>2. ASSUME NEW n \in DOMAIN nodes'
        PROVE  (/\ nodes[n] \in EntrySet
                /\ nodes[n].kind = tree[n].kind
                /\ n \in steady => nodes[n] = tree[n]
                /\ \A p \in ParentsOf(nodes[n]) : <<n, p>> \in links
                /\ nodes[n].kind = "folder" => n \in stack \cup visited)'
    <3>1. CASE n = f.id
      <4>1. nodes'[n] = tree[n] /\ n \in Ids /\ tree[n] \in EntrySet
        BY <1>1, <1>2, <1>5, <3>1 DEF DriveTyped
      <4>2. \A p \in ParentsOf(tree[n]) : <<n, p>> \in links
        <5>1. ASSUME NEW p \in ParentsOf(tree[n]) PROVE <<n, p>> \in LinksOf(tree)
          <6>1. p \in Ids
            BY <4>1 DEF ParentsOf, ToSet, EntrySet
          <6> QED
            BY <4>1, <6>1 DEF LinksOf
        <5> QED
          BY <5>1 DEF DriveTyped
      <4> QED
        BY <1>1, <1>2, <3>1, <4>1, <4>2 DEF ParentsOf
    <3>2. CASE n # f.id
      <4>1. n \in DOMAIN nodes /\ nodes'[n] = nodes[n]
        BY <1>2, <1>5, <3>2
      <4> QED
        BY <1>2, <4>1 DEF NodesTrue, ParentsOf
    <3> QED
      BY <3>1, <3>2
  <2> QED
    BY <2>1, <2>2 DEF NodesTrue
<1>7. NothingMissed'
  <2>1. (Root \in stack \cup visited)'
    BY <1>2 DEF NothingMissed
  <2>2. (\A g \in got : tree[g].kind # "shortcut" => g \in DOMAIN nodes)'
    BY <1>1, <1>2, <1>5 DEF NothingMissed
  <2>3. (\A g \in visited, k \in steady :
            g \in ParentsOf(tree[k]) /\ tree[k].kind # "shortcut"
                => k \in DOMAIN nodes \/ (current = g /\ k \in due))'
    BY <1>2, <1>5 DEF NothingMissed, ParentsOf
  <2>4. (progress = "listed" => stack = {} /\ current = Nowhere)'
    BY <1>2
  <2> QED
    BY <2>1, <2>2, <2>3, <2>4 DEF NothingMissed
<1> QED
  BY <1>3, <1>4, <1>6, <1>7

(* The last page: what stayed in the folder was due, and is still in it.   *)
LEMMA LastPageKeeps ==
    ASSUME WalkInv, LastPage
    PROVE  WalkInv'
<1> USE DEF WalkInv
<1>1. DriveTyped'
  BY DEF LastPage, treeVars, DriveTyped, OnlyFolders, LinksOf, ParentsOf
<1>2. WalkTyped'
  BY DEF LastPage, WalkTyped
<1>3. NodesTrue'
  BY DEF LastPage, treeVars, NodesTrue, ParentsOf
<1>4. NothingMissed'
  <2>1. (Root \in stack \cup visited)'
    BY DEF LastPage, NothingMissed
  <2>2. (\A g \in got : tree[g].kind # "shortcut" => g \in DOMAIN nodes)'
    BY DEF LastPage, treeVars, NothingMissed
  <2>3. ASSUME NEW f \in visited, NEW i \in steady,
               f \in ParentsOf(tree[i]), tree[i].kind # "shortcut"
        PROVE  i \in DOMAIN nodes
    <3>1. CASE current = f /\ i \in due
      <4>1. i \in Children(current)
        BY <2>3, <3>1 DEF Children, DriveTyped
      <4>2. i \in got
        BY <3>1, <4>1 DEF LastPage
      <4> QED
        BY <2>3, <4>2 DEF NothingMissed
    <3> QED
      BY <2>3, <3>1 DEF NothingMissed
  <2> QED
    BY <2>1, <2>2, <2>3 DEF LastPage, treeVars, NothingMissed, ParentsOf
<1> QED
  BY <1>1, <1>2, <1>3, <1>4

(* The walk is over when the stack is empty and no folder is being listed; *)
(* a call that fails loses what was found, and nothing else.               *)
LEMMA EndKeeps ==
    ASSUME WalkInv, Finished \/ CallFails \/ UNCHANGED driveVars
    PROVE  WalkInv'
<1> USE DEF WalkInv
<1>0. UNCHANGED <<tree, moved, steady, links, stack, visited, current, due, got, nodes>>
  BY DEF Finished, CallFails, driveVars, treeVars, walkVars
<1>1. DriveTyped'
  BY <1>0 DEF DriveTyped, OnlyFolders, LinksOf, ParentsOf
<1>2. WalkTyped'
  BY <1>0 DEF WalkTyped, Finished, CallFails, driveVars, walkVars
<1>3. NodesTrue'
  BY <1>0 DEF NodesTrue, ParentsOf
<1>4. NothingMissed'
  <2>1. (progress = "listed" => stack = {} /\ current = Nowhere)'
    BY <1>0 DEF NothingMissed, Finished, CallFails, driveVars, walkVars
  <2> QED
    BY <1>0, <2>1 DEF NothingMissed, ParentsOf
<1> QED
  BY <1>1, <1>2, <1>3, <1>4

(* Someone's edit: the id is not steady any more, and what it hung from is *)
(* remembered.                                                             *)
LEMMA MoveKeeps ==
    ASSUME WalkInv, NEW i \in Ids, NEW parents \in Moves, Move(i, parents)
    PROVE  WalkInv'
<1> USE DEF WalkInv
<1>0. /\ progress = "walking"
      /\ i # Root /\ OnlyFolders(tree, parents)
      /\ tree' = [tree EXCEPT ![i].parents = parents]
      /\ steady' = steady \ {i}
      /\ links' = links \cup LinksOf(tree')
      /\ UNCHANGED <<progress, stack, visited, current, due, got, nodes>>
  BY DEF Move, walkVars
<1>1. /\ tree \in [Ids -> EntrySet]
      /\ tree' \in [Ids -> EntrySet]
      /\ \A n \in Ids : tree'[n].kind = tree[n].kind
      /\ \A n \in Ids \ {i} : tree'[n] = tree[n]
      /\ tree'[i].parents = parents
  <2>1. parents \in Seq(Ids) /\ tree[i] \in EntrySet
    BY DriveAssumption DEF DriveTyped
  <2>2. [tree[i] EXCEPT !.parents = parents] \in EntrySet
    BY <2>1 DEF EntrySet
  <2>3. /\ [tree[i] EXCEPT !.parents = parents].kind = tree[i].kind
        /\ [tree[i] EXCEPT !.parents = parents].parents = parents
    BY <2>1 DEF EntrySet
  <2>4. tree' = [tree EXCEPT ![i] = [tree[i] EXCEPT !.parents = parents]]
    BY <1>0
  <2> QED
    BY <2>2, <2>3, <2>4 DEF DriveTyped
<1>2. DriveTyped'
  <2>1. ASSUME NEW n \in Ids PROVE OnlyFolders(tree', tree'[n].parents)
    <3>1. OnlyFolders(tree, tree'[n].parents)
      BY <1>0, <1>1 DEF DriveTyped
    <3>2. tree'[n].parents \in Seq(Ids)
      BY <1>1 DEF EntrySet
    <3> QED
      BY <1>1, <3>1, <3>2 DEF OnlyFolders
  <2>2. tree'[Root].kind = "folder"
    BY <1>1, DriveAssumption DEF DriveTyped
  <2> QED
    BY <1>0, <1>1, <2>1, <2>2 DEF DriveTyped
<1>3. WalkTyped'
  BY <1>0 DEF WalkTyped
<1>4. NodesTrue'
  BY <1>0, <1>1 DEF NodesTrue, ParentsOf
<1>5. NothingMissed'
  <2>1. (\A g \in got : tree[g].kind # "shortcut" => g \in DOMAIN nodes)'
    BY <1>0, <1>1 DEF NothingMissed, WalkTyped
  <2>2. (\A g \in visited, k \in steady :
            g \in ParentsOf(tree[k]) /\ tree[k].kind # "shortcut"
                => k \in DOMAIN nodes \/ (current = g /\ k \in due))'
    BY <1>0, <1>1 DEF NothingMissed, DriveTyped, ParentsOf
  <2> QED
    BY <1>0, <2>1, <2>2 DEF NothingMissed
<1> QED
  BY <1>2, <1>3, <1>4, <1>5

(* The invariant of the walk, one lemma per action.                        *)
LEMMA NextWalk == WalkInv /\ [DriveNext]_driveVars => WalkInv'
<1> SUFFICES ASSUME WalkInv, [DriveNext]_driveVars PROVE WalkInv'
  OBVIOUS
<1>1. ASSUME NEW i \in Ids, Pop(i) PROVE WalkInv'
  BY <1>1, PopKeeps
<1>2. ASSUME NEW i \in Ids, Listed(i) PROVE WalkInv'
  BY <1>2, ListedKeeps
<1>3. ASSUME NEW i \in Ids, NEW parents \in Moves, Move(i, parents) PROVE WalkInv'
  BY <1>3, MoveKeeps
<1> QED
  BY <1>1, <1>2, <1>3, LastPageKeeps, EndKeeps DEF DriveNext

(* What the walk knows is true, and it misses nothing that stayed.         *)
THEOREM WalkIsTrue == DriveSpec => []WalkInv
BY InitWalk, NextWalk, PTL DEF DriveSpec

-----------------------------------------------------------------------------
(* The parent chains.  A memo that tells of no chain yet: every id in it   *)
(* is one whose parents were tried without success, or are being tried.    *)
Known(memo) == {i \in Ids : memo[i] # Unknown}
Blank(memo) ==
    /\ memo \in Memos
    /\ memo[Root] = Unknown
    /\ \A i \in Ids : memo[i] \in {Unknown, <<>>}

(* A chain goes from the root down to the id, by parents that were listed, *)
(* through no id twice and none that the memo has.                         *)
PathDown(chain, id, memo) ==
    /\ chain \in Seq(Ids) /\ Len(chain) >= 1
    /\ chain[1] = Root /\ chain[Len(chain)] = id
    /\ \A j, k \in 1..Len(chain) : chain[j] = chain[k] => j = k
    /\ \A k \in 2..Len(chain) : /\ chain[k] \in DOMAIN nodes
                                /\ chain[k - 1] \in ParentsOf(nodes[chain[k]])
                                /\ memo[chain[k]] = Unknown

(* None: the parents of every id that came into the memo are in the memo,  *)
(* and the root is not.                                                    *)
DeadEnd(id, memo, left) ==
    /\ Blank(left)
    /\ Known(memo) \cup {id} \subseteq Known(left)
    /\ \A i \in Known(left) \ Known(memo) :
          i \in DOMAIN nodes => ParentsOf(nodes[i]) \subseteq Known(left)

Right(call, ret) ==
    IF ret.chain # <<>> THEN PathDown(ret.chain, call.id, call.memo)
    ELSE DeadEnd(call.id, call.memo, ret.memo)

NodesTyped == DOMAIN nodes \subseteq Ids /\ \A i \in DOMAIN nodes : nodes[i] \in EntrySet

(* What is returned is a chain and a memo.                                 *)
LEMMA ReturnTyped ==
    ASSUME NEW id \in Ids, NEW chain \in Seq(Ids), NEW memo \in Memos
    PROVE  Return(id, chain, memo) \in Returns
BY DEF Return, Returns, Memos

(* A parent's answer is passed on as an answer.                            *)
LEMMA ThroughTyped ==
    ASSUME NEW id \in Ids, NEW above \in Returns
    PROVE  Through(id, above) \in Returns
<1>1. above.chain \in Seq(Ids) /\ above.memo \in Memos
  BY DEF Returns
<1>2. Append(above.chain, id) \in Seq(Ids)
  BY <1>1
<1> QED
  BY <1>1, <1>2, ReturnTyped DEF Through

(* f is the loop over the parents.                                         *)
NextTried(found, call, n, inner) ==
    IF found.chain # <<>> THEN found
    ELSE Through(call.id, inner[[id |-> nodes[call.id].parents[n], memo |-> found.memo]])

Tries(f, call, inner) ==
    /\ f[0] = Return(call.id, <<>>, call.memo)
    /\ \A n \in 1..Len(nodes[call.id].parents) : f[n] = NextTried(f[n - 1], call, n, inner)

(* There is such a loop, and Tried is where it ends.                       *)
LEMMA TriedFrom ==
    ASSUME NodesTyped, NEW call \in Calls, call.id \in DOMAIN nodes,
           NEW inner \in [Calls -> Returns]
    PROVE  \E f \in [0..Len(nodes[call.id].parents) -> Returns] :
              /\ Tries(f, call, inner)
              /\ Tried(call, inner) = f[Len(nodes[call.id].parents)]
<1> DEFINE parents == nodes[call.id].parents
           N == Len(parents)
           base == Return(call.id, <<>>, call.memo)
           next(found, n) == NextTried(found, call, n, inner)
           step == [x \in Returns \X (1..N) |-> next(x[1], x[2])]
           Solves(f) == f = [n \in 0..N |-> IF n = 0 THEN base ELSE next(f[n - 1], n)]
<1>0. /\ call.id \in Ids /\ call.memo \in Memos
      /\ parents \in Seq(Ids) /\ N \in Nat /\ \A n \in 1..N : parents[n] \in Ids
  <2>1. nodes[call.id] \in EntrySet
    BY DEF NodesTyped
  <2> QED
    BY <2>1 DEF Calls, EntrySet
<1>1. base \in Returns
  <2>1. <<>> \in Seq(Ids)
    OBVIOUS
  <2> QED
    BY <1>0, <2>1, ReturnTyped
<1>2. ASSUME NEW found \in Returns, NEW n \in 1..N PROVE next(found, n) \in Returns
  <2>1. [id |-> parents[n], memo |-> found.memo] \in Calls
    BY <1>0 DEF Calls, Returns
  <2>2. inner[[id |-> parents[n], memo |-> found.memo]] \in Returns
    BY <2>1
  <2> QED
    BY <1>0, <2>2, ThroughTyped DEF NextTried
<1> HIDE DEF next, base
<1>3. step \in [Returns \X (1..N) -> Returns]
  BY <1>2
<1>4. PICK h \in [0..N -> Returns] : Iterates(h, base, step, N)
  <2>1. N \in Nat
    BY <1>0
  <2> HIDE DEF step, N
  <2> QED
    BY <1>1, <1>3, <2>1, Recursion
<1>5. Solves(h)
  <2>1. ASSUME NEW n \in 1..N PROVE h[n] = next(h[n - 1], n)
    <3>1. n - 1 \in 0..N
      BY <1>0
    <3>2. <<h[n - 1], n>> \in Returns \X (1..N)
      BY <3>1
    <3>3. step[<<h[n - 1], n>>] = next(h[n - 1], n)
      BY <3>2
    <3> QED
      BY <1>4, <3>3 DEF Iterates
  <2>2. ASSUME NEW n \in 0..N PROVE h[n] = IF n = 0 THEN base ELSE next(h[n - 1], n)
    <3>1. n = 0 \/ n \in 1..N
      BY <1>0
    <3> QED
      BY <1>4, <2>1, <3>1 DEF Iterates
  <2>3. h = [n \in 0..N |-> h[n]]
    OBVIOUS
  <2> QED
    BY <2>2, <2>3
<1> DEFINE f == CHOOSE g : Solves(g)
<1>6. Solves(f)
  BY <1>5
<1>7. Tried(call, inner) = f[N]
  BY DEF Tried, NextTried, next, base
<1> HIDE DEF f, step
<1>8. f[0] = base /\ \A n \in 1..N : f[n] = next(f[n - 1], n)
  <2>1. 0 \in 0..N
    BY <1>0
  <2>2. \A n \in 1..N : n \in 0..N /\ n # 0
    BY <1>0
  <2> QED
    BY <1>6, <2>1, <2>2
<1>9. f \in [0..N -> Returns]
  <2> DEFINE typed == {n \in 0..N : f[n] \in Returns}
  <2>1. 0 \in typed
    BY <1>0, <1>1, <1>8
  <2>2. ASSUME NEW n \in 1..N, n - 1 \in typed PROVE n \in typed
    BY <1>0, <1>2, <1>8, <2>2
  <2>3. N \in Nat
    BY <1>0
  <2> HIDE DEF typed, N
  <2>4. 0..N \subseteq typed
    BY <2>1, <2>2, <2>3, UpTo
  <2> USE DEF typed
  <2>5. f = [n \in 0..N |-> f[n]]
    BY <1>6
  <2> QED
    BY <2>4, <2>5
<1> QED
  BY <1>7, <1>8, <1>9 DEF Tries, next, base

(* Every call returns something of the right kind.                         *)
LEMMA AnswerTyped ==
    ASSUME NodesTyped, NEW call \in Calls, NEW inner \in [Calls -> Returns]
    PROVE  Answer(call, inner) \in Returns
<1>1. call.id \in Ids /\ call.memo \in Memos
  BY DEF Calls
<1>2. CASE call.id = Root
  <2>1. <<Root>> \in Seq(Ids)
    BY DriveAssumption
  <2> QED
    BY <1>1, <1>2, <2>1 DEF Answer, Returns
<1>3. CASE call.id # Root /\ call.memo[call.id] # Unknown
  <2>1. call.memo[call.id] \in Seq(Ids)
    BY <1>1, <1>3 DEF Memos
  <2> QED
    BY <1>1, <1>3, <2>1 DEF Answer, Returns
<1>4. CASE call.id # Root /\ call.memo[call.id] = Unknown /\ call.id \notin DOMAIN nodes
  <2>1. <<>> \in Seq(Ids)
    OBVIOUS
  <2> QED
    BY <1>1, <1>4, <2>1, ReturnTyped DEF Answer
<1>5. CASE call.id # Root /\ call.memo[call.id] = Unknown /\ call.id \in DOMAIN nodes
  <2>1. PICK f \in [0..Len(nodes[call.id].parents) -> Returns] :
                Tried(call, inner) = f[Len(nodes[call.id].parents)]
    BY <1>5, TriedFrom
  <2>2. Len(nodes[call.id].parents) \in 0..Len(nodes[call.id].parents)
    <3>1. nodes[call.id].parents \in Seq(Ids)
      BY <1>5 DEF NodesTyped, EntrySet
    <3> QED
      BY <3>1
  <2>3. Tried(call, inner) \in Returns
    BY <2>1, <2>2
  <2> QED
    BY <1>5, <2>3 DEF Answer
<1> QED
  BY <1>2, <1>3, <1>4, <1>5

(* answers[d] is what calls return that may nest d deep.                   *)
Nested(answers) ==
    \A d \in 1..Depth :
        answers[d] = [call \in Calls |-> Answer(call, answers[d - 1])]

(* There are such answers for every depth, and ParentChain is the deepest. *)
LEMMA ChainsFrom ==
    ASSUME NodesTyped
    PROVE  /\ Depth \in Nat /\ Cardinality(Ids) \in Nat
           /\ \E answers \in [0..Depth -> [Calls -> Returns]] :
                 Nested(answers) /\ ParentChain = answers[Depth]
<1> DEFINE S == [Calls -> Returns]
           base == [call \in Calls |-> [chain |-> <<>>, memo |-> call.memo]]
           next(inner) == [call \in Calls |-> Answer(call, inner)]
           step == [x \in S \X (1..Depth) |-> next(x[1])]
           Solves(f) ==
               f = [depth \in 0..Depth |->
                      [call \in Calls |->
                          IF depth = 0 THEN [chain |-> <<>>, memo |-> call.memo]
                          ELSE Answer(call, f[depth - 1])]]
           Steps(f) == f[0] = base /\ \A d \in 1..Depth : f[d] = next(f[d - 1])
<1>0. Depth \in Nat /\ Cardinality(Ids) \in Nat
  BY DriveAssumption, FS_CardinalityType DEF Depth
<1>1. base \in S
  <2>1. \A call \in Calls : [chain |-> <<>>, memo |-> call.memo] \in Returns
    BY DEF Calls, Returns
  <2> QED
    BY <2>1
<1>2. ASSUME NEW inner \in S PROVE next(inner) \in S
  BY AnswerTyped
<1>3. step \in [S \X (1..Depth) -> S]
  <2> HIDE DEF S, next
  <2> QED
    BY <1>2
<1>4. PICK h \in [0..Depth -> S] : Iterates(h, base, step, Depth)
  <2> HIDE DEF S, base, step
  <2> QED
    BY <1>0, <1>1, <1>3, Recursion
<1>5. Steps(h)
  <2> HIDE DEF S, next
  <2>1. ASSUME NEW d \in 1..Depth PROVE h[d] = next(h[d - 1])
    <3>1. d - 1 \in 0..Depth
      BY <1>0
    <3>2. <<h[d - 1], d>> \in S \X (1..Depth)
      BY <3>1
    <3>3. step[<<h[d - 1], d>>] = next(h[d - 1])
      BY <3>2
    <3> QED
      BY <1>4, <3>3 DEF Iterates
  <2> QED
    BY <1>4, <2>1 DEF Iterates
<1>6. Solves(h)
  <2>1. ASSUME NEW d \in 0..Depth
        PROVE  h[d] = [call \in Calls |->
                          IF d = 0 THEN [chain |-> <<>>, memo |-> call.memo]
                          ELSE Answer(call, h[d - 1])]
    <3>1. CASE d = 0
      BY <1>5, <3>1
    <3>2. CASE d # 0
      <4>1. d \in 1..Depth
        BY <1>0, <3>2
      <4> QED
        BY <1>5, <3>2, <4>1
    <3> QED
      BY <3>1, <3>2
  <2>2. h = [d \in 0..Depth |-> h[d]]
    OBVIOUS
  <2> QED
    BY <2>1, <2>2
<1> DEFINE f == CHOOSE g : Solves(g)
<1>7. Solves(f)
  BY <1>6
<1>8. ParentChain = f[Depth]
  BY DEF ParentChain
<1> HIDE DEF f
<1>9. Steps(f)
  <2>1. f[0] = base
    BY <1>0, <1>7
  <2>2. ASSUME NEW d \in 1..Depth PROVE f[d] = next(f[d - 1])
    <3>1. d \in 0..Depth /\ d # 0
      BY <1>0
    <3> QED
      BY <1>7, <3>1
  <2> QED
    BY <2>1, <2>2
<1>10. f \in [0..Depth -> S]
  <2> DEFINE typed == {d \in 0..Depth : f[d] \in S}
  <2> HIDE DEF S, next, base
  <2>1. 0 \in typed
    BY <1>0, <1>1, <1>9
  <2>2. ASSUME NEW d \in 1..Depth, d - 1 \in typed PROVE d \in typed
    BY <1>0, <1>2, <1>9, <2>2
  <2> HIDE DEF typed
  <2>3. 0..Depth \subseteq typed
    BY <1>0, <2>1, <2>2, UpTo
  <2> USE DEF typed
  <2>4. f = [d \in 0..Depth |-> f[d]]
    BY <1>7
  <2> QED
    BY <2>3, <2>4
<1> QED
  BY <1>0, <1>8, <1>9, <1>10 DEF Nested

(* The loop goes on while the parents tried so far are dead ends, and the  *)
(* first that is under the root puts this id below it.                     *)
LEMMA TriedRight ==
    ASSUME NodesTyped, NEW call \in Calls, call.id \in DOMAIN nodes,
           Blank(call.memo), call.id # Root, call.memo[call.id] = Unknown,
           NEW inner \in [Calls -> Returns],
           \A c \in Calls :
              Blank(c.memo) /\ Known(call.memo) \cup {call.id} \subseteq Known(c.memo)
                  => Right(c, inner[c])
    PROVE  Right(call, Tried(call, inner))
<1> DEFINE id == call.id
           memo == call.memo
           parents == nodes[call.id].parents
           N == Len(parents)
           Tracked(known) == \A i \in known \ (Known(memo) \cup {id}) :
                                i \in DOMAIN nodes => ParentsOf(nodes[i]) \subseteq known
           Barred(left, n) == /\ Blank(left)
                              /\ Known(memo) \cup {id} \subseteq Known(left)
                              /\ \A j \in 1..n : parents[j] \in Known(left)
                              /\ Tracked(Known(left))
           So(ret, n) == IF ret.chain # <<>> THEN PathDown(ret.chain, id, memo)
                         ELSE Barred(ret.memo, n)
<1>0. /\ id \in Ids /\ memo \in Memos /\ Root \in Ids
      /\ parents \in Seq(Ids) /\ N \in Nat /\ \A n \in 1..N : parents[n] \in Ids
      /\ ParentsOf(nodes[id]) = {parents[n] : n \in 1..N}
  <2>1. nodes[id] \in EntrySet
    BY DEF NodesTyped
  <2> QED
    BY <2>1, DriveAssumption DEF Calls, EntrySet, ParentsOf, ToSet
<1>1. PICK f \in [0..N -> Returns] : Tries(f, call, inner) /\ Tried(call, inner) = f[N]
  BY TriedFrom
<1>2. So(f[0], 0)
  <2>1. <<>> \in Seq(Ids) /\ <<>> # Unknown
    BY DEF Unknown
  <2> DEFINE left == [memo EXCEPT ![id] = <<>>]
  <2>2. left \in Memos /\ left[id] = <<>> /\ \A i \in Ids \ {id} : left[i] = memo[i]
    BY <1>0, <2>1 DEF Memos
  <2>3. f[0].chain = <<>> /\ f[0].memo = left
    BY <1>1 DEF Tries, Return
  <2> HIDE DEF left
  <2>4. Known(left) = Known(memo) \cup {id}
    BY <1>0, <2>1, <2>2 DEF Known
  <2>5. Blank(left)
    BY <1>0, <2>1, <2>2 DEF Blank
  <2> QED
    BY <2>3, <2>4, <2>5
<1>3. ASSUME NEW n \in 1..N, So(f[n - 1], n - 1) PROVE So(f[n], n)
  <2> DEFINE found == f[n - 1]
             c == [id |-> parents[n], memo |-> found.memo]
             ret == inner[c]
  <2>1. found \in Returns /\ f[n] = NextTried(found, call, n, inner)
    <3>1. n - 1 \in 0..N
      BY <1>0
    <3> QED
      BY <1>1, <3>1 DEF Tries
  <2>2. CASE found.chain # <<>>
    BY <1>3, <2>1, <2>2 DEF NextTried
  <2>3. CASE found.chain = <<>>
    <3>1. Barred(found.memo, n - 1)
      BY <1>3, <2>3
    <3>2. c \in Calls /\ c.id = parents[n] /\ c.memo = found.memo
      BY <1>0, <2>1 DEF Calls, Returns
    <3>3. f[n] = Through(id, ret)
      BY <2>1, <2>3 DEF NextTried
    <3>4. ret \in Returns /\ ret.chain \in Seq(Ids)
      BY <3>2 DEF Returns
    <3>5. Right(c, ret)
      BY <3>1, <3>2
    <3> HIDE DEF ret, c, found, Tracked
    <3>6. CASE ret.chain = <<>>
      <4>1. f[n] = ret /\ DeadEnd(parents[n], found.memo, ret.memo)
        BY <3>2, <3>3, <3>5, <3>6 DEF Through, Right
      <4>2. Known(found.memo) \cup {parents[n]} \subseteq Known(ret.memo)
        BY <4>1 DEF DeadEnd
      <4>3. \A j \in 1..n : parents[j] \in Known(ret.memo)
        <5>1. \A j \in 1..n : j = n \/ j \in 1..(n - 1)
          BY <1>0
        <5> QED
          BY <3>1, <4>2, <5>1
      <4>4. Tracked(Known(ret.memo))
        <5>1. ASSUME NEW i \in Known(ret.memo), i \notin Known(memo) \cup {id}, i \in DOMAIN nodes
              PROVE  ParentsOf(nodes[i]) \subseteq Known(ret.memo)
          <6>1. CASE i \in Known(found.memo)
            BY <3>1, <4>2, <5>1, <6>1 DEF Tracked
          <6>2. CASE i \notin Known(found.memo)
            BY <4>1, <5>1, <6>2 DEF DeadEnd
          <6> QED
            BY <6>1, <6>2
        <5> QED
          BY <5>1 DEF Tracked
      <4>5. Blank(ret.memo) /\ Known(memo) \cup {id} \subseteq Known(ret.memo)
        BY <3>1, <4>1, <4>2 DEF DeadEnd
      <4> QED
        BY <3>6, <4>1, <4>3, <4>4, <4>5
    <3>7. CASE ret.chain # <<>>
      <4> DEFINE s == ret.chain
                 L == Len(s)
                 more == Append(s, id)
      <4>1. PathDown(s, parents[n], found.memo)
        BY <3>2, <3>5, <3>7 DEF Right
      <4>2. f[n].chain = more
        BY <3>3, <3>7 DEF Through, Return
      <4>3. /\ L \in Nat /\ L >= 1 /\ more \in Seq(Ids) /\ Len(more) = L + 1
            /\ more[L + 1] = id /\ more # <<>>
            /\ \A k \in 1..L : more[k] = s[k] /\ s[k] \in Ids
        <5>1. s \in Seq(Ids) /\ L >= 1 /\ id \in Ids
          BY <1>0, <3>4, <4>1 DEF PathDown
        <5> HIDE DEF s
        <5>2. L \in Nat /\ more \in Seq(Ids) /\ Len(more) = L + 1 /\ more[L + 1] = id
          BY ONLY <5>1
        <5>3. \A k \in 1..L : more[k] = s[k] /\ s[k] \in Ids
          BY ONLY <5>1
        <5>4. more # <<>>
          BY ONLY <5>1, <5>2
        <5> QED
          BY <5>1, <5>2, <5>3, <5>4
      <4>4. \A k \in 2..L : memo[s[k]] = Unknown /\ s[k] # id
        <5>1. ASSUME NEW k \in 2..L PROVE memo[s[k]] = Unknown /\ s[k] # id
          <6>1. found.memo[s[k]] = Unknown
            BY <4>1 DEF PathDown
          <6>2. s[k] \in Ids
            BY <4>3
          <6>3. s[k] \notin Known(found.memo)
            BY <6>1 DEF Known
          <6>4. s[k] \notin Known(memo) /\ s[k] # id
            BY <3>1, <6>3
          <6> QED
            BY <6>2, <6>4 DEF Known
        <5> QED
          BY <5>1
      <4>5. s[1] = Root /\ s[L] = parents[n]
        BY <4>1 DEF PathDown
      <4>6. \A k \in 1..L : s[k] # id
        BY <4>3, <4>4, <4>5
      <4> HIDE DEF more
      <4>7. \A j, k \in 1..(L + 1) : more[j] = more[k] => j = k
        <5>1. SUFFICES ASSUME NEW j \in 1..(L + 1), NEW k \in 1..(L + 1), more[j] = more[k]
                       PROVE  j = k
          OBVIOUS
        <5>2. CASE j = L + 1 \/ k = L + 1
          <6>1. j \in 1..L \/ j = L + 1
            BY <4>3
          <6>2. k \in 1..L \/ k = L + 1
            BY <4>3
          <6> QED
            BY <4>3, <4>6, <5>1, <5>2, <6>1, <6>2
        <5>3. CASE j \in 1..L /\ k \in 1..L
          <6>1. s[j] = s[k]
            BY <4>3, <5>1, <5>3
          <6> QED
            BY <4>1, <5>3, <6>1 DEF PathDown
        <5> QED
          BY <4>3, <5>2, <5>3
      <4>8. ASSUME NEW k \in 2..(L + 1)
            PROVE  /\ more[k] \in DOMAIN nodes
                   /\ more[k - 1] \in ParentsOf(nodes[more[k]])
                   /\ memo[more[k]] = Unknown
        <5>1. CASE k = L + 1
          <6>1. more[k] = id /\ more[k - 1] = parents[n]
            <7>1. L \in 1..L /\ k - 1 = L
              BY <4>3, <5>1
            <7> QED
              BY <4>3, <4>5, <5>1, <7>1
          <6> QED
            BY <1>0, <6>1
        <5>2. CASE k # L + 1
          <6>1. k \in 2..L /\ k \in 1..L /\ k - 1 \in 1..L
            BY <4>3, <5>2
          <6>2. more[k] = s[k] /\ more[k - 1] = s[k - 1]
            BY <4>3, <6>1
          <6> QED
            BY <4>1, <4>4, <6>1, <6>2 DEF PathDown
        <5> QED
          BY <5>1, <5>2
      <4>9. more[1] = Root
        <5>1. 1 \in 1..L
          BY <4>3
        <5> QED
          BY <4>3, <4>5, <5>1
      <4>10. PathDown(more, id, memo)
        BY <4>3, <4>7, <4>8, <4>9 DEF PathDown
      <4> QED
        BY <4>2, <4>3, <4>10
    <3> QED
      BY <3>6, <3>7
  <2> QED
    BY <2>2, <2>3
<1>4. So(f[N], N)
  <2> DEFINE reached == {n \in 0..N : So(f[n], n)}
  <2> HIDE DEF So, N
  <2>1. 0 \in reached
    BY <1>0, <1>2
  <2>2. \A n \in 1..N : n - 1 \in reached => n \in reached
    BY <1>0, <1>3
  <2> HIDE DEF reached
  <2>3. 0..N \subseteq reached
    BY <1>0, <2>1, <2>2, UpTo
  <2>4. N \in reached
    BY <1>0, <2>3
  <2> QED
    BY <2>4 DEF reached
<1>5. CASE f[N].chain # <<>>
  BY <1>1, <1>4, <1>5 DEF Right
<1>6. CASE f[N].chain = <<>>
  <2>1. Barred(f[N].memo, N)
    BY <1>4, <1>6
  <2> DEFINE left == f[N].memo
  <2> HIDE DEF left
  <2>2. Barred(left, N)
    BY <2>1 DEF left
  <2>3. ASSUME NEW i \in Known(left) \ Known(memo), i \in DOMAIN nodes
        PROVE  ParentsOf(nodes[i]) \subseteq Known(left)
    <3>1. CASE i = id
      BY <1>0, <2>2, <3>1
    <3>2. CASE i # id
      BY <2>2, <2>3, <3>2
    <3> QED
      BY <3>1, <3>2
  <2>4. DeadEnd(id, memo, left)
    BY <2>2, <2>3 DEF DeadEnd
  <2> QED
    BY <1>1, <1>6, <2>4 DEF Right, left
<1> QED
  BY <1>5, <1>6

(* However calls nest, what the outermost returns is right: each call      *)
(* inside another has one id less to find.                                 *)
LEMMA ChainRight ==
    ASSUME NodesTyped, NEW call \in Calls, Blank(call.memo)
    PROVE  Right(call, ParentChain[call])
<1>0. Depth \in Nat /\ Cardinality(Ids) \in Nat /\ IsFiniteSet(Ids) /\ Root \in Ids
  BY ChainsFrom, DriveAssumption
<1>1. PICK answers \in [0..Depth -> [Calls -> Returns]] :
              Nested(answers) /\ ParentChain = answers[Depth]
  BY ChainsFrom
<1> DEFINE Missing(memo) == Ids \ Known(memo)
           right == {d \in 0..Depth : \A c \in Calls :
                        Blank(c.memo) /\ Cardinality(Missing(c.memo)) < d
                            => Right(c, answers[d][c])}
<1>2. 0 \in right
  <2>1. ASSUME NEW c \in Calls PROVE ~(Cardinality(Missing(c.memo)) < 0)
    <3>1. Missing(c.memo) \in SUBSET Ids
      OBVIOUS
    <3> HIDE DEF Missing
    <3>2. IsFiniteSet(Missing(c.memo))
      BY <1>0, <3>1, FS_Subset
    <3> QED
      BY <3>2, FS_CardinalityType
  <2> QED
    BY <1>0, <2>1
<1>3. ASSUME NEW d \in 1..Depth, d - 1 \in right PROVE d \in right
  <2> SUFFICES ASSUME NEW c \in Calls, Blank(c.memo), Cardinality(Missing(c.memo)) < d
               PROVE  Right(c, answers[d][c])
    BY <1>0
  <2> DEFINE inner == answers[d - 1]
  <2>1. inner \in [Calls -> Returns] /\ answers[d][c] = Answer(c, inner)
    <3>1. d - 1 \in 0..Depth
      BY <1>0
    <3> QED
      BY <1>1, <3>1 DEF Nested
  <2>2. c.id \in Ids /\ c.memo \in Memos
    BY DEF Calls
  <2>3. CASE c.id = Root
    <3>1. Answer(c, inner).chain = <<Root>>
      BY <2>3 DEF Answer
    <3>2. <<Root>> # <<>> /\ <<Root>> \in Seq(Ids) /\ Len(<<Root>>) = 1 /\ <<Root>>[1] = Root
      BY <1>0
    <3>3. PathDown(<<Root>>, c.id, c.memo)
      BY <2>3, <3>2 DEF PathDown
    <3> QED
      BY <2>1, <3>1, <3>2, <3>3 DEF Right
  <2>4. CASE c.id # Root /\ c.memo[c.id] # Unknown
    <3>1. Answer(c, inner).chain = <<>> /\ Answer(c, inner).memo = c.memo
      BY <2>2, <2>4 DEF Answer, Blank
    <3>2. DeadEnd(c.id, c.memo, c.memo)
      BY <2>2, <2>4 DEF DeadEnd, Known
    <3> QED
      BY <2>1, <3>1, <3>2 DEF Right
  <2>5. CASE c.id # Root /\ c.memo[c.id] = Unknown /\ c.id \notin DOMAIN nodes
    <3> DEFINE left == [c.memo EXCEPT ![c.id] = <<>>]
    <3>1. Answer(c, inner).chain = <<>> /\ Answer(c, inner).memo = left
      BY <2>5 DEF Answer, Return
    <3>2. <<>> \in Seq(Ids) /\ <<>> # Unknown
      BY DEF Unknown
    <3>3. left \in Memos /\ left[c.id] = <<>> /\ \A i \in Ids \ {c.id} : left[i] = c.memo[i]
      BY <2>2, <3>2 DEF Memos
    <3> HIDE DEF left
    <3>4. Known(left) = Known(c.memo) \cup {c.id}
      BY <2>2, <3>2, <3>3 DEF Known
    <3>5. Blank(left)
      BY <1>0, <2>2, <2>5, <3>2, <3>3 DEF Blank
    <3>6. DeadEnd(c.id, c.memo, left)
      BY <2>5, <3>4, <3>5 DEF DeadEnd
    <3> QED
      BY <2>1, <3>1, <3>6 DEF Right
  <2>6. CASE c.id # Root /\ c.memo[c.id] = Unknown /\ c.id \in DOMAIN nodes
    <3>1. ASSUME NEW e \in Calls, Blank(e.memo),
                 Known(c.memo) \cup {c.id} \subseteq Known(e.memo)
          PROVE  Right(e, inner[e])
      <4> DEFINE rest == Missing(c.memo) \ {c.id}
      <4>1. Missing(c.memo) \in SUBSET Ids /\ c.id \in Missing(c.memo)
        BY <2>2, <2>6 DEF Known
      <4>2. Missing(e.memo) \in SUBSET rest
        BY <3>1
      <4> HIDE DEF Missing
      <4>3. IsFiniteSet(Missing(c.memo)) /\ Cardinality(Missing(c.memo)) \in Nat
        BY <1>0, <4>1, FS_Subset, FS_CardinalityType
      <4>4. IsFiniteSet(rest) /\ Cardinality(rest) = Cardinality(Missing(c.memo)) - 1
        BY <4>1, <4>3, FS_RemoveElement
      <4> HIDE DEF rest
      <4>5. IsFiniteSet(Missing(e.memo)) /\ Cardinality(Missing(e.memo)) <= Cardinality(rest)
        BY <4>2, <4>4, FS_Subset
      <4>6. Cardinality(Missing(e.memo)) < d - 1
        <5>1. Cardinality(Missing(e.memo)) \in Nat
          BY <4>5, FS_CardinalityType
        <5> QED
          BY <4>3, <4>4, <4>5, <5>1
      <4> QED
        BY <1>3, <3>1, <4>6
    <3>2. Right(c, Tried(c, inner))
      BY <2>1, <2>6, <3>1, TriedRight
    <3> QED
      BY <2>1, <2>6, <3>2 DEF Answer
  <2> QED
    BY <2>3, <2>4, <2>5, <2>6
<1> HIDE DEF right
<1>4. 0..Depth \subseteq right
  BY <1>0, <1>2, <1>3, UpTo
<1>5. Depth \in right
  BY <1>0, <1>4
<1>6. Cardinality(Missing(call.memo)) < Depth
  <2>1. Missing(call.memo) \in SUBSET Ids
    OBVIOUS
  <2> HIDE DEF Missing
  <2>2. IsFiniteSet(Missing(call.memo)) /\ Cardinality(Missing(call.memo)) <= Cardinality(Ids)
    BY <1>0, <2>1, FS_Subset
  <2>3. Cardinality(Missing(call.memo)) \in Nat
    BY <2>2, FS_CardinalityType
  <2> QED
    BY <1>0, <2>2, <2>3 DEF Depth
<1> QED
  BY <1>1, <1>5, <1>6 DEF right

(* _relative_path finds no chain: a set of ids around this one is closed   *)
(* under parents and does not have the root.                               *)
Severed(ids) ==
    Root \notin ids /\ \A i \in ids : i \in DOMAIN nodes => ParentsOf(nodes[i]) \subseteq ids

(* So a document has a path, or none can be had by parents that were       *)
(* listed.                                                                 *)
LEMMA PathOrSevered ==
    ASSUME NodesTyped, NEW id \in Ids
    PROVE  \/ PathTo(id) # <<>> /\ PathDown(PathTo(id), id, NothingKnown)
           \/ PathTo(id) = <<>> /\ \E ids \in SUBSET Ids : id \in ids /\ Severed(ids)
<1> DEFINE call == [id |-> id, memo |-> NothingKnown]
<1>1. /\ NothingKnown \in Memos /\ \A i \in Ids : NothingKnown[i] = Unknown
      /\ Root \in Ids
  BY DriveAssumption DEF NothingKnown, Memos
<1>2. call \in Calls /\ call.id = id /\ call.memo = NothingKnown
  BY <1>1 DEF Calls
<1>3. Blank(call.memo) /\ Known(NothingKnown) = {}
  BY <1>1, <1>2 DEF Blank, Known
<1> DEFINE ret == ParentChain[call]
<1>4. PathTo(id) = ret.chain
  BY DEF PathTo
<1> HIDE DEF call
<1>5. Right(call, ret)
  BY <1>2, <1>3, ChainRight
<1> HIDE DEF ret
<1>6. CASE ret.chain # <<>>
  BY <1>2, <1>4, <1>5, <1>6 DEF Right
<1>7. CASE ret.chain = <<>>
  <2>1. DeadEnd(id, NothingKnown, ret.memo)
    BY <1>2, <1>5, <1>7 DEF Right
  <2>2. Known(ret.memo) \in SUBSET Ids /\ id \in Known(ret.memo) /\ Severed(Known(ret.memo))
    BY <1>3, <2>1 DEF DeadEnd, Blank, Severed, Known
  <2> QED
    BY <1>4, <1>7, <2>2
<1> QED
  BY <1>6, <1>7

-----------------------------------------------------------------------------
(* Steadily is the last level, and every level grows from the one before.  *)
Grows(level) ==
    /\ level[0] = {Root}
    /\ \A n \in 1..Cardinality(Ids) :
          level[n] = level[n - 1] \cup
                     {i \in steady : ParentsOf(tree[i]) \cap level[n - 1] # {}}

(* There are such levels.                                                  *)
LEMMA SteadilyFrom ==
    ASSUME DriveTyped
    PROVE  \E level : Grows(level) /\ Steadily = level[Cardinality(Ids)]
<1> DEFINE N == Cardinality(Ids)
           S == SUBSET Ids
           base == {Root}
           Below(s) == s \cup {i \in steady : ParentsOf(tree[i]) \cap s # {}}
           step == [x \in S \X (1..N) |-> Below(x[1])]
           Solves(f) == f = [n \in 0..N |-> IF n = 0 THEN {Root} ELSE Below(f[n - 1])]
<1>0. N \in Nat
  BY DriveAssumption, FS_CardinalityType
<1>1. base \in S
  BY DriveAssumption
<1>2. step \in [S \X (1..N) -> S]
  <2>1. ASSUME NEW s \in S PROVE Below(s) \in S
    BY DEF DriveTyped
  <2> HIDE DEF S, Below
  <2> QED
    BY <2>1
<1>3. PICK h \in [0..N -> S] : Iterates(h, base, step, N)
  <2> HIDE DEF N, S, base, step
  <2> QED
    BY <1>0, <1>1, <1>2, Recursion
<1>4. Solves(h)
  <2>1. ASSUME NEW n \in 0..N PROVE h[n] = IF n = 0 THEN {Root} ELSE Below(h[n - 1])
    <3>1. CASE n = 0
      BY <1>3, <3>1 DEF Iterates
    <3>2. CASE n # 0
      <4>1. n \in 1..N /\ n - 1 \in 0..N
        BY <1>0, <3>2
      <4> HIDE DEF S, Below
      <4>2. <<h[n - 1], n>> \in S \X (1..N)
        BY <4>1
      <4>3. step[<<h[n - 1], n>>] = Below(h[n - 1])
        BY <4>2
      <4> QED
        BY <1>3, <3>2, <4>1, <4>3 DEF Iterates
    <3> QED
      BY <3>1, <3>2
  <2>2. h = [n \in 0..N |-> h[n]]
    OBVIOUS
  <2> QED
    BY <2>1, <2>2
<1> DEFINE f == CHOOSE g : Solves(g)
<1>5. Solves(f)
  <2> HIDE DEF Solves
  <2> QED
    BY <1>4
<1>6. Steadily = f[N]
  BY DEF Steadily
<1> HIDE DEF f
<1>7. Grows(f)
  <2>1. f[0] = {Root}
    BY <1>0, <1>5
  <2>2. ASSUME NEW n \in 1..N PROVE f[n] = Below(f[n - 1])
    <3>1. n \in 0..N /\ n # 0
      BY <1>0
    <3> QED
      BY <1>5, <3>1
  <2> QED
    BY <2>1, <2>2 DEF Grows
<1> QED
  BY <1>6, <1>7

(* Once the walk is over, what hangs steadily from the root was met, and   *)
(* is in no set of ids that is cut off from the root.                      *)
LEMMA SteadilyMet ==
    ASSUME WalkInv, progress = "listed", NEW ids, Severed(ids),
           NEW i \in Steadily, tree[i].kind # "shortcut"
    PROVE  i \in Ids /\ i \notin ids /\ (i = Root \/ i \in DOMAIN nodes)
<1> USE DEF WalkInv
<1>0. Cardinality(Ids) \in Nat /\ Root \in Ids /\ Nowhere \notin Ids
  BY DriveAssumption, FS_CardinalityType
<1>1. PICK level : Grows(level) /\ Steadily = level[Cardinality(Ids)]
  BY SteadilyFrom
<1> DEFINE Good(x) == /\ x \in Ids
                      /\ tree[x].kind # "shortcut"
                             => x \notin ids /\ (x = Root \/ x \in DOMAIN nodes)
           good == {n \in 0..Cardinality(Ids) : \A x \in level[n] : Good(x)}
<1>2. 0 \in good
  BY <1>0, <1>1 DEF Grows, Severed
<1>3. ASSUME NEW n \in 1..Cardinality(Ids), n - 1 \in good PROVE n \in good
  <2>1. ASSUME NEW x \in steady, NEW p \in ParentsOf(tree[x]), p \in level[n - 1]
        PROVE  Good(x)
    <3>1. x \in Ids /\ tree[x] \in EntrySet
      BY DEF DriveTyped
    <3>2. p \in Ids /\ tree[p].kind = "folder"
      <4>1. PICK k \in DOMAIN tree[x].parents : p = tree[x].parents[k]
        BY DEF ParentsOf, ToSet
      <4>2. OnlyFolders(tree, tree[x].parents) /\ tree[x].parents \in Seq(Ids)
        BY <3>1 DEF DriveTyped, EntrySet
      <4> QED
        BY <4>1, <4>2 DEF OnlyFolders
    <3>3. p \notin ids /\ (p = Root \/ p \in DOMAIN nodes)
      BY <1>3, <2>1, <3>2
    <3>4. p \in visited /\ current # p
      <4>1. stack = {} /\ current = Nowhere
        BY DEF NothingMissed
      <4>2. p \in stack \cup visited
        BY <3>2, <3>3 DEF NodesTrue, NothingMissed
      <4> QED
        BY <1>0, <3>2, <4>1, <4>2
    <3>5. ASSUME tree[x].kind # "shortcut" PROVE x \in DOMAIN nodes /\ x \notin ids
      <4>1. x \in DOMAIN nodes
        BY <2>1, <3>4, <3>5 DEF NothingMissed
      <4>2. nodes[x] = tree[x]
        BY <4>1 DEF NodesTrue
      <4> QED
        BY <2>1, <3>3, <4>1, <4>2 DEF Severed
    <3> QED
      BY <3>1, <3>5
  <2>2. \A x \in level[n] : x \in level[n - 1] \/
           (x \in steady /\ \E p \in ParentsOf(tree[x]) : p \in level[n - 1])
    BY <1>1 DEF Grows
  <2>3. \A x \in level[n - 1] : Good(x)
    BY <1>3
  <2> HIDE DEF Good
  <2> QED
    BY <1>0, <2>1, <2>2, <2>3
<1> HIDE DEF good
<1>4. Cardinality(Ids) \in good
  <2>1. 0..Cardinality(Ids) \subseteq good
    BY <1>0, <1>2, <1>3, UpTo
  <2> QED
    BY <1>0, <2>1
<1> QED
  BY <1>1, <1>4 DEF good

(* What stayed is listed, and what is listed was under the root: the       *)
(* chains of a walk whose nodes are true.                                  *)
LEMMA WalkLists == WalkInv => ListingTrue
<1> SUFFICES ASSUME WalkInv, progress = "listed"
             PROVE  /\ \A i \in Steadily : tree[i].kind = "file" => i \in Candidates
                    /\ \A i \in Candidates :
                         LET path == PathTo(i) IN
                         /\ path[1] = Root /\ path[Len(path)] = i /\ IsInjective(path)
                         /\ \A k \in 2..Len(path) : <<path[k], path[k - 1]>> \in links
  BY DEF ListingTrue
<1>0. NodesTyped /\ Root \in Ids
  BY DriveAssumption DEF WalkInv, NodesTrue, NodesTyped
<1>1. ASSUME NEW i \in Steadily, tree[i].kind = "file" PROVE i \in Candidates
  <2>1. Severed({})
    BY DEF Severed
  <2>2. i \in Ids /\ i # Root /\ i \in DOMAIN nodes
    <3>1. tree[i].kind # "shortcut" /\ tree[i].kind # "folder"
      BY <1>1
    <3>2. i \in Ids /\ (i = Root \/ i \in DOMAIN nodes)
      BY <2>1, <3>1, SteadilyMet
    <3> QED
      BY <3>1, <3>2 DEF WalkInv, DriveTyped
  <2>3. ~ \E ids \in SUBSET Ids : i \in ids /\ Severed(ids)
    BY <1>1, SteadilyMet
  <2>4. PathDown(PathTo(i), i, NothingKnown)
    BY <1>0, <2>2, <2>3, PathOrSevered
  <2>5. Len(PathTo(i)) >= 2
    BY <2>2, <2>4 DEF PathDown
  <2>6. nodes[i].kind # "folder"
    BY <1>1, <2>2 DEF WalkInv, NodesTrue
  <2> QED
    BY <2>2, <2>5, <2>6 DEF Candidates
<1>2. ASSUME NEW i \in Candidates
      PROVE  LET path == PathTo(i) IN
             /\ path[1] = Root /\ path[Len(path)] = i /\ IsInjective(path)
             /\ \A k \in 2..Len(path) : <<path[k], path[k - 1]>> \in links
  <2> DEFINE path == PathTo(i)
  <2>1. i \in Ids /\ Len(path) >= 2
    BY <1>0 DEF Candidates, NodesTyped
  <2>2. path # <<>>
    BY <2>1
  <2>3. PathDown(path, i, NothingKnown)
    BY <1>0, <2>1, <2>2, PathOrSevered
  <2> HIDE DEF path
  <2>4. IsInjective(path)
    BY <2>3 DEF PathDown, IsInjective
  <2>5. ASSUME NEW k \in 2..Len(path) PROVE <<path[k], path[k - 1]>> \in links
    BY <2>3 DEF PathDown, WalkInv, NodesTrue
  <2> QED
    BY <2>3, <2>4, <2>5 DEF PathDown, path
<1> QED
  BY <1>1, <1>2

(* ListingTrue of list_candidates: however the Drive is edited while it is *)
(* walked, what stayed in place is listed, and what is listed was under    *)
(* the root, by links there were. The chains are those of _parent_chain,   *)
(* with its memo and its guard against cycles.                             *)
THEOREM ListingIsTrue == DriveSpec => []ListingTrue
BY WalkIsTrue, WalkLists, PTL

-----------------------------------------------------------------------------
(* What bounds a walk (the safety half of WalkEnds): a number that each of *)
(* its steps lowers, made of the ids not visited, the entries the current  *)
(* folder has not returned and the stack.  Moves do not touch it, and a    *)
(* shortcut cannot raise it: it pays with an entry for what it pushes.     *)
PerFolder == 2 * Cardinality(Ids) + 1
StepsLeft ==
    IF progress # "walking" THEN 0
    ELSE 1 + PerFolder * Cardinality(Ids \ visited)
           + (IF current = Nowhere THEN 0 ELSE 1 + 2 * Cardinality(Ids \ got))
           + Cardinality(stack)

AtMost == StepsLeft \in 0 .. PerFolder * Cardinality(Ids) + 2

Advances == StepsLeft' < StepsLeft \/ UNCHANGED walkVars

(* The sets it is made of are finite.                                      *)
LEMMA StepsFinite ==
    ASSUME NEW s, s \subseteq Ids
    PROVE  /\ IsFiniteSet(s) /\ Cardinality(s) \in Nat
           /\ \A x \in s : Cardinality(s \ {x}) = Cardinality(s) - 1
           /\ \A x : Cardinality(s \cup {x}) <= Cardinality(s) + 1
<1>1. IsFiniteSet(s) /\ Cardinality(s) \in Nat
  BY DriveAssumption, FS_Subset, FS_CardinalityType
<1>2. ASSUME NEW x \in s PROVE Cardinality(s \ {x}) = Cardinality(s) - 1
  BY <1>1, FS_RemoveElement
<1>3. ASSUME NEW x PROVE Cardinality(s \cup {x}) <= Cardinality(s) + 1
  <2>1. CASE x \in s
    <3>1. s \cup {x} = s
      BY <2>1
    <3> QED
      BY <1>1, <3>1
  <2>2. CASE x \notin s
    BY <1>1, <2>2, FS_AddElement
  <2> QED
    BY <2>1, <2>2
<1> QED
  BY <1>1, <1>2, <1>3

(* A walk that goes on has a step left.                                    *)
LEMMA StepsTyped ==
    ASSUME WalkTyped
    PROVE  /\ Cardinality(Ids) \in Nat /\ PerFolder \in Nat
           /\ Cardinality(Ids \ visited) \in Nat /\ Cardinality(Ids \ got) \in Nat
           /\ Cardinality(stack) \in Nat
           /\ PerFolder * Cardinality(Ids \ visited) \in Nat
           /\ StepsLeft \in Nat
           /\ progress = "walking" => StepsLeft > 0
<1>1. /\ Cardinality(Ids) \in Nat /\ Cardinality(Ids \ visited) \in Nat
      /\ Cardinality(Ids \ got) \in Nat /\ Cardinality(stack) \in Nat
  <2>1. Ids \subseteq Ids /\ Ids \ visited \subseteq Ids /\ Ids \ got \subseteq Ids
        /\ stack \subseteq Ids
    BY DEF WalkTyped
  <2> QED
    BY <2>1, StepsFinite
<1>2. PerFolder \in Nat
  BY <1>1 DEF PerFolder
<1>3. PerFolder * Cardinality(Ids \ visited) \in Nat
  <2>1. \A a, b \in Nat : a * b \in Nat
    OBVIOUS
  <2> QED
    BY <1>1, <1>2, <2>1
<1>4. StepsLeft \in Nat /\ (progress = "walking" => StepsLeft > 0)
  <2> DEFINE product == PerFolder * Cardinality(Ids \ visited)
  <2> HIDE DEF product
  <2>1. StepsLeft = IF progress # "walking" THEN 0
                    ELSE 1 + product
                           + (IF current = Nowhere THEN 0 ELSE 1 + 2 * Cardinality(Ids \ got))
                           + Cardinality(stack)
    BY DEF StepsLeft, product
  <2>2. product \in Nat
    BY <1>3 DEF product
  <2> QED
    BY <1>1, <2>1, <2>2
<1> QED
  BY <1>1, <1>2, <1>3, <1>4

(* A folder that was not visited pays for all it may hold.                 *)
LEMMA PopAdvances ==
    ASSUME WalkTyped, NEW f \in Ids, Pop(f)
    PROVE  StepsLeft' < StepsLeft
<1>0. /\ progress = "walking" /\ progress' = "walking" /\ current = Nowhere
      /\ f \in stack /\ stack' = stack \ {f} /\ visited' = visited \cup {f}
      /\ f # Nowhere /\ stack \subseteq Ids /\ visited \subseteq Ids
  BY DriveAssumption DEF Pop, WalkTyped
<1>1. /\ Cardinality(Ids) \in Nat /\ PerFolder \in Nat
      /\ Cardinality(Ids \ visited) \in Nat /\ Cardinality(stack) \in Nat
      /\ PerFolder * Cardinality(Ids \ visited) \in Nat
  BY StepsTyped
<1>2. Cardinality(stack') = Cardinality(stack) - 1
  BY <1>0, StepsFinite
<1>3. StepsLeft = 1 + PerFolder * Cardinality(Ids \ visited) + Cardinality(stack)
  <2> DEFINE product == PerFolder * Cardinality(Ids \ visited)
  <2>1. StepsLeft = 1 + product + 0 + Cardinality(stack)
    BY <1>0 DEF StepsLeft
  <2>2. product \in Nat
    BY <1>1
  <2> HIDE DEF product
  <2>3. StepsLeft = 1 + product + Cardinality(stack)
    BY <1>1, <2>1, <2>2
  <2> QED
    BY <2>3 DEF product
<1>4. CASE f \in visited
  <2>1. visited' = visited /\ current' = Nowhere
    BY <1>0, <1>4 DEF Pop
  <2> DEFINE product == PerFolder * Cardinality(Ids \ visited)
  <2>2. StepsLeft' = 1 + product + 0 + Cardinality(stack')
    BY <1>0, <2>1 DEF StepsLeft
  <2>3. product \in Nat
    BY <1>1
  <2> HIDE DEF product
  <2>4. StepsLeft = 1 + product + Cardinality(stack)
    BY <1>3 DEF product
  <2> QED
    BY <1>1, <1>2, <2>2, <2>3, <2>4
<1>5. CASE f \notin visited
  <2> DEFINE c == Cardinality(Ids \ visited)
             less == PerFolder * (c - 1)
  <2>1. current' = f /\ got' = {}
    BY <1>0, <1>5 DEF Pop
  <2>2. Cardinality(Ids \ visited') = c - 1
    <3>1. Ids \ visited' = (Ids \ visited) \ {f} /\ f \in Ids \ visited
      BY <1>0, <1>5
    <3>2. Ids \ visited \subseteq Ids
      OBVIOUS
    <3> QED
      BY <3>1, <3>2, StepsFinite
  <2>3. Ids \ got' = Ids
    BY <2>1
  <2>4. StepsLeft' = 1 + less + (1 + 2 * Cardinality(Ids)) + Cardinality(stack')
    BY <1>0, <2>1, <2>2, <2>3 DEF StepsLeft
  <2>5. less = PerFolder * c - PerFolder /\ PerFolder * c \in Nat
    <3>1. \A a, b \in Nat : a * (b - 1) = a * b - a
      OBVIOUS
    <3> QED
      BY <1>1, <3>1
  <2> DEFINE product == PerFolder * c
  <2>6. StepsLeft = 1 + product + Cardinality(stack)
    BY <1>3
  <2> HIDE DEF less, product, c
  <2>7. less = product - PerFolder /\ product \in Nat
    BY <2>5 DEF product
  <2> QED
    BY <1>1, <1>2, <2>4, <2>6, <2>7 DEF PerFolder
<1> QED
  BY <1>4, <1>5

(* An entry that is listed pays for the folder it may push.                *)
LEMMA ListedAdvances ==
    ASSUME DriveTyped, WalkTyped, NEW i \in Ids, Listed(i)
    PROVE  StepsLeft' < StepsLeft
<1> DEFINE f == Resolved(i)
           product == PerFolder * Cardinality(Ids \ visited)
<1>0. /\ progress = "walking" /\ progress' = "walking"
      /\ i \in Children(current) \ got /\ got' = got \cup {i}
      /\ visited' = visited /\ current' = current
      /\ stack' = stack \cup {f.id} \/ stack' = stack
      /\ stack \subseteq Ids /\ got \subseteq Ids
  BY DEF Listed, WalkTyped
<1>1. current # Nowhere
  <2>1. current \in ParentsOf(tree[i]) /\ tree[i].parents \in Seq(Ids)
    BY <1>0 DEF Children, DriveTyped, EntrySet
  <2>2. current \in Ids
    BY <2>1 DEF ParentsOf, ToSet
  <2> QED
    BY <2>2, DriveAssumption
<1>2. /\ Cardinality(Ids \ got) \in Nat /\ Cardinality(stack) \in Nat /\ product \in Nat
  BY StepsTyped
<1>3. Cardinality(Ids \ got') = Cardinality(Ids \ got) - 1
  <2>1. Ids \ got' = (Ids \ got) \ {i} /\ i \in Ids \ got /\ Ids \ got \subseteq Ids
    BY <1>0
  <2> QED
    BY <2>1, StepsFinite
<1>4. Cardinality(stack') <= Cardinality(stack) + 1 /\ Cardinality(stack') \in Nat
  <2>1. Cardinality(stack') <= Cardinality(stack) + 1
    <3>1. CASE stack' = stack
      BY <1>2, <3>1
    <3>2. CASE stack' = stack \cup {f.id}
      BY <1>0, <3>2, StepsFinite
    <3> QED
      BY <1>0, <3>1, <3>2
  <2>2. stack' \subseteq Ids
    BY <1>0, ResolvedIs
  <2> QED
    BY <2>1, <2>2, StepsFinite
<1>5. StepsLeft = 1 + product + (1 + 2 * Cardinality(Ids \ got)) + Cardinality(stack)
  BY <1>0, <1>1 DEF StepsLeft
<1>6. StepsLeft' = 1 + product + (1 + 2 * Cardinality(Ids \ got')) + Cardinality(stack')
  BY <1>0, <1>1 DEF StepsLeft
<1> HIDE DEF product, f
<1> QED
  BY <1>2, <1>3, <1>4, <1>5, <1>6

(* The last page of a folder, and the end.                                 *)
LEMMA EndAdvances ==
    ASSUME WalkTyped, LastPage \/ Finished \/ CallFails
    PROVE  StepsLeft' < StepsLeft
<1> DEFINE product == PerFolder * Cardinality(Ids \ visited)
<1>1. /\ Cardinality(Ids \ got) \in Nat /\ Cardinality(stack) \in Nat /\ product \in Nat
      /\ progress = "walking" => StepsLeft > 0
  BY StepsTyped
<1>2. CASE LastPage
  <2>1. StepsLeft = 1 + product + (1 + 2 * Cardinality(Ids \ got)) + Cardinality(stack)
    BY <1>2 DEF LastPage, StepsLeft
  <2>2. StepsLeft' = 1 + product + 0 + Cardinality(stack)
    BY <1>2 DEF LastPage, StepsLeft
  <2> HIDE DEF product
  <2> QED
    BY <1>1, <2>1, <2>2
<1>3. CASE Finished \/ CallFails
  <2>1. progress = "walking" /\ StepsLeft' = 0
    BY <1>3 DEF Finished, CallFails, StepsLeft
  <2> QED
    BY <1>1, <2>1
<1> QED
  BY <1>2, <1>3

(* Every step of the walk lowers the number.                               *)
LEMMA NextAdvances == WalkInv /\ [DriveNext]_driveVars => [Advances]_driveVars
<1> SUFFICES ASSUME WalkInv, DriveNext, driveVars' # driveVars PROVE Advances
  OBVIOUS
<1>1. DriveTyped /\ WalkTyped
  BY DEF WalkInv
<1>2. ASSUME NEW i \in Ids, Pop(i) \/ Listed(i) PROVE Advances
  BY <1>1, <1>2, PopAdvances, ListedAdvances DEF Advances
<1>3. CASE LastPage \/ Finished \/ CallFails
  BY <1>1, <1>3, EndAdvances DEF Advances
<1>4. ASSUME NEW i \in Ids, NEW parents \in Moves, Move(i, parents) PROVE Advances
  BY <1>4 DEF Move, Advances
<1>5. CASE progress # "walking" /\ UNCHANGED driveVars
  BY <1>5 DEF driveVars, Advances
<1> QED
  BY <1>2, <1>3, <1>4, <1>5 DEF DriveNext

(* Before the first step it is at its highest.                             *)
LEMMA InitAtMost == DriveInit => AtMost
<1> SUFFICES ASSUME DriveInit PROVE AtMost
  OBVIOUS
<1> DEFINE product == PerFolder * Cardinality(Ids)
<1>1. WalkTyped
  BY InitWalk DEF WalkInv
<1>2. StepsLeft \in Nat
  BY <1>1, StepsTyped
<1>3. StepsLeft = 1 + product + 0 + 1
  <2>1. Ids \ visited = Ids
    BY DEF DriveInit
  <2>2. Cardinality(stack) = 1
    BY FS_Singleton DEF DriveInit
  <2> QED
    BY <2>1, <2>2 DEF DriveInit, StepsLeft
<1>4. product \in Nat
  <2>1. Ids \ visited = Ids
    BY DEF DriveInit
  <2> QED
    BY <1>1, <2>1, StepsTyped
<1> HIDE DEF product
<1>5. StepsLeft <= product + 2
  BY <1>3, <1>4
<1> QED
  BY <1>2, <1>4, <1>5 DEF AtMost, product

(* What is left after a step, is left then.                                *)
LEMMA StepsThen == WalkInv' => (StepsLeft \in Nat)'
<1>1. WalkInv => StepsLeft \in Nat
  BY StepsTyped DEF WalkInv
<1> QED
  BY <1>1, PTL

(* It never rises.                                                         *)
LEMMA NextAtMost == WalkInv /\ WalkInv' /\ AtMost /\ [DriveNext]_driveVars => AtMost'
<1> SUFFICES ASSUME WalkInv, WalkInv', AtMost, [DriveNext]_driveVars PROVE AtMost'
  OBVIOUS
<1> DEFINE most == PerFolder * Cardinality(Ids) + 2
<1>1. StepsLeft' \in Nat
  BY StepsThen
<1>2. [Advances]_driveVars
  BY NextAdvances
<1>3. UNCHANGED walkVars => StepsLeft' = StepsLeft
  BY DEF walkVars, StepsLeft
<1>4. StepsLeft' < StepsLeft \/ StepsLeft' = StepsLeft
  BY <1>2, <1>3 DEF Advances, driveVars
<1>5. StepsLeft \in Nat /\ StepsLeft <= most /\ most \in Int
  <2>1. Cardinality(Ids) \in Nat /\ PerFolder \in Nat
    BY StepsTyped DEF WalkInv
  <2>2. \A a, b \in Nat : a * b + 2 \in Int
    OBVIOUS
  <2>3. most \in Int
    BY <2>1, <2>2
  <2> QED
    BY <2>3 DEF AtMost
<1> HIDE DEF most
<1>6. StepsLeft' \in 0 .. most
  BY <1>1, <1>4, <1>5
<1> QED
  BY <1>6 DEF AtMost, most

(* A walk makes a bounded number of steps, however many shortcuts close    *)
(* cycles and whatever is moved meanwhile, as often as anyone likes.       *)
THEOREM WalkIsBounded == DriveSpec => []AtMost /\ [][Advances]_driveVars
<1>1. WalkInv /\ [DriveNext]_driveVars => WalkInv'
  BY NextWalk
<1> QED
  BY <1>1, InitWalk, InitAtMost, NextAtMost, NextAdvances, PTL DEF DriveSpec
=============================================================================
