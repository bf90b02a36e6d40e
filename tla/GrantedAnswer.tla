--------------------------- MODULE GrantedAnswer ---------------------------
(***************************************************************************)
(* What the gathering half of the program promises, without saying how:    *)
(* what a run may use is settled once, before anything is looked for; its  *)
(* answer material then arrives in one piece, inside that grant, and       *)
(* neither changes afterwards.  A run may also end with no material.       *)
(***************************************************************************)
CONSTANTS Runs, Departments, Paths

VARIABLES stage, granted, material

Item == Departments \X Paths

Init == /\ stage = [r \in Runs |-> "waiting"]
        /\ granted = [r \in Runs |-> {}]
        /\ material = [r \in Runs |-> {}]

Grant(r) == /\ stage[r] = "waiting"
            /\ stage' = [stage EXCEPT ![r] = "granted"]
            /\ granted' \in {[granted EXCEPT ![r] = items] : items \in SUBSET Item}
            /\ UNCHANGED material

Deliver(r) == /\ stage[r] = "granted"
              /\ stage' = [stage EXCEPT ![r] = "delivered"]
              /\ material' \in {[material EXCEPT ![r] = items]
                                  : items \in SUBSET granted[r]}
              /\ UNCHANGED granted

Drop(r) == /\ stage[r] \in {"waiting", "granted"}
           /\ stage' = [stage EXCEPT ![r] = "dropped"]
           /\ UNCHANGED <<granted, material>>

Next == \E r \in Runs : Grant(r) \/ Deliver(r) \/ Drop(r)

vars == <<stage, granted, material>>

Spec == Init /\ [][Next]_vars
=============================================================================
