--------------------------- MODULE ReviewedAnswer --------------------------
(***************************************************************************)
(* What the second half of a run promises.  A draft that was approved is   *)
(* never rewritten and a draft that was not reviewed never ships; a vetoed *)
(* one ships only with the last review of the budget.                      *)
(***************************************************************************)
EXTENDS Naturals

CONSTANTS Runs, Drafts, NoDraft,
          Reviews       \* the most reviews a run pays for

VARIABLES draft,        \* the run's current draft
          review,       \* what is known of it
          count,        \* the reviews made so far
          shipped

Init == /\ draft = [r \in Runs |-> NoDraft]
        /\ review = [r \in Runs |-> "pending"]
        /\ count = [r \in Runs |-> 0]
        /\ shipped = [r \in Runs |-> FALSE]

(* A first draft, or one that replaces a vetoed draft.                     *)
Write(r) == /\ draft[r] = NoDraft \/ review[r] = "vetoed"
            /\ ~shipped[r]
            /\ \E d \in Drafts : draft' = [draft EXCEPT ![r] = d]
            /\ review' = [review EXCEPT ![r] = "pending"]
            /\ UNCHANGED <<count, shipped>>

(* The current draft is reviewed, and may ship with the outcome.           *)
Review(r) == /\ draft[r] # NoDraft
             /\ review[r] = "pending"
             /\ count[r] < Reviews
             /\ count' = [count EXCEPT ![r] = @ + 1]
             /\ \E outcome \in {"approved", "vetoed"}, final \in BOOLEAN :
                   /\ final => outcome = "approved" \/ count'[r] = Reviews
                   /\ review' = [review EXCEPT ![r] = outcome]
                   /\ shipped' = [shipped EXCEPT ![r] = final]
             /\ UNCHANGED draft

Next == \E r \in Runs : Write(r) \/ Review(r)

vars == <<draft, review, count, shipped>>

Spec == Init /\ [][Next]_vars
=============================================================================
