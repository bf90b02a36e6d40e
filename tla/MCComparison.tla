---------------------------- MODULE MCComparison ----------------------------
(***************************************************************************)
(* An admin and an analyst, over a local department that the one config    *)
(* takes from the analyst and a cloud one that the other may; the          *)
(* permissions config may be saved, or the local document deleted or       *)
(* written, while the sides run.                                           *)
(***************************************************************************)
EXTENDS Comparison

CONSTANTS analyst, admin, eng, hr, pay

MCInside == [d \in Departments |-> Paths]

(* The analyst is granted all but hr, then everything.                     *)
Narrower == [r \in Roles |-> IF r = admin THEN Departments ELSE Departments \ {hr}]
Alike == [r \in Roles |-> Departments]

(* One document in each, of one name: a denial does not say which it is of. *)
OneName == {<<eng, pay>>, <<hr, pay>>}

OpenEnv == [d \in Departments |-> Roles]

(* Approval and anything else (module MCPipeline tells them all apart).    *)
TwoAnswers == {[stop_reason |-> "end_turn", parsed |-> "approve"], NoResponse}

PermissionChoices == {Narrower, Alike}
(* The environment config takes engineering from the analyst.              *)
NotEngineering == {[OpenEnv EXCEPT ![eng] = {admin}]}
=============================================================================
