------------------------------- MODULE MCLogin -------------------------------
(***************************************************************************)
(* Two threads and two addresses; permissions.yaml defines both roles or   *)
(* one of them.                                                            *)
(***************************************************************************)
EXTENDS Login

CONSTANTS analyst, admin

SomeGrants == {{analyst, admin}, {analyst}}
=============================================================================
