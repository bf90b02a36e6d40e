---------------------------- MODULE MCRunServer ----------------------------
(***************************************************************************)
(* Two users, two runs at once, one check each (module MCPipeline has the  *)
(* retries) and a clock that may turn over between the runs.               *)
(***************************************************************************)
EXTENDS RunServer
=============================================================================
