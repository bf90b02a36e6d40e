----------------------------- MODULE MCPipeline -----------------------------
(***************************************************************************)
(* One run, two texts a model may write, and a retry budget of two: three  *)
(* checks, so that a first, a middle and a last one occur.                 *)
(***************************************************************************)
EXTENDS Pipeline
=============================================================================
