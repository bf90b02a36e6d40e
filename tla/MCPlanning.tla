----------------------------- MODULE MCPlanning -----------------------------
(***************************************************************************)
(* An operator's config of three departments and two gatherers at most,    *)
(* and requests that narrow it, exceed it or are refused.                  *)
(***************************************************************************)
EXTENDS Planning

CONSTANTS engineering, finance, hr, fable, opus

OneConfig == {[departments |-> {engineering, finance, hr}, max_gatherers |-> 2,
               max_retries |-> 1, veto |-> fable, veto_choices |-> {opus}]}

Asking(n, retries, model, names) ==
    [max_gatherers |-> n, max_retries |-> retries, veto |-> model, departments |-> names]

SomeOverrides ==
    {Asking(Unset, Unset, Unset, Unset),
     Asking(1, 0, opus, Unset),
     Asking(64, 10, Unset, {engineering, hr}),
     Asking(Unset, Unset, fable, Unset),
     Asking(Unset, Unset, Unset, {})}
=============================================================================
