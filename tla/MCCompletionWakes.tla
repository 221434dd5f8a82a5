------------------------- MODULE MCCompletionWakes --------------------------
(* Model checking CompletionWakes: one job, two visitors, a budget of one. *)
EXTENDS CompletionWakes
=============================================================================
