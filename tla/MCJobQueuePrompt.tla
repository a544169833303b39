-------------------------- MODULE MCJobQueuePrompt --------------------------
(* JobQueuePrompt for TLC, with symmetric workers. *)
EXTENDS JobQueuePrompt, TLC

Symmetry == Permutations(Workers)
=============================================================================
