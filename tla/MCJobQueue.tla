----------------------------- MODULE MCJobQueue -----------------------------
(* JobQueue for TLC: the worker processes of the safety runs are symmetric. *)
EXTENDS JobQueue, TLC

Symmetry == Permutations(Workers) \cup Permutations(Operators)
=============================================================================
