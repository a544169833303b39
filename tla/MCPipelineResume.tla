-------------------------- MODULE MCPipelineResume --------------------------
(* PipelineResume for TLC: overlapping executors are symmetric. *)
EXTENDS PipelineResume, TLC

Symmetry == Permutations(Executors)
=============================================================================
