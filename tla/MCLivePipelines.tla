-------------------------- MODULE MCLivePipelines --------------------------
(* LivePipelines for TLC: the cameras are interchangeable.                 *)
EXTENDS LivePipelines, TLC

Symmetry == Permutations(Cameras)
=============================================================================
