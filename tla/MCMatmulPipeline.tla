-------------------------- MODULE MCMatmulPipeline --------------------------
(* A block of four warps, up to five tiles: each stage is loaded again more than once. *)
EXTENDS MatmulPipeline, TLC

CONSTANTS w1, w2, w3, w4

MCWarps == {w1, w2, w3, w4}
Symmetry == Permutations(MCWarps)
=============================================================================
