---------------------------- MODULE MCKernelCache ----------------------------
(* Two builds of two kernels, one of which has two dtypes. *)
EXTENDS KernelCache, TLC

CONSTANTS b1, b2

MCBuilds == {b1, b2}
MCKernels == <<"add", "gelu">>
MCDtypesOf == [add |-> <<"bf16", "fp32">>, gelu |-> <<"bf16">>]
Symmetry == Permutations(MCBuilds)
=============================================================================
