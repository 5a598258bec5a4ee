---------------------------- MODULE MCMemoryPool ----------------------------
(***************************************************************************)
(* MemoryPool for TLC: two threads and two classes of different sizes.     *)
(***************************************************************************)
EXTENDS MemoryPool

CONSTANTS small, large      \* model values for the size classes

MCClassBytes == [c \in Classes |-> IF c = large THEN 2 ELSE 1]
=============================================================================
