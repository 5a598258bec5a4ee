---------------------------- MODULE MCPoolOrder -----------------------------
(***************************************************************************)
(* PoolOrder for TLC: one size class, two streams beside the NULL stream.  *)
(***************************************************************************)
EXTENDS PoolOrder

CONSTANT small     \* a model value for the size class

MCClassBytes == [c \in Classes |-> 1]
MCEvents == [on : Queues, upto : 0..MaxOps]
=============================================================================
