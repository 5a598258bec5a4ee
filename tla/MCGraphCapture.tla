--------------------------- MODULE MCGraphCapture ---------------------------
(***************************************************************************)
(* GraphCapture for TLC: a thread with two names, which it may nest, and a *)
(* thread with one.                                                        *)
(***************************************************************************)
EXTENDS GraphCapture

CONSTANTS t1, t2, forward, backward, other

MCOwner == [g \in Graphs |-> IF g = other THEN t2 ELSE t1]
MCStrict == [g \in Graphs |-> g # backward]
=============================================================================
