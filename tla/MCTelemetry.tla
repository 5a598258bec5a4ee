---------------------------- MODULE MCTelemetry -----------------------------
(***************************************************************************)
(* Telemetry for TLC: one group, of two operations per iteration.          *)
(***************************************************************************)
EXTENDS Telemetry, TLC

CONSTANT direct

\* Hints are only compared.
Symmetry == Permutations(Hints)
MCOps == [g \in Groups |-> 2]
=============================================================================
