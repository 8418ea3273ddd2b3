-------------------------- MODULE MCAlertLifecycle --------------------------
(* Small instances of AlertLifecycle. *)
EXTENDS AlertLifecycle, TLC

CONSTANTS k1, k2, i1, i2, x1, x2, x3

\* Executions and incidents are interchangeable.
Symmetry == Permutations(Execution) \cup Permutations(Incident)

=============================================================================
