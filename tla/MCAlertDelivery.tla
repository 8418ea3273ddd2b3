-------------------------- MODULE MCAlertDelivery --------------------------
(* Small instances of AlertDelivery. *)
EXTENDS AlertDelivery, TLC

CONSTANTS k1, k2, i1, x1, x2, s1, s2

Run(x, K, severity) ==
  [x |-> x, attempt |-> 1,
   findings |-> [k \in K |-> [severity |-> severity, seen |-> 0]]]

\* The first execution detects a warning, the second one makes it critical.
Worsening == {Run(x1, {k1}, "WARNING"), Run(x2, {k1}, "CRITICAL")}

\* Two incidents at once.
Together == {Run(x1, {k1, k2}, "CRITICAL")}

Symmetry == Permutations(Sender)

=============================================================================
