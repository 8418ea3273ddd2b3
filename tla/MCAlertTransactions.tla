------------------------ MODULE MCAlertTransactions ------------------------
(* Small instances of AlertTransactions: runs that detect one incident or    *)
(* both, in an execution and its replays.                                    *)
EXTENDS AlertTransactions, TLC

CONSTANTS i1, i2, i3, x1, x2, r1, r2, o1, j1, j2, Found

Critical == [severity |-> "CRITICAL", seen |-> 0]

MCRuns == {[x |-> x, attempt |-> 1, findings |-> [k \in K |-> Critical]] :
             x \in Execution, K \in Found}

Both == {{1, 2}}

OneOrBoth == {{1}, {1, 2}}

Symmetry == Permutations(Execution) \cup Permutations(Recorder)

=============================================================================
