--------------------------- MODULE MCRunLifecycle ---------------------------
(* Instances of RunLifecycle for TLC.                                      *)
EXTENDS RunLifecycle, TLC

CONSTANTS r1, r2, a1, a2

\* Processes of one kind are interchangeable: used where only safety is checked.
Interchangeable == Permutations(Runtimes) \cup Permutations(Approvers)

=============================================================================
