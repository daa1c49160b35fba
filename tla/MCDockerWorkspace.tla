-------------------------- MODULE MCDockerWorkspace --------------------------
(* The constants of the instances of DockerWorkspace.                      *)
EXTENDS DockerWorkspace, TLC

CONSTANTS c1, c2, c3

ThreeContainers == {c1, c2, c3}

\* Container ids are alike.
Alike == Permutations(ThreeContainers)

=============================================================================
