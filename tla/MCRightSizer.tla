---------------------------- MODULE MCRightSizer ----------------------------
(* RightSizer for TLC: one workload whose pod has two containers.          *)
EXTENDS RightSizer, TLC

CONSTANTS w1, c1, c2

\* Swapping the containers changes nothing.
ContainerSymmetry == Permutations({c1, c2})
=============================================================================
