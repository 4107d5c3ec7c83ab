---------------------------- MODULE MCPolicySync ----------------------------
(* Two jobs; a name that one kind uses, a name that two kinds share, and a   *)
(* policy of another namespace.                                              *)
EXTENDS PolicySync

CONSTANTS j1, j2

MCJobs == {j1, j2}
MCPolicies == {"single", "clusterwide", "namespaced"}
MCName == [p \in MCPolicies |-> IF p = "single" THEN "single" ELSE "shared"]

\* Where no two kinds share a name.
OwnPolicies == {"single", "namespaced"}
OwnName == [p \in OwnPolicies |-> p]
=============================================================================
