---------------------------- MODULE MCFlowStore ----------------------------
(* FlowStore for TLC: two agents whose streams interleave at the store.    *)
EXTENDS FlowStore, TLC

CONSTANTS a1, a2

\* Swapping the agents changes nothing (safety runs only).
AgentSymmetry == Permutations({a1, a2})
=============================================================================
