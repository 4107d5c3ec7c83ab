--------------------------- MODULE MCAgentClient ---------------------------
(* AgentClient for TLC: two runners race at the queue.                     *)
EXTENDS AgentClient

CONSTANTS r1, r2
=============================================================================
