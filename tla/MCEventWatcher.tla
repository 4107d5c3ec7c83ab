--------------------------- MODULE MCEventWatcher ---------------------------
(* EventWatcher for TLC: log entries, and Kubernetes events that are about *)
(* one resource.                                                           *)
EXTENDS EventWatcher

CONSTANTS a1, k1, k2, r1

\* Both events are related to the same resource.
OneResource == [v \in KyvernoEvents |-> r1]
=============================================================================
