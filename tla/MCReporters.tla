---------------------------- MODULE MCReporters -----------------------------
(* The falco-agent, the realtime-reporter and the byte accounting of the     *)
(* network-flow agent, with nothing in common: a behaviour is a behaviour of *)
(* one of them, chosen at the start, while the others stay in an initial     *)
(* state.                                                                    *)
EXTENDS Reporters, DeltaTracker, TLC

CONSTANTS c1, c2

VARIABLE plugin

\* Swapping the keys of the tracker changes nothing.
ConnSymmetry == Permutations({c1, c2})

falcoVars == <<clock, post, name, file, old, get, left, report, err, due, raced, spoilt>>
realtimeVars == <<object, known, watching, queue, view, trouble, stale>>

MCInit ==
  /\ plugin \in {"falco", "realtime", "tracker"}
  /\ Falco!Init
  /\ Realtime!Init /\ (plugin = "realtime" \/ object = [o \in Objects |-> 0])
  /\ Init

FalcoNext ==
  /\ plugin = "falco" /\ Falco!Next
  /\ UNCHANGED <<plugin, realtimeVars, vars>>

RealtimeNext ==
  /\ plugin = "realtime" /\ Realtime!Next
  /\ UNCHANGED <<plugin, falcoVars, vars>>

TrackerNext ==
  /\ plugin = "tracker" /\ Next
  /\ UNCHANGED <<plugin, falcoVars, realtimeVars>>

MCNext == FalcoNext \/ RealtimeNext \/ TrackerNext

MCSpec == MCInit /\ [][MCNext]_<<plugin, falcoVars, realtimeVars, vars>>
=============================================================================
