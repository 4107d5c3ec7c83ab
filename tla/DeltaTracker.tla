---------------------------- MODULE DeltaTracker ----------------------------
(***************************************************************************)
(* The byte accounting of the network-flow agent's top_tcp runner          *)
(* (plugins/network-flow/pkg/agent/delta_tracker.go, gadget_top_tcp.go).   *)
(* The gadget hands the runner snapshots of cumulative byte counters, one  *)
(* row per TCP connection; the tracker turns them into TRAFFIC events that *)
(* carry increments.  A connection is known by its pod, container, PID and *)
(* endpoints, so that one that is closed and opened again has the same key *)
(* and a counter that starts again at 0.                                   *)
(*                                                                         *)
(* Bytes sent and bytes received go through the same arithmetic side by    *)
(* side; one direction is modelled.  A row without a pod or a destination  *)
(* is tracked but never becomes an event (mapTrafficDelta); Conns are the  *)
(* connections that have both.                                             *)
(***************************************************************************)
EXTENDS Integers, FiniteSets

CONSTANTS
  Conns,     \* the connection keys (connKey)
  MaxBytes   \* bound: the bytes a key carries in a behaviour

ASSUME MaxBytesAssumption == MaxBytes \in Nat

VARIABLES
  \* ByteDeltaTracker.last; a key that is not tracked has last = emitted = 0
  tracked,   \* the keys of the map
  last,      \* connState.lastSent
  emitted,   \* connState.emittedSent
  seen,      \* connState.seen
  \* the SubscribeArray callback
  poll,      \* "observing" between BeginPoll and EndPoll
  snapshot,  \* the keys of the latest data array
  shot,      \* the counters in it
  rows,      \* the rows of it that Observe has not been called with yet
  \* the kernel
  live,      \* the open connections
  counter,   \* their cumulative counters
  \* history
  reported,  \* the sum of the TRAFFIC events of a key
  carried,   \* the bytes a key has carried
  past,      \* what snapshots showed of a key before its last opening ...
  shown,     \* ... and up to now
  reused     \* the key was opened again before a snapshot missed it

trackerVars == <<tracked, last, emitted, seen>>
pollVars == <<poll, snapshot, shot, rows>>
kernelVars == <<live, counter>>
historyVars == <<reported, carried, past, shown, reused>>
vars == <<trackerVars, pollVars, kernelVars, historyVars>>
-----------------------------------------------------------------------------
(* The tracker                                                             *)

\* Mutant: a counter that went back is not recognised.
DiffIgnoringReset(prev, current) == current - prev

DiffCumulative(prev, current) ==
  IF current >= prev THEN current - prev ELSE current

\* Mutant: the closing flush reports the whole counter.
RemainingIsLast(sum, final) == final

RemainingBytes(sum, final) == IF final >= sum THEN final - sum ELSE final

\* Mutant: the marks of the previous poll are kept.
BeginPollKeepsSeen ==
  /\ poll = "idle"
  /\ poll' = "observing"
  /\ snapshot' = live
  /\ rows' = live
  /\ shot' = [c \in Conns |-> IF c \in live THEN counter[c] ELSE 0]
  /\ shown' = [c \in Conns |-> IF c \in live THEN past[c] + counter[c] ELSE shown[c]]
  /\ UNCHANGED <<trackerVars, kernelVars, reported, carried, past, reused>>

\* The gadget delivers a data array, and BeginPoll clears the marks.
BeginPoll ==
  /\ poll = "idle"
  /\ poll' = "observing"
  /\ seen' = [c \in Conns |-> FALSE]
  /\ snapshot' = live
  /\ rows' = live
  /\ shot' = [c \in Conns |-> IF c \in live THEN counter[c] ELSE 0]
  /\ shown' = [c \in Conns |-> IF c \in live THEN past[c] + counter[c] ELSE shown[c]]
  /\ UNCHANGED <<tracked, last, emitted, kernelVars, reported, carried, past, reused>>

\* The first row of a key is its baseline and reports nothing.
ObserveNew(c) ==
  /\ c \in rows \ tracked
  /\ rows' = rows \ {c}
  /\ tracked' = tracked \cup {c}
  /\ last' = [last EXCEPT ![c] = shot[c]]
  /\ emitted' = [emitted EXCEPT ![c] = 0]
  /\ seen' = [seen EXCEPT ![c] = TRUE]
  /\ UNCHANGED <<poll, snapshot, shot, kernelVars, historyVars>>

\* Every other row reports what was added since the one before.
ObserveKnown(c) ==
  /\ c \in rows \cap tracked
  /\ rows' = rows \ {c}
  /\ last' = [last EXCEPT ![c] = shot[c]]
  /\ seen' = [seen EXCEPT ![c] = TRUE]
  /\ LET delta == DiffCumulative(last[c], shot[c]) IN
       /\ emitted' = [emitted EXCEPT ![c] = @ + delta]
       /\ reported' = [reported EXCEPT ![c] = @ + delta]
  /\ UNCHANGED <<tracked, poll, snapshot, shot, kernelVars, carried, past, shown, reused>>

\* What the snapshot did not show is closed: its baseline is reported now.
EndPoll ==
  LET gone == {c \in tracked : ~seen[c]} IN
  /\ poll = "observing"
  /\ rows = {}
  /\ poll' = "idle"
  /\ tracked' = tracked \ gone
  /\ last' = [c \in Conns |-> IF c \in gone THEN 0 ELSE last[c]]
  /\ emitted' = [c \in Conns |-> IF c \in gone THEN 0 ELSE emitted[c]]
  /\ reported' = [c \in Conns |-> IF c \in gone
                                  THEN reported[c] + RemainingBytes(emitted[c], last[c])
                                  ELSE reported[c]]
  /\ UNCHANGED <<seen, snapshot, shot, rows, kernelVars, carried, past, shown, reused>>
-----------------------------------------------------------------------------
(* The connections                                                         *)

Open(c) ==
  /\ c \notin live
  /\ live' = live \cup {c}
  /\ counter' = [counter EXCEPT ![c] = 0]
  /\ past' = [past EXCEPT ![c] = shown[c]]
  /\ reused' = [reused EXCEPT ![c] = @ \/ c \in snapshot]
  /\ UNCHANGED <<trackerVars, pollVars, reported, carried, shown>>

Transfer(c) ==
  /\ c \in live
  /\ carried[c] < MaxBytes
  /\ counter' = [counter EXCEPT ![c] = @ + 1]
  /\ carried' = [carried EXCEPT ![c] = @ + 1]
  /\ UNCHANGED <<trackerVars, pollVars, live, reported, past, shown, reused>>

Close(c) ==
  /\ c \in live
  /\ live' = live \ {c}
  /\ UNCHANGED <<trackerVars, pollVars, counter, historyVars>>
-----------------------------------------------------------------------------
Init ==
  /\ tracked = {}
  /\ last = [c \in Conns |-> 0]
  /\ emitted = [c \in Conns |-> 0]
  /\ seen = [c \in Conns |-> FALSE]
  /\ poll = "idle"
  /\ snapshot = {}
  /\ shot = [c \in Conns |-> 0]
  /\ rows = {}
  /\ live = {}
  /\ counter = [c \in Conns |-> 0]
  /\ reported = [c \in Conns |-> 0]
  /\ carried = [c \in Conns |-> 0]
  /\ past = [c \in Conns |-> 0]
  /\ shown = [c \in Conns |-> 0]
  /\ reused = [c \in Conns |-> FALSE]

Observe(c) == ObserveNew(c) \/ ObserveKnown(c)

Next ==
  \/ BeginPoll \/ EndPoll
  \/ \E c \in Conns : Observe(c) \/ Open(c) \/ Transfer(c) \/ Close(c)

Spec == Init /\ [][Next]_vars
-----------------------------------------------------------------------------
(* Properties                                                              *)

\* The types of the byte counts.
BytesTypeOK ==
  /\ last \in [Conns -> Nat]
  /\ emitted \in [Conns -> Nat]
  /\ shot \in [Conns -> Nat]
  /\ counter \in [Conns -> Nat]
  /\ reported \in [Conns -> Nat]
  /\ carried \in [Conns -> Nat]
  /\ past \in [Conns -> Nat]
  /\ shown \in [Conns -> Nat]

\* The types of the sets and the flags.
SetsTypeOK ==
  /\ tracked \subseteq Conns
  /\ snapshot \subseteq Conns
  /\ rows \subseteq snapshot
  /\ live \subseteq Conns
  /\ seen \in [Conns -> BOOLEAN]
  /\ reused \in [Conns -> BOOLEAN]
  /\ poll \in {"idle", "observing"}

\* The variables stay in their types: no uint64 subtraction wraps around, not
\* even when a counter starts again at 0.
TypeOK == BytesTypeOK /\ SetsTypeOK

\* The table does not grow with closed connections: after EndPoll it holds
\* exactly the keys of the latest snapshot.
TableIsLastSnapshot == poll = "idle" => tracked = snapshot

\* Baseline, increments and closing flush add up: of a key that was not opened
\* again between two snapshots, every byte a snapshot showed is reported once,
\* either already or when the connection leaves the table.
ShownIsReportedOnce ==
  poll = "idle" =>
    \A c \in Conns :
      ~reused[c] => reported[c] + RemainingBytes(emitted[c], last[c]) = shown[c]

\* delta_tracker.go: a ByteDelta is an increment of the connection's traffic.
\* So the increments never add up to more than the traffic.
NeverOverreports == \A c \in Conns : reported[c] <= carried[c]
=============================================================================
