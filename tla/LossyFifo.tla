------------------------------ MODULE LossyFifo ------------------------------
(***************************************************************************)
(* What a flow-event buffer promises its callers, whatever its data        *)
(* structure: the agent's pending queue and the aggregator's event store   *)
(* both implement it.                                                      *)
(*                                                                         *)
(* Events are numbered in the order the buffer accepted them.  A buffer    *)
(* may lose an event it has not forwarded yet, and counts it; it never     *)
(* forwards an event twice, never invents one, and never forwards an event *)
(* after a younger one.                                                    *)
(***************************************************************************)
EXTENDS Integers, FiniteSets

VARIABLES
  accepted,   \* how many events the buffer has accepted so far
  pending,    \* the numbers of the events that may still be forwarded
  forwarded,  \* the numbers of the events that were forwarded
  lost        \* how many events were given up

vars == <<accepted, pending, forwarded, lost>>

Init ==
  /\ accepted = 0
  /\ pending = {}
  /\ forwarded = {}
  /\ lost = 0

\* New events arrive; making room for them may cost any pending ones.
Accept ==
  \E n \in 1..(accepted' - accepted) :
    LET offered == pending \cup ((accepted + 1)..(accepted + n)) IN
      /\ accepted' = accepted + n
      /\ pending' \subseteq offered
      /\ lost' = lost + Cardinality(offered \ pending')
      /\ UNCHANGED forwarded

\* Pending events are given up without anything arriving.
Lose ==
  /\ pending' \subseteq pending
  /\ lost' = lost + Cardinality(pending \ pending')
  /\ UNCHANGED <<accepted, forwarded>>

\* The oldest pending events are forwarded together.
Forward ==
  \E batch \in {pending \ pending'} :
    /\ pending' \subseteq pending
    /\ \A x \in batch, y \in pending' : x < y
    /\ forwarded' = forwarded \cup batch
    /\ UNCHANGED <<accepted, lost>>

Next == Accept \/ Lose \/ Forward

Spec == Init /\ [][Next]_vars
=============================================================================
