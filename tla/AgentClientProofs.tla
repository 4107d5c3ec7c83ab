-------------------------- MODULE AgentClientProofs --------------------------
(***************************************************************************)
(* For every capacity, batch size and set of runners: the agent's queue    *)
(* keeps its types and drops nothing but its oldest events, no flush       *)
(* request is lost, and queue and counters implement LossyFifo.            *)
(***************************************************************************)
EXTENDS AgentClient, FiniteSetTheorems, SequenceTheorems, TLAPS

\* The sequence q holds the last Len(q) of the events 1..n, in order.
IsNewest(q, n) ==
  /\ Len(q) <= n
  /\ \A i \in 1..Len(q) : q[i] = n - Len(q) + i

\* QueueIsNewest says nothing of the batch in flight, which requeue puts back.
\* What makes that sound: the batch continues into the queue without a gap
\* unless the queue has filled up since, and then nothing of the batch fits.
BatchContinues ==
  Len(events) = MaxPendingEvents \/ IsNewest(batch, accepted - Len(events))

\* The inductive invariant.
QueueInv ==
  /\ QueueTypeOK
  /\ IsNewest(events, accepted)
  /\ BatchContinues
-----------------------------------------------------------------------------
(* Facts about the queue operations                                        *)

\* What enforceMaxLocked leaves: the end of the queue, within the capacity.
LEMMA EnforceMaxKeepsEnd ==
  ASSUME NEW S, NEW q \in Seq(S)
  PROVE  /\ Overflow(Len(q)) \in 0..Len(q)
         /\ EnforceMax(q) \in Seq(S)
         /\ Len(EnforceMax(q)) = Len(q) - Overflow(Len(q))
         /\ Len(EnforceMax(q)) <= MaxPendingEvents
         /\ \A i \in 1..Len(EnforceMax(q)) : EnforceMax(q)[i] = q[i + Overflow(Len(q))]
<1> DEFINE over == Overflow(Len(q))
<1>1. over \in 0..Len(q) /\ Len(q) - over <= MaxPendingEvents
  BY ConstantsAssumption DEF Overflow
<1>2. /\ SubSeq(q, over + 1, Len(q)) \in Seq(S)
      /\ Len(SubSeq(q, over + 1, Len(q))) = Len(q) - over
      /\ \A i \in 1..(Len(q) - over) : SubSeq(q, over + 1, Len(q))[i] = q[i + over]
  BY <1>1
<1> QED
  BY <1>1, <1>2 DEF EnforceMax

\* Appending the next event keeps a sequence the newest.
LEMMA NewestAppend ==
  ASSUME NEW q \in Seq(Nat), NEW n \in Nat, IsNewest(q, n)
  PROVE  IsNewest(Append(q, n + 1), n + 1)
BY DEF IsNewest

\* The end of the newest events is the newest again.
LEMMA NewestSuffix ==
  ASSUME NEW q \in Seq(Nat), NEW n \in Nat, IsNewest(q, n),
         NEW k \in 0..Len(q), NEW r \in Seq(Nat), Len(r) = Len(q) - k,
         \A i \in 1..Len(r) : r[i] = q[i + k]
  PROVE  IsNewest(r, n)
<1>1. ASSUME NEW i \in 1..Len(r) PROVE r[i] = n - Len(r) + i
  <2>1. i + k \in 1..Len(q)
    OBVIOUS
  <2>2. q[i + k] = n - Len(q) + (i + k)
    BY <2>1 DEF IsNewest
  <2> QED
    BY <2>2
<1> QED
  BY <1>1 DEF IsNewest

\* The front of the newest events is the newest before the rest.
LEMMA NewestPrefix ==
  ASSUME NEW q \in Seq(Nat), NEW n \in Nat, IsNewest(q, n),
         NEW k \in 0..Len(q)
  PROVE  IsNewest(SubSeq(q, 1, k), n - (Len(q) - k))
<1>1. /\ Len(SubSeq(q, 1, k)) = k
      /\ \A i \in 1..k : SubSeq(q, 1, k)[i] = q[i]
  OBVIOUS
<1>2. ASSUME NEW i \in 1..k PROVE q[i] = (n - (Len(q) - k)) - k + i
  BY DEF IsNewest
<1>3. k <= n - (Len(q) - k)
  BY DEF IsNewest
<1> QED
  BY <1>1, <1>2, <1>3 DEF IsNewest

\* Two neighbouring stretches make one.
LEMMA NewestConcat ==
  ASSUME NEW b \in Seq(Nat), NEW q \in Seq(Nat), NEW n \in Nat,
         IsNewest(q, n), IsNewest(b, n - Len(q))
  PROVE  IsNewest(b \o q, n)
<1>1. Len(b \o q) = Len(b) + Len(q)
  OBVIOUS
<1>2. ASSUME NEW i \in 1..(Len(b) + Len(q))
      PROVE  (b \o q)[i] = n - (Len(b) + Len(q)) + i
  <2>1. CASE i <= Len(b)
    BY <2>1 DEF IsNewest
  <2>2. CASE i > Len(b)
    <3>1. (b \o q)[i] = q[i - Len(b)] /\ i - Len(b) \in 1..Len(q)
      BY <2>2
    <3> QED
      BY <3>1 DEF IsNewest
  <2> QED
    BY <2>1, <2>2
<1> QED
  BY <1>1, <1>2 DEF IsNewest

\* enforceMaxLocked keeps the newest events.
LEMMA EnforceMaxNewest ==
  ASSUME NEW q \in Seq(Nat), NEW n \in Nat, IsNewest(q, n)
  PROVE  IsNewest(EnforceMax(q), n)
<1> DEFINE r == EnforceMax(q)
           k == Overflow(Len(q))
<1>1. /\ r \in Seq(Nat)
      /\ k \in 0..Len(q)
      /\ Len(r) = Len(q) - k
      /\ \A i \in 1..Len(r) : r[i] = q[i + k]
  BY EnforceMaxKeepsEnd
<1> HIDE DEF r, k
<1>2. IsNewest(r, n)
  BY <1>1, NewestSuffix
<1> QED
  BY <1>2 DEF r

\* A full queue has no room for a batch that comes back.
LEMMA FullQueueTakesNothing ==
  ASSUME NEW b \in Seq(Nat), NEW q \in Seq(Nat), Len(q) = MaxPendingEvents
  PROVE  EnforceMax(b \o q) = q
<1>1. Len(b \o q) = Len(b) + Len(q)
  BY ConcatProperties
<1>2. Overflow(Len(b \o q)) = Len(b)
  BY <1>1, ConstantsAssumption DEF Overflow
<1>3. EnforceMax(b \o q) = SubSeq(b \o q, Len(b) + 1, Len(b) + Len(q))
  BY <1>1, <1>2 DEF EnforceMax
<1> QED
  BY <1>3

\* A doubled and capped backoff is still a positive duration.
LEMMA NextBackoffPositive ==
  ASSUME NEW b \in Nat \ {0}
  PROVE  NextBackoff(b) \in Nat \ {0}
BY ConstantsAssumption DEF NextBackoff
-----------------------------------------------------------------------------
(* QueueInv is inductive                                                   *)

\* The empty queue is the newest of no events.
LEMMA InitQueueInv == Init => QueueInv
<1> SUFFICES ASSUME Init PROVE QueueInv
  OBVIOUS
<1>1. events = <<>> /\ batch = <<>> /\ sent = <<>> /\ accepted = 0
  BY DEF Init
<1>2. QueueTypeOK
  BY <1>1, ConstantsAssumption DEF Init, QueueTypeOK
<1>3. IsNewest(events, accepted) /\ BatchContinues
  BY <1>1 DEF IsNewest, BatchContinues
<1> QED
  BY <1>2, <1>3 DEF QueueInv

\* Enqueue appends the newest event and gives up the oldest ones.
LEMMA EnqueuePreserves ==
  ASSUME QueueInv, NEW r \in Runners, Enqueue(r)
  PROVE  QueueInv'
<1> DEFINE q == Append(events, accepted + 1)
<1>1. /\ events \in Seq(Nat) /\ Len(events) <= MaxPendingEvents /\ accepted \in Nat
      /\ IsNewest(events, accepted)
      /\ droppedPending \in Nat
  BY DEF QueueInv, QueueTypeOK
<1>2. /\ accepted' = accepted + 1
      /\ events' = EnforceMax(q)
      /\ batch' = batch
      /\ droppedPending' = droppedPending + Overflow(Len(events) + 1)
      /\ UNCHANGED <<sent, pendingDropLog, loggedDrops, backoff>>
  BY DEF Enqueue, runVars
<1>3. q \in Seq(Nat) /\ Len(q) = Len(events) + 1
  BY <1>1
<1>4. IsNewest(q, accepted + 1)
  BY <1>1, NewestAppend
<1> HIDE DEF q
<1>5. IsNewest(events', accepted')
  BY <1>1, <1>2, <1>3, <1>4, EnforceMaxNewest
<1>6. /\ Overflow(Len(q)) \in 0..Len(q)
      /\ events' \in Seq(Nat)
      /\ Len(events') = Len(q) - Overflow(Len(q))
      /\ Len(events') <= MaxPendingEvents
  BY <1>2, <1>3, EnforceMaxKeepsEnd
<1>7. BatchContinues'
  <2>1. CASE Len(events) = MaxPendingEvents
    <3>1. Overflow(Len(q)) = 1
      BY <2>1, <1>1, <1>3, ConstantsAssumption DEF Overflow
    <3>2. Len(events') = MaxPendingEvents
      BY <2>1, <3>1, <1>1, <1>3, <1>6
    <3> QED
      BY <3>2 DEF BatchContinues
  <2>2. CASE Len(events) < MaxPendingEvents
    <3>1. Overflow(Len(q)) = 0
      BY <2>2, <1>1, <1>3, ConstantsAssumption DEF Overflow
    <3>2. accepted' - Len(events') = accepted - Len(events)
      BY <3>1, <1>1, <1>2, <1>3, <1>6
    <3>3. IsNewest(batch, accepted - Len(events))
      BY <2>2, <1>1 DEF QueueInv, BatchContinues
    <3> QED
      BY <3>2, <3>3, <1>2 DEF BatchContinues
  <2> QED
    BY <2>1, <2>2, <1>1, ConstantsAssumption
<1>8. QueueTypeOK'
  <2>1. droppedPending' \in Nat
    BY <1>1, <1>2, <1>3, <1>6
  <2> QED
    BY <1>1, <1>2, <1>6, <2>1 DEF QueueInv, QueueTypeOK
<1> QED
  BY <1>5, <1>7, <1>8 DEF QueueInv

\* drainBatchLocked splits the queue in two, so the batch continues into it.
LEMMA DrainBatchPreserves ==
  ASSUME QueueInv, DrainBatch
  PROVE  QueueInv'
<1> DEFINE n == DrainSize
<1>1. /\ events \in Seq(Nat) /\ Len(events) <= MaxPendingEvents /\ accepted \in Nat
      /\ IsNewest(events, accepted)
  BY DEF QueueInv, QueueTypeOK
<1>2. /\ batch' = SubSeq(events, 1, n)
      /\ events' = SubSeq(events, n + 1, Len(events))
      /\ UNCHANGED <<accepted, sent, droppedPending, pendingDropLog, loggedDrops, backoff>>
  BY DEF DrainBatch, historyVars
<1>3. n \in 0..Len(events) /\ n <= BatchSize
  BY <1>1, ConstantsAssumption DEF DrainSize
<1> HIDE DEF n
<1>4. batch' \in Seq(Nat) /\ Len(batch') = n
  BY <1>1, <1>2, <1>3
<1>5. /\ events' \in Seq(Nat)
      /\ Len(events') = Len(events) - n
      /\ \A i \in 1..Len(events') : events'[i] = events[i + n]
  BY <1>1, <1>2, <1>3
<1>6. IsNewest(events', accepted')
  BY <1>1, <1>2, <1>3, <1>5, NewestSuffix
<1>7. BatchContinues'
  <2>1. IsNewest(batch', accepted - (Len(events) - n))
    BY <1>1, <1>2, <1>3, NewestPrefix
  <2> QED
    BY <2>1, <1>2, <1>5 DEF BatchContinues
<1>8. QueueTypeOK'
  <2>1. Len(events') <= MaxPendingEvents /\ Len(batch') <= BatchSize
    BY <1>1, <1>3, <1>4, <1>5, ConstantsAssumption
  <2> QED
    BY <1>2, <1>4, <1>5, <2>1 DEF QueueInv, QueueTypeOK
<1> QED
  BY <1>6, <1>7, <1>8 DEF QueueInv

\* requeue puts back exactly as much of the batch as belongs to the newest
\* events.
LEMMA RequeuePreserves ==
  ASSUME QueueInv, Requeue
  PROVE  QueueInv'
<1> DEFINE q == batch \o events
<1>1. /\ events \in Seq(Nat) /\ batch \in Seq(Nat) /\ accepted \in Nat
      /\ Len(events) <= MaxPendingEvents
      /\ IsNewest(events, accepted)
      /\ droppedPending \in Nat
  BY DEF QueueInv, QueueTypeOK
<1>2. /\ events' = EnforceMax(q)
      /\ batch' = <<>>
      /\ droppedPending' = droppedPending + Overflow(Len(batch) + Len(events))
      /\ UNCHANGED <<accepted, sent, pendingDropLog, loggedDrops, backoff>>
  BY DEF Requeue, historyVars
<1>3. q \in Seq(Nat) /\ Len(q) = Len(batch) + Len(events)
  BY <1>1, ConcatProperties
<1>4. IsNewest(events', accepted')
  <2>1. CASE Len(events) = MaxPendingEvents
    BY <2>1, <1>1, <1>2, FullQueueTakesNothing
  <2>2. CASE IsNewest(batch, accepted - Len(events))
    <3>1. IsNewest(q, accepted)
      BY <2>2, <1>1, NewestConcat
    <3> HIDE DEF q
    <3> QED
      BY <3>1, <1>1, <1>2, <1>3, EnforceMaxNewest
  <2> QED
    BY <2>1, <2>2 DEF QueueInv, BatchContinues
<1> HIDE DEF q
<1>5. /\ Overflow(Len(q)) \in 0..Len(q)
      /\ events' \in Seq(Nat)
      /\ Len(events') <= MaxPendingEvents
  BY <1>2, <1>3, EnforceMaxKeepsEnd
<1>6. BatchContinues'
  <2>1. Len(events') <= accepted' /\ Len(events') \in Nat /\ accepted' \in Nat
    BY <1>1, <1>2, <1>4, <1>5 DEF IsNewest
  <2>2. IsNewest(<<>>, accepted' - Len(events'))
    BY <2>1 DEF IsNewest
  <2> QED
    BY <2>2, <1>2 DEF BatchContinues
<1>7. QueueTypeOK'
  <2>1. droppedPending' \in Nat
    BY <1>1, <1>2, <1>3, <1>5
  <2>2. batch' \in Seq(Nat) /\ Len(batch') <= BatchSize
    BY <1>2, ConstantsAssumption
  <2> QED
    BY <1>2, <1>5, <2>1, <2>2 DEF QueueInv, QueueTypeOK
<1> QED
  BY <1>4, <1>6, <1>7 DEF QueueInv

\* A batch that was sent leaves the queue alone.
LEMMA SendOKPreserves ==
  ASSUME QueueInv, SendOK
  PROVE  QueueInv'
<1>1. /\ batch' = <<>>
      /\ sent' = sent \o batch
      /\ UNCHANGED <<events, accepted, droppedPending, pendingDropLog, loggedDrops, backoff>>
  BY DEF SendOK, queueVars
<1>2. /\ sent \in Seq(Nat) /\ batch \in Seq(Nat) /\ events \in Seq(Nat) /\ accepted \in Nat
      /\ Len(events) <= accepted
  BY DEF QueueInv, QueueTypeOK, IsNewest
<1>3. IsNewest(<<>>, accepted - Len(events))
  BY <1>2 DEF IsNewest
<1>4. BatchContinues' /\ IsNewest(events', accepted')
  BY <1>1, <1>3 DEF QueueInv, BatchContinues
<1>5. QueueTypeOK'
  <2>1. sent' \in Seq(Nat)
    BY <1>1, <1>2, ConcatProperties
  <2>2. batch' \in Seq(Nat) /\ Len(batch') <= BatchSize
    BY <1>1, ConstantsAssumption
  <2> QED
    BY <1>1, <2>1, <2>2 DEF QueueInv, QueueTypeOK
<1> QED
  BY <1>4, <1>5 DEF QueueInv

\* The drop counters stay natural numbers while they are moved to the log.
LEMMA LogDroppedPendingPreserves ==
  ASSUME QueueInv, LogDroppedPending
  PROVE  QueueInv'
<1>1. UNCHANGED <<events, batch, accepted, sent, backoff>>
  BY DEF LogDroppedPending
<1>2. droppedPending' \in Nat /\ pendingDropLog' \in Nat /\ loggedDrops' \in Nat
  BY DEF LogDroppedPending, UnreportedDrops, QueueInv, QueueTypeOK
<1> QED
  BY <1>1, <1>2 DEF QueueInv, QueueTypeOK, BatchContinues

\* What only changes the backoff keeps it positive.
LEMMA BackoffPreserves ==
  ASSUME QueueInv, DialOK \/ Sleep
  PROVE  QueueInv'
<1>1. UNCHANGED <<events, batch, accepted, sent, droppedPending, pendingDropLog, loggedDrops>>
  BY DEF DialOK, Sleep, queueVars, historyVars
<1>2. backoff' \in Nat \ {0}
  <2>1. backoff' = BackoffMin \/ backoff' = NextBackoff(backoff)
    BY DEF DialOK, Sleep
  <2> QED
    BY <2>1, NextBackoffPositive, ConstantsAssumption DEF QueueInv, QueueTypeOK
<1> QED
  BY <1>1, <1>2 DEF QueueInv, QueueTypeOK, BatchContinues

\* A step that touches none of the data preserves the invariant.
LEMMA UnchangedDataPreserves ==
  ASSUME QueueInv,
         UNCHANGED <<events, batch, accepted, sent, droppedPending, pendingDropLog,
                     loggedDrops, backoff>>
  PROVE  QueueInv'
BY DEF QueueInv, QueueTypeOK, BatchContinues

\* Every step preserves the invariant.
LEMMA NextPreservesQueueInv == QueueInv /\ [Next]_vars => QueueInv'
<1> SUFFICES ASSUME QueueInv, [Next]_vars PROVE QueueInv'
  OBVIOUS
<1>1. ASSUME NEW r \in Runners, Enqueue(r) PROVE QueueInv'
  BY <1>1, EnqueuePreserves
<1>2. ASSUME NEW r \in Runners, SignalFlush(r) \/ RunnerStop(r) PROVE QueueInv'
  BY <1>2, UnchangedDataPreserves
  DEF SignalFlush, RunnerStop, queueVars, runVars, historyVars
<1>3. CASE Cancel \/ Exit
  BY <1>3, UnchangedDataPreserves DEF Cancel, Exit, queueVars, runVars, historyVars
<1>4. CASE Stop \/ DialFail \/ SelectTick \/ SelectFlush \/ SelectDone
  BY <1>4, UnchangedDataPreserves
  DEF Stop, DialFail, SelectTick, SelectFlush, SelectDone, queueVars, historyVars
<1>5. CASE DrainNothing \/ SendFail
  BY <1>5, UnchangedDataPreserves DEF DrainNothing, SendFail, queueVars, historyVars
<1>6. CASE DialOK \/ Sleep
  BY <1>6, BackoffPreserves
<1>7. CASE LogDroppedPending
  BY <1>7, LogDroppedPendingPreserves
<1>8. CASE DrainBatch
  BY <1>8, DrainBatchPreserves
<1>9. CASE SendOK
  BY <1>9, SendOKPreserves
<1>10. CASE Requeue
  BY <1>10, RequeuePreserves
<1>11. CASE UNCHANGED vars
  BY <1>11, UnchangedDataPreserves DEF vars, queueVars, runVars, historyVars
<1> QED
  BY <1>1, <1>2, <1>3, <1>4, <1>5, <1>6, <1>7, <1>8, <1>9, <1>10, <1>11
  DEF Next, GadgetRunner, Run
-----------------------------------------------------------------------------
(* The control state                                                       *)

\* No step leaves the types of the control state.
LEMMA NextPreservesControlTypeOK == ControlTypeOK /\ [Next]_vars => ControlTypeOK'
<1> SUFFICES ASSUME ControlTypeOK, [Next]_vars PROVE ControlTypeOK'
  OBVIOUS
<1> USE DEF ControlTypeOK
<1>1. ASSUME NEW r \in Runners, GadgetRunner(r) PROVE ControlTypeOK'
  BY <1>1 DEF GadgetRunner, Enqueue, SignalFlush, RunnerStop, runVars
<1>2. CASE Cancel \/ Exit
  BY <1>2 DEF Cancel, Exit, runVars
<1>3. CASE Stop \/ DialFail \/ DialOK \/ Sleep
  BY <1>3 DEF Stop, DialFail, DialOK, Sleep
<1>4. CASE SelectTick \/ SelectFlush \/ SelectDone
  BY <1>4 DEF SelectTick, SelectFlush, SelectDone
<1>5. CASE LogDroppedPending \/ DrainBatch \/ DrainNothing
  BY <1>5 DEF LogDroppedPending, DrainBatch, DrainNothing
<1>6. CASE SendOK \/ SendFail \/ Requeue
  BY <1>6 DEF SendOK, SendFail, Requeue, ReturnError
<1>7. CASE UNCHANGED vars
  BY <1>7 DEF vars, runVars
<1> QED
  BY <1>1, <1>2, <1>3, <1>4, <1>5, <1>6, <1>7 DEF Next, Run
-----------------------------------------------------------------------------
\* The queue's invariant holds in every reachable state.
THEOREM QueueInvariant == Spec => []QueueInv
BY InitQueueInv, NextPreservesQueueInv, PTL DEF Spec

\* Types and capacity: Client.events never exceeds MaxPendingEvents, whatever
\* Enqueue, drainBatchLocked and requeue do to it.
THEOREM TypeCorrect == Spec => []TypeOK
<1>1. Init => ControlTypeOK
  BY DEF Init, ControlTypeOK
<1>2. QueueInv => QueueTypeOK
  BY DEF QueueInv
<1> QED
  BY <1>1, <1>2, NextPreservesControlTypeOK, QueueInvariant, PTL DEF Spec, TypeOK

\* Drop-oldest: enforceMaxLocked in Enqueue and in requeue together never lose
\* an event that is younger than one they keep.
THEOREM DropsOldest == Spec => []QueueIsNewest
<1>1. QueueInv => QueueIsNewest
  BY DEF QueueInv, IsNewest, QueueIsNewest
<1> QED
  BY <1>1, QueueInvariant, PTL
-----------------------------------------------------------------------------
(* The queue implements the counted lossy FIFO                             *)

Queued == {events[i] : i \in 1..Len(events)}
InFlight == {batch[i] : i \in 1..Len(batch)}

\* The batch in flight is a stretch of consecutive events that are all older than the
\* queue, and there is one only between drainBatchLocked and the end of Send or requeue.
BatchInv ==
  /\ \E k \in Nat : IsNewest(batch, k) /\ k <= accepted - Len(events)
  /\ pc \notin {"send", "requeue"} => batch = <<>>

\* No event is both queued and in flight, so the pending events can be counted.
PendingFacts ==
  /\ Len(events) \in Nat /\ Len(batch) \in Nat /\ accepted \in Nat
  /\ IsFiniteSet(Pending)
  /\ Cardinality(Pending) = Len(events) + Len(batch)
  /\ Queued \cap InFlight = {}
  /\ \A x \in Pending : x \in Nat /\ x <= accepted
  /\ droppedPending \in Nat /\ pendingDropLog \in Nat /\ loggedDrops \in Nat

\* A stretch of consecutive events is a range, as large as it is long.
LEMMA StretchIsRange ==
  ASSUME NEW q \in Seq(Nat), NEW n \in Nat, IsNewest(q, n)
  PROVE  LET ids == {q[i] : i \in 1..Len(q)} IN
         /\ ids = (n - Len(q) + 1)..n
         /\ IsFiniteSet(ids)
         /\ Cardinality(ids) = Len(q)
<1> DEFINE ids == {q[i] : i \in 1..Len(q)}
<1>1. Len(q) \in Nat /\ Len(q) <= n /\ \A i \in 1..Len(q) : q[i] = n - Len(q) + i
  BY DEF IsNewest
<1>2. ASSUME NEW x \in ids PROVE x \in (n - Len(q) + 1)..n
  BY <1>1
<1>3. ASSUME NEW x \in (n - Len(q) + 1)..n PROVE x \in ids
  <2>1. x - (n - Len(q)) \in 1..Len(q) /\ n - Len(q) + (x - (n - Len(q))) = x
    BY <1>1
  <2>2. q[x - (n - Len(q))] = x
    BY <1>1, <2>1
  <2> QED
    BY <2>1, <2>2
<1>4. ids = (n - Len(q) + 1)..n
  BY <1>2, <1>3
<1>5. n - Len(q) + 1 \in Int /\ n \in Int
  BY <1>1
<1>6. /\ IsFiniteSet((n - Len(q) + 1)..n)
      /\ Cardinality((n - Len(q) + 1)..n)
           = IF n - Len(q) + 1 > n THEN 0 ELSE n - (n - Len(q) + 1) + 1
  BY <1>5, FS_Interval
<1>7. Cardinality((n - Len(q) + 1)..n) = Len(q)
  BY <1>1, <1>6
<1> QED
  BY <1>4, <1>6, <1>7

\* Two finite sets with nothing in common.
LEMMA DisjointUnion ==
  ASSUME NEW S, IsFiniteSet(S), NEW R, IsFiniteSet(R), S \cap R = {}
  PROVE  /\ IsFiniteSet(S \cup R)
         /\ Cardinality(S \cup R) = Cardinality(S) + Cardinality(R)
<1>1. /\ IsFiniteSet(S \cup R)
      /\ Cardinality(S \cup R) = Cardinality(S) + Cardinality(R) - Cardinality(S \cap R)
  BY FS_Union
<1>2. Cardinality(S \cap R) = 0 /\ Cardinality(S) \in Nat /\ Cardinality(R) \in Nat
  BY FS_EmptySet, FS_CardinalityType
<1> QED
  BY <1>1, <1>2

\* Queue and batch are disjoint ranges.
LEMMA PendingCounted == QueueInv /\ BatchInv => PendingFacts
<1> SUFFICES ASSUME QueueInv, BatchInv PROVE PendingFacts
  OBVIOUS
<1>1. /\ events \in Seq(Nat) /\ batch \in Seq(Nat) /\ accepted \in Nat
      /\ Len(events) \in Nat /\ Len(batch) \in Nat
      /\ droppedPending \in Nat /\ pendingDropLog \in Nat /\ loggedDrops \in Nat
      /\ IsNewest(events, accepted)
  BY DEF QueueInv, QueueTypeOK
<1>2. PICK k \in Nat : IsNewest(batch, k) /\ k <= accepted - Len(events)
  BY DEF BatchInv
<1>3. /\ Queued = (accepted - Len(events) + 1)..accepted
      /\ IsFiniteSet(Queued) /\ Cardinality(Queued) = Len(events)
  BY <1>1, StretchIsRange DEF Queued
<1>4. /\ InFlight = (k - Len(batch) + 1)..k
      /\ IsFiniteSet(InFlight) /\ Cardinality(InFlight) = Len(batch)
  BY <1>1, <1>2, StretchIsRange DEF InFlight
<1>5. Queued \cap InFlight = {} /\ Pending = Queued \cup InFlight
  <2>1. ASSUME NEW x \in (accepted - Len(events) + 1)..accepted PROVE x \notin (k - Len(batch) + 1)..k
    BY <1>1, <1>2
  <2>2. Queued \cap InFlight = {}
    BY <1>3, <1>4, <2>1
  <2>3. Pending = Queued \cup InFlight
    BY DEF Pending, Queued, InFlight
  <2> QED
    BY <2>2, <2>3
<1>6. IsFiniteSet(Pending) /\ Cardinality(Pending) = Len(events) + Len(batch)
  <2>1. /\ IsFiniteSet(Queued \cup InFlight)
        /\ Cardinality(Queued \cup InFlight) = Cardinality(Queued) + Cardinality(InFlight)
    BY <1>3, <1>4, <1>5, DisjointUnion
  <2>2. IsFiniteSet(Pending) /\ Cardinality(Pending) = Cardinality(Queued) + Cardinality(InFlight)
    BY <1>5, <2>1
  <2> QED
    BY <1>3, <1>4, <2>2
<1>7. \A x \in Pending : x \in Nat /\ x <= accepted
  <2>1. Len(events) <= accepted /\ Len(batch) <= k
    BY <1>1, <1>2 DEF IsNewest
  <2> QED
    BY <1>1, <1>2, <1>3, <1>4, <1>5, <2>1
<1> QED
  BY <1>1, <1>5, <1>6, <1>7 DEF PendingFacts

\* The batch stays behind the queue.
LEMMA NextPreservesBatchInv == QueueInv /\ QueueInv' /\ BatchInv /\ [Next]_vars => BatchInv'
<1> SUFFICES ASSUME QueueInv, QueueInv', BatchInv, [Next]_vars PROVE BatchInv'
  OBVIOUS
<1>1. /\ events \in Seq(Nat) /\ accepted \in Nat /\ Len(events) \in Nat
      /\ IsNewest(events, accepted)
  BY DEF QueueInv, QueueTypeOK
<1>2. Len(events') \in Nat /\ accepted' \in Nat /\ Len(events') <= accepted'
  BY DEF QueueInv, QueueTypeOK, IsNewest
<1>3. ASSUME batch' = <<>> PROVE BatchInv'
  <2>1. IsNewest(batch', 0)
    BY <1>3 DEF IsNewest
  <2>2. 0 \in Nat /\ 0 <= accepted' - Len(events')
    BY <1>2
  <2> QED
    BY <1>3, <2>1, <2>2 DEF BatchInv
<1>4. ASSUME UNCHANGED batch, accepted - Len(events) <= accepted' - Len(events'),
             pc \notin {"send", "requeue"} \/ pc' \in {"send", "requeue"}
      PROVE  BatchInv'
  <2>1. PICK k \in Nat : IsNewest(batch, k) /\ k <= accepted - Len(events)
    BY DEF BatchInv
  <2>2. k <= accepted' - Len(events')
    BY <1>1, <1>2, <1>4, <2>1
  <2>3. IsNewest(batch', k)
    BY <1>4, <2>1
  <2>4. pc' \notin {"send", "requeue"} => batch' = <<>>
    BY <1>4 DEF BatchInv
  <2> QED
    BY <2>2, <2>3, <2>4 DEF BatchInv
<1>5. ASSUME UNCHANGED <<batch, accepted, events>>,
             pc \notin {"send", "requeue"} \/ pc' \in {"send", "requeue"}
      PROVE  BatchInv'
  <2>1. accepted - Len(events) <= accepted' - Len(events')
    BY <1>1, <1>5
  <2> QED
    BY <1>4, <1>5, <2>1
<1>6. ASSUME NEW r \in Runners, Enqueue(r) PROVE BatchInv'
  <2>1. /\ accepted' = accepted + 1 /\ events' = EnforceMax(Append(events, accepted + 1))
        /\ UNCHANGED <<batch, pc>>
    BY <1>6 DEF Enqueue, runVars
  <2>2. Len(events') <= Len(events) + 1
    <3>1. Append(events, accepted + 1) \in Seq(Nat) /\ Len(Append(events, accepted + 1)) = Len(events) + 1
      BY <1>1
    <3>2. /\ Overflow(Len(Append(events, accepted + 1))) \in 0..Len(Append(events, accepted + 1))
          /\ Len(events') = Len(Append(events, accepted + 1)) - Overflow(Len(Append(events, accepted + 1)))
      BY <2>1, <3>1, EnforceMaxKeepsEnd
    <3> QED
      BY <1>1, <3>1, <3>2
  <2>3. accepted - Len(events) <= accepted' - Len(events')
    BY <1>1, <1>2, <2>1, <2>2
  <2> QED
    BY <1>4, <2>1, <2>3
<1>7. ASSUME NEW r \in Runners, SignalFlush(r) \/ RunnerStop(r) PROVE BatchInv'
  BY <1>5, <1>7 DEF SignalFlush, RunnerStop, queueVars, runVars, historyVars
<1>8. CASE Cancel \/ Exit \/ UNCHANGED vars
  BY <1>5, <1>8 DEF Cancel, Exit, vars, queueVars, runVars, historyVars
<1>9. CASE Stop \/ DialFail \/ DialOK \/ Sleep \/ SelectTick \/ SelectFlush \/ SelectDone
             \/ DrainNothing \/ SendFail \/ LogDroppedPending
  BY <1>5, <1>9 DEF Stop, DialFail, DialOK, Sleep, SelectTick, SelectFlush, SelectDone,
                    DrainNothing, SendFail, LogDroppedPending, queueVars, historyVars
<1>10. CASE SendOK \/ Requeue
  BY <1>3, <1>10 DEF SendOK, Requeue
<1>11. CASE DrainBatch
  <2> DEFINE n == DrainSize
  <2>1. /\ batch' = SubSeq(events, 1, n)
        /\ events' = SubSeq(events, n + 1, Len(events))
        /\ accepted' = accepted /\ pc' = "send"
    BY <1>11 DEF DrainBatch, historyVars
  <2>2. n \in 0..Len(events)
    BY <1>1, ConstantsAssumption DEF DrainSize
  <2> HIDE DEF n
  <2>3. IsNewest(batch', accepted - (Len(events) - n))
    BY <1>1, <2>1, <2>2, NewestPrefix
  <2>4. Len(events') = Len(events) - n
    BY <1>1, <2>1, <2>2
  <2>5. accepted - (Len(events) - n) \in Nat
        /\ accepted - (Len(events) - n) <= accepted' - Len(events')
    <3>1. Len(events) <= accepted
      BY <1>1 DEF IsNewest
    <3>2. accepted - (Len(events) - n) \in Nat
      BY <1>1, <2>2, <3>1
    <3>3. accepted' - Len(events') = accepted - (Len(events) - n)
      BY <2>1, <2>4
    <3> QED
      BY <3>2, <3>3
  <2> QED
    BY <2>1, <2>3, <2>5 DEF BatchInv
<1> QED
  BY <1>6, <1>7, <1>8, <1>9, <1>10, <1>11 DEF Next, GadgetRunner, Run

\* The facts about batches hold in every reachable state.
LEMMA BatchInvariant == Spec => []BatchInv
<1>1. Init => BatchInv
  <2> SUFFICES ASSUME Init PROVE BatchInv
    OBVIOUS
  <2>1. batch = <<>> /\ Len(events) = 0 /\ accepted = 0
    BY DEF Init
  <2>2. IsNewest(batch, 0)
    BY <2>1 DEF IsNewest
  <2> QED
    BY <2>1, <2>2 DEF BatchInv
<1> QED
  BY <1>1, NextPreservesBatchInv, QueueInvariant, PTL DEF Spec

\* LossyFifo counts with the same Cardinality.
LEMMA AbstractCardinality == \A S : Abstract!Cardinality(S) = Cardinality(S)
BY DEF Abstract!Cardinality, Cardinality

\* Taking a part out of a finite set.
LEMMA RemovedCount ==
  ASSUME NEW S, IsFiniteSet(S), NEW T \in SUBSET S
  PROVE  Cardinality(S \ T) = Cardinality(S) - Cardinality(T)
<1>1. S \cap T = T
  OBVIOUS
<1> QED
  BY <1>1, FS_Difference

\* A step that keeps the pending and the sent events and the sum of the counters.
LEMMA QuietStep ==
  ASSUME UNCHANGED <<accepted, sent, Pending>>,
         droppedPending' + pendingDropLog' + loggedDrops'
           = droppedPending + pendingDropLog + loggedDrops
  PROVE  UNCHANGED Abstract!vars
<1>1. SentIds' = SentIds
  BY DEF SentIds
<1> QED
  BY <1>1 DEF Abstract!vars

\* Enqueue accepts one event and counts the one that had to make room.
LEMMA EnqueueAccepts ==
  ASSUME QueueInv, PendingFacts, PendingFacts', NEW r \in Runners, Enqueue(r)
  PROVE  Abstract!Accept
<1> DEFINE q == Append(events, accepted + 1)
           over == Overflow(Len(events) + 1)
           offered == Pending \cup {accepted + 1}
<1>1. events \in Seq(Nat) /\ accepted \in Nat /\ Len(events) \in Nat
  BY DEF QueueInv, QueueTypeOK
<1>2. /\ accepted' = accepted + 1
      /\ events' = EnforceMax(q)
      /\ droppedPending' = droppedPending + over
      /\ UNCHANGED <<batch, sent, pendingDropLog, loggedDrops>>
  BY DEF Enqueue, runVars
<1>3. q \in Seq(Nat) /\ Len(q) = Len(events) + 1
      /\ \A i \in 1..Len(q) : q[i] = IF i <= Len(events) THEN events[i] ELSE accepted + 1
  BY <1>1
<1> HIDE DEF q
<1>4. /\ over \in 0..(Len(events) + 1)
      /\ Len(events') = Len(events) + 1 - over
      /\ \A i \in 1..Len(events') : events'[i] = q[i + over]
  <2>1. /\ Overflow(Len(q)) \in 0..Len(q)
        /\ Len(events') = Len(q) - Overflow(Len(q))
        /\ \A i \in 1..Len(events') : events'[i] = q[i + Overflow(Len(q))]
    BY <1>2, <1>3, EnforceMaxKeepsEnd
  <2> QED
    BY <1>3, <2>1
<1> HIDE DEF over
<1>5. Pending' \subseteq offered
  <2> SUFFICES ASSUME NEW x \in Pending' PROVE x \in offered
    OBVIOUS
  <2>1. CASE \E i \in 1..Len(batch') : x = batch'[i]
    BY <1>2, <2>1 DEF Pending
  <2>2. CASE \E i \in 1..Len(events') : x = events'[i]
    <3>1. PICK i \in 1..Len(events') : x = events'[i]
      BY <2>2
    <3>2. x = q[i + over] /\ i + over \in 1..Len(q) /\ i + over \in Nat
      BY <1>1, <1>3, <1>4, <3>1
    <3>3. x = accepted + 1 \/ (i + over \in 1..Len(events) /\ x = events[i + over])
      BY <1>1, <1>3, <3>2
    <3> QED
      BY <3>3 DEF Pending
  <2> QED
    BY <2>1, <2>2 DEF Pending
<1>6. IsFiniteSet(offered) /\ Cardinality(offered) = Cardinality(Pending) + 1
  <2>1. accepted + 1 \notin Pending
    BY <1>1 DEF PendingFacts
  <2> QED
    BY <2>1, FS_AddElement DEF PendingFacts
<1>7. Cardinality(offered \ Pending') = (Len(events) + Len(batch) + 1) - (Len(events') + Len(batch'))
  <2>1. Cardinality(offered \ Pending') = Cardinality(offered) - Cardinality(Pending')
    BY <1>5, <1>6, RemovedCount
  <2> QED
    BY <1>6, <2>1 DEF PendingFacts
<1>8. Cardinality(offered \ Pending') = over
  BY <1>2, <1>4, <1>7 DEF PendingFacts
<1>9. droppedPending' + pendingDropLog' + loggedDrops'
        = droppedPending + pendingDropLog + loggedDrops + over
  <2>1. droppedPending' + pendingDropLog' + loggedDrops'
          = (droppedPending + over) + pendingDropLog + loggedDrops
    BY <1>2
  <2>2. over \in Nat /\ droppedPending \in Nat /\ pendingDropLog \in Nat /\ loggedDrops \in Nat
    BY <1>1, <1>4 DEF PendingFacts
  <2> QED
    BY <2>1, <2>2
<1>10. (accepted + 1)..(accepted + 1) = {accepted + 1} /\ 1 \in 1..(accepted' - accepted)
  BY <1>1, <1>2
<1>11. SentIds' = SentIds
  BY <1>2 DEF SentIds
<1> QED
  BY <1>2, <1>5, <1>8, <1>9, <1>10, <1>11, AbstractCardinality DEF Abstract!Accept

\* requeue loses, and counts, what no longer fits.
LEMMA RequeueLoses ==
  ASSUME QueueInv, PendingFacts, PendingFacts', Requeue
  PROVE  Abstract!Lose
<1> DEFINE q == batch \o events
           over == Overflow(Len(batch) + Len(events))
<1>1. events \in Seq(Nat) /\ batch \in Seq(Nat) /\ Len(events) \in Nat /\ Len(batch) \in Nat
  BY DEF QueueInv, QueueTypeOK
<1>2. /\ events' = EnforceMax(q) /\ batch' = <<>>
      /\ droppedPending' = droppedPending + over
      /\ UNCHANGED <<accepted, sent, pendingDropLog, loggedDrops>>
  BY DEF Requeue, historyVars
<1>3. q \in Seq(Nat) /\ Len(q) = Len(batch) + Len(events)
      /\ \A i \in 1..Len(q) : q[i] = IF i <= Len(batch) THEN batch[i] ELSE events[i - Len(batch)]
  BY <1>1, ConcatProperties
<1> HIDE DEF q
<1>4. /\ over \in 0..(Len(batch) + Len(events))
      /\ Len(events') = Len(batch) + Len(events) - over
      /\ \A i \in 1..Len(events') : events'[i] = q[i + over]
  <2>1. /\ Overflow(Len(q)) \in 0..Len(q)
        /\ Len(events') = Len(q) - Overflow(Len(q))
        /\ \A i \in 1..Len(events') : events'[i] = q[i + Overflow(Len(q))]
    BY <1>2, <1>3, EnforceMaxKeepsEnd
  <2> QED
    BY <1>3, <2>1
<1> HIDE DEF over
<1>5. Pending' \subseteq Pending
  <2> SUFFICES ASSUME NEW x \in Pending' PROVE x \in Pending
    OBVIOUS
  <2>1. Len(batch') = 0
    BY <1>2
  <2>2. PICK i \in 1..Len(events') : x = events'[i]
    BY <2>1 DEF Pending
  <2>3. x = q[i + over] /\ i + over \in 1..Len(q) /\ i + over \in Nat
    <3>1. over \in Nat /\ i \in Nat /\ 1 <= i /\ i <= Len(batch) + Len(events) - over
      BY <1>1, <1>4, <2>2
    <3>2. i + over \in 1..Len(q) /\ i + over \in Nat
      BY <1>1, <1>3, <3>1
    <3> QED
      BY <1>4, <2>2, <3>2
  <2>4. PICK j \in 1..Len(q) : x = q[j]
    BY <2>3
  <2>5. x \in Queued \cup InFlight
    <3>1. CASE j <= Len(batch)
      <4>1. x = batch[j] /\ j \in 1..Len(batch)
        BY <1>1, <1>3, <2>4, <3>1
      <4> QED
        BY <4>1 DEF InFlight
    <3>2. CASE j > Len(batch)
      <4>0. j \in Nat /\ ~(j <= Len(batch))
        BY <1>1, <1>3, <2>4, <3>2
      <4>1. x = events[j - Len(batch)]
        <5>1. q[j] = IF j <= Len(batch) THEN batch[j] ELSE events[j - Len(batch)]
          BY <1>3, <2>4, Zenon
        <5>2. QED
          BY <2>4, <4>0, <5>1, Zenon
      <4>2. j - Len(batch) \in 1..Len(events)
        BY <1>1, <1>3, <2>4, <3>2
      <4> QED
        BY <4>1, <4>2 DEF Queued
    <3> QED
      BY <1>1, <1>3, <3>1, <3>2
  <2> QED
    BY <2>5 DEF Pending, Queued, InFlight
<1>6. Cardinality(Pending \ Pending') = over
  <2>1. Cardinality(Pending \ Pending') = Cardinality(Pending) - Cardinality(Pending')
    BY <1>5, RemovedCount DEF PendingFacts
  <2>2. Len(batch') = 0
    BY <1>2
  <2>3. Cardinality(Pending \ Pending')
          = (Len(events) + Len(batch)) - ((Len(batch) + Len(events) - over) + 0)
    BY <1>4, <2>1, <2>2 DEF PendingFacts
  <2> QED
    BY <1>1, <1>4, <2>3
<1>7. droppedPending' + pendingDropLog' + loggedDrops'
        = droppedPending + pendingDropLog + loggedDrops + over
  <2>1. droppedPending' + pendingDropLog' + loggedDrops'
          = (droppedPending + over) + pendingDropLog + loggedDrops
    BY <1>2
  <2>2. over \in Nat /\ droppedPending \in Nat /\ pendingDropLog \in Nat /\ loggedDrops \in Nat
    BY <1>1, <1>4 DEF PendingFacts
  <2> QED
    BY <2>1, <2>2
<1>8. SentIds' = SentIds
  BY <1>2 DEF SentIds
<1> QED
  BY <1>2, <1>5, <1>6, <1>7, <1>8, AbstractCardinality DEF Abstract!Lose

\* SendOK forwards the batch, which is older than the whole queue.
LEMMA SendOKForwards ==
  ASSUME QueueInv, BatchInv, PendingFacts, SendOK
  PROVE  Abstract!Forward
<1>1. /\ events \in Seq(Nat) /\ batch \in Seq(Nat) /\ sent \in Seq(Nat) /\ accepted \in Nat
      /\ Len(events) \in Nat /\ Len(batch) \in Nat /\ Len(sent) \in Nat
      /\ IsNewest(events, accepted)
  BY DEF QueueInv, QueueTypeOK
<1>2. /\ sent' = sent \o batch /\ batch' = <<>>
      /\ UNCHANGED <<events, accepted, droppedPending, pendingDropLog, loggedDrops>>
  BY DEF SendOK, queueVars
<1>3. Pending = Queued \cup InFlight
  BY DEF Pending, Queued, InFlight
<1>4. Pending' = Queued
  <2>1. Len(batch') = 0 /\ events' = events
    BY <1>2
  <2> QED
    BY <2>1 DEF Pending, Queued
<1>5. Pending' \subseteq Pending /\ Pending \ Pending' = InFlight
  BY <1>3, <1>4 DEF PendingFacts
<1>6. \A x \in InFlight, y \in Queued : x < y
  <2>1. PICK k \in Nat : IsNewest(batch, k) /\ k <= accepted - Len(events)
    BY DEF BatchInv
  <2>2. Queued = (accepted - Len(events) + 1)..accepted
    BY <1>1, StretchIsRange DEF Queued
  <2>3. InFlight = (k - Len(batch) + 1)..k
    BY <1>1, <2>1, StretchIsRange DEF InFlight
  <2> QED
    BY <1>1, <2>1, <2>2, <2>3
<1>7. SentIds' = SentIds \cup InFlight
  <2>1. /\ Len(sent') = Len(sent) + Len(batch)
        /\ \A i \in 1..Len(sent) : sent'[i] = sent[i]
        /\ \A i \in 1..Len(batch) : sent'[Len(sent) + i] = batch[i]
    BY <1>1, <1>2, ConcatProperties
  <2>2. ASSUME NEW x \in SentIds' PROVE x \in SentIds \cup InFlight
    <3>1. PICK i \in 1..Len(sent') : x = sent'[i]
      BY DEF SentIds
    <3>2. CASE i <= Len(sent)
      BY <1>1, <2>1, <3>1, <3>2, SMTT(30) DEF SentIds
    <3>3. CASE i > Len(sent)
      <4>1. i - Len(sent) \in 1..Len(batch) /\ Len(sent) + (i - Len(sent)) = i
        BY <1>1, <2>1, <3>3
      <4> QED
        BY <2>1, <3>1, <4>1 DEF InFlight
    <3> QED
      BY <1>1, <3>2, <3>3
  <2>3. ASSUME NEW x \in SentIds PROVE x \in SentIds'
    <3>1. PICK i \in 1..Len(sent) : x = sent[i]
      BY DEF SentIds
    <3>2. i \in 1..Len(sent')
      BY <1>1, <2>1
    <3> QED
      BY <2>1, <3>1, <3>2 DEF SentIds
  <2>4. ASSUME NEW x \in InFlight PROVE x \in SentIds'
    <3>1. PICK i \in 1..Len(batch) : x = batch[i]
      BY DEF InFlight
    <3>2. Len(sent) + i \in 1..Len(sent')
      BY <1>1, <2>1
    <3> QED
      BY <2>1, <3>1, <3>2 DEF SentIds
  <2> QED
    BY <2>2, <2>3, <2>4
<1>8. droppedPending' + pendingDropLog' + loggedDrops'
        = droppedPending + pendingDropLog + loggedDrops
  BY <1>2
<1> QED
  BY <1>2, <1>4, <1>5, <1>6, <1>7, <1>8 DEF Abstract!Forward

\* Every other step changes neither the pending events nor the sum of the counters.
LEMMA OtherStepsQuiet ==
  ASSUME QueueInv, BatchInv, PendingFacts, [Next]_vars,
         ~ SendOK, ~ Requeue, \A r \in Runners : ~ Enqueue(r)
  PROVE  UNCHANGED Abstract!vars
<1>1. ASSUME UNCHANGED <<accepted, sent, events, batch>>,
             UNCHANGED <<droppedPending, pendingDropLog, loggedDrops>>
      PROVE  UNCHANGED Abstract!vars
  <2>1. UNCHANGED Pending
    BY <1>1 DEF Pending
  <2> QED
    BY <1>1, <2>1, QuietStep
<1>2. CASE \E r \in Runners : SignalFlush(r) \/ RunnerStop(r)
  BY <1>1, <1>2 DEF SignalFlush, RunnerStop, queueVars, runVars, historyVars
<1>3. CASE Cancel \/ Exit \/ UNCHANGED vars
  BY <1>1, <1>3 DEF Cancel, Exit, vars, queueVars, runVars, historyVars
<1>4. CASE Stop \/ DialFail \/ DialOK \/ Sleep \/ SelectTick \/ SelectFlush \/ SelectDone
             \/ DrainNothing \/ SendFail
  BY <1>1, <1>4 DEF Stop, DialFail, DialOK, Sleep, SelectTick, SelectFlush, SelectDone,
                    DrainNothing, SendFail, queueVars, historyVars
<1>5. CASE LogDroppedPending
  <2>1. UNCHANGED <<accepted, sent, events, batch>> /\ droppedPending' = 0
    BY <1>5 DEF LogDroppedPending
  <2>2. UNCHANGED Pending
    BY <2>1 DEF Pending
  <2>3. /\ pendingDropLog' + loggedDrops' = droppedPending + pendingDropLog + loggedDrops
        /\ pendingDropLog' \in Int /\ loggedDrops' \in Int
    BY <1>5 DEF LogDroppedPending, UnreportedDrops, PendingFacts
  <2>4. droppedPending' + pendingDropLog' + loggedDrops' = 0 + pendingDropLog' + loggedDrops'
    BY <2>1
  <2>5. droppedPending' + pendingDropLog' + loggedDrops'
          = droppedPending + pendingDropLog + loggedDrops
    BY <2>3, <2>4
  <2> QED
    BY <2>1, <2>2, <2>5, QuietStep
<1>6. CASE DrainBatch
  <2> DEFINE n == DrainSize
  <2>1. /\ batch' = SubSeq(events, 1, n)
        /\ events' = SubSeq(events, n + 1, Len(events))
        /\ UNCHANGED <<accepted, sent>> /\ pc = "drain"
        /\ UNCHANGED <<droppedPending, pendingDropLog, loggedDrops>>
    BY <1>6 DEF DrainBatch, historyVars
  <2>2. n \in 0..Len(events) /\ events \in Seq(Nat) /\ Len(events) \in Nat
    BY ConstantsAssumption DEF DrainSize, QueueInv, QueueTypeOK
  <2> HIDE DEF n
  <2>3. Len(batch') = n /\ \A i \in 1..n : batch'[i] = events[i]
    BY <2>1, <2>2
  <2>4. Len(events') = Len(events) - n /\ \A i \in 1..(Len(events) - n) : events'[i] = events[i + n]
    BY <2>1, <2>2
  <2>5. Len(batch) = 0
    BY <2>1 DEF BatchInv
  <2>6. ASSUME NEW x \in Pending' PROVE x \in Pending
    <3>1. CASE \E i \in 1..Len(batch') : x = batch'[i]
      BY <2>2, <2>3, <3>1 DEF Pending
    <3>2. CASE \E i \in 1..Len(events') : x = events'[i]
      <4>1. PICK i \in 1..(Len(events) - n) : x = events[i + n]
        BY <2>4, <3>2
      <4>2. i + n \in 1..Len(events)
        BY <2>2
      <4> QED
        BY <4>1, <4>2 DEF Pending
    <3> QED
      BY <3>1, <3>2 DEF Pending
  <2>7. ASSUME NEW x \in Pending PROVE x \in Pending'
    <3>1. PICK i \in 1..Len(events) : x = events[i]
      BY <2>5 DEF Pending
    <3>2. CASE i <= n
      BY <2>2, <2>3, <3>1, <3>2 DEF Pending
    <3>3. CASE i > n
      <4>1. i - n \in 1..(Len(events) - n) /\ (i - n) + n = i
        BY <2>2, <3>3
      <4> QED
        BY <2>4, <3>1, <4>1 DEF Pending
    <3> QED
      BY <2>2, <3>2, <3>3
  <2>8. UNCHANGED Pending
    BY <2>6, <2>7
  <2> QED
    BY <2>1, <2>8, QuietStep
<1> QED
  BY <1>2, <1>3, <1>4, <1>5, <1>6 DEF Next, GadgetRunner, Run

\* The agent's queue implements the lossy FIFO with its own counters as the number of lost
\* events: an event leaves Client.events by being sent, in order, or by being counted.
THEOREM QueueImplementsCountedFifo == Spec => ImplementsCountedFifo
<1>1. Init => Abstract!Init
  <2> SUFFICES ASSUME Init PROVE Abstract!Init
    OBVIOUS
  <2>1. Len(events) = 0 /\ Len(sent) = 0 /\ Len(batch) = 0
    BY DEF Init
  <2>2. Pending = {} /\ SentIds = {}
    BY <2>1 DEF Pending, SentIds
  <2>3. accepted = 0 /\ droppedPending + pendingDropLog + loggedDrops = 0
    BY DEF Init
  <2> QED
    BY <2>2, <2>3 DEF Abstract!Init
<1>2. QueueInv /\ QueueInv' /\ BatchInv /\ BatchInv' /\ [Next]_vars
        => [Abstract!Next]_Abstract!vars
  <2> SUFFICES ASSUME QueueInv, QueueInv', BatchInv, BatchInv', [Next]_vars
               PROVE  Abstract!Next \/ UNCHANGED Abstract!vars
    OBVIOUS
  <2>1. PendingFacts
    BY PendingCounted
  <2>2. PendingFacts'
    BY PendingCounted, PTL
  <2> QED
    BY <2>1, <2>2, EnqueueAccepts, RequeueLoses, SendOKForwards, OtherStepsQuiet
    DEF Abstract!Next
<1> QED
  BY <1>1, <1>2, QueueInvariant, BatchInvariant, PTL
  DEF Spec, ImplementsCountedFifo, Abstract!Spec
-----------------------------------------------------------------------------
\* Every step keeps a flush request on its way to a client that waits.
LEMMA NextPreservesNoLostFlush ==
  QueueInv /\ ControlTypeOK /\ NoLostFlush /\ [Next]_vars => NoLostFlush'
<1> SUFFICES ASSUME QueueInv, ControlTypeOK, NoLostFlush, [Next]_vars,
                    pc' = "select", Len(events') >= BatchSize
             PROVE  flushCh' \/ \E r \in Runners : runner'[r] = "signal"
  BY DEF NoLostFlush
<1>1. ASSUME NEW r \in Runners, Enqueue(r) PROVE runner'[r] = "signal"
  BY <1>1 DEF Enqueue, ShouldFlush, ControlTypeOK
<1>2. ASSUME NEW r \in Runners, SignalFlush(r) PROVE flushCh'
  BY <1>2 DEF SignalFlush
<1>3. ASSUME NEW r \in Runners, RunnerStop(r)
      PROVE  flushCh' \/ \E s \in Runners : runner'[s] = "signal"
  <2>1. flushCh \/ \E s \in Runners : runner[s] = "signal"
    BY <1>3 DEF RunnerStop, queueVars, runVars, NoLostFlush
  <2>2. \A s \in Runners : runner[s] = "signal" => runner'[s] = "signal"
    BY <1>3 DEF RunnerStop, ControlTypeOK
  <2> QED
    BY <1>3, <2>1, <2>2 DEF RunnerStop
<1>4. CASE Cancel \/ Exit \/ UNCHANGED vars
  BY <1>4 DEF Cancel, Exit, vars, queueVars, runVars, NoLostFlush
<1>5. CASE DrainNothing
  <2>1. Len(events') = 0
    BY <1>5 DEF DrainNothing, queueVars
  <2> QED
    BY <2>1, ConstantsAssumption
<1>6. CASE Run /\ ~ DrainNothing
  <2>1. pc' # "select"
    BY <1>6 DEF Run, Stop, DialFail, DialOK, Sleep, SelectTick, SelectFlush, SelectDone,
                LogDroppedPending, DrainBatch, SendOK, SendFail, Requeue, ReturnError
  <2> QED
    BY <2>1
<1> QED
  BY <1>1, <1>2, <1>3, <1>4, <1>5, <1>6 DEF Next, GadgetRunner, Run

\* No wake-up is lost: Enqueue decides under the lock and signals after it, and still no
\* full batch waits for a client that sleeps in its select without a request on its way.
THEOREM FlushRequestsArrive == Spec => []NoLostFlush
<1>1. Init => NoLostFlush
  BY DEF Init, NoLostFlush
<1>2. TypeOK => ControlTypeOK
  BY DEF TypeOK
<1> QED
  BY <1>1, <1>2, NextPreservesNoLostFlush, QueueInvariant, TypeCorrect, PTL DEF Spec
=============================================================================
