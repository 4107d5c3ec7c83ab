--------------------------- MODULE FlowStoreProofs ---------------------------
(***************************************************************************)
(* For every capacity, batch size and set of agents: the aggregator's      *)
(* store keeps its types and its bounds, its client never sends an event   *)
(* twice or out of order, no flush request is lost, drops are counted      *)
(* unless a batch was overtaken, and store and client implement            *)
(* LossyFifo.                                                              *)
(***************************************************************************)
EXTENDS FlowStore, FiniteSetTheorems, SequenceTheorems, TLAPS

\* The buffer holds, in order, the last events that were accepted.
IdsNewest(evs, n) ==
  /\ Len(evs) <= n
  /\ \A i \in 1..Len(evs) : evs[i].id = n - Len(evs) + i

\* The number of the last event the cursor has passed.
Frontier == accepted - Len(events) + sendCursor

SentUpTo(k) == \A i \in 1..Len(sent) : sent[i] <= k

\* A batch is a run of consecutive events.
Consecutive(b) == \A i \in 1..Len(b) : b[i].id = b[1].id + i - 1

\* A batch in flight starts after everything that was sent.  Eviction may move
\* the frontier past it meanwhile, but never back.
BatchFollowsSent ==
  pc = "send" =>
    /\ Len(batch) > 0
    /\ Consecutive(batch)
    /\ SentUpTo(batch[1].id - 1)
    /\ batch[1].id - 1 <= Frontier
    /\ batch[1].id - 1 + Len(batch) <= accepted

\* Everything sent is behind the cursor, or will be once the cursor has
\* advanced over the batch that was just sent.
SentBehindCursor ==
  /\ SentUpTo(accepted)
  /\ IF pc = "advance" THEN SentUpTo(Frontier + Len(batch)) ELSE SentUpTo(Frontier)

\* The inductive invariant.
StoreInv ==
  /\ StoreTypeOK
  /\ IdsNewest(events, accepted)
  /\ BatchFollowsSent
  /\ SentBehindCursor
  /\ SentInOrder
-----------------------------------------------------------------------------
(* Facts about the store's operations                                      *)

\* adjustCursorOnDrop, called for the stale and then for the surplus events,
\* leaves a cursor inside the buffer that has not moved back over an event.
LEMMA CursorAfterTwoDrops ==
  ASSUME NEW cursor \in Nat, NEW stale \in Nat, NEW over \in Nat, NEW len \in Nat,
         cursor <= len, stale + over <= len
  PROVE  LET c1 == CursorAfterDrop(cursor, stale)
             c2 == CursorAfterDrop(c1, over)
         IN /\ c1 \in Nat
            /\ c2 \in 0..(len - (stale + over))
            /\ cursor <= c2 + (stale + over)
            /\ LostUnsent(cursor, stale) \in Nat
            /\ LostUnsent(c1, over) \in Nat
BY DEF CursorAfterDrop, LostUnsent

\* enforceMaxLocked leaves at most MaxEvents.
LEMMA OverflowBound ==
  ASSUME NEW n \in Nat
  PROVE  Overflow(n) \in 0..n /\ n - Overflow(n) <= MaxEvents
BY ConstantsAssumption DEF Overflow

\* AdvanceSendCursor stays inside the buffer and falls short only at its end.
LEMMA CursorAfterSendBound ==
  ASSUME NEW n \in Nat, StoreTypeOK
  PROVE  /\ CursorAfterSend(n) \in 0..Len(events)
         /\ CursorAfterSend(n) = sendCursor + n \/ CursorAfterSend(n) = Len(events)
BY DEF CursorAfterSend, StoreTypeOK

\* A doubled and capped backoff is still a positive duration.
LEMMA NextBackoffPositive ==
  ASSUME NEW b \in Nat \ {0}
  PROVE  NextBackoff(b) \in Nat \ {0}
BY ConstantsAssumption DEF NextBackoff

\* Raising a bound keeps it a bound.
LEMMA SentUpToMonotone ==
  ASSUME NEW j \in Int, NEW k \in Int, j <= k, sent \in Seq(Nat), SentUpTo(j)
  PROVE  SentUpTo(k)
BY DEF SentUpTo
-----------------------------------------------------------------------------
\* The empty store.
LEMMA InitStoreInv == Init => StoreInv
<1> SUFFICES ASSUME Init PROVE StoreInv
  OBVIOUS
<1>1. events = <<>> /\ batch = <<>> /\ sent = <<>> /\ accepted = 0 /\ sendCursor = 0
  BY DEF Init
<1>2. StoreTypeOK
  <2>1. /\ events \in Seq(Event) /\ batch \in Seq(Event) /\ sent \in Seq(Nat)
        /\ Len(events) = 0 /\ Len(batch) = 0
    BY <1>1
  <2> QED
    BY <1>1, <2>1, ConstantsAssumption DEF Init, StoreTypeOK
<1>3. IdsNewest(events, accepted) /\ SentInOrder
  BY <1>1 DEF IdsNewest, SentInOrder
<1>4. BatchFollowsSent /\ SentBehindCursor
  BY <1>1 DEF Init, BatchFollowsSent, SentBehindCursor, SentUpTo, Frontier
<1> QED
  BY <1>2, <1>3, <1>4 DEF StoreInv

\* The rows of a pushed batch are numbered on from the last accepted event.
LEMMA RowsProperties ==
  ASSUME NEW a \in Agents, NEW n \in Nat, NEW stamps \in [1..n -> Stamps],
         accepted \in Nat
  PROVE  /\ Rows(a, stamps) \in Seq(Event)
         /\ Len(Rows(a, stamps)) = n
         /\ \A i \in 1..n : Rows(a, stamps)[i].id = accepted + i
<1>1. stamps \in Seq(Stamps) /\ Len(stamps) = n
  OBVIOUS
<1>2. \A i \in 1..n : stamps[i] \in Nat
  BY ConstantsAssumption
<1>3. Rows(a, stamps) = [i \in 1..n |-> [id |-> accepted + i, agent |-> a, ts |-> stamps[i]]]
  BY <1>1 DEF Rows
<1>4. \A i \in 1..n : [id |-> accepted + i, agent |-> a, ts |-> stamps[i]] \in Event
  BY <1>2 DEF Event
<1> QED
  BY <1>3, <1>4

\* Appending rows keeps the buffer the newest events.
LEMMA NewestAppend ==
  ASSUME NEW evs \in Seq(Event), NEW rows \in Seq(Event), NEW n \in Nat,
         IdsNewest(evs, n),
         \A i \in 1..Len(rows) : rows[i].id = n + i
  PROVE  IdsNewest(evs \o rows, n + Len(rows))
<1>1. Len(evs \o rows) = Len(evs) + Len(rows)
  BY ConcatProperties
<1>2. ASSUME NEW i \in 1..(Len(evs) + Len(rows))
      PROVE  (evs \o rows)[i].id = n + Len(rows) - (Len(evs) + Len(rows)) + i
  <2>1. CASE i <= Len(evs)
    <3>1. (evs \o rows)[i] = evs[i] /\ i \in 1..Len(evs)
      BY <2>1
    <3> QED
      BY <3>1 DEF IdsNewest
  <2>2. CASE i > Len(evs)
    <3>1. (evs \o rows)[i] = rows[i - Len(evs)] /\ i - Len(evs) \in 1..Len(rows)
      BY <2>2
    <3> QED
      BY <3>1
  <2> QED
    BY <2>1, <2>2
<1> QED
  BY <1>1, <1>2 DEF IdsNewest

\* Dropping from the front keeps the buffer the newest events.
LEMMA NewestSuffix ==
  ASSUME NEW evs \in Seq(Event), NEW n \in Nat, IdsNewest(evs, n),
         NEW k \in 0..Len(evs)
  PROVE  LET r == SubSeq(evs, k + 1, Len(evs)) IN
         r \in Seq(Event) /\ Len(r) = Len(evs) - k /\ IdsNewest(r, n)
<1> DEFINE r == SubSeq(evs, k + 1, Len(evs))
<1>1. /\ r \in Seq(Event)
      /\ Len(r) = Len(evs) - k
      /\ \A i \in 1..(Len(evs) - k) : r[i] = evs[i + k]
  OBVIOUS
<1> HIDE DEF r
<1>2. ASSUME NEW i \in 1..(Len(evs) - k)
      PROVE  r[i].id = n - (Len(evs) - k) + i
  <2>1. i + k \in 1..Len(evs)
    OBVIOUS
  <2> QED
    BY <2>1, <1>1, SMTT(30) DEF IdsNewest
<1>3. Len(evs) - k <= n
  BY DEF IdsNewest
<1>4. IdsNewest(r, n)
  BY <1>1, <1>2, <1>3 DEF IdsNewest
<1> QED
  BY <1>1, <1>4 DEF r

\* What was sent, and the batch in flight, stay in place when the frontier only
\* moves forward.
LEMMA FrontierForward ==
  ASSUME StoreTypeOK, BatchFollowsSent, SentBehindCursor, SentInOrder,
         UNCHANGED <<batch, pc, sent>>,
         Frontier' \in Int, Frontier <= Frontier', accepted' \in Int, accepted <= accepted'
  PROVE  BatchFollowsSent' /\ SentBehindCursor' /\ SentInOrder'
<1>1. /\ Len(batch) \in Nat /\ accepted \in Int /\ Frontier \in Int
      /\ \A i \in 1..Len(sent) : sent[i] \in Nat
  BY DEF StoreTypeOK, Frontier
<1>2. SentInOrder'
  BY DEF SentInOrder
<1>3. SentBehindCursor'
  <2>1. ASSUME NEW j \in Int, NEW k \in Int, j <= k, SentUpTo(j)
        PROVE  \A i \in 1..Len(sent) : sent[i] <= k
    BY <2>1, <1>1 DEF SentUpTo
  <2>2. \A i \in 1..Len(sent') : sent'[i] <= accepted'
    BY <2>1, <1>1 DEF SentBehindCursor
  <2>3. CASE pc = "advance"
    <3>1. \A i \in 1..Len(sent') : sent'[i] <= Frontier' + Len(batch')
      BY <2>1, <2>3, <1>1 DEF SentBehindCursor
    <3> QED
      BY <2>2, <2>3, <3>1 DEF SentBehindCursor, SentUpTo
  <2>4. CASE pc # "advance"
    <3>1. \A i \in 1..Len(sent') : sent'[i] <= Frontier'
      BY <2>1, <2>4, <1>1 DEF SentBehindCursor
    <3> QED
      BY <2>2, <2>4, <3>1 DEF SentBehindCursor, SentUpTo
  <2> QED
    BY <2>3, <2>4
<1>4. BatchFollowsSent'
  <2> SUFFICES ASSUME pc = "send" PROVE BatchFollowsSent'
    BY DEF BatchFollowsSent
  <2>1. Len(batch) > 0 /\ batch[1].id \in Nat
    <3>1. Len(batch) > 0 /\ batch \in Seq(Event)
      BY DEF StoreTypeOK, BatchFollowsSent
    <3>2. batch[1] \in Event
      BY <3>1
    <3> QED
      BY <3>1, <3>2 DEF Event
  <2>2. batch[1].id - 1 <= Frontier' /\ batch[1].id - 1 + Len(batch) <= accepted'
    BY <2>1, <1>1 DEF BatchFollowsSent
  <2> QED
    BY <2>1, <2>2 DEF BatchFollowsSent, SentUpTo, Consecutive
<1> QED
  BY <1>2, <1>3, <1>4

\* AppendBatch only ever moves the frontier forward.
LEMMA AppendBatchPreserves ==
  ASSUME StoreInv, NEW a \in Agents, AppendBatch(a)
  PROVE  StoreInv'
<1>1. /\ events \in Seq(Event) /\ accepted \in Nat /\ sendCursor \in 0..Len(events)
      /\ droppedUnsent \in Nat /\ batch \in Seq(Event) /\ sent \in Seq(Nat)
      /\ IdsNewest(events, accepted)
  BY DEF StoreInv, StoreTypeOK
<1>2. UNCHANGED <<batch, pc, sent, pendingDropLog, loggedDrops, backoff, now>>
  BY DEF AppendBatch, clientVars
<1>3. PICK n \in 1..MaxPush : \E stamps \in [1..n -> Stamps] :
        LET evs == events \o Rows(a, stamps) IN
        /\ accepted' = accepted + n
        /\ \E stale \in 0..Len(evs) :
             LET over    == Overflow(Len(evs) - stale)
                 cursor1 == CursorAfterDrop(sendCursor, stale)
             IN /\ events' = SubSeq(evs, (stale + over) + 1, Len(evs))
                /\ sendCursor' = CursorAfterDrop(cursor1, over)
                /\ droppedUnsent' = droppedUnsent + LostUnsent(sendCursor, stale)
                                                  + LostUnsent(cursor1, over)
  BY DEF AppendBatch
<1>4. PICK stamps \in [1..n -> Stamps] :
        /\ accepted' = accepted + n
        /\ \E stale \in 0..Len(events \o Rows(a, stamps)) :
             LET evs     == events \o Rows(a, stamps)
                 over    == Overflow(Len(evs) - stale)
                 cursor1 == CursorAfterDrop(sendCursor, stale)
             IN /\ events' = SubSeq(evs, (stale + over) + 1, Len(evs))
                /\ sendCursor' = CursorAfterDrop(cursor1, over)
                /\ droppedUnsent' = droppedUnsent + LostUnsent(sendCursor, stale)
                                                  + LostUnsent(cursor1, over)
  BY <1>3
<1> DEFINE evs == events \o Rows(a, stamps)
<1>5. PICK stale \in 0..Len(evs) :
        LET over    == Overflow(Len(evs) - stale)
            cursor1 == CursorAfterDrop(sendCursor, stale)
        IN /\ events' = SubSeq(evs, (stale + over) + 1, Len(evs))
           /\ sendCursor' = CursorAfterDrop(cursor1, over)
           /\ droppedUnsent' = droppedUnsent + LostUnsent(sendCursor, stale)
                                             + LostUnsent(cursor1, over)
  BY <1>4
<1> DEFINE over == Overflow(Len(evs) - stale)
           drop == stale + over
<1>6. n \in Nat
  BY ConstantsAssumption
<1>7. /\ Rows(a, stamps) \in Seq(Event)
      /\ Len(Rows(a, stamps)) = n
      /\ \A i \in 1..n : Rows(a, stamps)[i].id = accepted + i
  BY <1>1, <1>6, RowsProperties
<1>8. evs \in Seq(Event) /\ Len(evs) = Len(events) + n
  BY <1>1, <1>7, ConcatProperties
<1>9. IdsNewest(evs, accepted + n)
  BY <1>1, <1>7, NewestAppend
<1>10. stale \in 0..Len(evs) /\ over \in 0..(Len(evs) - stale) /\ drop \in 0..Len(evs)
      /\ Len(evs) - drop <= MaxEvents
  <2>1. Len(evs) - stale \in Nat /\ stale \in 0..Len(evs)
    BY <1>5, <1>8
  <2>2. over \in 0..(Len(evs) - stale) /\ (Len(evs) - stale) - over <= MaxEvents
    BY <2>1, OverflowBound
  <2> HIDE DEF over, evs
  <2> QED
    BY <2>1, <2>2, <1>8, ConstantsAssumption
<1>11. accepted' = accepted + n
  BY <1>4
<1>12. /\ events' = SubSeq(evs, drop + 1, Len(evs))
      /\ sendCursor' = CursorAfterDrop(CursorAfterDrop(sendCursor, stale), over)
      /\ droppedUnsent' = droppedUnsent + LostUnsent(sendCursor, stale)
               + LostUnsent(CursorAfterDrop(sendCursor, stale), over)
  BY <1>4, <1>5
<1> HIDE DEF evs, over
<1>13. /\ sendCursor' \in 0..(Len(evs) - drop)
       /\ sendCursor <= sendCursor' + drop
       /\ droppedUnsent' \in Nat
  <2>1. sendCursor \in Nat /\ stale \in Nat /\ over \in Nat /\ Len(evs) \in Nat
        /\ sendCursor <= Len(evs) /\ stale + over <= Len(evs)
    BY <1>1, <1>6, <1>8, <1>10
  <2>2. /\ sendCursor' \in 0..(Len(evs) - drop)
        /\ sendCursor <= sendCursor' + drop
        /\ LostUnsent(sendCursor, stale) \in Nat
        /\ LostUnsent(CursorAfterDrop(sendCursor, stale), over) \in Nat
    BY <2>1, <1>12, CursorAfterTwoDrops
  <2> QED
    BY <2>2, <1>1, <1>12, SMTT(30)
<1>14. /\ events' \in Seq(Event)
       /\ Len(events') = Len(evs) - drop
       /\ IdsNewest(events', accepted')
  <2>1. accepted + n \in Nat
    BY <1>1, <1>6
  <2> QED
    BY <2>1, <1>8, <1>9, <1>10, <1>12, <1>11, NewestSuffix
<1> HIDE DEF drop
<1>15. StoreTypeOK'
  <2>1. Len(events') <= MaxEvents /\ sendCursor' \in 0..Len(events') /\ accepted' \in Nat
    BY <1>1, <1>6, <1>10, <1>13, <1>14, <1>11
  <2> QED
    BY <1>2, <1>13, <1>14, <2>1 DEF StoreInv, StoreTypeOK
<1>16. Frontier' \in Int /\ Frontier <= Frontier' /\ accepted' \in Int /\ accepted <= accepted'
  <2> DEFINE cursor == CursorAfterDrop(CursorAfterDrop(sendCursor, stale), over)
             front  == accepted - Len(events) + drop + cursor
  <2>1. /\ accepted \in Nat /\ Len(events) \in Nat /\ sendCursor \in Nat
        /\ drop \in Nat /\ n \in Nat
    BY <1>1, <1>6, <1>10
  <2>2. cursor \in Nat /\ sendCursor <= cursor + drop
    BY <1>12, <1>13
  <2>3. Len(events') = Len(events) + n - drop
    BY <1>6, <1>8, <1>14, <2>1
  <2> HIDE DEF cursor
  <2>4. Frontier' = (accepted + n) - (Len(events) + n - drop) + cursor
    BY <1>12, <1>11, <2>3 DEF Frontier, cursor
  <2>5. Frontier' = front
    BY <2>1, <2>2, <2>4
  <2>6. front \in Int /\ Frontier <= front
    BY <2>1, <2>2 DEF Frontier
  <2>7. accepted + n \in Int /\ accepted <= accepted + n
    BY <2>1
  <2> HIDE DEF front
  <2> QED
    BY <1>11, <2>5, <2>6, <2>7, Zenon
<1>17. BatchFollowsSent' /\ SentBehindCursor' /\ SentInOrder'
  BY <1>2, <1>16, FrontierForward DEF StoreInv
<1> QED
  BY <1>14, <1>15, <1>17 DEF StoreInv

\* PeekUnsentBatch takes the events right after the frontier.
LEMMA PeekUnsentBatchPreserves ==
  ASSUME StoreInv, PeekUnsentBatch
  PROVE  StoreInv'
<1>1. /\ events \in Seq(Event) /\ accepted \in Nat /\ sendCursor \in 0..Len(events)
      /\ sent \in Seq(Nat) /\ Len(events) <= accepted
      /\ \A i \in 1..Len(events) : events[i].id = accepted - Len(events) + i
      /\ IdsNewest(events, accepted)
  BY DEF StoreInv, StoreTypeOK, IdsNewest
<1>2. /\ UNCHANGED <<events, sendCursor, droppedUnsent, accepted, sent, loggedDrops>>
      /\ UNCHANGED <<pendingDropLog, backoff, now>>
      /\ pc = "peek" /\ pc' = "send" /\ UnsentCount > 0
  BY DEF PeekUnsentBatch, storeVars, historyVars
<1>3. PICK n \in RunLengths :
        /\ \A m \in RunLengths : m <= n
        /\ batch' = SubSeq(events, sendCursor + 1, sendCursor + n)
  BY DEF PeekUnsentBatch, OldestUnsent
<1>4. n \in 0..BatchSize /\ sendCursor + n <= Len(events)
  BY <1>3 DEF RunLengths
<1>5. n >= 1
  <2>1. sendCursor < Len(events)
    BY <1>1, <1>2 DEF UnsentCount
  <2>2. 1 \in RunLengths
    BY <1>1, <2>1, ConstantsAssumption DEF RunLengths
  <2> QED
    BY <2>2, <1>3
<1>6. /\ batch' \in Seq(Event)
      /\ Len(batch') = n
      /\ \A i \in 1..n : batch'[i] = events[sendCursor + i]
  BY <1>1, <1>3, <1>4, <1>5, ConstantsAssumption
<1>7. \A i \in 1..n : batch'[i].id = Frontier + i
  <2> SUFFICES ASSUME NEW i \in 1..n PROVE events[sendCursor + i].id = Frontier + i
    BY <1>6
  <2>1. sendCursor + i \in 1..Len(events)
    BY <1>1, <1>4, ConstantsAssumption
  <2>2. events[sendCursor + i].id = accepted - Len(events) + (sendCursor + i)
    BY <2>1, <1>1
  <2> QED
    BY <2>2, <1>1, <1>4, ConstantsAssumption DEF Frontier
<1>8. Frontier \in Nat /\ Frontier + n <= accepted /\ n \in Nat
  BY <1>1, <1>4, ConstantsAssumption DEF Frontier
<1>9. batch'[1].id = Frontier + 1
  BY <1>5, <1>7, <1>8
<1>10. SentUpTo(Frontier) /\ SentUpTo(accepted) /\ Frontier' = Frontier
  BY <1>2 DEF StoreInv, SentBehindCursor, Frontier
<1>11. BatchFollowsSent'
  <2>1. Consecutive(batch')
    BY <1>6, <1>7, <1>8, <1>9 DEF Consecutive
  <2>2. batch'[1].id - 1 = Frontier
    BY <1>8, <1>9
  <2>3. SentUpTo(batch'[1].id - 1)
    BY <1>10, <2>2
  <2> QED
    BY <1>2, <1>5, <1>6, <1>8, <1>10, <2>1, <2>2, <2>3
    DEF BatchFollowsSent, SentUpTo, Consecutive
<1>12. SentBehindCursor' /\ SentInOrder' /\ IdsNewest(events', accepted')
  BY <1>1, <1>2, <1>10 DEF StoreInv, SentBehindCursor, SentUpTo, SentInOrder
<1>13. StoreTypeOK'
  <2>1. Len(batch') <= BatchSize
    BY <1>4, <1>6
  <2> QED
    BY <1>2, <1>6, <2>1 DEF StoreInv, StoreTypeOK
<1> QED
  BY <1>11, <1>12, <1>13 DEF StoreInv

\* A run of consecutive numbers that starts above an increasing sequence can be
\* appended to it.
LEMMA AppendConsecutive ==
  ASSUME NEW s \in Seq(Nat), NEW t \in Seq(Nat), NEW first \in Nat,
         \A i, j \in 1..Len(s) : i < j => s[i] < s[j],
         \A i \in 1..Len(s) : s[i] <= first - 1,
         \A i \in 1..Len(t) : t[i] = first + i - 1
  PROVE  /\ s \o t \in Seq(Nat)
         /\ \A i, j \in 1..Len(s \o t) : i < j => (s \o t)[i] < (s \o t)[j]
         /\ \A i \in 1..Len(s \o t) : (s \o t)[i] <= first - 1 + Len(t)
<1> DEFINE st == s \o t
<1>1. /\ st \in Seq(Nat)
      /\ Len(st) = Len(s) + Len(t)
      /\ \A i \in 1..(Len(s) + Len(t)) : st[i] = IF i <= Len(s) THEN s[i] ELSE t[i - Len(s)]
  BY ConcatProperties
<1> HIDE DEF st
<1>2. ASSUME NEW i \in 1..Len(st), i <= Len(s)
      PROVE  st[i] = s[i] /\ i \in 1..Len(s) /\ s[i] \in Nat /\ s[i] <= first - 1
  BY <1>1, <1>2, SMTT(30)
<1>3. ASSUME NEW i \in 1..Len(st), ~(i <= Len(s))
      PROVE  st[i] = first + (i - Len(s)) - 1
  <2>1. st[i] = t[i - Len(s)] /\ i - Len(s) \in 1..Len(t)
    BY <1>1, <1>3
  <2> QED
    BY <2>1
<1>4. ASSUME NEW i \in 1..Len(st) PROVE st[i] <= first - 1 + Len(t)
  <2>1. CASE i <= Len(s)
    <3>1. st[i] = s[i] /\ s[i] \in Nat /\ s[i] <= first - 1
      BY <2>1, <1>2
    <3> QED
      BY <3>1
  <2>2. CASE ~(i <= Len(s))
    <3>1. st[i] = first + (i - Len(s)) - 1 /\ i <= Len(s) + Len(t)
      BY <2>2, <1>1, <1>3
    <3> QED
      BY <3>1
  <2> QED
    BY <2>1, <2>2
<1>5. ASSUME NEW i \in 1..Len(st), NEW j \in 1..Len(st), i < j PROVE st[i] < st[j]
  <2>1. CASE j <= Len(s)
    <3>1. i <= Len(s)
      BY <2>1, <1>5
    <3>2. st[i] = s[i] /\ st[j] = s[j] /\ i \in 1..Len(s) /\ j \in 1..Len(s)
      BY <2>1, <3>1, <1>2
    <3> QED
      BY <3>2, <1>5
  <2>2. CASE i <= Len(s) /\ ~(j <= Len(s))
    <3>1. st[i] = s[i] /\ s[i] \in Nat /\ s[i] <= first - 1
      BY <2>2, <1>2
    <3>2. st[j] = first + (j - Len(s)) - 1
      BY <2>2, <1>3
    <3> QED
      BY <2>2, <3>1, <3>2
  <2>3. CASE ~(i <= Len(s)) /\ ~(j <= Len(s))
    BY <2>3, <1>1, <1>3, <1>5
  <2> QED
    BY <2>1, <2>2, <2>3, <1>1, <1>5
<1> QED
  BY <1>1, <1>4, <1>5 DEF st

\* A batch that was sent extends what was sent before in order.
LEMMA SendOKPreserves ==
  ASSUME StoreInv, SendOK
  PROVE  StoreInv'
<1> DEFINE ids   == [i \in 1..Len(batch) |-> batch[i].id]
           first == batch[1].id
           all   == sent \o ids
<1>1. /\ sent \in Seq(Nat) /\ batch \in Seq(Event) /\ accepted \in Nat
      /\ Frontier \in Int /\ Len(batch) \in Nat
      /\ IdsNewest(events, accepted)
  BY DEF StoreInv, StoreTypeOK, Frontier
<1>2. /\ UNCHANGED <<events, sendCursor, droppedUnsent, accepted, batch, loggedDrops>>
      /\ UNCHANGED <<pendingDropLog, backoff, now>>
      /\ pc = "send" /\ pc' = "advance" /\ sent' = all
  BY DEF SendOK, storeVars
<1>3. /\ Len(batch) > 0
      /\ \A i \in 1..Len(batch) : batch[i].id = first + i - 1
      /\ \A i \in 1..Len(sent) : sent[i] <= first - 1
      /\ first - 1 <= Frontier
      /\ first - 1 + Len(batch) <= accepted
  BY <1>2 DEF StoreInv, BatchFollowsSent, Consecutive, SentUpTo
<1>4. \A i \in 1..Len(batch) : batch[i].id \in Nat
  <2>1. \A i \in 1..Len(batch) : batch[i] \in Event
    BY <1>1
  <2> QED
    BY <2>1 DEF Event
<1>5. ids \in Seq(Nat) /\ Len(ids) = Len(batch) /\ \A i \in 1..Len(ids) : ids[i] = first + i - 1
  BY <1>1, <1>3, <1>4
<1>6. first \in Nat
  BY <1>1, <1>3, <1>4
<1> HIDE DEF ids, first
<1>7. /\ all \in Seq(Nat)
      /\ \A i, j \in 1..Len(all) : i < j => all[i] < all[j]
      /\ \A i \in 1..Len(all) : all[i] <= first - 1 + Len(batch)
  <2>1. \A i, j \in 1..Len(sent) : i < j => sent[i] < sent[j]
    BY DEF StoreInv, SentInOrder
  <2> QED
    BY <1>1, <1>3, <1>5, <1>6, <2>1, AppendConsecutive
<1> HIDE DEF all
<1>8. \A i \in 1..Len(all) : all[i] <= accepted /\ all[i] <= Frontier + Len(batch)
  <2>1. \A i \in 1..Len(all) : all[i] \in Nat
    BY <1>7
  <2> QED
    BY <1>1, <1>3, <1>6, <1>7, <2>1
<1>9. Frontier' = Frontier
  BY <1>2 DEF Frontier
<1>10. SentBehindCursor'
  BY <1>2, <1>8, <1>9 DEF SentBehindCursor, SentUpTo
<1>11. SentInOrder'
  BY <1>2, <1>7 DEF SentInOrder
<1>12. StoreTypeOK' /\ BatchFollowsSent' /\ IdsNewest(events', accepted')
  BY <1>1, <1>2, <1>7 DEF StoreInv, StoreTypeOK, BatchFollowsSent
<1> QED
  BY <1>10, <1>11, <1>12 DEF StoreInv

\* AdvanceSendCursor brings the frontier over the batch, or to the end of the
\* buffer when eviction has overtaken the batch.
LEMMA AdvanceSendCursorPreserves ==
  ASSUME StoreInv, AdvanceSendCursor
  PROVE  StoreInv'
<1> DEFINE cursor == CursorAfterSend(Len(batch))
           base   == accepted - Len(events)
<1>1. /\ events \in Seq(Event) /\ batch \in Seq(Event) /\ sent \in Seq(Nat)
      /\ accepted \in Nat /\ sendCursor \in 0..Len(events) /\ StoreTypeOK
      /\ IdsNewest(events, accepted)
  BY DEF StoreInv, StoreTypeOK
<1>2. /\ UNCHANGED <<events, droppedUnsent, accepted, sent, loggedDrops>>
      /\ UNCHANGED <<pendingDropLog, backoff, now>>
      /\ pc = "advance" /\ pc' = "peek" /\ batch' = <<>> /\ sendCursor' = cursor
  BY DEF AdvanceSendCursor, historyVars
<1>3. /\ cursor \in 0..Len(events)
      /\ cursor = sendCursor + Len(batch) \/ cursor = Len(events)
  BY <1>1, CursorAfterSendBound
<1> HIDE DEF cursor
<1>4. SentUpTo(accepted) /\ SentUpTo(Frontier + Len(batch))
  BY <1>2 DEF StoreInv, SentBehindCursor
<1>5. SentUpTo(base + cursor)
  <2>1. base + cursor = Frontier + Len(batch) \/ base + cursor = accepted
    <3>1. accepted \in Int /\ Len(events) \in Int /\ Len(batch) \in Int /\ sendCursor \in Int
      BY <1>1
    <3>2. CASE cursor = sendCursor + Len(batch)
      BY <3>1, <3>2 DEF Frontier
    <3>3. CASE cursor = Len(events)
      BY <3>1, <3>3
    <3> QED
      BY <1>3, <3>2, <3>3
  <2> QED
    BY <1>4, <2>1
<1>6. Frontier' = base + cursor
  BY <1>2 DEF Frontier
<1>7. SentBehindCursor' /\ BatchFollowsSent' /\ SentInOrder'
  BY <1>2, <1>4, <1>5, <1>6
  DEF StoreInv, SentBehindCursor, SentUpTo, BatchFollowsSent, SentInOrder
<1>8. StoreTypeOK'
  <2>1. batch' \in Seq(Event) /\ Len(batch') <= BatchSize
    BY <1>2, ConstantsAssumption
  <2> QED
    BY <1>1, <1>2, <1>3, <2>1 DEF StoreTypeOK
<1> QED
  BY <1>1, <1>2, <1>7, <1>8 DEF StoreInv

\* A step of Run that neither sends nor advances leaves what was sent behind
\* the cursor, and no batch in flight.
LEMMA ControlStepPreserves ==
  ASSUME StoreInv, pc # "advance", pc' \notin {"send", "advance"},
         UNCHANGED <<events, sendCursor, accepted, sent>>
  PROVE  IdsNewest(events', accepted') /\ BatchFollowsSent' /\ SentBehindCursor' /\ SentInOrder'
BY DEF StoreInv, BatchFollowsSent, SentBehindCursor, SentUpTo, Frontier, SentInOrder

\* A step that touches neither the data nor Run's position.
LEMMA UnchangedDataPreserves ==
  ASSUME StoreInv, now' \in Nat,
         UNCHANGED <<events, sendCursor, droppedUnsent, batch, pc, pendingDropLog,
                     backoff, accepted, sent, loggedDrops>>
  PROVE  StoreInv'
<1>1. StoreTypeOK' /\ IdsNewest(events', accepted') /\ SentInOrder'
  BY DEF StoreInv, StoreTypeOK, SentInOrder
<1>2. BatchFollowsSent' /\ SentBehindCursor'
  BY DEF StoreInv, BatchFollowsSent, SentBehindCursor, SentUpTo, Frontier, Consecutive
<1> QED
  BY <1>1, <1>2 DEF StoreInv

\* Dialling, sleeping, selecting, and finding nothing to send.
LEMMA IdleStepPreserves ==
  ASSUME StoreInv,
         Stop \/ DialFail \/ DialOK \/ Sleep \/ SelectTick \/ SelectFlush
           \/ SelectDone \/ PeekNothing
  PROVE  StoreInv'
<1> USE DEF Stop, DialFail, DialOK, Sleep, SelectTick, SelectFlush, SelectDone, PeekNothing
<1>1. /\ UNCHANGED <<events, sendCursor, droppedUnsent, batch>>
      /\ UNCHANGED <<pendingDropLog, accepted, sent, loggedDrops, now>>
  BY DEF storeVars, historyVars
<1>2. pc # "advance" /\ pc' \notin {"send", "advance"}
  OBVIOUS
<1>3. backoff' = backoff \/ backoff' = BackoffMin \/ backoff' = NextBackoff(backoff)
  OBVIOUS
<1>4. backoff' \in Nat \ {0}
  BY <1>3, NextBackoffPositive, ConstantsAssumption DEF StoreInv, StoreTypeOK
<1>5. StoreTypeOK'
  BY <1>1, <1>4 DEF StoreInv, StoreTypeOK
<1> QED
  BY <1>1, <1>2, <1>5, ControlStepPreserves DEF StoreInv

\* The drop counters stay natural numbers while they are moved to the log.
LEMMA LogDroppedUnsentPreserves ==
  ASSUME StoreInv, LogDroppedUnsent
  PROVE  StoreInv'
<1>1. /\ UNCHANGED <<events, sendCursor, batch, backoff, now, accepted, sent>>
      /\ pc = "log" /\ pc' = "peek"
  BY DEF LogDroppedUnsent
<1>2. droppedUnsent' \in Nat /\ pendingDropLog' \in Nat /\ loggedDrops' \in Nat
  BY DEF LogDroppedUnsent, UnreportedDrops, StoreInv, StoreTypeOK
<1>3. StoreTypeOK'
  BY <1>1, <1>2 DEF StoreInv, StoreTypeOK
<1> QED
  BY <1>1, <1>3, ControlStepPreserves DEF StoreInv

\* A failed Send forgets the batch and leaves the cursor where it was.
LEMMA SendFailPreserves ==
  ASSUME StoreInv, SendFail
  PROVE  StoreInv'
<1>1. /\ UNCHANGED <<events, sendCursor, droppedUnsent>>
      /\ UNCHANGED <<pendingDropLog, backoff, accepted, sent, loggedDrops, now>>
      /\ batch' = <<>>
      /\ pc = "send" /\ pc' \in {"stopped", "log", "backoff"}
  BY DEF SendFail, ReturnError, storeVars, historyVars
<1>2. batch' \in Seq(Event) /\ Len(batch') <= BatchSize
  BY <1>1, ConstantsAssumption
<1>3. StoreTypeOK'
  BY <1>1, <1>2 DEF StoreInv, StoreTypeOK
<1> QED
  BY <1>1, <1>3, ControlStepPreserves DEF StoreInv

\* Every step preserves the invariant.
LEMMA NextPreservesStoreInv == StoreInv /\ [Next]_vars => StoreInv'
<1> SUFFICES ASSUME StoreInv, [Next]_vars PROVE StoreInv'
  OBVIOUS
<1>0. now \in Nat
  BY DEF StoreInv, StoreTypeOK
<1>1. ASSUME NEW a \in Agents, AppendBatch(a) PROVE StoreInv'
  BY <1>1, AppendBatchPreserves
<1>2. ASSUME NEW a \in Agents, NotifyAppended(a) \/ SignalFlush(a) PROVE StoreInv'
  BY <1>0, <1>2, UnchangedDataPreserves
  DEF NotifyAppended, SignalFlush, storeVars, clientVars, historyVars
<1>3. CASE Tick
  <2>1. now' \in Nat
    BY <1>0, <1>3 DEF Tick
  <2> QED
    BY <1>3, <2>1, UnchangedDataPreserves DEF Tick, storeVars, clientVars, historyVars
<1>4. CASE Cancel
  BY <1>0, <1>4, UnchangedDataPreserves DEF Cancel, storeVars, clientVars, historyVars
<1>5. CASE Stop \/ DialFail \/ DialOK \/ Sleep \/ SelectTick \/ SelectFlush
             \/ SelectDone \/ PeekNothing
  BY <1>5, IdleStepPreserves
<1>6. CASE LogDroppedUnsent
  BY <1>6, LogDroppedUnsentPreserves
<1>7. CASE PeekUnsentBatch
  BY <1>7, PeekUnsentBatchPreserves
<1>8. CASE SendOK
  BY <1>8, SendOKPreserves
<1>9. CASE SendFail
  BY <1>9, SendFailPreserves
<1>10. CASE AdvanceSendCursor
  BY <1>10, AdvanceSendCursorPreserves
<1>11. CASE UNCHANGED vars
  BY <1>0, <1>11, UnchangedDataPreserves DEF vars, storeVars, clientVars, historyVars
<1> QED
  BY <1>1, <1>2, <1>3, <1>4, <1>5, <1>6, <1>7, <1>8, <1>9, <1>10, <1>11
  DEF Next, PushEvents, Run
-----------------------------------------------------------------------------
(* The control state                                                       *)

\* No step leaves the types of the control state.
LEMMA NextPreservesControlTypeOK == ControlTypeOK /\ [Next]_vars => ControlTypeOK'
<1> SUFFICES ASSUME ControlTypeOK, [Next]_vars PROVE ControlTypeOK'
  OBVIOUS
<1> USE DEF ControlTypeOK
<1>1. ASSUME NEW a \in Agents, AppendBatch(a) PROVE ControlTypeOK'
  <2>1. overtaken' \in BOOLEAN
    BY <1>1 DEF AppendBatch
  <2> QED
    BY <1>1, <2>1 DEF AppendBatch, clientVars
<1>2. ASSUME NEW a \in Agents, NotifyAppended(a) \/ SignalFlush(a) PROVE ControlTypeOK'
  BY <1>2 DEF NotifyAppended, SignalFlush, clientVars, historyVars
<1>3. CASE Tick \/ Cancel
  BY <1>3 DEF Tick, Cancel, clientVars, historyVars
<1>4. CASE Stop \/ DialFail \/ DialOK \/ Sleep
  BY <1>4 DEF Stop, DialFail, DialOK, Sleep, historyVars
<1>5. CASE SelectTick \/ SelectFlush \/ SelectDone
  BY <1>5 DEF SelectTick, SelectFlush, SelectDone, historyVars
<1>6. CASE LogDroppedUnsent \/ PeekUnsentBatch \/ PeekNothing
  BY <1>6 DEF LogDroppedUnsent, PeekUnsentBatch, PeekNothing, historyVars
<1>7. CASE SendOK \/ SendFail \/ AdvanceSendCursor
  BY <1>7 DEF SendOK, SendFail, ReturnError, AdvanceSendCursor, historyVars
<1>8. CASE UNCHANGED vars
  BY <1>8 DEF vars, clientVars, historyVars
<1> QED
  BY <1>1, <1>2, <1>3, <1>4, <1>5, <1>6, <1>7, <1>8 DEF Next, PushEvents, Run
-----------------------------------------------------------------------------
\* The store's invariant holds in every reachable state.
THEOREM StoreInvariant == Spec => []StoreInv
BY InitStoreInv, NextPreservesStoreInv, PTL DEF Spec

\* Types and bounds: Store.events never exceeds maxEvents and sendCursor never
\* points beyond it, however appends, evictions and advances interleave.
THEOREM TypeCorrect == Spec => []TypeOK
<1>1. Init => ControlTypeOK
  BY DEF Init, ControlTypeOK
<1>2. StoreInv => StoreTypeOK
  BY DEF StoreInv
<1> QED
  BY <1>1, <1>2, NextPreservesControlTypeOK, StoreInvariant, PTL DEF Spec, TypeOK

\* At most once and in order: sendPending never hands Insights an event a
\* second time or after a younger one, although AppendBatch may evict the
\* events of a batch between PeekUnsentBatch and AdvanceSendCursor.
THEOREM NeverSentTwice == Spec => []SentInOrder
<1>1. StoreInv => SentInOrder
  BY DEF StoreInv
<1> QED
  BY <1>1, StoreInvariant, PTL
-----------------------------------------------------------------------------
(* Flush requests                                                          *)

\* No step loses a wake-up: Run begins to wait when nothing is unsent, and only
\* a handler that will look at the store again makes more unsent.
LEMMA NextPreservesNoLostFlush ==
  StoreInv /\ ControlTypeOK /\ NoLostFlush /\ [Next]_vars => NoLostFlush'
<1> SUFFICES ASSUME StoreInv, ControlTypeOK, NoLostFlush, [Next]_vars PROVE NoLostFlush'
  OBVIOUS
<1>1. ASSUME NEW a \in Agents, AppendBatch(a) PROVE NoLostFlush'
  BY <1>1 DEF AppendBatch, NoLostFlush, ControlTypeOK
<1>2. ASSUME NEW a \in Agents, NotifyAppended(a) PROVE NoLostFlush'
  <2>1. /\ UNCHANGED <<events, sendCursor, pc, flushCh>>
        /\ handler' = [handler EXCEPT ![a] = IF UnsentCount >= BatchSize THEN "signal" ELSE "recv"]
    BY <1>2 DEF NotifyAppended, ShouldFlush, storeVars, clientVars
  <2> QED
    BY <2>1 DEF NoLostFlush, ControlTypeOK, UnsentCount
<1>3. ASSUME NEW a \in Agents, SignalFlush(a) PROVE NoLostFlush'
  BY <1>3 DEF SignalFlush, NoLostFlush
<1>4. CASE Tick \/ Cancel \/ UNCHANGED vars
  BY <1>4 DEF Tick, Cancel, vars, storeVars, clientVars, NoLostFlush, UnsentCount
<1>5. CASE PeekNothing
  <2>1. UnsentCount' = 0 /\ ~ (0 >= BatchSize)
    BY <1>5, ConstantsAssumption DEF PeekNothing, storeVars, UnsentCount
  <2> QED
    BY <2>1 DEF NoLostFlush
<1>6. CASE \/ Stop \/ DialFail \/ DialOK \/ Sleep \/ SelectTick \/ SelectFlush \/ SelectDone
           \/ LogDroppedUnsent \/ PeekUnsentBatch \/ SendOK \/ SendFail \/ AdvanceSendCursor
  <2>1. pc' # "select"
    BY <1>6 DEF Stop, DialFail, DialOK, Sleep, SelectTick, SelectFlush, SelectDone,
                LogDroppedUnsent, PeekUnsentBatch, SendOK, SendFail, ReturnError, AdvanceSendCursor
  <2> QED
    BY <2>1 DEF NoLostFlush
<1> QED
  BY <1>1, <1>2, <1>3, <1>4, <1>5, <1>6 DEF Next, PushEvents, Run

\* No wake-up is lost: a full batch never waits for the ticker alone, however the
\* handlers' looks at the store and their signals fall between the steps of Run
\* (NotifyAppended, runConnected).
THEOREM FlushRequestsArrive == Spec => []NoLostFlush
<1>1. Init => NoLostFlush
  BY DEF Init, NoLostFlush
<1>2. TypeOK => ControlTypeOK
  BY DEF TypeOK
<1> QED
  BY <1>1, <1>2, NextPreservesNoLostFlush, StoreInvariant, TypeCorrect, PTL DEF Spec
-----------------------------------------------------------------------------
(* What becomes of every event                                             *)

\* The numbers of the unsent events, and of the batch in flight, are ranges.
LEMMA IdRanges ==
  ASSUME StoreInv
  PROVE  /\ Frontier \in Nat /\ Frontier <= accepted /\ accepted \in Nat
         /\ UnsentIds = (Frontier + 1)..accepted
         /\ pc = "send" => /\ batch[1].id \in Nat
                           /\ InFlightIds = batch[1].id..(batch[1].id + Len(batch) - 1)
<1>1. /\ events \in Seq(Event) /\ accepted \in Nat /\ sendCursor \in 0..Len(events)
      /\ Len(events) <= accepted /\ Len(events) \in Nat /\ batch \in Seq(Event)
      /\ \A i \in 1..Len(events) : events[i].id = accepted - Len(events) + i
  <2>1. events \in Seq(Event) /\ accepted \in Nat /\ sendCursor \in 0..Len(events)
        /\ batch \in Seq(Event)
    BY DEF StoreInv, StoreTypeOK
  <2>2. Len(events) \in Nat
    BY <2>1
  <2>3. /\ Len(events) <= accepted
        /\ \A i \in 1..Len(events) : events[i].id = accepted - Len(events) + i
    BY DEF StoreInv, IdsNewest
  <2> QED
    BY <2>1, <2>2, <2>3
<1>2. Frontier \in Nat /\ Frontier <= accepted
  BY <1>1 DEF Frontier
<1>3. ASSUME NEW x \in UnsentIds PROVE x \in (Frontier + 1)..accepted
  <2>1. PICK i \in (sendCursor + 1)..Len(events) : x = events[i].id
    BY DEF UnsentIds
  <2>2. i \in 1..Len(events)
    BY <1>1
  <2>3. x = accepted - Len(events) + i
    BY <1>1, <2>1, <2>2
  <2> QED
    BY <1>1, <2>1, <2>3 DEF Frontier
<1>4. ASSUME NEW x \in (Frontier + 1)..accepted PROVE x \in UnsentIds
  <2> DEFINE i == x - (accepted - Len(events))
  <2>1. i \in (sendCursor + 1)..Len(events) /\ i \in 1..Len(events)
        /\ x = accepted - Len(events) + i
    BY <1>1 DEF Frontier
  <2> HIDE DEF i
  <2>2. events[i].id = x
    BY <1>1, <2>1
  <2> QED
    BY <2>1, <2>2 DEF UnsentIds
<1>5. ASSUME pc = "send"
      PROVE  batch[1].id \in Nat /\ InFlightIds = batch[1].id..(batch[1].id + Len(batch) - 1)
  <2> DEFINE first == batch[1].id
  <2>1. Len(batch) > 0 /\ \A i \in 1..Len(batch) : batch[i].id = first + i - 1
    BY <1>5 DEF StoreInv, BatchFollowsSent, Consecutive
  <2>2. first \in Nat
    <3>1. batch[1] \in Event
      BY <1>1, <2>1
    <3> QED
      BY <3>1 DEF Event
  <2>3. InFlightIds = {batch[i].id : i \in 1..Len(batch)}
    BY <1>5 DEF InFlightIds
  <2> HIDE DEF first
  <2>4. ASSUME NEW x \in first..(first + Len(batch) - 1) PROVE x \in InFlightIds
    <3>1. x - first + 1 \in 1..Len(batch) /\ x = first + (x - first + 1) - 1
      BY <1>1, <2>2
    <3>2. batch[x - first + 1].id = x
      BY <2>1, <3>1
    <3> QED
      BY <2>3, <3>1, <3>2
  <2>5. ASSUME NEW x \in InFlightIds PROVE x \in first..(first + Len(batch) - 1)
    <3>1. PICK i \in 1..Len(batch) : x = batch[i].id
      BY <2>3
    <3> QED
      BY <1>1, <2>1, <2>2, <3>1
  <2> QED
    BY <2>2, <2>4, <2>5 DEF first
<1> QED
  BY <1>1, <1>2, <1>3, <1>4, <1>5

\* What AppendBatch does to the counters, in terms of the events it drops.
LEMMA AppendBatchCounts ==
  ASSUME StoreInv, NEW a \in Agents, AppendBatch(a)
  PROVE  \E n \in Nat \ {0}, drop \in Nat :
           /\ accepted' = accepted + n
           /\ Len(events') = Len(events) + n - drop /\ drop <= Len(events) + n
           /\ sendCursor' = CursorAfterDrop(sendCursor, drop)
           /\ droppedUnsent' = droppedUnsent + LostUnsent(sendCursor, drop)
           /\ overtaken' = (overtaken \/ (batch # <<>> /\ drop > sendCursor))
<1>1. /\ events \in Seq(Event) /\ accepted \in Nat /\ sendCursor \in Nat /\ Len(events) \in Nat
      /\ droppedUnsent \in Nat
  BY DEF StoreInv, StoreTypeOK
<1>0. PICK n \in 1..MaxPush : \E stamps \in [1..n -> Stamps] :
        /\ accepted' = accepted + n
        /\ \E stale \in 0..Len(events \o Rows(a, stamps)) :
             LET evs     == events \o Rows(a, stamps)
                 over    == Overflow(Len(evs) - stale)
                 cursor1 == CursorAfterDrop(sendCursor, stale)
                 drop    == stale + over
             IN /\ events' = SubSeq(evs, drop + 1, Len(evs))
                /\ sendCursor' = CursorAfterDrop(cursor1, over)
                /\ droppedUnsent' = droppedUnsent + LostUnsent(sendCursor, stale)
                                                  + LostUnsent(cursor1, over)
                /\ overtaken' = (overtaken \/ (batch # <<>> /\ drop > sendCursor))
  BY DEF AppendBatch
<1>2. PICK stamps \in [1..n -> Stamps] :
        /\ accepted' = accepted + n
        /\ \E stale \in 0..Len(events \o Rows(a, stamps)) :
             LET evs     == events \o Rows(a, stamps)
                 over    == Overflow(Len(evs) - stale)
                 cursor1 == CursorAfterDrop(sendCursor, stale)
                 drop    == stale + over
             IN /\ events' = SubSeq(evs, drop + 1, Len(evs))
                /\ sendCursor' = CursorAfterDrop(cursor1, over)
                /\ droppedUnsent' = droppedUnsent + LostUnsent(sendCursor, stale)
                                                  + LostUnsent(cursor1, over)
                /\ overtaken' = (overtaken \/ (batch # <<>> /\ drop > sendCursor))
  BY <1>0
<1> DEFINE evs == events \o Rows(a, stamps)
<1>3. PICK stale \in 0..Len(evs) :
        LET over    == Overflow(Len(evs) - stale)
            cursor1 == CursorAfterDrop(sendCursor, stale)
            drop    == stale + over
        IN /\ events' = SubSeq(evs, drop + 1, Len(evs))
           /\ sendCursor' = CursorAfterDrop(cursor1, over)
           /\ droppedUnsent' = droppedUnsent + LostUnsent(sendCursor, stale)
                                             + LostUnsent(cursor1, over)
           /\ overtaken' = (overtaken \/ (batch # <<>> /\ drop > sendCursor))
  BY <1>2
<1> DEFINE over == Overflow(Len(evs) - stale)
           drop == stale + over
<1>4. n \in Nat \ {0}
  BY ConstantsAssumption
<1>5. evs \in Seq(Event) /\ Len(evs) = Len(events) + n
  <2>1. Rows(a, stamps) \in Seq(Event) /\ Len(Rows(a, stamps)) = n
    BY <1>1, <1>4, RowsProperties
  <2> QED
    BY <1>1, <2>1, ConcatProperties
<1>6. /\ events' = SubSeq(evs, drop + 1, Len(evs))
      /\ sendCursor' = CursorAfterDrop(CursorAfterDrop(sendCursor, stale), over)
      /\ droppedUnsent' = droppedUnsent + LostUnsent(sendCursor, stale)
                            + LostUnsent(CursorAfterDrop(sendCursor, stale), over)
      /\ overtaken' = (overtaken \/ (batch # <<>> /\ drop > sendCursor))
  BY <1>3
<1> HIDE DEF evs
<1>7. stale \in Nat /\ over \in Nat /\ drop <= Len(evs)
  <2>1. Len(evs) - stale \in Nat /\ stale \in Nat /\ stale <= Len(evs) /\ Len(evs) \in Nat
    BY <1>1, <1>3, <1>4, <1>5
  <2>2. over \in 0..(Len(evs) - stale)
    BY <2>1, OverflowBound
  <2> QED
    BY <2>1, <2>2
<1> HIDE DEF over
<1>8. drop \in Nat /\ Len(events') = Len(evs) - drop
  BY <1>5, <1>6, <1>7
<1>9. /\ sendCursor' = CursorAfterDrop(sendCursor, drop)
      /\ droppedUnsent' = droppedUnsent + LostUnsent(sendCursor, drop)
  BY <1>1, <1>6, <1>7 DEF CursorAfterDrop, LostUnsent
<1>10. Len(events') = Len(events) + n - drop /\ drop <= Len(events) + n
  BY <1>5, <1>7, <1>8
<1> HIDE DEF drop
<1> QED
  BY <1>2, <1>4, <1>6, <1>8, <1>9, <1>10

CountedDrops == droppedUnsent + pendingDropLog + loggedDrops

\* While no batch was overtaken, the batch in flight begins at the frontier, and what is
\* behind the frontier, or behind the batch that was just sent, was sent or counted.
AccountInv ==
  /\ pc \notin {"send", "advance"} => batch = <<>>
  /\ ~overtaken =>
       /\ pc = "send" => batch[1].id = Frontier + 1
       /\ pc = "advance" => /\ Frontier + Len(batch) <= accepted
                            /\ (Frontier + 1)..(Frontier + Len(batch)) \subseteq SentIds
       /\ Len(sent) + CountedDrops = IF pc = "advance" THEN Frontier + Len(batch) ELSE Frontier

\* What was sent is numbered up to accepted, and it and the events pending are finitely many.
LEMMA SentAndPending ==
  ASSUME StoreInv
  PROVE  /\ SentIds \subseteq 0..accepted /\ Pending \subseteq 0..accepted
         /\ IsFiniteSet(SentIds) /\ IsFiniteSet(Pending)
         /\ Cardinality(SentIds) \in Nat /\ Cardinality(Pending) \in Nat
<1>1. accepted \in Nat /\ sent \in Seq(Nat) /\ SentUpTo(accepted)
  BY DEF StoreInv, StoreTypeOK, SentBehindCursor
<1>2. SentIds \subseteq 0..accepted
  <2>1. \A i \in 1..Len(sent) : sent[i] \in Nat /\ sent[i] <= accepted
    BY <1>1 DEF SentUpTo
  <2> QED
    BY <1>1, <2>1 DEF SentIds
<1>3. Pending \subseteq 0..accepted
  <2>1. CASE pc = "send"
    <3>1. batch[1].id - 1 + Len(batch) <= accepted /\ Len(batch) \in Nat
      BY <2>1 DEF StoreInv, StoreTypeOK, BatchFollowsSent
    <3> QED
      BY <2>1, <3>1, IdRanges DEF Pending
  <2>2. CASE pc # "send"
    BY <2>2, IdRanges DEF Pending, InFlightIds
  <2> QED
    BY <2>1, <2>2
<1>4. IsFiniteSet(0..accepted)
  BY <1>1, FS_Interval
<1> QED
  BY <1>2, <1>3, <1>4, FS_Subset, FS_CardinalityType

\* The size of a range.
LEMMA RangeSize ==
  ASSUME NEW i \in Nat, NEW j \in Nat, i <= j
  PROVE  IsFiniteSet((i + 1)..j) /\ Cardinality((i + 1)..j) = j - i
<1>1. i + 1 \in Int /\ j \in Int
  OBVIOUS
<1>2. /\ IsFiniteSet((i + 1)..j)
      /\ Cardinality((i + 1)..j) = IF i + 1 > j THEN 0 ELSE j - (i + 1) + 1
  BY <1>1, FS_Interval
<1> QED
  BY <1>2

\* The accounts are balanced when what is behind the frontier is.
LEMMA AccountsBalance == StoreInv /\ ControlTypeOK /\ AccountInv => DropsCountedUnlessOvertaken
<1> SUFFICES ASSUME StoreInv, AccountInv, ~overtaken
             PROVE  accepted = Cardinality(Pending) + Len(sent) + droppedUnsent
                                 + pendingDropLog + loggedDrops
  BY DEF DropsCountedUnlessOvertaken
<1>1. /\ Len(sent) \in Nat /\ Len(batch) \in Nat
      /\ droppedUnsent \in Nat /\ pendingDropLog \in Nat /\ loggedDrops \in Nat
      /\ accepted \in Nat /\ sent \in Seq(Nat)
  BY DEF StoreInv, StoreTypeOK
<1>2. Frontier \in Nat /\ Frontier <= accepted /\ UnsentIds = (Frontier + 1)..accepted
  BY IdRanges
<1>3. CASE pc = "advance"
  <2>1. /\ Frontier + Len(batch) <= accepted
        /\ (Frontier + 1)..(Frontier + Len(batch)) \subseteq SentIds
        /\ Len(sent) + CountedDrops = Frontier + Len(batch)
        /\ \A x \in SentIds : x <= Frontier + Len(batch)
    BY <1>3 DEF AccountInv, StoreInv, SentBehindCursor, SentUpTo, SentIds
  <2>2. Pending = (Frontier + Len(batch) + 1)..accepted
    BY <1>1, <1>2, <1>3, <2>1, SentAndPending DEF Pending, InFlightIds
  <2>3. Cardinality(Pending) = accepted - (Frontier + Len(batch))
    <3>1. Frontier + Len(batch) \in Nat
      BY <1>1, <1>2
    <3> QED
      BY <1>1, <2>1, <2>2, <3>1, RangeSize
  <2> QED
    BY <1>1, <1>2, <2>1, <2>3 DEF CountedDrops
<1>4. CASE pc # "advance"
  <2>1. \A x \in SentIds : x <= Frontier
    BY <1>4 DEF StoreInv, SentBehindCursor, SentUpTo, SentIds
  <2>2. InFlightIds \subseteq UnsentIds
    <3>1. CASE pc = "send"
      <4>1. batch[1].id = Frontier + 1 /\ batch[1].id - 1 + Len(batch) <= accepted
        BY <3>1 DEF AccountInv, StoreInv, BatchFollowsSent
      <4> QED
        BY <1>1, <1>2, <3>1, <4>1, IdRanges
    <3>2. CASE pc # "send"
      BY <3>2 DEF InFlightIds
    <3> QED
      BY <3>1, <3>2
  <2>3. Pending = (Frontier + 1)..accepted
    BY <1>2, <2>1, <2>2, SentAndPending DEF Pending
  <2>4. Cardinality(Pending) = accepted - Frontier
    BY <1>1, <1>2, <2>3, RangeSize
  <2> QED
    BY <1>1, <1>2, <1>4, <2>4, SMTT(30) DEF CountedDrops, AccountInv
<1> QED
  BY <1>3, <1>4

\* The accounts stay balanced.
LEMMA NextPreservesAccountInv ==
  StoreInv /\ ControlTypeOK /\ AccountInv /\ [Next]_vars => AccountInv'
<1> SUFFICES ASSUME StoreInv, ControlTypeOK, AccountInv, [Next]_vars PROVE AccountInv'
  OBVIOUS
<1>1. /\ Len(sent) \in Nat /\ Len(batch) \in Nat /\ Len(events) \in Nat
      /\ droppedUnsent \in Nat /\ pendingDropLog \in Nat /\ loggedDrops \in Nat
      /\ accepted \in Nat /\ sent \in Seq(Nat) /\ sendCursor \in Nat /\ sendCursor <= Len(events)
      /\ batch \in Seq(Event) /\ overtaken \in BOOLEAN
  BY DEF StoreInv, StoreTypeOK, ControlTypeOK
<1>2. ASSUME NEW a \in Agents, AppendBatch(a) PROVE AccountInv'
  <2>1. PICK n \in Nat \ {0}, drop \in Nat :
           /\ accepted' = accepted + n
           /\ Len(events') = Len(events) + n - drop /\ drop <= Len(events) + n
           /\ sendCursor' = CursorAfterDrop(sendCursor, drop)
           /\ droppedUnsent' = droppedUnsent + LostUnsent(sendCursor, drop)
           /\ overtaken' = (overtaken \/ (batch # <<>> /\ drop > sendCursor))
    BY <1>2, AppendBatchCounts
  <2>2. UNCHANGED <<pc, batch, sent, pendingDropLog, loggedDrops>>
    BY <1>2 DEF AppendBatch, clientVars
  <2>3. /\ pc' \notin {"send", "advance"} => batch' = <<>>
        /\ SentIds' = SentIds
    BY <2>2 DEF AccountInv, SentIds
  <2>4. CASE drop <= sendCursor
    <3>1. sendCursor' = sendCursor - drop /\ droppedUnsent' = droppedUnsent
      BY <1>1, <2>1, <2>4 DEF CursorAfterDrop, LostUnsent
    <3>2. Frontier' = Frontier /\ CountedDrops' = CountedDrops
      <4>1. Frontier' = (accepted + n) - (Len(events) + n - drop) + (sendCursor - drop)
        BY <2>1, <3>1 DEF Frontier
      <4>2. (accepted + n) - (Len(events) + n - drop) + (sendCursor - drop) = Frontier
        BY <1>1 DEF Frontier
      <4>3. CountedDrops' = CountedDrops
        BY <2>2, <3>1 DEF CountedDrops
      <4> QED
        BY <4>1, <4>2, <4>3
    <3>3. Frontier \in Int
      BY <1>1 DEF Frontier
    <3>4. ~overtaken' => ~overtaken
      BY <2>1, Zenon
    <3>5. Len(batch) \in Int /\ accepted' \in Int /\ accepted <= accepted'
      BY <1>1, <2>1
    <3> QED
      BY <1>1, <2>2, <2>3, <3>2, <3>3, <3>4, <3>5 DEF AccountInv
  <2>5. CASE ~ (drop <= sendCursor)
    <3>1. sendCursor' = 0 /\ droppedUnsent' = droppedUnsent + (drop - sendCursor)
      BY <1>1, <2>1, <2>5 DEF CursorAfterDrop, LostUnsent
    <3>2. /\ Frontier' = Frontier + (drop - sendCursor)
          /\ CountedDrops' = CountedDrops + (drop - sendCursor)
      <4>1. Frontier' = (accepted + n) - (Len(events) + n - drop) + 0
        BY <2>1, <3>1 DEF Frontier
      <4>2. (accepted + n) - (Len(events) + n - drop) + 0 = Frontier + (drop - sendCursor)
        BY <1>1 DEF Frontier
      <4>3. CountedDrops' = (droppedUnsent + (drop - sendCursor)) + pendingDropLog + loggedDrops
        BY <2>2, <3>1 DEF CountedDrops
      <4>4. (droppedUnsent + (drop - sendCursor)) + pendingDropLog + loggedDrops
              = CountedDrops + (drop - sendCursor)
        BY <1>1 DEF CountedDrops
      <4> QED
        BY <4>1, <4>2, <4>3, <4>4
    <3>3. CASE overtaken'
      BY <2>3, <3>3 DEF AccountInv
    <3>4. CASE ~overtaken'
      <4>1. ~overtaken /\ batch = <<>>
        <5>1. drop > sendCursor
          BY <1>1, <2>5
        <5> QED
          BY <2>1, <3>4, <5>1, Zenon
      <4>2. pc # "send"
        BY <1>1, <4>1 DEF StoreInv, BatchFollowsSent
      <4>3. Len(batch) = 0 /\ Frontier \in Int /\ CountedDrops \in Int
        BY <1>1, <4>1 DEF Frontier, CountedDrops
      <4>4. Len(sent) + CountedDrops = Frontier
        BY <4>1, <4>3 DEF AccountInv
      <4>5. pc = "advance" => Frontier' + Len(batch) <= accepted'
        BY <1>1, <2>1, <3>1, <4>3 DEF Frontier
      <4>6. (Frontier' + 1)..(Frontier' + Len(batch)) = {}
        BY <1>1, <3>2, <4>3
      <4> QED
        BY <1>1, <2>1, <2>2, <2>3, <3>2, <4>2, <4>3, <4>4, <4>5, <4>6 DEF AccountInv
    <3> QED
      BY <3>3, <3>4
  <2> QED
    BY <2>4, <2>5
<1>3. ASSUME UNCHANGED <<events, sendCursor, droppedUnsent, batch, pc>>,
             UNCHANGED <<pendingDropLog, accepted, sent, loggedDrops, overtaken>>
      PROVE  AccountInv'
  BY <1>3 DEF AccountInv, Frontier, CountedDrops, SentIds
<1>4. ASSUME NEW a \in Agents, NotifyAppended(a) \/ SignalFlush(a) PROVE AccountInv'
  BY <1>3, <1>4 DEF NotifyAppended, SignalFlush, storeVars, clientVars, historyVars
<1>5. CASE Tick \/ Cancel \/ UNCHANGED vars
  BY <1>3, <1>5 DEF Tick, Cancel, vars, storeVars, clientVars, historyVars
<1>6. ASSUME pc \notin {"send", "advance"}, pc' \notin {"send", "advance"},
             UNCHANGED <<events, sendCursor, batch, accepted, sent, overtaken>>,
             CountedDrops' = CountedDrops
      PROVE  AccountInv'
  BY <1>6 DEF AccountInv, Frontier
<1>7. CASE Stop \/ DialFail \/ DialOK \/ Sleep \/ SelectTick \/ SelectFlush
             \/ SelectDone \/ PeekNothing
  <2>1. /\ pc \notin {"send", "advance"} /\ pc' \notin {"send", "advance"}
        /\ UNCHANGED <<events, sendCursor, batch, accepted, sent, overtaken>>
        /\ UNCHANGED <<droppedUnsent, pendingDropLog, loggedDrops>>
    BY <1>7 DEF Stop, DialFail, DialOK, Sleep, SelectTick, SelectFlush, SelectDone, PeekNothing,
                storeVars, historyVars
  <2>2. CountedDrops' = CountedDrops
    BY <2>1 DEF CountedDrops
  <2> QED
    BY <1>6, <2>1, <2>2
<1>8. CASE LogDroppedUnsent
  <2>1. /\ pc \notin {"send", "advance"} /\ pc' \notin {"send", "advance"}
        /\ UNCHANGED <<events, sendCursor, batch, accepted, sent, overtaken>>
    BY <1>8 DEF LogDroppedUnsent
  <2>2. CountedDrops' = CountedDrops
    <3>1. droppedUnsent' = 0
      BY <1>8 DEF LogDroppedUnsent
    <3>2. pendingDropLog' + loggedDrops' = droppedUnsent + pendingDropLog + loggedDrops
          /\ pendingDropLog' \in Int /\ loggedDrops' \in Int
      BY <1>1, <1>8 DEF LogDroppedUnsent, UnreportedDrops
    <3>3. CountedDrops' = 0 + pendingDropLog' + loggedDrops'
      BY <3>1 DEF CountedDrops
    <3>4. CountedDrops' = pendingDropLog' + loggedDrops'
      BY <3>2, <3>3
    <3> QED
      BY <3>2, <3>4 DEF CountedDrops
  <2> QED
    BY <1>6, <2>1, <2>2
<1>9. CASE PeekUnsentBatch
  <2>1. /\ UNCHANGED <<events, sendCursor, accepted, sent, overtaken>>
        /\ UNCHANGED <<droppedUnsent, pendingDropLog, loggedDrops>>
        /\ pc = "peek" /\ pc' = "send" /\ UnsentCount > 0
    BY <1>9 DEF PeekUnsentBatch, storeVars, historyVars
  <2>2. PICK n \in RunLengths :
          /\ \A m \in RunLengths : m <= n
          /\ batch' = SubSeq(events, sendCursor + 1, sendCursor + n)
    BY <1>9 DEF PeekUnsentBatch, OldestUnsent
  <2>3. sendCursor < Len(events)
    BY <1>1, <2>1 DEF UnsentCount
  <2>4. 1 \in RunLengths /\ n \in Nat /\ sendCursor + n <= Len(events)
    BY <1>1, <2>3, ConstantsAssumption DEF RunLengths
  <2>5. n >= 1
    BY <2>2, <2>4
  <2>6. batch'[1] = events[sendCursor + 1]
    <3>1. events \in Seq(Event)
      BY DEF StoreInv, StoreTypeOK
    <3> QED
      BY <1>1, <2>2, <2>4, <2>5, <3>1
  <2>7. events[sendCursor + 1].id = accepted - Len(events) + (sendCursor + 1)
    BY <1>1, <2>3 DEF StoreInv, IdsNewest
  <2>8. batch'[1].id = Frontier + 1 /\ Frontier' = Frontier /\ CountedDrops' = CountedDrops
    BY <1>1, <2>1, <2>6, <2>7 DEF Frontier, CountedDrops
  <2> QED
    BY <2>1, <2>8 DEF AccountInv
<1>10. CASE SendOK
  <2> DEFINE ids == [i \in 1..Len(batch) |-> batch[i].id]
             first == batch[1].id
  <2>1. /\ UNCHANGED <<events, sendCursor, accepted, batch, overtaken>>
        /\ UNCHANGED <<droppedUnsent, pendingDropLog, loggedDrops>>
        /\ pc = "send" /\ pc' = "advance" /\ sent' = sent \o ids
    BY <1>10 DEF SendOK, storeVars
  <2>2. /\ \A i \in 1..Len(batch) : batch[i].id = first + i - 1
        /\ first - 1 + Len(batch) <= accepted
    BY <2>1 DEF StoreInv, BatchFollowsSent, Consecutive
  <2>3. Frontier' = Frontier /\ Frontier \in Nat /\ CountedDrops' = CountedDrops
    BY <2>1, IdRanges DEF Frontier, CountedDrops
  <2>4. \A i \in 1..Len(batch) : batch[i].id \in Nat
    <3>1. \A i \in 1..Len(batch) : batch[i] \in Event
      BY <1>1
    <3> QED
      BY <3>1 DEF Event
  <2>5. ids \in Seq(Nat) /\ Len(ids) = Len(batch) /\ \A i \in 1..Len(batch) : ids[i] = first + i - 1
    BY <1>1, <2>2, <2>4
  <2> HIDE DEF ids, first
  <2>6. /\ Len(sent') = Len(sent) + Len(batch)
        /\ \A i \in 1..Len(batch) : sent'[Len(sent) + i] = ids[i]
    BY <1>1, <2>1, <2>5, ConcatProperties
  <2>7. ASSUME ~overtaken PROVE (Frontier + 1)..(Frontier + Len(batch)) \subseteq SentIds'
    <3> SUFFICES ASSUME NEW x \in (Frontier + 1)..(Frontier + Len(batch)) PROVE x \in SentIds'
      OBVIOUS
    <3>1. first = Frontier + 1
      BY <2>1, <2>7 DEF AccountInv, first
    <3>2. x - Frontier \in 1..Len(batch)
      BY <1>1, <2>3
    <3>3. sent'[Len(sent) + (x - Frontier)] = first + (x - Frontier) - 1
      BY <2>5, <2>6, <3>2
    <3>4. Len(sent) + (x - Frontier) \in 1..Len(sent') /\ first + (x - Frontier) - 1 = x
      BY <1>1, <2>3, <2>6, <3>1, <3>2
    <3> QED
      BY <3>3, <3>4 DEF SentIds
  <2>8. ASSUME ~overtaken
        PROVE  /\ Frontier + Len(batch) <= accepted
               /\ Len(sent') + CountedDrops = Frontier + Len(batch)
    <3>1. first = Frontier + 1 /\ Len(sent) + CountedDrops = Frontier
      BY <2>1, <2>8 DEF AccountInv, first
    <3>2. CountedDrops \in Int
      BY <1>1 DEF CountedDrops
    <3>3. Len(sent') + CountedDrops = (Len(sent) + Len(batch)) + CountedDrops
      BY <2>6
    <3>4. (Len(sent) + Len(batch)) + CountedDrops = Frontier + Len(batch)
      BY <1>1, <3>1, <3>2
    <3>5. Frontier + Len(batch) <= accepted
      BY <1>1, <2>2, <2>3, <3>1
    <3> QED
      BY <3>3, <3>4, <3>5
  <2> QED
    BY <2>1, <2>3, <2>7, <2>8 DEF AccountInv
<1>11. CASE SendFail
  <2>1. /\ UNCHANGED <<events, sendCursor, accepted, sent, overtaken>>
        /\ UNCHANGED <<droppedUnsent, pendingDropLog, loggedDrops>>
        /\ batch' = <<>> /\ pc = "send" /\ pc' \in {"stopped", "log", "backoff"}
    BY <1>11 DEF SendFail, ReturnError, storeVars, historyVars
  <2> QED
    BY <2>1 DEF AccountInv, Frontier, CountedDrops
<1>12. CASE AdvanceSendCursor
  <2>1. /\ UNCHANGED <<events, accepted, sent, overtaken>>
        /\ UNCHANGED <<droppedUnsent, pendingDropLog, loggedDrops>>
        /\ batch' = <<>> /\ pc = "advance" /\ pc' = "peek"
        /\ sendCursor' = CursorAfterSend(Len(batch))
    BY <1>12 DEF AdvanceSendCursor, historyVars
  <2>2. ASSUME ~overtaken PROVE Frontier' = Frontier + Len(batch)
    <3>1. Frontier + Len(batch) <= accepted
      BY <2>1, <2>2 DEF AccountInv
    <3>2. sendCursor' = sendCursor + Len(batch)
      BY <1>1, <2>1, <3>1 DEF CursorAfterSend, Frontier
    <3> QED
      BY <1>1, <2>1, <3>2 DEF Frontier
  <2>3. CountedDrops' = CountedDrops
    BY <2>1 DEF CountedDrops
  <2> QED
    BY <2>1, <2>2, <2>3 DEF AccountInv
<1> QED
  BY <1>2, <1>4, <1>5, <1>7, <1>8, <1>9, <1>10, <1>11, <1>12 DEF Next, PushEvents, Run

\* Every accepted event is pending, sent or counted as dropped, as long as no event was
\* evicted while its batch was in flight (adjustCursorOnDrop, AdvanceSendCursor,
\* logDroppedUnsent).
THEOREM EveryDropCounted == Spec => []DropsCountedUnlessOvertaken
<1>1. Init => AccountInv
  <2> SUFFICES ASSUME Init PROVE AccountInv
    OBVIOUS
  <2>1. Frontier = 0 /\ CountedDrops = 0 /\ Len(sent) = 0
    <3>1. /\ Len(events) = 0 /\ Len(sent) = 0 /\ accepted = 0 /\ sendCursor = 0
          /\ droppedUnsent = 0 /\ pendingDropLog = 0 /\ loggedDrops = 0
      BY DEF Init
    <3> QED
      BY <3>1 DEF Frontier, CountedDrops
  <2> QED
    BY <2>1 DEF Init, AccountInv
<1>2. TypeOK => ControlTypeOK
  BY DEF TypeOK
<1> QED
  BY <1>1, <1>2, NextPreservesAccountInv, AccountsBalance, StoreInvariant, TypeCorrect, PTL DEF Spec
-----------------------------------------------------------------------------
(* The store and its client implement the lossy FIFO                       *)

IdsAreRanges ==
  /\ Frontier \in Nat /\ Frontier <= accepted /\ accepted \in Nat
  /\ UnsentIds = (Frontier + 1)..accepted
  /\ pc = "send" => /\ batch[1].id \in Nat /\ Len(batch) \in Nat
                    /\ batch[1].id <= Frontier + 1
                    /\ batch[1].id + Len(batch) - 1 <= accepted
                    /\ \A x \in SentIds : x < batch[1].id
                    /\ InFlightIds = batch[1].id..(batch[1].id + Len(batch) - 1)
  /\ SentIds \subseteq 0..accepted /\ Pending \subseteq 0..accepted
  /\ IsFiniteSet(SentIds) /\ IsFiniteSet(Pending)
  /\ Cardinality(SentIds) \in Nat /\ Cardinality(Pending) \in Nat

\* The facts about the numbers of the events, as a consequence of the invariant.
LEMMA StoreInvRanges == StoreInv => IdsAreRanges
<1> SUFFICES ASSUME StoreInv PROVE IdsAreRanges
  OBVIOUS
<1>1. ASSUME pc = "send"
      PROVE  /\ batch[1].id \in Nat /\ Len(batch) \in Nat
             /\ batch[1].id <= Frontier + 1
             /\ batch[1].id + Len(batch) - 1 <= accepted
             /\ \A x \in SentIds : x < batch[1].id
  <2>1. batch[1].id \in Nat /\ Frontier \in Nat /\ accepted \in Nat
    BY <1>1, IdRanges
  <2>2. /\ batch[1].id - 1 <= Frontier
        /\ batch[1].id - 1 + Len(batch) <= accepted
        /\ \A i \in 1..Len(sent) : sent[i] <= batch[1].id - 1
    BY <1>1 DEF StoreInv, BatchFollowsSent, SentUpTo
  <2>3. Len(batch) \in Nat /\ \A i \in 1..Len(sent) : sent[i] \in Nat
    BY DEF StoreInv, StoreTypeOK
  <2>4. batch[1].id <= Frontier + 1 /\ batch[1].id + Len(batch) - 1 <= accepted
    BY <2>1, <2>2, <2>3
  <2>5. \A x \in SentIds : x < batch[1].id
    BY <2>1, <2>2, <2>3 DEF SentIds
  <2> QED
    BY <2>1, <2>3, <2>4, <2>5
<1> QED
  BY <1>1, IdRanges, SentAndPending DEF IdsAreRanges

\* Taking a part out of a finite set.
LEMMA RemovedCount ==
  ASSUME NEW S, IsFiniteSet(S), NEW T \in SUBSET S
  PROVE  Cardinality(S \ T) = Cardinality(S) - Cardinality(T)
<1>1. S \cap T = T
  OBVIOUS
<1> QED
  BY <1>1, FS_Difference

\* Taking a part out of two disjoint finite sets.
LEMMA OfferedCount ==
  ASSUME NEW S, IsFiniteSet(S), NEW R, IsFiniteSet(R), S \cap R = {}, NEW T \in SUBSET (S \cup R)
  PROVE  Cardinality((S \cup R) \ T) = Cardinality(S) + Cardinality(R) - Cardinality(T)
<1>1. /\ IsFiniteSet(S \cup R)
      /\ Cardinality(S \cup R) = Cardinality(S) + Cardinality(R) - Cardinality(S \cap R)
  BY FS_Union
<1>2. Cardinality(S \cap R) = 0 /\ Cardinality(S) \in Nat /\ Cardinality(R) \in Nat
  BY FS_EmptySet, FS_CardinalityType
<1>3. Cardinality((S \cup R) \ T) = Cardinality(S \cup R) - Cardinality(T)
  BY <1>1, RemovedCount
<1>4. Cardinality(T) \in Nat
  BY <1>1, FS_Subset, FS_CardinalityType
<1>5. Cardinality(S \cup R) = Cardinality(S) + Cardinality(R)
  BY <1>1, <1>2
<1> QED
  BY <1>2, <1>3, <1>4, <1>5

\* LossyFifo counts with the same Cardinality.
LEMMA AbstractCardinality == \A S : Abstract!Cardinality(S) = Cardinality(S)
BY DEF Abstract!Cardinality, Cardinality

\* A step that accepts nothing, sends nothing and makes nothing pending again loses
\* the events that stop being pending; a stuttering step is one that loses none.
LEMMA LoseStep ==
  ASSUME IdsAreRanges, IdsAreRanges',
         UNCHANGED <<accepted, sent>>, Pending' \subseteq Pending
  PROVE  Abstract!Lose
<1>1. SentIds' = SentIds
  BY DEF SentIds
<1>2. Cardinality(Pending \ Pending') = Cardinality(Pending) - Cardinality(Pending')
  BY RemovedCount DEF IdsAreRanges
<1>3. /\ Cardinality(Pending) \in Int /\ Cardinality(SentIds) \in Int /\ accepted \in Int
      /\ Cardinality(Pending)' = Cardinality(Pending') /\ Cardinality(Pending') \in Int
      /\ Cardinality(SentIds)' = Cardinality(SentIds)
  BY <1>1 DEF IdsAreRanges
<1>4. accepted' - Cardinality(Pending)' - Cardinality(SentIds)'
        = accepted - Cardinality(Pending') - Cardinality(SentIds)
  BY <1>3
<1>5. accepted - Cardinality(Pending') - Cardinality(SentIds)
        = accepted - Cardinality(Pending) - Cardinality(SentIds)
            + (Cardinality(Pending) - Cardinality(Pending'))
  BY <1>3
<1> QED
  BY <1>1, <1>2, <1>4, <1>5, AbstractCardinality DEF Abstract!Lose

\* A range that begins later and goes on further adds only what lies beyond the end.
LEMMA RangeExtended ==
  ASSUME NEW f \in Nat, NEW g \in Nat, f <= g, NEW m \in Nat, NEW n \in Nat
  PROVE  (g + 1)..(m + n) \subseteq ((f + 1)..m) \cup ((m + 1)..(m + n))
OBVIOUS

\* AppendBatch accepts the rows; what stale and surplus events it removes is lost.
LEMMA AppendBatchAccepts ==
  ASSUME StoreInv, IdsAreRanges, IdsAreRanges', NEW a \in Agents, AppendBatch(a)
  PROVE  Abstract!Accept
<1>1. PICK n \in Nat \ {0}, drop \in Nat :
         /\ accepted' = accepted + n
         /\ Len(events') = Len(events) + n - drop /\ drop <= Len(events) + n
         /\ sendCursor' = CursorAfterDrop(sendCursor, drop)
  BY AppendBatchCounts
<1>2. UNCHANGED <<pc, batch, sent>>
  BY DEF AppendBatch, clientVars
<1>3. SentIds' = SentIds /\ InFlightIds' = InFlightIds
  BY <1>2 DEF SentIds, InFlightIds
<1>4. accepted \in Nat /\ Len(events) \in Nat /\ sendCursor \in Nat
  BY DEF StoreInv, StoreTypeOK
<1>5. Frontier <= Frontier'
  <2>1. CursorAfterDrop(sendCursor, drop) + drop >= sendCursor
        /\ CursorAfterDrop(sendCursor, drop) \in Nat
    BY <1>4 DEF CursorAfterDrop
  <2>2. Frontier' = (accepted + n) - (Len(events) + n - drop) + CursorAfterDrop(sendCursor, drop)
    BY <1>1 DEF Frontier
  <2>3. accepted - Len(events) + sendCursor
          <= (accepted + n) - (Len(events) + n - drop) + CursorAfterDrop(sendCursor, drop)
    BY <1>4, <2>1
  <2> QED
    BY <2>2, <2>3 DEF Frontier
<1> DEFINE rows == (accepted + 1)..(accepted + n)
           offered == Pending \cup rows
<1>6. UnsentIds' \subseteq UnsentIds \cup rows
  <2>1. UnsentIds = (Frontier + 1)..accepted /\ Frontier \in Nat
    BY DEF IdsAreRanges
  <2>2. UnsentIds' = (Frontier' + 1)..(accepted + n) /\ Frontier' \in Nat
    BY <1>1 DEF IdsAreRanges
  <2>3. (Frontier' + 1)..(accepted + n) \subseteq
           ((Frontier + 1)..accepted) \cup ((accepted + 1)..(accepted + n))
    BY <1>4, <1>5, <2>1, <2>2, RangeExtended
  <2> QED
    BY <2>1, <2>2, <2>3
<1>7. Pending' \subseteq offered
  BY <1>3, <1>6 DEF Pending
<1>8. /\ IsFiniteSet(rows) /\ Cardinality(rows) = n
      /\ Pending \cap rows = {}
  <2>1. accepted + n \in Nat /\ accepted <= accepted + n /\ (accepted + n) - accepted = n
    BY <1>4
  <2>2. Pending \cap rows = {}
    BY <1>4 DEF IdsAreRanges
  <2> QED
    BY <1>4, <2>1, <2>2, RangeSize
<1> HIDE DEF rows
<1>10. Cardinality(offered \ Pending') = Cardinality(Pending) + n - Cardinality(Pending')
  <2>1. IsFiniteSet(Pending)
    BY DEF IdsAreRanges
  <2> QED
    BY <1>7, <1>8, <2>1, OfferedCount
<1>11. /\ Cardinality(Pending) \in Int /\ Cardinality(SentIds) \in Int
       /\ Cardinality(Pending)' = Cardinality(Pending') /\ Cardinality(Pending') \in Int
       /\ Cardinality(SentIds)' = Cardinality(SentIds)
  BY <1>3 DEF IdsAreRanges
<1>12. accepted' - Cardinality(Pending)' - Cardinality(SentIds)'
         = (accepted + n) - Cardinality(Pending') - Cardinality(SentIds)
  BY <1>1, <1>11
<1>13. (accepted + n) - Cardinality(Pending') - Cardinality(SentIds)
         = accepted - Cardinality(Pending) - Cardinality(SentIds)
             + (Cardinality(Pending) + n - Cardinality(Pending'))
  BY <1>4, <1>11
<1>14. n \in 1..(accepted' - accepted)
  <2>1. accepted' - accepted = n
    BY <1>1, <1>4
  <2> QED
    BY <2>1
<1>15. (accepted - Cardinality(Pending) - Cardinality(SentIds))'
         = accepted - Cardinality(Pending) - Cardinality(SentIds)
             + Cardinality((Pending \cup (accepted + 1)..(accepted + n)) \ Pending')
  BY <1>10, <1>12, <1>13 DEF rows
<1>16. Pending' \subseteq Pending \cup (accepted + 1)..(accepted + n)
  BY <1>7 DEF rows
<1> HIDE DEF offered
<1> QED
  BY <1>1, <1>3, <1>14, <1>15, <1>16, AbstractCardinality DEF Abstract!Accept

\* SendOK forwards the batch, which is older than everything else that is pending.
LEMMA SendOKForwards ==
  ASSUME StoreInv, IdsAreRanges, IdsAreRanges', SendOK
  PROVE  Abstract!Forward
<1>1. /\ UNCHANGED <<events, sendCursor, accepted, batch>>
      /\ pc = "send" /\ pc' = "advance"
      /\ sent' = sent \o [i \in 1..Len(batch) |-> batch[i].id]
  BY DEF SendOK, storeVars
<1>2. UnsentIds' = UnsentIds /\ InFlightIds' = {}
  BY <1>1 DEF UnsentIds, InFlightIds
<1>3. SentIds' = SentIds \cup InFlightIds
  <2> DEFINE ids == [i \in 1..Len(batch) |-> batch[i].id]
  <2>1. /\ InFlightIds = {batch[i].id : i \in 1..Len(batch)}
        /\ Len(batch) \in Nat /\ sent \in Seq(Nat) /\ Len(sent) \in Nat
    BY <1>1 DEF InFlightIds, StoreInv, StoreTypeOK
  <2>2. \A i \in 1..Len(batch) : batch[i].id \in Nat
    <3>1. batch \in Seq(Event)
      BY DEF StoreInv, StoreTypeOK
    <3>2. \A i \in 1..Len(batch) : batch[i] \in Event
      BY <3>1
    <3> QED
      BY <3>2 DEF Event
  <2>3. ids \in Seq(Nat) /\ Len(ids) = Len(batch) /\ \A i \in 1..Len(batch) : ids[i] = batch[i].id
    BY <2>1, <2>2
  <2> HIDE DEF ids
  <2>4. /\ Len(sent') = Len(sent) + Len(batch)
        /\ \A i \in 1..Len(sent) : sent'[i] = sent[i]
        /\ \A i \in 1..Len(batch) : sent'[Len(sent) + i] = batch[i].id
    BY <1>1, <2>1, <2>3, ConcatProperties DEF ids
  <2>5. ASSUME NEW x \in SentIds' PROVE x \in SentIds \cup InFlightIds
    <3>1. PICK i \in 1..Len(sent') : x = sent'[i]
      BY DEF SentIds
    <3>2. CASE i <= Len(sent)
      BY <2>1, <2>4, <3>1, <3>2 DEF SentIds
    <3>3. CASE i > Len(sent)
      <4>1. i - Len(sent) \in 1..Len(batch) /\ Len(sent) + (i - Len(sent)) = i
        BY <2>1, <2>4, <3>3
      <4> QED
        BY <2>1, <2>4, <3>1, <4>1
    <3> QED
      BY <2>1, <3>2, <3>3
  <2>6. ASSUME NEW x \in SentIds PROVE x \in SentIds'
    <3>1. PICK i \in 1..Len(sent) : x = sent[i]
      BY DEF SentIds
    <3>2. i \in 1..Len(sent')
      BY <2>1, <2>4, <3>1
    <3> QED
      BY <2>4, <3>1, <3>2 DEF SentIds
  <2>7. ASSUME NEW x \in InFlightIds PROVE x \in SentIds'
    <3>1. PICK i \in 1..Len(batch) : x = batch[i].id
      BY <2>1
    <3>2. Len(sent) + i \in 1..Len(sent')
      BY <2>1, <2>4, <3>1
    <3> QED
      BY <2>4, <3>1, <3>2 DEF SentIds
  <2> QED
    BY <2>5, <2>6, <2>7
<1>4. SentIds \cap InFlightIds = {}
  BY <1>1, SMTT(30) DEF IdsAreRanges
<1>5. Pending' = UnsentIds \ (SentIds \cup InFlightIds)
  BY <1>2, <1>3 DEF Pending
<1>6. Pending' \subseteq Pending /\ Pending \ Pending' = InFlightIds
  BY <1>4, <1>5 DEF Pending
<1>7. \A x \in InFlightIds, y \in Pending' : x < y
  <2> SUFFICES ASSUME NEW x \in InFlightIds, NEW y \in Pending' PROVE x < y
    OBVIOUS
  <2>1. y \in (Frontier + 1)..accepted /\ y \notin InFlightIds
    BY <1>5 DEF IdsAreRanges
  <2>2. /\ batch[1].id \in Nat /\ Len(batch) \in Nat /\ Frontier \in Nat /\ accepted \in Nat
        /\ batch[1].id <= Frontier + 1
        /\ InFlightIds = batch[1].id..(batch[1].id + Len(batch) - 1)
    BY <1>1 DEF IdsAreRanges
  <2> QED
    BY <2>1, <2>2
<1>8. Cardinality(Pending') = Cardinality(Pending) - Cardinality(InFlightIds)
  <2>1. Cardinality(InFlightIds) = Cardinality(Pending) - Cardinality(Pending')
    BY <1>6, RemovedCount DEF IdsAreRanges
  <2> QED
    BY <2>1 DEF IdsAreRanges
<1>9. /\ IsFiniteSet(InFlightIds) /\ Cardinality(InFlightIds) \in Nat
      /\ Cardinality(SentIds') = Cardinality(SentIds) + Cardinality(InFlightIds)
  <2>1. IsFiniteSet(InFlightIds)
    BY <1>6, FS_Subset DEF IdsAreRanges
  <2>2. Cardinality(InFlightIds) \in Nat /\ Cardinality(SentIds) \in Nat /\ Cardinality({}) = 0
    BY <2>1, FS_CardinalityType, FS_EmptySet DEF IdsAreRanges
  <2>3. Cardinality(SentIds') = Cardinality(SentIds) + Cardinality(InFlightIds) - Cardinality({})
    BY <1>3, <1>4, <2>1, FS_Union DEF IdsAreRanges
  <2> QED
    BY <2>1, <2>2, <2>3
<1>10. (accepted - Cardinality(Pending) - Cardinality(SentIds))'
         = accepted - Cardinality(Pending) - Cardinality(SentIds)
  <2>1. accepted \in Int /\ Cardinality(Pending) \in Int /\ Cardinality(SentIds) \in Int
    BY DEF IdsAreRanges
  <2>2. (accepted - Cardinality(Pending) - Cardinality(SentIds))'
          = accepted - (Cardinality(Pending) - Cardinality(InFlightIds))
              - (Cardinality(SentIds) + Cardinality(InFlightIds))
    BY <1>1, <1>8, <1>9
  <2> QED
    BY <1>9, <2>1, <2>2
<1> QED
  BY <1>1, <1>3, <1>6, <1>7, <1>10 DEF Abstract!Forward

\* Every other step makes at most fewer events pending.
LEMMA OtherStepsLose ==
  ASSUME StoreInv, IdsAreRanges, IdsAreRanges', [Next]_vars,
         ~ SendOK, \A a \in Agents : ~ AppendBatch(a)
  PROVE  Abstract!Lose
<1>1. ASSUME UNCHANGED <<accepted, sent, events, sendCursor>>,
             pc' # "send" \/ UNCHANGED <<pc, batch>>
      PROVE  Abstract!Lose
  <2>1. UnsentIds' = UnsentIds /\ SentIds' = SentIds /\ InFlightIds' \subseteq InFlightIds
    BY <1>1 DEF UnsentIds, SentIds, InFlightIds
  <2>2. Pending' \subseteq Pending
    BY <2>1 DEF Pending
  <2> QED
    BY <1>1, <2>2, LoseStep
<1>2. CASE \E a \in Agents : NotifyAppended(a) \/ SignalFlush(a)
  BY <1>1, <1>2 DEF NotifyAppended, SignalFlush, storeVars, clientVars, historyVars
<1>3. CASE Tick \/ Cancel \/ UNCHANGED vars
  BY <1>1, <1>3 DEF Tick, Cancel, vars, storeVars, clientVars, historyVars
<1>4. CASE Stop \/ DialFail \/ DialOK \/ Sleep \/ SelectTick \/ SelectFlush
             \/ SelectDone \/ PeekNothing \/ LogDroppedUnsent
  BY <1>1, <1>4 DEF Stop, DialFail, DialOK, Sleep, SelectTick, SelectFlush, SelectDone,
                    PeekNothing, LogDroppedUnsent, storeVars, historyVars
<1>5. CASE SendFail
  BY <1>1, <1>5 DEF SendFail, ReturnError, storeVars, historyVars
<1>6. CASE AdvanceSendCursor
  <2>1. /\ UNCHANGED <<accepted, sent, events>> /\ pc' = "peek"
        /\ sendCursor' = CursorAfterSend(Len(batch))
    BY <1>6 DEF AdvanceSendCursor, historyVars
  <2>2. Len(batch) \in Nat /\ sendCursor \in 0..Len(events) /\ Len(events) \in Nat
    BY DEF StoreInv, StoreTypeOK
  <2>3. CursorAfterSend(Len(batch)) \in Nat /\ sendCursor <= CursorAfterSend(Len(batch))
    BY <2>2 DEF CursorAfterSend
  <2>4. UnsentIds' \subseteq UnsentIds /\ SentIds' = SentIds /\ InFlightIds' = {}
    BY <2>1, <2>2, <2>3 DEF UnsentIds, SentIds, InFlightIds
  <2>5. Pending' \subseteq Pending
    BY <2>4 DEF Pending
  <2> QED
    BY <2>1, <2>5, LoseStep
<1>7. CASE PeekUnsentBatch
  <2>1. UNCHANGED <<accepted, sent, events, sendCursor>> /\ pc' = "send"
    BY <1>7 DEF PeekUnsentBatch, storeVars, historyVars
  <2>2. UnsentIds' = UnsentIds /\ SentIds' = SentIds
    BY <2>1 DEF UnsentIds, SentIds
  <2>3. InFlightIds' \subseteq UnsentIds
    <3>1. PICK n \in RunLengths : batch' = SubSeq(events, sendCursor + 1, sendCursor + n)
      BY <1>7 DEF PeekUnsentBatch, OldestUnsent
    <3>2. /\ n \in Nat /\ sendCursor + n <= Len(events) /\ sendCursor \in Nat
          /\ events \in Seq(Event) /\ Len(events) \in Nat
      BY ConstantsAssumption DEF RunLengths, StoreInv, StoreTypeOK
    <3>3. Len(batch') = n /\ \A i \in 1..n : batch'[i] = events[sendCursor + i]
      BY <3>1, <3>2
    <3>4. \A i \in 1..n : sendCursor + i \in (sendCursor + 1)..Len(events)
      BY <3>2
    <3> QED
      BY <2>1, <3>3, <3>4 DEF InFlightIds, UnsentIds
  <2>4. Pending' \subseteq Pending
    BY <2>2, <2>3 DEF Pending
  <2> QED
    BY <2>1, <2>4, LoseStep
<1> QED
  BY <1>2, <1>3, <1>4, <1>5, <1>6, <1>7 DEF Next, PushEvents, Run

\* The store with its client implements LossyFifo: AppendBatch accepts, a successful Send
\* forwards the oldest pending events, and whatever else happens - a failed Send, a cursor
\* that skips events after an eviction, a reconnect - can only lose pending events.
THEOREM StoreImplementsLossyFifo == Spec => ImplementsLossyFifo
<1>1. Init => Abstract!Init
  <2> SUFFICES ASSUME Init PROVE Abstract!Init
    OBVIOUS
  <2>1. UnsentIds = {} /\ SentIds = {} /\ InFlightIds = {}
    <3>1. Len(events) = 0 /\ Len(sent) = 0 /\ sendCursor = 0 /\ pc = "dial"
      BY DEF Init
    <3> QED
      BY <3>1 DEF UnsentIds, SentIds, InFlightIds
  <2>2. Pending = {} /\ Cardinality({}) = 0 /\ accepted = 0
    BY <2>1, FS_EmptySet DEF Pending, Init
  <2> QED
    BY <2>1, <2>2 DEF Abstract!Init
<1>2. StoreInv /\ StoreInv' /\ [Next]_vars => [Abstract!Next]_Abstract!vars
  <2> SUFFICES ASSUME StoreInv, StoreInv', [Next]_vars PROVE Abstract!Next
    OBVIOUS
  <2>1. IdsAreRanges
    BY StoreInvRanges
  <2>2. IdsAreRanges'
    BY StoreInvRanges, PTL
  <2> QED
    BY <2>1, <2>2, AppendBatchAccepts, SendOKForwards, OtherStepsLose DEF Abstract!Next
<1> QED
  BY <1>1, <1>2, StoreInvariant, PTL DEF Spec, ImplementsLossyFifo, Abstract!Spec
=============================================================================
