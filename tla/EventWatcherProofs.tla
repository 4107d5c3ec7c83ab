------------------------- MODULE EventWatcherProofs -------------------------
(***************************************************************************)
(* Proofs about EventWatcher, for any violations, any capacity of the      *)
(* channel and any number of faults: no source that Stop waits for sends   *)
(* on the closed channel, and Insights receives a UID again only after a   *)
(* fault.                                                                  *)
(***************************************************************************)
EXTENDS EventWatcher, FiniteSetTheorems, TLAPS

\* A violation has a UID.
LEMMA UIDType ==
  ASSUME NEW v \in Violations
  PROVE  UID(v) \in UIDs
BY ConstantsAssumption DEF Violations, UIDs, UID
-----------------------------------------------------------------------------
(* Types                                                                   *)

\* The entries and events there are, and that processEvents holds a violation from
\* the moment it takes one until it has handled it.
TypeInv ==
  /\ TypeOK
  /\ written \subseteq LogEntries
  /\ listed \subseteq KyvernoEvents
  /\ worker \in {"out", "check", "post"} => event \in Violations

\* What a source offers was read from the log or listed, so it is a violation; the
\* channel is appended to only when it has room.
LEMMA TypeInvKept ==
  ASSUME TypeInv, Next
  PROVE  TypeInv'
<1> USE DEF TypeInv, TypeOK, channelVars, mainVars, producerVars, workerVars,
            envVars, historyVars, AfterRecord, Violations, None
<1>1. CASE PollLog
  BY <1>1 DEF PollLog
<1>2. ASSUME NEW v \in LogEntries, SkipEntry(v) \/ DropEntry(v) PROVE TypeInv'
  BY <1>2 DEF SkipEntry, DropEntry, EntryDone
<1>3. ASSUME NEW v \in LogEntries, OfferEntry(v) PROVE TypeInv'
  <2>1. eventChannel' \in Seq(Violations) /\ Len(eventChannel') <= BufferSize
    BY <1>3, ConstantsAssumption DEF OfferEntry
  <2>2. QED
    BY <1>3, <2>1 DEF OfferEntry, EntryDone
<1>4. ASSUME NEW v \in Violations, SendOnClosed(v) PROVE TypeInv'
  BY <1>4 DEF SendOnClosed
<1>5. CASE LogSourceReturns \/ ListEvents \/ K8sSourceReturns
  BY <1>5 DEF LogSourceReturns, ListEvents, K8sSourceReturns
<1>6. ASSUME NEW v \in KyvernoEvents, SendEvent(v) PROVE TypeInv'
  <2>1. eventChannel' \in Seq(Violations) /\ Len(eventChannel') <= BufferSize
    BY <1>6, ConstantsAssumption DEF SendEvent
  <2>2. QED
    BY <1>6, <2>1 DEF SendEvent
<1>7. CASE TakeEvent
  <2>1. Head(eventChannel) \in Violations /\ Tail(eventChannel) \in Seq(Violations)
        /\ Len(Tail(eventChannel)) <= BufferSize
    BY <1>7, ConstantsAssumption DEF TakeEvent
  <2>2. QED
    BY <1>7, <2>1 DEF TakeEvent
<1>8. CASE WorkerReturns \/ LockMetrics \/ Record
  BY <1>8 DEF WorkerReturns, LockMetrics, Record
<1>9. CASE SkipProcessed \/ BeginPost \/ PostFails \/ PostTimesOut
  BY <1>9 DEF SkipProcessed, BeginPost, PostFails, PostTimesOut, Handled, Received
<1>10. CASE PostOK
  BY <1>10, UIDType DEF PostOK, Handled, Received
<1>11. CASE MetricsLogger
  BY <1>11 DEF MetricsLogger, LogMetrics, LogMetricsNested, LoggerReturns
<1>12. CASE Stop
  BY <1>12 DEF Stop, BeginStop, SourcesStopped, CloseChannel, Exit
<1>13. CASE Environment
  BY <1>13 DEF Environment, Cancel, WriteEntry, EmitEvent, Expire
<1>14. QED
  BY <1>1, <1>2, <1>3, <1>4, <1>5, <1>6, <1>7, <1>8, <1>9, <1>10, <1>11, <1>12, <1>13
     DEF Next, LogSource, K8sSource, Panic, ProcessEvents

\* The types hold throughout.
LEMMA TypeInvariant == Spec => []TypeInv
<1>1. Init => TypeInv
  BY ConstantsAssumption DEF Init, TypeInv, TypeOK, None, AfterRecord
<1>2. TypeInv /\ [Next]_vars => TypeInv'
  <2>1. TypeInv /\ UNCHANGED vars => TypeInv'
    BY DEF TypeInv, TypeOK, vars, channelVars, mainVars, producerVars, workerVars,
           envVars, historyVars
  <2>2. QED
    BY <2>1, TypeInvKept
<1>3. QED
  BY <1>1, <1>2, PTL DEF Spec
-----------------------------------------------------------------------------
(* Stop                                                                    *)

\* How far Stop has come says who has returned; a goroutine that has returned does
\* nothing any more.
StopInv ==
  /\ closed => main \in {"closed", "exited"}
  /\ main \in {"workers", "closed", "exited"} =>
       /\ k8sPc = "gone"
       /\ source = "cloudwatch" => logPc = "gone"
  /\ main \in {"closed", "exited"} => worker = "gone" /\ logger = "gone"
  /\ lockWait => worker \in DOMAIN AfterRecord
  /\ source \in {"audit", "cloudwatch"}
  /\ WaitedForNeverSend

\* Every step keeps the order in which the goroutines and the channel end.
LEMMA StopInvKept ==
  ASSUME TypeInv, StopInv, Next
  PROVE  StopInv'
<1> USE DEF StopInv, WaitedForNeverSend, channelVars, mainVars, producerVars, workerVars,
            envVars, historyVars, AfterRecord, EntryDone
<1>1. CASE PollLog \/ LogSourceReturns
  BY <1>1 DEF PollLog, LogSourceReturns
<1>2. ASSUME NEW v \in LogEntries, SkipEntry(v) \/ OfferEntry(v) \/ DropEntry(v)
      PROVE  StopInv'
  BY <1>2 DEF SkipEntry, OfferEntry, DropEntry
<1>3. ASSUME NEW v \in Violations, SendOnClosed(v) PROVE StopInv'
  <2>1. k8sPc = "gone" /\ v \in logTodo /\ logPc = "scan"
    BY <1>3 DEF SendOnClosed, Sending
  <2>2. v \in LogEntries /\ source = "audit"
    BY <1>3, <2>1 DEF TypeInv, TypeOK, SendOnClosed
  <2>3. QED
    BY <1>3, <2>2 DEF SendOnClosed
<1>4. CASE K8sSource
  BY <1>4 DEF K8sSource, ListEvents, K8sSourceReturns, SendEvent
<1>5. CASE TakeEvent \/ WorkerReturns \/ LockMetrics \/ Record
  BY <1>5 DEF TakeEvent, WorkerReturns, LockMetrics, Record
<1>6. CASE SkipProcessed \/ BeginPost \/ PostOK \/ PostFails \/ PostTimesOut
  BY <1>6 DEF SkipProcessed, BeginPost, PostOK, PostFails, PostTimesOut, Handled
<1>7. CASE MetricsLogger
  BY <1>7 DEF MetricsLogger, LogMetrics, LogMetricsNested, LoggerReturns
<1>8. CASE Stop
  BY <1>8 DEF Stop, BeginStop, SourcesStopped, CloseChannel, Exit
<1>9. CASE Environment
  BY <1>9 DEF Environment, Cancel, WriteEntry, EmitEvent, Expire
<1>10. QED
  BY <1>1, <1>2, <1>3, <1>4, <1>5, <1>6, <1>7, <1>8, <1>9
     DEF Next, LogSource, Panic, ProcessEvents

\* What StopInv says holds throughout.
LEMMA StopInvariant == Spec => []StopInv
<1>1. Init => StopInv
  BY DEF Init, StopInv, WaitedForNeverSend
<1>2. TypeInv /\ StopInv /\ [Next]_vars => StopInv'
  <2>1. StopInv /\ UNCHANGED vars => StopInv'
    BY DEF StopInv, WaitedForNeverSend, vars, channelVars, mainVars, producerVars, workerVars
  <2>2. QED
    BY <2>1, StopInvKept
<1>3. QED
  BY <1>1, <1>2, TypeInvariant, PTL DEF Spec

\* Whatever the goroutines are doing when the signal comes, the Kubernetes event source
\* and CloudWatch never send on the channel that Watcher.Stop has closed: the panic is
\* confined to the goroutine of the local audit log, which Stop does not wait for.
THEOREM WaitedForSourcesNeverPanic == Spec => []WaitedForNeverSend
<1>1. StopInv => WaitedForNeverSend
  BY DEF StopInv
<1>2. QED
  BY <1>1, StopInvariant, PTL
-----------------------------------------------------------------------------
(* Insights receives a violation once                                      *)

\* The UIDs that Insights has received and the cache does not know.
Reported == {UID(w) : w \in posted}
Forgotten == Reported \ cache

\* Every UID in Forgotten stands for a fault that no repetition has used up yet, and
\* what is being posted is not in the cache, for only processEvents adds to it.
OnceInv ==
  /\ repeats \in Nat
  /\ faults \in Nat
  /\ IsFiniteSet(Reported)
  /\ repeats + Cardinality(Forgotten) <= faults
  /\ worker = "post" => UID(event) \notin cache

\* What was reported and is no longer in the cache is finite.
LEMMA ForgottenFinite ==
  ASSUME IsFiniteSet(Reported)
  PROVE  IsFiniteSet(Forgotten) /\ Cardinality(Forgotten) \in Nat
BY FS_Subset, FS_CardinalityType DEF Forgotten

\* What the worker does when a post reached Insights: the UID is counted as repeated
\* just if it was there before.
LEMMA ReceivedReports ==
  ASSUME Received(event), IsFiniteSet(Reported)
  PROVE  /\ IsFiniteSet(Reported')
         /\ Reported' = Reported \cup {UID(event)}
         /\ repeats' = IF UID(event) \in Reported THEN repeats + 1 ELSE repeats
<1>1. Reported' = Reported \cup {UID(event)}
  BY DEF Received, Reported
<1>2. IsFiniteSet(Reported')
  BY <1>1, FS_AddElement
<1>3. repeats' = IF UID(event) \in Reported THEN repeats + 1 ELSE repeats
  BY DEF Received, Reported
<1>4. QED
  BY <1>1, <1>2, <1>3

\* Every step keeps the balance of posts and faults of each UID.
LEMMA OnceInvKept ==
  ASSUME OnceInv, StopInv, Next
  PROVE  OnceInv'
<1> USE DEF channelVars, mainVars, producerVars, workerVars, envVars, historyVars
<1>0. IsFiniteSet(Forgotten) /\ Cardinality(Forgotten) \in Nat
  BY ForgottenFinite DEF OnceInv
<1>1. ASSUME UNCHANGED <<posted, cache, faults, repeats>>,
             worker' = "post" => worker = "post" /\ event' = event
      PROVE  OnceInv'
  BY <1>1 DEF OnceInv, Forgotten, Reported, UID
<1>2. CASE LogSource \/ K8sSource \/ Panic
  BY <1>1, <1>2 DEF LogSource, K8sSource, Panic, PollLog, LogSourceReturns, SkipEntry, OfferEntry,
                    DropEntry, SendOnClosed, ListEvents, K8sSourceReturns, SendEvent
<1>3. CASE TakeEvent \/ WorkerReturns \/ LockMetrics \/ SkipProcessed \/ PostFails
  BY <1>1, <1>3 DEF TakeEvent, WorkerReturns, LockMetrics, SkipProcessed, PostFails, Handled
<1>4. CASE Record
  <2>1. worker' \in {"check", "recv"}
    BY <1>4 DEF Record, StopInv, AfterRecord
  <2>2. QED
    BY <1>1, <1>4, <2>1 DEF Record
<1>5. CASE BeginPost
  BY <1>5 DEF BeginPost, AlreadyProcessed, OnceInv, Forgotten, Reported, UID
<1>6. CASE PostOK
  <2>1. UID(event) \notin cache
    BY <1>6 DEF PostOK, OnceInv
  <2>2. /\ IsFiniteSet(Reported')
        /\ Reported' = Reported \cup {UID(event)}
        /\ repeats' = IF UID(event) \in Reported THEN repeats + 1 ELSE repeats
    BY <1>6, ReceivedReports DEF PostOK, OnceInv
  <2>3. Forgotten' = Forgotten \ {UID(event)}
    BY <1>6, <2>2 DEF PostOK, Forgotten
  <2>4. Cardinality(Forgotten') = IF UID(event) \in Reported
                                    THEN Cardinality(Forgotten) - 1
                                    ELSE Cardinality(Forgotten)
    <3>1. UID(event) \in Forgotten <=> UID(event) \in Reported
      BY <2>1 DEF Forgotten
    <3>2. QED
      BY <1>0, <2>3, <3>1, FS_RemoveElement
  <2>5. QED
    BY <1>0, <1>6, <2>2, <2>4 DEF PostOK, Handled, OnceInv
<1>7. CASE PostTimesOut
  <2>1. UID(event) \notin cache
    BY <1>7 DEF PostTimesOut, OnceInv
  <2>2. /\ IsFiniteSet(Reported')
        /\ Reported' = Reported \cup {UID(event)}
        /\ repeats' = IF UID(event) \in Reported THEN repeats + 1 ELSE repeats
    BY <1>7, ReceivedReports DEF PostTimesOut, OnceInv
  <2>3. Forgotten' = Forgotten \cup {UID(event)}
    BY <1>7, <2>1, <2>2 DEF PostTimesOut, Forgotten
  <2>4. Cardinality(Forgotten') = IF UID(event) \in Reported
                                    THEN Cardinality(Forgotten)
                                    ELSE Cardinality(Forgotten) + 1
    <3>1. UID(event) \in Forgotten <=> UID(event) \in Reported
      BY <2>1 DEF Forgotten
    <3>2. QED
      BY <1>0, <2>3, <3>1, FS_AddElement
  <2>5. QED
    BY <1>0, <1>7, <2>2, <2>4 DEF PostTimesOut, Handled, OnceInv
<1>8. CASE MetricsLogger \/ Stop
  BY <1>1, <1>8 DEF MetricsLogger, LogMetrics, LogMetricsNested, LoggerReturns,
                    Stop, BeginStop, SourcesStopped, CloseChannel, Exit
<1>9. ASSUME NEW u \in UIDs, Expire(u) PROVE OnceInv'
  <2>1. Reported' = Reported
    BY <1>9 DEF Expire, Reported
  <2>2. Forgotten' \subseteq Forgotten \cup {u}
    BY <1>9, <2>1 DEF Expire, Forgotten
  <2>3. Cardinality(Forgotten \cup {u}) \in {Cardinality(Forgotten), Cardinality(Forgotten) + 1}
    BY <1>0, FS_AddElement
  <2>4. IsFiniteSet(Forgotten \cup {u})
    BY <1>0, FS_AddElement
  <2>5. Cardinality(Forgotten') <= Cardinality(Forgotten) + 1
        /\ Cardinality(Forgotten') \in Nat
    BY <1>0, <2>2, <2>3, <2>4, FS_Subset, FS_CardinalityType
  <2>6. QED
    BY <1>0, <1>9, <2>1, <2>5 DEF Expire, OnceInv, UID
<1>10. CASE Cancel \/ (\E v \in LogEntries : WriteEntry(v))
                   \/ (\E v \in KyvernoEvents : EmitEvent(v))
  BY <1>1, <1>10 DEF Cancel, WriteEntry, EmitEvent
<1>11. QED
  BY <1>2, <1>3, <1>4, <1>5, <1>6, <1>7, <1>8, <1>9, <1>10
     DEF Next, ProcessEvents, Environment

\* Insights receives a UID again only if the cache of processed audit IDs forgot it or
\* the answer to a post was lost (SendToInsights), however often the sources offer
\* the same violation.
THEOREM InsightsReceivesOnce == Spec => []ReportedOnce
<1>1. Init => OnceInv
  <2> SUFFICES ASSUME Init PROVE OnceInv
    OBVIOUS
  <2>1. Reported = {} /\ Forgotten = {}
    BY DEF Init, Forgotten, Reported
  <2>2. IsFiniteSet(Reported) /\ Cardinality(Forgotten) = 0
    BY <2>1, FS_EmptySet
  <2>3. QED
    BY <2>2 DEF Init, OnceInv
<1>2. OnceInv /\ StopInv /\ [Next]_vars => OnceInv'
  <2>1. OnceInv /\ UNCHANGED vars => OnceInv'
    BY DEF OnceInv, Forgotten, Reported, UID, vars, workerVars, envVars, historyVars
  <2>2. QED
    BY <2>1, OnceInvKept
<1>3. OnceInv => ReportedOnce
  <2>1. ASSUME OnceInv PROVE Cardinality(Forgotten) \in Nat
    BY <2>1, ForgottenFinite DEF OnceInv
  <2>2. QED
    BY <2>1 DEF OnceInv, ReportedOnce
<1>4. QED
  BY <1>1, <1>2, <1>3, StopInvariant, PTL DEF Spec
=============================================================================
