---------------------------- MODULE EventWatcher ----------------------------
(***************************************************************************)
(* The event watcher (plugins/event-watcher): a log source (the local      *)
(* audit log, or CloudWatch) and the Kubernetes event source put policy    *)
(* violations into one bounded channel; processEvents takes them out and   *)
(* posts them to Insights, with a cache of what was posted.  A goroutine   *)
(* logs the metrics that processEvents updates, under one RWMutex.  A      *)
(* signal cancels the context, and Stop takes the parts down.              *)
(*                                                                         *)
(* A violation is an entry of the log or a Kubernetes event.  How it is    *)
(* parsed, classified and put into words decides only whether it is a      *)
(* violation: entries that are not are left out.  The cache and the post   *)
(* know a violation by its UID alone.                                      *)
(***************************************************************************)
EXTENDS Integers, Sequences, FiniteSets

CONSTANTS
  LogEntries,     \* violations that may appear in the log
  KyvernoEvents,  \* audit-only PolicyViolation events that may be listed
  Resources,      \* the resources the events are related to
  Related,        \* the resource of each Kubernetes event
  BufferSize,     \* capacity of eventChannel
  MaxFaults       \* bound: cache entries that expire and answers that are lost

ASSUME ConstantsAssumption ==
  /\ Related \in [KyvernoEvents -> Resources]
  /\ LogEntries \cap (KyvernoEvents \cup Resources) = {}
  /\ "none" \notin LogEntries \cup KyvernoEvents
  /\ BufferSize \in Nat \ {0}
  /\ MaxFaults \in Nat

VARIABLES
  \* Watcher
  source,        \* which log source is configured
  eventChannel,  \* the channel
  closed,        \* the channel is closed
  main,          \* where the command is: its body, then Stop
  cancelled,     \* ctx is done
  panicked,      \* the violation that a goroutine sent on the closed channel
  \* the log source
  logPc, logTodo,
  \* KubernetesEventHandler
  k8sPc, k8sTodo,
  \* processEvents
  worker, event,
  lockWait,      \* it waits in Metrics.mu.Lock
  \* logMetricsPeriodically
  logger,
  \* utils.alreadyProcessedAuditIDs
  cache,
  \* environment
  written,       \* entries of the log
  listed,        \* events in the cluster
  faults,
  \* history
  posted,        \* violations Insights has received
  repeats,       \* how often it has received a UID that it had already
  overlooked     \* violations skipped as already processed that were never posted

channelVars == <<source, eventChannel, closed>>
mainVars == <<main, cancelled, panicked>>
producerVars == <<logPc, logTodo, k8sPc, k8sTodo>>
workerVars == <<worker, event, lockWait, cache>>
envVars == <<written, listed, faults>>
historyVars == <<posted, repeats, overlooked>>
vars == <<channelVars, mainVars, producerVars, workerVars, logger, envVars, historyVars>>

Violations == LogEntries \cup KyvernoEvents
UIDs == LogEntries \cup Resources

\* WatchedEvent.UID: the audit ID of a log entry, but the UID of the resource
\* that a Kubernetes event is related to.
UID(v) == IF v \in KyvernoEvents THEN Related[v] ELSE v

None == "none"
-----------------------------------------------------------------------------
(* The log source                                                          *)

\* A tick: the audit log is read from its beginning (every line is taken to fit
\* the scanner's buffer), CloudWatch answers with the entries of the last minutes.
PollLog ==
  /\ logPc = "idle"
  /\ source = "cloudwatch" => ~cancelled
  /\ \E recent \in SUBSET written :
       /\ source = "audit" => recent = written
       /\ recent # {}
       /\ logTodo' = recent
  /\ logPc' = "scan"
  /\ UNCHANGED <<channelVars, mainVars, k8sPc, k8sTodo, workerVars, logger, envVars,
                 historyVars>>

EntryDone(v) ==
  /\ logTodo' = logTodo \ {v}
  /\ logPc' = IF logTodo = {v} THEN "idle" ELSE "scan"

SkipEntry(v) ==
  /\ logPc = "scan"
  /\ v \in logTodo
  /\ v \in cache
  /\ EntryDone(v)
  /\ UNCHANGED <<channelVars, mainVars, k8sPc, k8sTodo, workerVars, logger, envVars,
                 historyVars>>

\* The entry was not in the cache: it is offered to the channel without waiting.
\* (What may happen between the look and the offer may as well happen while the
\* event waits in the channel: SendToInsights looks again.)
OfferEntry(v) ==
  /\ logPc = "scan"
  /\ v \in logTodo
  /\ v \notin cache
  /\ ~closed
  /\ Len(eventChannel) < BufferSize
  /\ eventChannel' = Append(eventChannel, v)
  /\ EntryDone(v)
  /\ UNCHANGED <<source, closed, mainVars, k8sPc, k8sTodo, workerVars, logger, envVars,
                 historyVars>>

\* The channel is full: the entry is dropped.
DropEntry(v) ==
  /\ logPc = "scan"
  /\ v \in logTodo
  /\ v \notin cache
  /\ ~closed
  /\ Len(eventChannel) = BufferSize
  /\ EntryDone(v)
  /\ UNCHANGED <<channelVars, mainVars, k8sPc, k8sTodo, workerVars, logger, envVars,
                 historyVars>>

\* The context is done, or Stop closed the handler's stopCh.
LogSourceReturns ==
  /\ logPc = "idle"
  /\ cancelled
  /\ logPc' = "gone"
  /\ UNCHANGED <<channelVars, mainVars, logTodo, k8sPc, k8sTodo, workerVars, logger,
                 envVars, historyVars>>
-----------------------------------------------------------------------------
(* The Kubernetes event source                                             *)

\* A tick: all events are listed.  The key that is looked up in the cache is
\* made of the policy and the event and is never put there.
ListEvents ==
  /\ k8sPc = "idle"
  /\ ~cancelled
  /\ listed # {}
  /\ k8sPc' = "send"
  /\ k8sTodo' = listed
  /\ UNCHANGED <<channelVars, mainVars, logPc, logTodo, workerVars, logger, envVars,
                 historyVars>>

\* Mutant: the events wait in a queue that grows.
SendEventUnbounded(v) ==
  /\ k8sPc = "send"
  /\ v \in k8sTodo
  /\ ~closed
  /\ eventChannel' = Append(eventChannel, v)
  /\ k8sTodo' = k8sTodo \ {v}
  /\ k8sPc' = IF k8sTodo = {v} THEN "idle" ELSE "send"
  /\ UNCHANGED <<source, closed, mainVars, logPc, logTodo, workerVars, logger, envVars,
                 historyVars>>

\* The send waits for room, whatever happens to the context.
SendEvent(v) ==
  /\ k8sPc = "send"
  /\ v \in k8sTodo
  /\ ~closed
  /\ Len(eventChannel) < BufferSize
  /\ eventChannel' = Append(eventChannel, v)
  /\ k8sTodo' = k8sTodo \ {v}
  /\ k8sPc' = IF k8sTodo = {v} THEN "idle" ELSE "send"
  /\ UNCHANGED <<source, closed, mainVars, logPc, logTodo, workerVars, logger, envVars,
                 historyVars>>

\* Stop does nothing to this source: its stopCh was never made.
K8sSourceReturns ==
  /\ k8sPc = "idle"
  /\ cancelled
  /\ k8sPc' = "gone"
  /\ UNCHANGED <<channelVars, mainVars, logPc, logTodo, k8sTodo, workerVars, logger,
                 envVars, historyVars>>
-----------------------------------------------------------------------------
(* Both sources                                                            *)

\* What a source is about to send.
Sending == (IF logPc = "scan" THEN logTodo \ cache ELSE {})
             \cup (IF k8sPc = "send" THEN k8sTodo ELSE {})

\* A send on a closed channel panics, in a select with a default too.
SendOnClosed(v) ==
  /\ v \in Sending
  /\ closed
  /\ panicked' = v
  /\ UNCHANGED <<channelVars, main, cancelled, producerVars, workerVars, logger, envVars,
                 historyVars>>
-----------------------------------------------------------------------------
(* processEvents                                                           *)

TakeEvent ==
  /\ worker = "recv"
  /\ eventChannel # <<>>
  /\ event' = Head(eventChannel)
  /\ eventChannel' = Tail(eventChannel)
  /\ worker' = "out"
  /\ UNCHANGED <<source, closed, mainVars, producerVars, lockWait, cache, logger, envVars,
                 historyVars>>

\* Mutant: processEvents does not look at stopCh.
WorkerNeverReturns ==
  /\ worker = "recv"
  /\ closed
  /\ worker' = "gone"
  /\ UNCHANGED <<channelVars, mainVars, producerVars, event, lockWait, cache, logger,
                 envVars, historyVars>>

\* stopCh is closed; what is in the channel may be left there.
WorkerReturns ==
  /\ worker = "recv"
  /\ main # "running"
  /\ worker' = "gone"
  /\ UNCHANGED <<channelVars, mainVars, producerVars, event, lockWait, cache, logger,
                 envVars, historyVars>>

\* RecordEventOutChannel before the event is handled, RecordProcessingDuration
\* and RecordEventProcessed, taken together, after it: each takes the write lock
\* of the metrics.
AfterRecord == [out |-> "check", done |-> "recv"]

LockMetrics ==
  /\ worker \in DOMAIN AfterRecord
  /\ ~lockWait
  /\ lockWait' = TRUE
  /\ UNCHANGED <<channelVars, mainVars, producerVars, worker, event, cache, logger,
                 envVars, historyVars>>

\* The lock is granted once no reader holds it.
Record ==
  /\ lockWait
  /\ logger \in {"idle", "gone"}
  /\ lockWait' = FALSE
  /\ worker' = AfterRecord[worker]
  /\ UNCHANGED <<channelVars, mainVars, producerVars, event, cache, logger, envVars,
                 historyVars>>

\* Mutant: only the producers ask whether a violation was posted.
AlreadyProcessedNever(v) == FALSE

AlreadyProcessed(v) == UID(v) \in cache

Handled == worker' = "done" /\ event' = None

\* SendToInsights looks into the cache and skips the violation ...
SkipProcessed ==
  /\ worker = "check"
  /\ AlreadyProcessed(event)
  /\ Handled
  /\ overlooked' = overlooked \cup ({event} \ posted)
  /\ UNCHANGED <<channelVars, mainVars, producerVars, lockWait, cache, logger, envVars,
                 posted, repeats>>

BeginPost ==
  /\ worker = "check"
  /\ ~AlreadyProcessed(event)
  /\ worker' = "post"
  /\ UNCHANGED <<channelVars, mainVars, producerVars, event, lockWait, cache, logger,
                 envVars, historyVars>>

Received(v) ==
  /\ repeats' = IF \E w \in posted : UID(w) = UID(v) THEN repeats + 1 ELSE repeats
  /\ posted' = posted \cup {v}

\* ... or posts it and puts its UID into the cache ...
PostOK ==
  /\ worker = "post"
  /\ Handled
  /\ cache' = cache \cup {UID(event)}
  /\ Received(event)
  /\ UNCHANGED <<channelVars, mainVars, producerVars, lockWait, logger, envVars,
                 overlooked>>

\* Mutant: the UID is put into the cache whatever the answer was.
PostFailsCached ==
  /\ worker = "post"
  /\ Handled
  /\ cache' = cache \cup {UID(event)}
  /\ UNCHANGED <<channelVars, mainVars, producerVars, lockWait, logger, envVars,
                 historyVars>>

\* ... or gives it up: a status other than 200, or no connection.
PostFails ==
  /\ worker = "post"
  /\ Handled
  /\ UNCHANGED <<channelVars, mainVars, producerVars, lockWait, cache, logger,
                 envVars, historyVars>>

\* Insights has the violation, but its answer is lost or comes after the HTTP
\* timeout.
PostTimesOut ==
  /\ worker = "post"
  /\ faults < MaxFaults
  /\ faults' = faults + 1
  /\ Handled
  /\ Received(event)
  /\ UNCHANGED <<channelVars, mainVars, producerVars, lockWait, cache, logger,
                 written, listed, overlooked>>
-----------------------------------------------------------------------------
(* logMetricsPeriodically                                                  *)

\* LogMetrics takes the read lock; a reader waits while a writer does.
LogMetrics ==
  /\ logger = "idle"
  /\ ~lockWait
  /\ logger' = "reading"
  /\ UNCHANGED <<channelVars, mainVars, producerVars, workerVars, envVars, historyVars>>

\* While it holds the read lock, GetChannelUtilization and GetUptime take it
\* once more.
LogMetricsNested ==
  /\ logger = "reading"
  /\ ~lockWait
  /\ logger' = "idle"
  /\ UNCHANGED <<channelVars, mainVars, producerVars, workerVars, envVars, historyVars>>

LoggerReturns ==
  /\ logger = "idle"
  /\ main # "running"
  /\ logger' = "gone"
  /\ UNCHANGED <<channelVars, mainVars, producerVars, workerVars, envVars, historyVars>>
-----------------------------------------------------------------------------
(* The command and Watcher.Stop                                            *)

\* SIGINT or SIGTERM.
Cancel ==
  /\ ~cancelled
  /\ cancelled' = TRUE
  /\ UNCHANGED <<channelVars, main, panicked, producerVars, workerVars, logger, envVars,
                 historyVars>>

\* Stop closes stopCh, stops the health server and tells the sources to stop.
BeginStop ==
  /\ main = "running"
  /\ cancelled
  /\ main' = "sources"
  /\ UNCHANGED <<channelVars, cancelled, panicked, producerVars, workerVars, logger,
                 envVars, historyVars>>

\* Mutant: StopAll does not wait for the sources.
SourcesStoppedAtOnce ==
  /\ main = "sources"
  /\ main' = "workers"
  /\ UNCHANGED <<channelVars, cancelled, panicked, producerVars, workerVars, logger,
                 envVars, historyVars>>

\* StopAll waits for the Start methods of the sources.  That of the audit log
\* has returned long ago: it left its work to another goroutine.
SourcesStopped ==
  /\ main = "sources"
  /\ k8sPc = "gone"
  /\ source = "cloudwatch" => logPc = "gone"
  /\ main' = "workers"
  /\ UNCHANGED <<channelVars, cancelled, panicked, producerVars, workerVars, logger,
                 envVars, historyVars>>

CloseChannel ==
  /\ main = "workers"
  /\ worker = "gone"
  /\ logger = "gone"
  /\ closed' = TRUE
  /\ main' = "closed"
  /\ UNCHANGED <<source, eventChannel, cancelled, panicked, producerVars, workerVars,
                 logger, envVars, historyVars>>

Exit ==
  /\ main = "closed"
  /\ main' = "exited"
  /\ UNCHANGED <<channelVars, cancelled, panicked, producerVars, workerVars, logger,
                 envVars, historyVars>>
-----------------------------------------------------------------------------
(* The environment                                                         *)

WriteEntry(v) ==
  /\ v \notin written
  /\ written' = written \cup {v}
  /\ UNCHANGED <<channelVars, mainVars, producerVars, workerVars, logger, listed, faults,
                 historyVars>>

EmitEvent(v) ==
  /\ v \notin listed
  /\ listed' = listed \cup {v}
  /\ UNCHANGED <<channelVars, mainVars, producerVars, workerVars, logger, written, faults,
                 historyVars>>

\* An entry of the cache is older than an hour, or the cache is full.
Expire(u) ==
  /\ u \in cache
  /\ faults < MaxFaults
  /\ faults' = faults + 1
  /\ cache' = cache \ {u}
  /\ UNCHANGED <<channelVars, mainVars, producerVars, worker, event, lockWait, logger,
                 written, listed, historyVars>>
-----------------------------------------------------------------------------
Init ==
  /\ source \in {"audit", "cloudwatch"}
  /\ eventChannel = <<>>
  /\ closed = FALSE
  /\ main = "running"
  /\ cancelled = FALSE
  /\ panicked = None
  /\ logPc = "idle"
  /\ logTodo = {}
  /\ k8sPc = "idle"
  /\ k8sTodo = {}
  /\ worker = "recv"
  /\ event = None
  /\ lockWait = FALSE
  /\ logger = "idle"
  /\ cache = {}
  /\ written = {}
  /\ listed = {}
  /\ faults = 0
  /\ posted = {}
  /\ repeats = 0
  /\ overlooked = {}

LogSource ==
  \/ PollLog \/ LogSourceReturns
  \/ \E v \in LogEntries : SkipEntry(v) \/ OfferEntry(v) \/ DropEntry(v)

K8sSource == ListEvents \/ K8sSourceReturns \/ \E v \in KyvernoEvents : SendEvent(v)

Panic == \E v \in Violations : SendOnClosed(v)

ProcessEvents ==
  \/ TakeEvent \/ WorkerReturns \/ LockMetrics \/ Record
  \/ SkipProcessed \/ BeginPost \/ PostOK \/ PostFails \/ PostTimesOut

MetricsLogger == LogMetrics \/ LogMetricsNested \/ LoggerReturns

Stop == BeginStop \/ SourcesStopped \/ CloseChannel \/ Exit

Environment ==
  \/ Cancel
  \/ \E v \in LogEntries : WriteEntry(v)
  \/ \E v \in KyvernoEvents : EmitEvent(v)
  \/ \E u \in UIDs : Expire(u)

\* Nothing runs once the process has ended.
Alive == main # "exited" /\ panicked = None

Next ==
  /\ Alive
  /\ LogSource \/ K8sSource \/ Panic \/ ProcessEvents \/ MetricsLogger \/ Stop \/ Environment

Spec == Init /\ [][Next]_vars

\* Go runs every goroutine that can proceed, and the tickers tick.  A source
\* that may return, and processEvents when stopCh is closed, chooses so in the
\* end.  Insights accepts a violation that is posted again and again, and an
\* offer that can be made again and again is made.
Fairness ==
  /\ WF_vars(Alive /\ LogSource)
  /\ WF_vars(Alive /\ K8sSource)
  /\ WF_vars(Alive /\ Panic)
  /\ WF_vars(Alive /\ ProcessEvents)
  /\ WF_vars(Alive /\ MetricsLogger)
  /\ WF_vars(Alive /\ Stop)
  /\ SF_vars(Alive /\ LogSourceReturns)
  /\ SF_vars(Alive /\ K8sSourceReturns)
  /\ SF_vars(Alive /\ WorkerReturns)
  /\ SF_vars(Alive /\ LoggerReturns)
  /\ \A v \in LogEntries : /\ SF_vars(Alive /\ event = v /\ PostOK)
                           /\ SF_vars(Alive /\ OfferEntry(v))

FairSpec == Spec /\ Fairness
-----------------------------------------------------------------------------
(* Properties                                                              *)

\* The variables stay in their types, and the channel within its capacity.
TypeOK ==
  /\ eventChannel \in Seq(Violations)
  /\ Len(eventChannel) <= BufferSize
  /\ main \in {"running", "sources", "workers", "closed", "exited"}
  /\ logPc \in {"idle", "scan", "gone"}
  /\ logTodo \subseteq written
  /\ k8sPc \in {"idle", "send", "gone"}
  /\ k8sTodo \subseteq listed
  /\ worker \in {"recv", "out", "check", "post", "done", "gone"}
  /\ event \in Violations \cup {None}
  /\ lockWait => worker \in DOMAIN AfterRecord
  /\ logger \in {"idle", "reading", "gone"}
  /\ cache \subseteq UIDs
  /\ panicked \in Violations \cup {None}

\* Every poll offers the same violations again and the producers look into the
\* cache long before an event is handled; still Insights receives a UID again
\* only if the cache forgot it or the answer to a post was lost.
ReportedOnce == repeats <= faults

\* watcher.go: "Wait for all goroutines to finish", before Stop closes the channel.  So
\* nothing is sent on the closed channel.
NoSendOnClosed == panicked = None

\* Whatever the sources and processEvents are doing when the signal comes, neither the
\* Kubernetes event source nor CloudWatch ever sends on the closed channel: StopAll waits
\* for their Start methods.  (The goroutine of the audit log does: see NoSendOnClosed.)
WaitedForNeverSend == panicked # None => source = "audit" /\ panicked \in LogEntries

\* LogMetrics takes the read lock of the metrics while it holds it; when
\* processEvents asks for the write lock in between, neither goes on.
MetricsDeadlock == lockWait /\ logger = "reading"

\* The Kubernetes event source waits for room in the channel, and processEvents
\* has returned.
SendBlocked ==
  k8sPc = "send" /\ worker = "gone" /\ Len(eventChannel) = BufferSize

\* The scan of the log comes to an entry while the channel has room.
ScanMeetsRoom(v) ==
  logPc = "scan" /\ v \in logTodo /\ Len(eventChannel) < BufferSize

\* A blocked request in the audit log is reported to Insights in the end, over
\* full channels and failed posts, if the scans do not meet a full channel for
\* ever (the other source waits for room, so it can keep this one out), unless
\* the process is stopped or the metrics lock is stuck.
LoggedIsReported ==
  \A v \in LogEntries :
    []<>ScanMeetsRoom(v) =>
      ((source = "audit" /\ v \in written)
         ~> (v \in posted \/ cancelled \/ MetricsDeadlock))

\* README.md: "Configurable shutdown timeout prevents hanging".  So after a
\* signal the process ends; but Stop waits without a limit for a source that
\* waits for room, and for processEvents: it does not hold.
ShutdownEnds == cancelled ~> ~Alive

\* After a signal the process ends, except in the two states above: whatever
\* the sources and processEvents are doing, Stop gets past each of them.
StopEnds == cancelled ~> (~Alive \/ MetricsDeadlock \/ SendBlocked)

\* utils.go: "Policy violation already processed, skipping".  So a violation
\* that SendToInsights skips was posted.
SkippedWasPosted == overlooked = {}
=============================================================================
