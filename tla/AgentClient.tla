----------------------------- MODULE AgentClient -----------------------------
(***************************************************************************)
(* The network-flow agent's queue towards the aggregator                   *)
(* (plugins/network-flow/pkg/agent/collector_client.go).  The gadget       *)
(* runners put events into Client.events with Enqueue; one goroutine,      *)
(* Client.Run, drains them in batches into a gRPC stream, puts a batch     *)
(* back in front when Send fails, and reconnects.  Whoever finds the queue *)
(* above its capacity drops the oldest events.  main.go stops the runners, *)
(* asks for a last flush and exits without waiting for Run.                *)
(*                                                                         *)
(* An event is its number in the order of the Enqueue calls.               *)
(***************************************************************************)
EXTENDS Integers, Sequences, FiniteSets

CONSTANTS
  Runners,           \* the gadget runners, each a goroutine that enqueues
  MaxPendingEvents,  \* ClientConfig.MaxPendingEvents
  BatchSize,         \* ClientConfig.BatchSize
  BackoffMin,        \* ClientConfig.ReconnectBackoffMin
  BackoffMax,        \* ClientConfig.ReconnectBackoffMax
  MaxAccepted        \* bound: events enqueued in a behaviour

ASSUME ConstantsAssumption ==
  /\ MaxPendingEvents \in Nat \ {0}
  /\ BatchSize \in Nat \ {0}
  /\ BackoffMin \in Nat \ {0}
  /\ BackoffMax \in Nat \ {0}
  /\ MaxAccepted \in Nat

VARIABLES
  events,          \* Client.events
  droppedPending,  \* Client.droppedPending
  flushCh,         \* a request waits in Client.flushCh (capacity 1)
  pendingDropLog,  \* Client.pendingDropLogCount
  runner,          \* where each gadget runner is
  pc,              \* where Client.Run is
  phase,           \* which call of sendPending is running
  batch,           \* sendPending's local variable batch
  backoff,         \* Run's local variable backoff
  cancelled,       \* ctx is done
  exited,          \* main has returned
  \* history
  accepted,        \* how many events were enqueued
  sent,            \* the numbers of the events Send has taken, in that order
  loggedDrops      \* drops reported by a warning

queueVars == <<events, droppedPending>>
runVars == <<pc, phase, batch, backoff>>
historyVars == <<accepted, sent, loggedDrops>>
vars == <<queueVars, flushCh, pendingDropLog, runner, runVars, cancelled, exited,
          historyVars>>
-----------------------------------------------------------------------------
(* The queue                                                               *)

\* Mutant: one event too many is kept.
OverflowLate(n) == IF n > MaxPendingEvents + 1 THEN n - MaxPendingEvents ELSE 0

\* enforceMaxLocked: how many events a queue of n has to give up.
Overflow(n) == IF n > MaxPendingEvents THEN n - MaxPendingEvents ELSE 0

\* Mutant: the newest events are dropped.
EnforceMaxDropsNewest(queue) == SubSeq(queue, 1, Len(queue) - Overflow(Len(queue)))

\* enforceMaxLocked drops them from the front.
EnforceMax(queue) == SubSeq(queue, Overflow(Len(queue)) + 1, Len(queue))

\* Mutant: a batch that is exactly full does not ask for a flush.
ShouldFlushLate(n) == n > BatchSize

ShouldFlush(n) == n >= BatchSize

\* Enqueue appends under the lock; whether to signal is decided there too.
Enqueue(r) ==
  /\ runner[r] = "running"
  /\ accepted < MaxAccepted
  /\ accepted' = accepted + 1
  /\ events' = EnforceMax(Append(events, accepted + 1))
  /\ droppedPending' = droppedPending + Overflow(Len(events) + 1)
  /\ runner' = [runner EXCEPT ![r] =
                  IF ShouldFlush(Len(events')) THEN "signal" ELSE "running"]
  /\ UNCHANGED <<flushCh, pendingDropLog, runVars, cancelled, exited, sent, loggedDrops>>

\* signalFlush, after the unlock; a request that is already waiting is enough.
SignalFlush(r) ==
  /\ runner[r] = "signal"
  /\ flushCh' = TRUE
  /\ runner' = [runner EXCEPT ![r] = "running"]
  /\ UNCHANGED <<queueVars, pendingDropLog, runVars, cancelled, exited, historyVars>>

\* A gadget ends: ctx is done, it failed, or it has no more to report.
RunnerStop(r) ==
  /\ runner[r] = "running"
  /\ runner' = [runner EXCEPT ![r] = "stopped"]
  /\ UNCHANGED <<queueVars, flushCh, pendingDropLog, runVars, cancelled, exited,
                 historyVars>>

\* SIGTERM, or main's stop() once it has read a runner's error.
Cancel ==
  /\ ~cancelled
  /\ cancelled' = TRUE
  /\ UNCHANGED <<queueVars, flushCh, pendingDropLog, runner, runVars, exited, historyVars>>

\* main has heard from every runner: it calls Flush and returns.
Exit ==
  /\ \A r \in Runners : runner[r] = "stopped"
  /\ flushCh' = TRUE
  /\ exited' = TRUE
  /\ UNCHANGED <<queueVars, pendingDropLog, runner, runVars, cancelled, historyVars>>
-----------------------------------------------------------------------------
(* Client.Run                                                              *)

NextBackoff(current) ==
  IF current * 2 > BackoffMax THEN BackoffMax ELSE current * 2

\* Run gives up when ctx is done, before dialling or while it sleeps.
Stop ==
  /\ pc \in {"dial", "backoff"}
  /\ cancelled
  /\ pc' = "stopped"
  /\ UNCHANGED <<queueVars, flushCh, pendingDropLog, runner, phase, batch, backoff,
                 cancelled, exited, historyVars>>

\* Mutant: Run returns the error of a failed dial instead of retrying.
DialFailGivesUp ==
  /\ pc = "dial"
  /\ pc' = "stopped"
  /\ UNCHANGED <<queueVars, flushCh, pendingDropLog, runner, phase, batch, backoff,
                 cancelled, exited, historyVars>>

DialFail ==
  /\ pc = "dial"
  /\ pc' = "backoff"
  /\ UNCHANGED <<queueVars, flushCh, pendingDropLog, runner, phase, batch, backoff,
                 cancelled, exited, historyVars>>

DialOK ==
  /\ pc = "dial"
  /\ ~cancelled
  /\ pc' = "log"
  /\ phase' = "initial"
  /\ backoff' = BackoffMin
  /\ UNCHANGED <<queueVars, flushCh, pendingDropLog, runner, batch, cancelled, exited,
                 historyVars>>

Sleep ==
  /\ pc = "backoff"
  /\ pc' = "dial"
  /\ backoff' = NextBackoff(backoff)
  /\ UNCHANGED <<queueVars, flushCh, pendingDropLog, runner, phase, batch, cancelled,
                 exited, historyVars>>

\* runConnected: the ticker, a flush request, or the end of ctx.
SelectTick ==
  /\ pc = "select"
  /\ pc' = "log"
  /\ UNCHANGED <<queueVars, flushCh, pendingDropLog, runner, phase, batch, backoff,
                 cancelled, exited, historyVars>>

SelectFlush ==
  /\ pc = "select"
  /\ flushCh
  /\ flushCh' = FALSE
  /\ pc' = "log"
  /\ UNCHANGED <<queueVars, pendingDropLog, runner, phase, batch, backoff, cancelled,
                 exited, historyVars>>

SelectDone ==
  /\ pc = "select"
  /\ cancelled
  /\ pc' = "log"
  /\ phase' = "final"
  /\ UNCHANGED <<queueVars, flushCh, pendingDropLog, runner, batch, backoff, cancelled,
                 exited, historyVars>>

\* Mutant: a warning that is put off forgets the drops put off before it.
UnreportedDropsForgotten == droppedPending

UnreportedDrops == pendingDropLog + droppedPending

\* logDroppedPending: the warning is rate limited, so it is written or put off.
LogDroppedPending ==
  /\ pc = "log"
  /\ pc' = "drain"
  /\ droppedPending' = 0
  /\ IF droppedPending = 0
       THEN UNCHANGED <<pendingDropLog, loggedDrops>>
       ELSE \/ /\ pendingDropLog' = 0
               /\ loggedDrops' = loggedDrops + UnreportedDrops
            \/ /\ pendingDropLog' = UnreportedDrops
               /\ UNCHANGED loggedDrops
  /\ UNCHANGED <<events, flushCh, runner, phase, batch, backoff, cancelled, exited,
                 accepted, sent>>

\* drainBatchLocked: how many events the next batch takes off the queue.
DrainSize == IF BatchSize > Len(events) THEN Len(events) ELSE BatchSize

DrainBatch ==
  /\ pc = "drain"
  /\ events # <<>>
  /\ batch' = SubSeq(events, 1, DrainSize)
  /\ events' = SubSeq(events, DrainSize + 1, Len(events))
  /\ pc' = "send"
  /\ UNCHANGED <<droppedPending, flushCh, pendingDropLog, runner, phase, backoff,
                 cancelled, exited, historyVars>>

\* The queue is empty: sendPending returns nil to whoever called it.
DrainNothing ==
  /\ pc = "drain"
  /\ events = <<>>
  /\ IF phase = "final"
       THEN pc' = "stopped" /\ UNCHANGED phase
       ELSE pc' = "select" /\ phase' = "connected"
  /\ UNCHANGED <<queueVars, flushCh, pendingDropLog, runner, batch, backoff, cancelled,
                 exited, historyVars>>

SendOK ==
  /\ pc = "send"
  /\ pc' = "drain"
  /\ sent' = sent \o batch
  /\ batch' = <<>>
  /\ UNCHANGED <<queueVars, flushCh, pendingDropLog, runner, phase, backoff, cancelled,
                 exited, accepted, loggedDrops>>

SendFail ==
  /\ pc = "send"
  /\ pc' = "requeue"
  /\ UNCHANGED <<queueVars, flushCh, pendingDropLog, runner, phase, batch, backoff,
                 cancelled, exited, historyVars>>

\* How Run goes on after an error of sendPending: it ignores it in the last
\* call, makes that last call when ctx is done, and backs off otherwise.
ReturnError ==
  \/ phase = "final" /\ pc' = "stopped" /\ UNCHANGED phase
  \/ phase = "connected" /\ cancelled /\ pc' = "log" /\ phase' = "final"
  \/ /\ phase = "initial" \/ (phase = "connected" /\ ~cancelled)
     /\ pc' = "backoff"
     /\ UNCHANGED phase

\* requeue puts the batch in front of what arrived meanwhile, under the lock,
\* and sendPending returns the error.
Requeue ==
  /\ pc = "requeue"
  /\ events' = EnforceMax(batch \o events)
  /\ droppedPending' = droppedPending + Overflow(Len(batch) + Len(events))
  /\ batch' = <<>>
  /\ ReturnError
  /\ UNCHANGED <<flushCh, pendingDropLog, runner, backoff, cancelled, exited,
                 historyVars>>
-----------------------------------------------------------------------------
Init ==
  /\ events = <<>>
  /\ droppedPending = 0
  /\ flushCh = FALSE
  /\ pendingDropLog = 0
  /\ runner = [r \in Runners |-> "running"]
  /\ pc = "dial"
  /\ phase = "initial"
  /\ batch = <<>>
  /\ backoff = BackoffMin
  /\ cancelled = FALSE
  /\ exited = FALSE
  /\ accepted = 0
  /\ sent = <<>>
  /\ loggedDrops = 0

GadgetRunner(r) == Enqueue(r) \/ SignalFlush(r) \/ RunnerStop(r)

Run ==
  \/ Stop \/ DialFail \/ DialOK \/ Sleep
  \/ SelectTick \/ SelectFlush \/ SelectDone
  \/ LogDroppedPending \/ DrainBatch \/ DrainNothing
  \/ SendOK \/ SendFail \/ Requeue

\* Nothing runs any more once main has returned.
Next ==
  /\ ~exited
  /\ \/ \E r \in Runners : GadgetRunner(r)
     \/ Run \/ Cancel \/ Exit

Spec == Init /\ [][Next]_vars

\* Go runs every goroutine that can proceed; the ticker keeps the select alive.
\* The aggregator is assumed to come back: a dial, and a Send, that is tried
\* again and again does succeed.
Fairness ==
  /\ WF_vars(~exited /\ Run)
  /\ SF_vars(~exited /\ DialOK)
  /\ SF_vars(~exited /\ SendOK)

FairSpec == Spec /\ Fairness
-----------------------------------------------------------------------------
(* Properties                                                              *)

\* The types of the counters and of the sequences, and the queue's capacity.
QueueTypeOK ==
  /\ events \in Seq(Nat)
  /\ Len(events) <= MaxPendingEvents
  /\ batch \in Seq(Nat)
  /\ Len(batch) <= BatchSize
  /\ sent \in Seq(Nat)
  /\ accepted \in Nat
  /\ droppedPending \in Nat
  /\ pendingDropLog \in Nat
  /\ loggedDrops \in Nat
  /\ backoff \in Nat \ {0}

\* The types of the control state.
ControlTypeOK ==
  /\ flushCh \in BOOLEAN
  /\ runner \in [Runners -> {"running", "signal", "stopped"}]
  /\ pc \in {"dial", "backoff", "log", "drain", "send", "requeue", "select", "stopped"}
  /\ phase \in {"initial", "connected", "final"}
  /\ cancelled \in BOOLEAN
  /\ exited \in BOOLEAN

\* The variables stay in their types, and the queue is never longer than
\* -max-pending-events when the lock is free.
TypeOK == QueueTypeOK /\ ControlTypeOK

\* The queue drops the oldest events and nothing else: it holds, without a gap
\* and in order, the last events that were enqueued, even when a failed batch
\* is put back in front of a queue that overflowed while it was in flight.
QueueIsNewest ==
  \A i \in 1..Len(events) : events[i] = accepted - Len(events) + i

\* No wake-up is lost: when runConnected waits and a full batch is queued, a
\* flush request is in flushCh or a runner is about to put one there.
NoLostFlush ==
  pc = "select" /\ Len(events) >= BatchSize
    => flushCh \/ \E r \in Runners : runner[r] = "signal"

SentIds == {sent[i] : i \in 1..Len(sent)}

\* The events that may still be sent: the queue and the batch in flight.
Pending == {events[i] : i \in 1..Len(events)} \cup {batch[i] : i \in 1..Len(batch)}

\* The queue is a lossy FIFO whose losses are all counted: the counters behind
\* the "pending flow events dropped by retention" warning add up to the events
\* that were enqueued and neither sent nor kept, at every instant.
Abstract == INSTANCE LossyFifo
  WITH pending <- Pending, forwarded <- SentIds,
       lost <- droppedPending + pendingDropLog + loggedDrops

ImplementsCountedFifo == Abstract!Spec

\* Every event that was enqueued is sent or dropped unless the agent is told to
\* stop or has nothing left to observe: no failure, requeue or backoff leaves it waiting forever.
PendingDrains ==
  \A k \in 1..MaxAccepted :
    (k \in Pending) ~> (k \notin Pending \/ cancelled \/ exited)
=============================================================================
