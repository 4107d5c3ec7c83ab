------------------------------ MODULE FlowStore ------------------------------
(***************************************************************************)
(* The event store of the network-flow aggregator                          *)
(* (plugins/network-flow-aggregator/pkg/collector/store) together with the *)
(* two kinds of goroutine that share it: one PushEvents handler per agent  *)
(* stream, which appends (pkg/collector/server.go), and the upstream       *)
(* client's Run loop, which forwards what is unsent to Insights            *)
(* (pkg/collector/upstream).  Every action is a stretch of code that runs  *)
(* under one lock or touches no shared state.                              *)
(*                                                                         *)
(* An event is its number in the order of acceptance, the agent it came    *)
(* from and its timestamp.  Enrichment happens before the store's lock is  *)
(* taken and does not decide anything here.                                *)
(***************************************************************************)
EXTENDS Integers, Sequences, FiniteSets

CONSTANTS
  Agents,       \* the agents with an open PushEvents stream
  MaxEvents,    \* Store.maxEvents
  MaxAge,       \* Store.maxAge, in clock ticks
  BatchSize,    \* upstream Config.BatchSize
  BackoffMin,   \* upstream Config.ReconnectBackoffMin
  BackoffMax,   \* upstream Config.ReconnectBackoffMax
  Stamps,       \* bound: the timestamps agents put on their events
  MaxPush,      \* bound: acceptable events in one pushed batch
  MaxAccepted,  \* bound: events accepted in a behaviour
  MaxNow        \* bound: the last instant of the clock

ASSUME ConstantsAssumption ==
  /\ MaxEvents \in Nat \ {0}
  /\ MaxAge \in Nat \ {0}
  /\ BatchSize \in Nat \ {0}
  /\ BackoffMin \in Nat \ {0}
  /\ BackoffMax \in Nat \ {0}
  /\ Stamps \subseteq Nat
  /\ MaxPush \in Nat \ {0}
  /\ MaxAccepted \in Nat
  /\ MaxNow \in Nat

VARIABLES
  \* store.Store
  events,         \* Store.events
  sendCursor,     \* Store.sendCursor: how many of them are taken as sent
  droppedUnsent,  \* Store.droppedUnsent
  \* server.go
  handler,        \* where each agent's PushEvents goroutine is
  \* upstream.Client
  flushCh,        \* a flush request waits in Client.flushCh (capacity 1)
  pendingDropLog, \* Client.pendingDropLogCount
  pc,             \* where Client.Run is
  phase,          \* which call of sendPending is running
  batch,          \* the batch between PeekUnsentBatch and AdvanceSendCursor
  backoff,        \* Run's local variable backoff
  \* environment
  now,            \* the wall clock
  cancelled,      \* the process was told to stop (ctx is done)
  \* history
  accepted,       \* how many events AppendBatch has stored
  sent,           \* the numbers of the events Send has taken, in that order
  loggedDrops,    \* drops reported by a warning
  overtaken       \* an event was evicted while its batch was in flight

storeVars == <<events, sendCursor, droppedUnsent>>
clientVars == <<flushCh, pendingDropLog, pc, phase, batch, backoff>>
historyVars == <<accepted, sent, loggedDrops, overtaken>>
vars == <<storeVars, handler, clientVars, now, cancelled, historyVars>>

Event == [id : Nat, agent : Agents, ts : Nat]
-----------------------------------------------------------------------------
(* The store                                                               *)

UnsentCount == IF sendCursor >= Len(events) THEN 0 ELSE Len(events) - sendCursor

\* Mutant: the clamp is forgotten.
CursorAfterDropUnclamped(cursor, n) == cursor - n

\* Mutant: dropping sent events moves the cursor one event too far back.
CursorAfterDropTooFar(cursor, n) == IF cursor > n THEN cursor - n - 1 ELSE 0

\* adjustCursorOnDrop: the cursor after n events left the front ...
CursorAfterDrop(cursor, n) == IF cursor >= n THEN cursor - n ELSE 0

\* Mutant: only drops from an untouched buffer are counted.
LostUnsentIfNoneSent(cursor, n) == IF cursor = 0 THEN n ELSE 0

\* ... and how many of them it had not passed.
LostUnsent(cursor, n) == IF cursor >= n THEN 0 ELSE n - cursor

\* pruneLocked removes the longest prefix that is older than the cutoff.
IsStalePrefix(evs, n) ==
  /\ n \in 0..Len(evs)
  /\ \A i \in 1..n : evs[i].ts < now - MaxAge
  /\ n < Len(evs) => evs[n + 1].ts >= now - MaxAge

\* enforceMaxLocked removes what exceeds the capacity.
Overflow(n) == IF n > MaxEvents THEN n - MaxEvents ELSE 0

\* A pushed batch once isAcceptableEvent has dropped what cannot be used.
\* A batch of which nothing is left changes nothing.
Rows(a, stamps) ==
  [i \in 1..Len(stamps) |-> [id |-> accepted + i, agent |-> a, ts |-> stamps[i]]]

AppendBatch(a) ==
  /\ handler[a] = "recv"
  /\ \E n \in 1..MaxPush : \E stamps \in [1..n -> Stamps] :
       LET evs == events \o Rows(a, stamps) IN
       /\ accepted + n <= MaxAccepted
       /\ accepted' = accepted + n
       /\ \E stale \in 0..Len(evs) :
            LET over    == Overflow(Len(evs) - stale)
                cursor1 == CursorAfterDrop(sendCursor, stale)
                drop    == stale + over
            IN /\ IsStalePrefix(evs, stale)
               /\ events' = SubSeq(evs, drop + 1, Len(evs))
               /\ sendCursor' = CursorAfterDrop(cursor1, over)
               /\ droppedUnsent' = droppedUnsent + LostUnsent(sendCursor, stale)
                                                 + LostUnsent(cursor1, over)
               /\ overtaken' = (overtaken \/ (batch # <<>> /\ drop > sendCursor))
  /\ handler' = [handler EXCEPT ![a] = "notify"]
  /\ UNCHANGED <<clientVars, now, cancelled, sent, loggedDrops>>

\* Mutant: a batch that is exactly full does not ask for a flush.
ShouldFlushLate == UnsentCount > BatchSize

ShouldFlush == UnsentCount >= BatchSize

\* NotifyAppended looks at the store again, under its lock ...
NotifyAppended(a) ==
  /\ handler[a] = "notify"
  /\ handler' = [handler EXCEPT ![a] =
                   IF ShouldFlush THEN "signal" ELSE "recv"]
  /\ UNCHANGED <<storeVars, clientVars, now, cancelled, historyVars>>

\* ... and signals afterwards; a request that is already waiting is enough.
SignalFlush(a) ==
  /\ handler[a] = "signal"
  /\ flushCh' = TRUE
  /\ handler' = [handler EXCEPT ![a] = "recv"]
  /\ UNCHANGED <<storeVars, pendingDropLog, pc, phase, batch, backoff, now,
                 cancelled, historyVars>>
-----------------------------------------------------------------------------
(* The upstream client's Run loop                                          *)

NextBackoff(current) ==
  IF current * 2 > BackoffMax THEN BackoffMax ELSE current * 2

\* Run gives up when ctx is done, before dialling or while it sleeps.
Stop ==
  /\ pc \in {"dial", "backoff"}
  /\ cancelled
  /\ pc' = "stopped"
  /\ UNCHANGED <<storeVars, handler, flushCh, pendingDropLog, phase, batch,
                 backoff, now, cancelled, historyVars>>

\* Mutant: Run returns the error of a failed dial instead of retrying.
DialFailGivesUp ==
  /\ pc = "dial"
  /\ pc' = "stopped"
  /\ UNCHANGED <<storeVars, handler, flushCh, pendingDropLog, phase, batch,
                 backoff, now, cancelled, historyVars>>

DialFail ==
  /\ pc = "dial"
  /\ pc' = "backoff"
  /\ UNCHANGED <<storeVars, handler, flushCh, pendingDropLog, phase, batch,
                 backoff, now, cancelled, historyVars>>

DialOK ==
  /\ pc = "dial"
  /\ ~cancelled
  /\ pc' = "log"
  /\ phase' = "initial"
  /\ backoff' = BackoffMin
  /\ UNCHANGED <<storeVars, handler, flushCh, pendingDropLog, batch, now,
                 cancelled, historyVars>>

Sleep ==
  /\ pc = "backoff"
  /\ pc' = "dial"
  /\ backoff' = NextBackoff(backoff)
  /\ UNCHANGED <<storeVars, handler, flushCh, pendingDropLog, phase, batch,
                 now, cancelled, historyVars>>

\* runConnected: the ticker, a flush request, or the end of ctx.
SelectTick ==
  /\ pc = "select"
  /\ pc' = "log"
  /\ UNCHANGED <<storeVars, handler, flushCh, pendingDropLog, phase, batch,
                 backoff, now, cancelled, historyVars>>

SelectFlush ==
  /\ pc = "select"
  /\ flushCh
  /\ flushCh' = FALSE
  /\ pc' = "log"
  /\ UNCHANGED <<storeVars, handler, pendingDropLog, phase, batch, backoff,
                 now, cancelled, historyVars>>

SelectDone ==
  /\ pc = "select"
  /\ cancelled
  /\ pc' = "log"
  /\ phase' = "final"
  /\ UNCHANGED <<storeVars, handler, flushCh, pendingDropLog, batch, backoff,
                 now, cancelled, historyVars>>

UnreportedDrops == pendingDropLog + droppedUnsent

\* logDroppedUnsent: the warning is rate limited, so it is written or put off.
LogDroppedUnsent ==
  /\ pc = "log"
  /\ pc' = "peek"
  /\ droppedUnsent' = 0
  /\ IF droppedUnsent = 0
       THEN UNCHANGED <<pendingDropLog, loggedDrops>>
       ELSE \/ /\ pendingDropLog' = 0
               /\ loggedDrops' = loggedDrops + UnreportedDrops
            \/ /\ pendingDropLog' = UnreportedDrops
               /\ UNCHANGED loggedDrops
  /\ UNCHANGED <<events, sendCursor, handler, flushCh, phase, batch, backoff,
                 now, cancelled, accepted, sent, overtaken>>

\* The lengths of runs of one agent's events that start at the cursor.
RunLengths ==
  {n \in 0..BatchSize :
     /\ sendCursor + n <= Len(events)
     /\ \A i \in 1..n : events[sendCursor + i].agent = events[sendCursor + 1].agent}

\* Mutant: the batch is read from the end of the unsent events.
NewestEvents(n) == SubSeq(events, Len(events) - n + 1, Len(events))

OldestUnsent(n) == SubSeq(events, sendCursor + 1, sendCursor + n)

\* PeekUnsentBatch takes the longest of them.
PeekUnsentBatch ==
  /\ pc = "peek"
  /\ UnsentCount > 0
  /\ \E n \in RunLengths :
       /\ \A m \in RunLengths : m <= n
       /\ batch' = OldestUnsent(n)
  /\ pc' = "send"
  /\ UNCHANGED <<storeVars, handler, flushCh, pendingDropLog, phase, backoff,
                 now, cancelled, historyVars>>

\* Nothing is unsent: sendPending returns nil to whoever called it.
PeekNothing ==
  /\ pc = "peek"
  /\ UnsentCount = 0
  /\ IF phase = "final"
       THEN pc' = "stopped" /\ UNCHANGED phase
       ELSE pc' = "select" /\ phase' = "connected"
  /\ UNCHANGED <<storeVars, handler, flushCh, pendingDropLog, batch, backoff,
                 now, cancelled, historyVars>>

\* stream.Send has taken the batch.
SendOK ==
  /\ pc = "send"
  /\ pc' = "advance"
  /\ sent' = sent \o [i \in 1..Len(batch) |-> batch[i].id]
  /\ UNCHANGED <<storeVars, handler, flushCh, pendingDropLog, phase, batch,
                 backoff, now, cancelled, accepted, loggedDrops, overtaken>>

\* How Run goes on after an error of sendPending: it ignores it in the last
\* call, makes that last call when ctx is done, and backs off otherwise.
ReturnError ==
  \/ phase = "final" /\ pc' = "stopped" /\ UNCHANGED phase
  \/ phase = "connected" /\ cancelled /\ pc' = "log" /\ phase' = "final"
  \/ /\ phase = "initial" \/ (phase = "connected" /\ ~cancelled)
     /\ pc' = "backoff"
     /\ UNCHANGED phase

\* stream.Send failed: the connection is dropped, and the cursor stays.
SendFail ==
  /\ pc = "send"
  /\ batch' = <<>>
  /\ ReturnError
  /\ UNCHANGED <<storeVars, handler, flushCh, pendingDropLog, backoff, now,
                 cancelled, historyVars>>

\* AdvanceSendCursor(len(events))
CursorAfterSend(n) ==
  IF sendCursor + n > Len(events) THEN Len(events) ELSE sendCursor + n

AdvanceSendCursor ==
  /\ pc = "advance"
  /\ sendCursor' = CursorAfterSend(Len(batch))
  /\ batch' = <<>>
  /\ pc' = "peek"
  /\ UNCHANGED <<events, droppedUnsent, handler, flushCh, pendingDropLog,
                 phase, backoff, now, cancelled, historyVars>>
-----------------------------------------------------------------------------
(* The environment                                                         *)

Tick ==
  /\ now < MaxNow
  /\ now' = now + 1
  /\ UNCHANGED <<storeVars, handler, clientVars, cancelled, historyVars>>

Cancel ==
  /\ ~cancelled
  /\ cancelled' = TRUE
  /\ UNCHANGED <<storeVars, handler, clientVars, now, historyVars>>

Init ==
  /\ events = <<>>
  /\ sendCursor = 0
  /\ droppedUnsent = 0
  /\ handler = [a \in Agents |-> "recv"]
  /\ flushCh = FALSE
  /\ pendingDropLog = 0
  /\ pc = "dial"
  /\ phase = "initial"
  /\ batch = <<>>
  /\ backoff = BackoffMin
  /\ now = MaxAge
  /\ cancelled = FALSE
  /\ accepted = 0
  /\ sent = <<>>
  /\ loggedDrops = 0
  /\ overtaken = FALSE

PushEvents(a) == AppendBatch(a) \/ NotifyAppended(a) \/ SignalFlush(a)

Run ==
  \/ Stop \/ DialFail \/ DialOK \/ Sleep
  \/ SelectTick \/ SelectFlush \/ SelectDone
  \/ LogDroppedUnsent \/ PeekUnsentBatch \/ PeekNothing
  \/ SendOK \/ SendFail \/ AdvanceSendCursor

Next == (\E a \in Agents : PushEvents(a)) \/ Run \/ Tick \/ Cancel

Spec == Init /\ [][Next]_vars

\* Go runs every goroutine that can proceed; the ticker keeps the select alive.
\* Insights is assumed to answer in the end: a dial, and a Send, that is tried
\* again and again does succeed.
Fairness ==
  /\ WF_vars(Run)
  /\ SF_vars(DialOK)
  /\ SF_vars(SendOK)

FairSpec == Spec /\ Fairness
-----------------------------------------------------------------------------
(* Properties                                                              *)

\* The types of the sequences and the counters, and the buffer's bounds.
StoreTypeOK ==
  /\ events \in Seq(Event)
  /\ Len(events) <= MaxEvents
  /\ sendCursor \in 0..Len(events)
  /\ batch \in Seq(Event)
  /\ Len(batch) <= BatchSize
  /\ sent \in Seq(Nat)
  /\ accepted \in Nat
  /\ droppedUnsent \in Nat
  /\ pendingDropLog \in Nat
  /\ loggedDrops \in Nat
  /\ backoff \in Nat \ {0}
  /\ now \in Nat

\* The types of the control state.
ControlTypeOK ==
  /\ handler \in [Agents -> {"recv", "notify", "signal"}]
  /\ flushCh \in BOOLEAN
  /\ pc \in {"dial", "backoff", "log", "peek", "send", "advance", "select", "stopped"}
  /\ phase \in {"initial", "connected", "final"}
  /\ cancelled \in BOOLEAN
  /\ overtaken \in BOOLEAN

\* The variables stay in their types: the cursor never points beyond the
\* buffer, and the buffer never exceeds -max-events between two calls.
TypeOK == StoreTypeOK /\ ControlTypeOK

\* No event is sent to Insights twice and none after a younger one, although
\* eviction moves the cursor while a batch is in flight and a failed Send is
\* repeated (sendPending, adjustCursorOnDrop, AdvanceSendCursor).
SentInOrder == \A i, j \in 1..Len(sent) : i < j => sent[i] < sent[j]

\* No wake-up is lost: when runConnected waits in its select and a full batch
\* is unsent, a flush request is in flushCh or a handler is about to put one
\* there (NotifyAppended reads the store and signals without holding a lock).
NoLostFlush ==
  pc = "select" /\ UnsentCount >= BatchSize
    => flushCh \/ \E a \in Agents : handler[a] \in {"notify", "signal"}

SentIds == {sent[i] : i \in 1..Len(sent)}
UnsentIds == {events[i].id : i \in (sendCursor + 1)..Len(events)}
InFlightIds == IF pc = "send" THEN {batch[i].id : i \in 1..Len(batch)} ELSE {}

\* The events that may still reach Insights.
Pending == (UnsentIds \cup InFlightIds) \ SentIds

\* As long as no event was evicted while its batch was being sent, every
\* accepted event is pending, sent, or in the drop counters that feed the
\* "unsent flow events dropped by retention" warning.
DropsCountedUnlessOvertaken ==
  ~overtaken =>
    accepted = Cardinality(Pending) + Len(sent)
                 + droppedUnsent + pendingDropLog + loggedDrops

\* The store and its client are a lossy FIFO: eviction, a failed Send and a
\* cursor that skips can only lose events, never revive or reorder them.
Abstract == INSTANCE LossyFifo
  WITH pending <- Pending, forwarded <- SentIds,
       lost <- accepted - Cardinality(Pending) - Cardinality(SentIds)

ImplementsLossyFifo == Abstract!Spec

\* Every accepted event is sent or given up, unless the process is stopped:
\* reconnects, backoff and the flush ticker leave no event waiting forever.
UnsentDrains ==
  \A k \in 1..MaxAccepted : (k \in Pending) ~> (k \notin Pending \/ cancelled)

\* README: events that are not forwarded are evicted ones, and dropping unsent
\* events is warned about.  So an event that is still stored and that the
\* cursor has passed was sent.
NoSilentSkip == \A i \in 1..sendCursor : events[i].id \in SentIds
=============================================================================
