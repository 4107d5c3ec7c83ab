# Verification of insights-plugins

TLA+ models of the plugins of FairwindsOps/insights-plugins that keep state, run
concurrently or depend on a cluster that changes under them, the TLC runs that check
them on small instances, and TLAPS proofs of their invariants for every value of the
constants.  `PROJECT.json` lists the
components, the runs, the map from definitions to source lines, the mutants,
the hazards and the theorems; this file explains them.

## 1. The system

The repository holds the in-cluster agents of Fairwinds Insights.  Some plugins
are long-running processes.  Others are one-shot reporters that a CronJob starts:
these too have worker pools, several calls of which one may fail, a report that
the next run starts from, or a cluster that changes between two of their calls.

| Component | State it keeps | Operations | Interactions | What makes it correct |
|---|---|---|---|---|
| network-flow agent (`plugins/network-flow`) | pending queue, drop counters, flush channel; byte-counter table | `Enqueue`, `drainBatchLocked`, `requeue`, `Run`; `BeginPoll`, `Observe`, `EndPoll` | gadget runners call `Enqueue` concurrently with `Run`, which streams to the aggregator | only the oldest events are dropped, every drop is counted, no wake-up is lost, bytes are reported once |
| network-flow aggregator (`plugins/network-flow-aggregator`) | ring buffer with a send cursor, drop counters, flush channel; DNS, peer and service indexes | `AppendBatch`, `PeekUnsentBatch`, `AdvanceSendCursor`, `Run` | one `PushEvents` goroutine per agent appends while the upstream client streams to Insights without holding the lock | no event is sent twice or out of order, an unsent one is counted when it is dropped, all are sent in the end |
| right-sizer (`plugins/right-sizer`) | list of report items, copied to a ConfigMap | Started events, scaling events, ageing, `WriteConfigMap`, `ReadConfigMap` | the event goroutine and the ageing goroutine share the list; the Kubernetes API may fail or conflict | one item per container, the ConfigMap follows the memory, limits stay below the maximum |
| event-watcher (`plugins/event-watcher`) | bounded event channel, de-duplication cache, metrics under one RWMutex | log poll, event listing, `processEvents`, `SendToInsights`, `LogMetrics`, `Stop` | a log source drops when the channel is full, the Kubernetes event source waits; one goroutine posts to Insights, another logs the metrics | a violation is reported in the end and not repeated, shutdown ends, the sources that are waited for send nothing on a closed channel (one is not waited for: section 5) |
| aggregator enrichment | copies of pods and EndpointSlices, peer index, DNS cache | `enrichEvent`, informer callbacks, `RecordReply`, `Lookup` | agents of both ends report one connection, in any order | a flow names the pod that served it, and the host name its pod asked for |
| kyverno-policy-sync | a Lease in the cluster; the policies | acquire, renew, compare, create, update, delete, release | several jobs compete for the lease; one that has lost it works on for a while, and kubectl requests outlive a killed job | a reported success is one, only policies that Insights wanted change, the cluster converges to Insights |
| on-demand-job-runner | jobs claimed from Insights, in memory | claim, create Job, poll, report status | Insights, the Kubernetes API | one Job per claim, a claimed job ends in a reported status |
| trivy | the last report; two maps shared by the scans | select, scan, retry, recommend, minimise, write | worker goroutines with locks; the report goes through Insights to the next run | no image with an ID vanishes from the report, each gets its turn again, scans do not block each other |
| image-trust | per-run results of a worker pool | configure, discover, resolve, verify, retry, allow, report | cosign commands with timeouts | no status without the checks behind it, no finding left out without a reason |
| admission | configuration of validator and mutator, refreshed every minute | validate, mutate, refresh | requests read the configuration while it is replaced | a request that is allowed was checked, or there is a reason |
| realtime-reporter | informer cache | informer callbacks, resync, upload | watches break, the process restarts | Insights follows the cluster |
| falco-agent | a directory of event files | POST writes, GET aggregates and deletes | HTTP handlers share the directory without a lock; a write may fail half way | a report holds every event that was acknowledged before |
| opa with the uploader | the report file, the status of the container | fetch checks, list, evaluate, write, rename; wait, look, post | two containers of one pod; the cluster changes between two lists | what is uploaded is a whole report, or an error |
| prometheus collector | per-run results | query, fall back, list claims and workloads, join, split | workloads are listed long after the metrics were measured | the statistics of a pod add up to what was measured and to the claims it mounts |
| ci, workloads, kyverno, rbac-reporter, kube-bench, other shell plugins | none beyond one run | one sequential pass | the Insights API, files | conversion of data: left to unit tests |

Hard behaviours: state read under a lock and used after an unlocked network
call (store cursor, right-sizer length and report copy); channels of capacity
one as wake-ups; retries of what may have been done; two writers of one
ConfigMap; crashes between memory and ConfigMap; counters that restart; loops
that change their own index; a lock that a `break` leaves taken; a lease that
ends in the middle of a command; names and addresses that are used again; text
that is searched for words.  `PROJECT.json` "hazards" lists each at its line.

## 2. Modules

| Module | Models | State / actions correspond to |
|---|---|---|
| `LossyFifo` | the promise of a flow-event buffer: accept, lose, forward in order | abstract; no code of its own |
| `FlowStore` | `collector/store/store.go`, `collector/upstream/client.go`, `collector/server.go` PushEvents | variables are the fields of `Store` and `Client`; each action is one critical section or one network call of `AppendBatch`, `NotifyAppended`, `sendPending`, `Run` |
| `AgentClient` | `network-flow/pkg/agent/collector_client.go`, `main.go` | as above for the agent's queue; `Exit` is `main` returning without awaiting `Run` |
| `DeltaTracker` | `network-flow/pkg/agent/delta_tracker.go`, the poll callback of `gadget_top_tcp.go` | one action per `BeginPoll`, `Observe`, `EndPoll`; `Open`, `Transfer`, `Close` are the kernel |
| `RightSizer` | `right-sizer/src/controller/controller.go`, `src/report/report.go`, `src/util/kubernetes.go` | `run` and `writer` say where the two goroutines are; an action is a stretch under `itemsLock` or one API call; `Left` is what remains of a list when items are cut out |
| `EventWatcher` | `event-watcher/pkg/watcher`, `pkg/producers`, `pkg/utils/utils.go` (`SendToInsights` and the cache), `pkg/metrics`, the commands | `logPc`, `k8sPc`, `worker`, `logger` and `main` say where the goroutines are; an action is one channel operation, one lock operation, one cache look-up or one post |
| `ViolationRouter` | `event-watcher/pkg/utils/utils.go` (what a message is taken for), `pkg/consumers` | `message` is a header, up to the word after the policy's name, and the author's text after it, each the set of words the code looks for, so that a name is cut at the first " failed:" of either; one action per source and per handler |
| `CloudWatchSource` | `event-watcher/pkg/producers/cloudwatch_handler.go` | the ticker, its interval, the window and the retries of a poll |
| `Enrichment` | `network-flow-aggregator/pkg/collector/server.go` (`enrichEvent`), `collector/kube`, `collector/peerindex` | `cur` is the report being enriched, one lookup per action; `conn`, `ip` are the cluster, `podCache`, `sliceCache` (by Service) the informers, `HostnameOf` what the DNS cache may answer; ports are numbers on both sides of 32768 |
| `DnsCache` | `collector/dns/cache.go` and its calls | both indexes of the cache; answers carry the clock of their node |
| `PolicySync` | `kyverno-policy-sync/pkg/lock`, `pkg/sync`, `cmd` | `pc`, `expected`, `todo` per job; an action is one call of Insights, of the API server or one kubectl command; `lease` is given up or expires while its holder may still work; `inflight` are requests that a killed command has left |
| `JobRunner` | `on-demand-job-runner` | `worker` says where the goroutine of each claimed job is |
| `FalcoAgent` | `falco-agent/pkg` | `post` and `get` say where each handler is; files by name, "partial" while they are written or when a write failed (`WriteFails`) or the process died in it (`Restart`) |
| `RealtimeReporter` | `realtime-reporter` | cache, queue of notifications, handler |
| `AdmissionController` | `admission/pkg` (`admission`, `opa`, `pluto`, `polaris`), `cmd` | `refresher`, and per request `pcOf`, the version `used` and the `reports` made |
| `ImageScan` | `trivy/cmd/trivy`, `trivy/pkg/image` | the phases of a run; a goroutine per image with both locks |
| `ImageTrust` | `image-trust/pkg` (`config`, `discovery`, `resolve`, `verify`, `policy`, `report`), `cmd` | the phases of a run; modes in the order of the configured list; a goroutine per image, one action per cosign command, wait or timeout |
| `OpaReport` | `opa/cmd`, `opa/pkg`, `uploader/uploader.sh` | `pc` is the plugin, `work` the passes of a check over a target that are left, `attempts` the uploader; the file system between them |
| `MetricsCollector` | `prometheus/pkg/data`, `pkg/models`, `cmd` | `stage` and `query` say where the run is |
| `FlowStoreProofs`, `AgentClientProofs`, `DeltaTrackerProofs`, `PolicySyncProofs`, `EventWatcherProofs`, `RightSizerProofs` | theorems about the module they extend | |
| `Plugins` | `JobRunner`, `AdmissionController` as instances | each with constants and variables of its own, and what it promises |
| `Reporters` | `FalcoAgent`, `RealtimeReporter` as instances | likewise |
| `Collectors` | `CloudWatchSource`, `ViolationRouter`, `DnsCache`, `Enrichment`, `OpaReport`, `MetricsCollector` as instances | likewise |
| `PluginsProofs` | theorems about the instances of `Plugins` and `Reporters`, and about `ImageTrust` | extends the three |
| `CollectorsProofs` | theorems about the instances of `Collectors`, and about `ImageScan`; a theory of finite sums | extends both |
| `MC*` | model values and symmetry for TLC | |
| `MCPlugins`, `MCReporters`, `MCCollectors` | sums: the parts of `Plugins` and `ImageTrust`; the parts of `Reporters` and `DeltaTracker`; the parts of `Collectors` | plugins with nothing in common: a variable chosen at the start says which one moves, the others stay in an initial state |

Definitions that start with a comment "Mutant" are plausible wrong versions of
the definition that follows.  The specifications never use them: each is put in
the place of the right one to show that a property notices.

Abstractions.  An event is a number (its order of acceptance) with the agent
and timestamp where these matter; enrichment does not decide anything in the
store.  Time is a clock that ticks (`FlowStore`) or a nondeterministic choice
(which items `RemoveOldItems` finds too old).  Session statistics and log texts
are left out; the drop counters that feed the warnings are kept.  In
`DeltaTracker` one direction of traffic is modelled (sent and received are
treated alike), a snapshot shows the connections that are open, with cumulative
counters.  In `RightSizer` a workload has one pod at a time, memory is a natural
number, the multipliers are integers, a rollout emits no Started event of its
own (a first start finds no termination), updating is enabled and namespaces
are allowed.  In `EventWatcher` a violation is known by its UID; entries that
are no violations, the wording of messages and the retries of single CloudWatch
calls are left out, every line of the audit log fits the scanner's buffer, the
log is not rotated, and the nested read locks of one `LogMetrics` call, and the
two records after an event, are each taken as one.  The head of each other
module says what its data stand for.  Throughout, what an external tool or
service decides (kubectl's outcome, a scan, cosign, Rego, Insights' verdict) is a
choice, or a constant function of its input where the tool is deterministic.
Variables under the comment "history" record what the properties need, or (`truth`
of `ImageTrust`) what the outside has once answered.

## 3. Runs

| Run | Checks | Result |
|---|---|---|
| `FlowStore` | `SentInOrder`, `NoLostFlush`, `DropsCountedUnlessOvertaken`, `ImplementsLossyFifo`, `UnsentDrains` (liveness) | hold; 373k states |
| `FlowStoreSkip` | `NoSilentSkip` | violated: eviction during a Send makes the cursor pass stored, unsent, uncounted events |
| `AgentClient` | `QueueIsNewest`, `NoLostFlush`, `ImplementsCountedFifo`, `PendingDrains` (liveness) | hold |
| `RightSizer` | `ItemsDistinct`, `PersistedUnlessRaced`, `WithinMaximum` | hold; 1.9M states |
| `EventWatcher` | `ReportedOnce`, `WaitedForNeverSend`, `LoggedIsReported` and `StopEnds` (liveness) | hold |
| `EventWatcherClose` | `NoSendOnClosed` | violated: the goroutine that reads the audit log is not waited for, and sends on the closed channel |
| `PolicySync` | `SuccessIsSynced`, `OnlyWantedChange` (action property), `Converges` (liveness) | hold; 201k states |
| `PolicySyncUsers` | `OnlyAnnotatedAffected` (action property) | violated: kubectl apply overwrites a user's own policy that has the kind and name of a wanted one |
| `Plugins` | `ClaimedOnce`, `ClaimedIsReported` (liveness) of `JobRunner`; `AllowedForAReason`, `ConfigArrives` (liveness) of `AdmissionController`; `StatusIsEarned`, `SuppressedForAReason`, `TrustRunEnds` (liveness) of `ImageTrust` | hold; 106k states |
| `Reporters` | `ReportComplete` of `FalcoAgent`; `ViewFollows` of `RealtimeReporter`; `ShownIsReportedOnce` of `DeltaTracker` | hold; 3.5M states |
| `ImageScan` | `NothingForgotten`, `DetailsComplete`, `ScansEnd` and `ScannedAgain` (liveness) | hold |
| `Collectors` | `RightBackend`, `NoFalseEdge` of `Enrichment`; `OwnHostname` of `DnsCache`; `RoutedByKind` of `ViolationRouter`; `MissedForAReason` of `CloudWatchSource`; `UploadedIsWhole` of `OpaReport`; `ReportAddsUp` of `MetricsCollector` | hold; 3.1M states |

What the conditions in the property names mean: `DropsCountedUnlessOvertaken`
excludes exactly the behaviours of `FlowStoreSkip` (an event evicted while its
batch is in flight); `PersistedUnlessRaced` excludes failed API calls, whose
error the code only logs, and the writes of the two goroutines that overlap;
`ShownIsReportedOnce` excludes keys that are reused between two snapshots,
which the tracker cannot tell from the old connection (`NeverOverreports` states
what does not hold then); `ReportedOnce` allows one
repetition per cache entry that expired and per answer that was lost;
`LoggedIsReported` and `StopEnds` except the two stuck states `MetricsDeadlock`
and `SendBlocked` in which the process does not end, and `LoggedIsReported` is
conditional on scans that now and then meet a channel with room: the Kubernetes
event source waits for room and can keep the log source, which does not wait,
out for ever.  `WaitedForNeverSend` is about the Kubernetes event source and CloudWatch;
the audit log's goroutine does send on the closed channel (`EventWatcherClose`).
`SuccessIsSynced` and `Converges` except names that two kinds share, and
`SuccessIsSynced` also syncs under which a user, a late request or a job that had lost
its lease changed the cluster; `OnlyWantedChange` lets a user's own policy be overwritten
that Insights wants too (`PolicySyncUsers`).  `ReportComplete` lets a GET fail if files
changed under it, or if the newest file was left truncated by a write that failed.
`NothingForgotten` is about images with an ID.  `NoFalseEdge` excepts an edge to a node, to
a Service that had a pod at the client's address, to a workload that had one when the
client's port is below 32768, and to a host name that DNS gave for the address.
`RoutedByKind` excepts words of the author that mislead the watcher; and an error of a
(Namespaced)ValidatingPolicy is posted as "unknown", or, if its text has " failed:", under
a garbled name.
`ViewFollows` excepts objects of which an upload was lost, or that changed while
nobody watched in a way no resync can tell; `ClaimedIsReported` excepts claims
whose answer was lost or whose process died; `ReportAddsUp` gives each pod the whole of a
claim, shared or not, as the code does, and excepts pods whose claims have a namesake in
another namespace, or that mount one claim twice.  The
comment at each property says which exception it makes and why; section 5 lists what
the exceptions hide.

Bounds and why they are enough.
- `FlowStore`: two agents, because append/append and append/send interleavings
  need no more; a buffer of 2 with batches of up to 2 and 3 accepted events, so
  that a batch fills the buffer and a batch in flight is evicted in part; clock
  1..2 with stamps 0 and 1, so that pruning takes none, some or all.  A fourth
  event, which evicts a batch as a whole, is more than liveness checking allows:
  `FlowStoreSkip` has it, and the theorems hold for any number.
- `AgentClient`: capacity 3, batches of 2, five events: a requeued batch meets
  a queue that is empty, partly filled, or full.
- `RightSizer`: one workload with two containers (the interesting races are
  between containers of one pod), two container starts, one fault (crash or
  failed call), generation up to 4: first OOM-kill, update, rollout and a
  second OOM-kill; a user edit that makes items obsolete.
- `EventWatcher`: one log entry, one Kubernetes event and a channel of 1, which
  either source finds full; one fault (expiry or lost answer).  Both log
  sources are initial states.
- `PolicySync`: two jobs, two policies of which one is in another namespace, two
  versions, one edit and one fault: the second job starts before, after and while
  the first is killed or loses its lease, with a request still in flight.
  `PolicySyncUsers` adds a policy of another kind with the same name; the theorems
  hold for any names.
- `Plugins`: three job requests with two claimed at once, one of them of an
  unknown type; three admission requests over two configurations; three images,
  all configurations of one mode and some of two, in either order, two checks at
  once, two attempts.
- `Reporters`: two events and two reports on one directory with a clock of three
  readings, writes that fail and restarts in between; two objects, three
  generations, a queue of two; two keys, three bytes each: baseline, increment
  and closing flush, and a key that is closed and reopened between and within
  polls.
- `ImageScan`: four images, two scanned per run, two at once, one rollout and one
  fault, any number of runs: an image waits while others go first.
- `Collectors`: two servers, two addresses and two ports, so that an address and
  a port are used again, one port above and one below 32768, and one address with a
  host name; two clocks that differ by more than `maxAge`; up to three
  words of interest in the author's text of a message; three log entries with a batch size of two and
  time for the interval to double; three objects, two checks; three workloads,
  one the prefix of another, one and two containers, a claim that two pods share,
  a name of claims in two namespaces, and a claim in two volumes of a pod.

`CHECK_DEADLOCK FALSE` is set where behaviours really end: the flow models stop
when the process was cancelled or all bounded events are used up and the clock
stands; the event watcher and the one-shot plugins stop when their process has
ended; the right-sizer and the other servers wait for ever when nothing happens
in the cluster or their bounds are used up.  `PolicySync` is checked for
deadlock: the CronJob always starts another job.

Symmetry is used for agents, connection keys and containers in safety runs only: no
action distinguishes them.

Fairness.  `WF(Run)`: the Go scheduler runs a goroutine that can proceed and the
ticker in `runConnected` keeps its select alive.  `SF(DialOK)`, `SF(SendOK)`: the
peer is assumed to come back; the code retries for ever and can promise nothing
if it does not.  Nothing is assumed about agents, runners or cancellation.
In `EventWatcher`: weak fairness of each goroutine; strong fairness of the
branch that a select chooses among ready ones (Go chooses at random), of a post
of a given violation being accepted in the end (Insights comes back), and of an
offer that can be made again and again.  `PolicySync`: weak fairness of the
CronJob, of each job's steps, of the lease being taken and expiring, and of
requests in flight; faults are bounded, so that a command succeeds in the end.
`ImageScan`: weak fairness of the CronJob and of each goroutine.  That a scan ends
is an assumption about trivy and skopeo, which the code starts without a timeout
(`scan.go:196`, `251`): one that hangs is never cut off.  `ImageTrust`: weak fairness of
the main goroutine and of each worker; a cosign command is cut off by the timeout of
its image, and calls of registries and of the API server are assumed to return.
Job runner and admission controller: weak fairness of
the goroutine of each claimed job, whose polls are bounded by the timeout, and of
the refresh loop, which has a ticker.  Nothing is assumed of users or the cluster.

## 4. Proofs

| Module | Theorem | States for every value of the constants |
|---|---|---|
| `FlowStoreProofs` | `TypeCorrect` | `[]TypeOK`: cursor within the buffer, buffer within capacity |
| | `NeverSentTwice` | `[]SentInOrder` |
| | `FlushRequestsArrive` | `[]NoLostFlush` |
| | `EveryDropCounted` | `[]DropsCountedUnlessOvertaken` |
| | `StoreImplementsLossyFifo` | `ImplementsLossyFifo`, the refinement of `LossyFifo` |
| `AgentClientProofs` | `TypeCorrect` | `[]TypeOK`: the queue never exceeds its capacity |
| | `DropsOldest` | `[]QueueIsNewest` |
| | `FlushRequestsArrive` | `[]NoLostFlush` |
| | `QueueImplementsCountedFifo` | `ImplementsCountedFifo`, the refinement with every loss counted |
| `DeltaTrackerProofs` | `TypeCorrect` | `[]TypeOK`: no subtraction goes below zero |
| | `TableBounded` | `[]TableIsLastSnapshot` |
| | `EveryByteOnce` | `[]ShownIsReportedOnce` |
| `PolicySyncProofs` | `TypeCorrect` | `[]TypeOK`: plans, commands and late requests are commands on known policies |
| | `OnlyWantedPoliciesChange` | `OnlyWantedChange` (an action property) |
| | `SuccessMeansSynced` | `[]SuccessIsSynced` |
| `EventWatcherProofs` | `WaitedForSourcesNeverPanic` | `[]WaitedForNeverSend` |
| | `InsightsReceivesOnce` | `[]ReportedOnce` |
| `RightSizerProofs` | `TypeCorrect` | `[]TypeOK` |
| | `ReportPersisted` | `[]PersistedUnlessRaced` |
| | `OneItemPerContainer` | `[]ItemsDistinct` |
| | `UpdatesWithinMaximum` | `[]WithinMaximum` |
| `PluginsProofs` | `RequestsClaimedOnce` | `[]ClaimedOnce` of `JobRunner` |
| | `FalcoReportComplete` | `[]ReportComplete` of `FalcoAgent` |
| | `InsightsFollows` | `[]ViewFollows` of `RealtimeReporter` |
| | `RequestsAllowedForAReason` | `[]AllowedForAReason` of `AdmissionController` |
| | `StatusesEarned`, `FindingsSuppressedForAReason` | `[]StatusIsEarned`, `[]SuppressedForAReason` of `ImageTrust` |
| `CollectorsProofs` | `EntriesMissedForAReason` | `[]MissedForAReason` of `CloudWatchSource` |
| | `ViolationsRoutedByKind` | `[]RoutedByKind` of `ViolationRouter` |
| | `FlowsBearOwnHostname` | `[]OwnHostname` of `DnsCache` |
| | `BackendServedTheFlow`, `RepliesMakeNoEdge` | `[]RightBackend`, `[]NoFalseEdge` of `Enrichment` |
| | `NoImageForgotten`, `ReportHasItsDetails` | `[]NothingForgotten`, `[]DetailsComplete` of `ImageScan` |
| | `UploadsAreWhole` | `[]UploadedIsWhole` of `OpaReport` |
| | `ReportsAddUp` | `[]ReportAddsUp` of `MetricsCollector` |

Assumptions.  The modules that are extended have theirs as named ASSUMEs: positive
capacities, batch sizes, backoffs and multipliers.  The instances
of `Plugins`, `Reporters` and `Collectors` have none; what the proofs need of their constants they
state as hypotheses of the theorems, and the constants of the runs satisfy each of them.

| Hypothesis | What it says and why the code has it |
|---|---|
| `IsFiniteSet(Jobs)`, `IsFiniteSet(Objects)`, `MaxConcurrentJobs`, `MaxGeneration \in Nat` | finitely many requests and objects, numbers that count |
| `FalcoAssumption` | the clock starts at 1; an event is not one of the two marks of an empty or a partial file |
| `AdmissionAssumption` | a configuration turns on some of polaris, opa and pluto |
| `CloudWatchAssumption` | the window (fixed in `cloudwatch_handler.go`) covers two poll intervals and the delay with which CloudWatch shows an entry; a longer configured interval really would pass over entries |
| `DnsAssumption` | times are numbers; who gets an answer is a pod; no pod has the history's name "latest" |
| `EnrichmentAssumption` | the target Service selects a pod, the client is none of the servers, addresses are not Services nor the mark of none, clients use ports other than the target port |
| `NamesAreNoIDs` | the name of an image is not the ID of one |
| `MetricsAssumption` | what Kubernetes and Prometheus guarantee: containers of a spec, and claims of a namespace, have different names, a spec has a container, a pod has one owner and is none, values are natural numbers in the units of the model |
| `TrustAssumption` | configured modes are known ones and not none, a pod is found in one of the three ways |

None of the properties is inductive as it stands.  What each rests on:

- `FlowStore`.  `StoreInv` adds that the buffer holds consecutive event numbers up to
  `accepted`, and that everything sent lies at or before the *frontier*
  `accepted - Len(events) + sendCursor`, the number of the last event the cursor has
  passed.  Eviction may move the frontier forward, never back (`CursorAfterTwoDrops`,
  `FrontierForward`), so a batch that was peeked beyond the old frontier and a cursor
  that is advanced late cannot send anything again: the defect of `FlowStoreSkip` loses
  events, and the proof shows it can do nothing worse.  `AccountInv` is the balance
  behind `EveryDropCounted`: unless a batch was overtaken it begins at the frontier, and
  sent plus counted events make up the frontier.  The refinement maps each action to
  one of `LossyFifo`: what is pending only grows by `AppendBatch`, and what leaves it
  was sent, or is lost for good.
- `AgentClient`.  `QueueInv` adds that the batch in flight ends right before the queue
  begins, unless the queue is full, in which case requeuing drops the whole batch
  (`FullQueueTakesNothing`).  For the refinement, `BatchInv` says that the batch is older
  than the queue, so that the two can be counted together.
- `DeltaTracker`.  `TrackerInv` adds per key the book-keeping equation between what was
  reported, the baseline still to be flushed and what was shown, in the middle of a poll
  as well as after it.
- `PolicySync`.  Nothing is assumed of the lease: it may pass to another job while its
  holder works on.  `OnlyWantedChange` needs `WantedInv`: whatever was fetched, carries the
  annotation, is planned, runs or is in flight is something Insights has wanted, and a dry
  run leaves nothing in flight.  `SuccessIsSynced` needs `OnTrackInv`: in an undisturbed job
  a policy still has a command to come, or is already what was fetched.
- `EventWatcher`.  `StopInv` ties the progress of `Stop` to the goroutines that have
  returned, the audit log's left out.  `OnceInv` is a balance: repetitions so far, plus UIDs that Insights has and
  the cache has forgotten, are no more than the faults.
- `RightSizer`.  `PersistInv`: where nothing failed or raced, at most one write is under
  way, and it carries the memory's report unless another is to come.  `DistinctInv` has
  the same of every copy of the report, because a restart takes it from the ConfigMap,
  and bounds the length that `RemoveItems` read too early.  `MaxInv`: a container whose
  limit was ever updated is in the report or about to be stored there, so that its
  maximum is computed from its first limit.
- Plugins.  `JobInv`: goroutines are those of the batch, each of a request that Insights
  takes for running and that has at most one Job.  `FalcoInv`: an event that is owed to a
  GET is in its report, or in a file it has still to read; and a GET under which nothing
  changes (`Undisturbed`) has no error after its last file unless that one was truncated
  when it began.  `RealtimeInv`: the
  notifications of an object form a chain from what Insights shows to what the informer
  knows (`Chained`).  `RequestInv`: the version a request uses is one that the validator
  had since it began, and is the only one its reports come from.  `CheckingAt`: where an
  attempt at an image stands says which checks have been answered and how.
- Collectors.  `CloudWatchInv`: the ticker waits for at most twice the interval, so an
  unread entry is still in the window of the next poll.  `CacheFollows`: the cache has a
  pod's last answer, or has pruned it for one so much later.  `EnrichmentInv`: cached
  endpoints and pods were true once, what the index has of a socket served a connection of it,
  and what a reply was taken for stays excused.  `ScanInv`: what is kept is a part of the
  last report.  `ItemsInv`: as long as nothing failed, the items are complete
  for the passes made, and a plugin that writes has made all; `FilesInv`: the output is
  there only when it is complete.  `EventInv`: an event has the kind of its message
  unless the text misleads, and a name that is cut out of the message is right, unknown or
  garbled by where the first " failed:" is; the proof goes through every kind and every
  extractor.
  `MetricsInv`: the listing is the cluster as it stays, the report is computed from that
  and from what was found, and a required query has found something.  What is hard is
  not this invariant but that it implies `ReportAddsUp`.  `PartsAddUp`: equal
  parts of whole units and the remainder, each converted (and so rounded) on its own,
  make up the converted whole, because a unit converts without a rest.  `RecordsAddUp`
  carries that over to a set of statistics, where two that are equal would count once:
  they differ in their container.  `CapacityIsOwn`: the volumes of a pod and its claims
  correspond one to one.  `ControllerIsRight`: a longest name exists among finitely many.
- Sums.  The library's induction theorems take a predicate as a parameter, which the
  provers cannot instantiate; with a set in its place they can.  `SetInduction` (a set of
  naturals with 0 and all successors has all) follows from well-foundedness, and
  `SubsetInduction` from it.  With these, `SumFunctionOnSet` of the community modules,
  whose recursive table is first shown to exist and to be unique (`AddsExists`,
  `AddsAgree`), is shown to not depend on the order (`SumTakesOut`), and to allow
  reindexing, zero terms and equal terms.

Only model-checked: the liveness properties, as the prover has no reasoning about
fairness and ENABLED.  Every invariant and every action property of the runs is proved.
`NoSilentSkip`, `NoSendOnClosed` and `OnlyAnnotatedAffected` do not hold.  `TypeOK` of the
proved modules and `TableIsLastSnapshot` are proved and need no run.

## 5. What the code does otherwise than one would expect

Three disagreements with what the repository says have a run of their own:
`FlowStoreSkip`, `EventWatcherClose` and `PolicySyncUsers`.  The following were
met while modelling.  The models take the code's side of each; the properties
except them, and where a definition is named it states what does not hold.

- right-sizer: `RemoveItems` decrements its index inside the inner loop and
  panics with index -1 when two items of a workload go (`report.go:395`,
  `RemoveItemsReturns`).  One OOM-kill is counted at every later start of a
  container in its pod, so that the minimum number of OOM-kills is reached too
  early (`controller.go:298`, `PatchNeedsMinimumOOMs`).  `Run` goes on with an
  empty report when `ReadConfigMap` fails, and the next write replaces the
  persisted one (`controller.go:183`).
- network-flow: after a counter reset the closing flush reports bytes again
  (`delta_tracker.go:140`, `NeverOverreports`).  `main` returns without waiting for
  `Run` (`main.go:93`).  The aggregator's `GracefulStop` has no limit
  (`main.go:129`); warnings put off by the rate limit are written only when more
  events are dropped (`client.go:229`).
- event-watcher: the nested read lock of the metrics, and a send that waits for
  room, keep the process from ending (`metrics.go:160`,
  `kyverno_event_handler.go:213`, `ShutdownEnds`), though the README promises a
  shutdown timeout (README.md:281).  A message of a (Namespaced)ValidatingPolicy that could
  not be evaluated, with " failed:" in its text, is posted under a garbled policy name
  (`utils.go:78`, `96`).  The audit log's goroutine is not waited for and panics when it
  sends on the closed channel (`watcher.go:177`, run `EventWatcherClose`), though
  `watcher.go:174` says that all are waited for.  A second violation of one resource
  is taken for the first (`kyverno_event_handler.go:183`, `SkippedWasPosted`).  A message without
  " with binding " makes a slice panic (`utils.go:152`), and handlers panic in
  console mode.  The scanner stops at a line of 64 KB (`audit_log_handler.go:96`).
  CloudWatch's second page is not asked for (`cloudwatch_handler.go:305`).
- kyverno-policy-sync: a user's own policy with the kind and name of a wanted one is
  overwritten (`policy_manager.go:103`, run `PolicySyncUsers`), though the README (lines 12
  and 36) says that only annotated policies are affected.  The lock is said to prevent
  concurrent syncs (`lock.go:16`), but the lease is given up before the running sync is
  cancelled, and nothing fences one that was held up (`lock.go:88`, `NoConcurrentSync`).
  The README (lines 13 and 63-79) describes a ConfigMap lock
  with detection of stale locks; the code uses a Lease.  Policies are compared by
  name only (`sync.go:289`) and removed without their namespace
  (`policy_manager.go:116`).
- falco-agent: `Aggregate24hrsData` returns the error of a malformed file when it
  is the last, although its comment says that such files are skipped (`data.go:65`,
  `MalformedSkipped`); a write that fails leaves such a file (`routes.go:110`).
- realtime-reporter: an HTTP error status is taken for success; `DeleteFunc`
  panics on `DeletedFinalStateUnknown` (`polaris.go:119`); an object that was
  deleted and created again between two lists is not reported.
- image-trust: a configuration with attestation keys alone loads no keys
  (`config.go:166`).
- trivy: an image without an ID that a run does not scan is lost from the report
  (`models/image.go:140`, `UnpulledKept`), though `main.go:21` says that the report has the
  images that were not scanned too; trivy and skopeo run without a timeout.  An image
  name without a tag panics in `parts[1]` (`util.go:33`); the
  break for an unknown OS leaves the loop with the lock taken (`scan.go:72`), and
  only because the scanner wraps that error is the break never reached.
- opa: a target with two groups and two resources asks for their product, and a
  pair the API server does not know fails the run; `--target-resource` without "/"
  panics.  The uploader knows a failed plugin by the reason "Error": one that was
  OOM-killed is never reported (`uploader.sh:81`).
- network-flow-aggregator: the comment at `server.go:159-161` says that an address which
  was used again makes no false edge; a Service that has a pod there is named whatever
  the port (`enricher.go:207`, `RecycledMakesNoEdge`).
- prometheus: the comment of `ManufactureMetrics` (`persistentvolumeclaim.go:139`) and
  `TestStorageCapacity` (`data_test.go:294`, under a TODO that it fails) say that a claim's
  capacity is divided among the pods that share it; each pod gets the whole
  (`CapacitySpread`).  Claims are
  looked up by name only, and a pod with two volumes of one claim is given its
  capacity twice (`persistentvolumeclaim.go:135`).

## 6. Not modelled

The aggregator's gRPC shutdown and debug server; the field extraction of the
gadgets; the right-sizer's HTTP endpoint (read-only) and its resource-quantity
arithmetic; the event watcher's unbuffered channel, backfill and health server;
Insights' status updates of policy sync; the conversion of trivy's output and the
search of registries; PromQL; ci, workloads, the kyverno reporter, rbac-reporter
and kube-bench, which read, convert and write in one sequential pass with nothing
that interleaves; cloud-costs and the image-only plugins; generated protobuf
code.  `PROJECT.json` gives the reason per component.

## 7. Plan

The modelling part of the plan is done as far as section 6 says, and every invariant
and action property of the runs is proved.  What is left is liveness, which stays with
TLC on the instances of section 3, and the components of section 6.
