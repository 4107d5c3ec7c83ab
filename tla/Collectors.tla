----------------------------- MODULE Collectors -----------------------------
(***************************************************************************)
(* The parts that collect and enrich what a cluster reports, which have    *)
(* nothing in common with each other, as instances of their modules with   *)
(* constants and variables of their own, and what each of them promises.   *)
(***************************************************************************)
EXTENDS Integers, Sequences, FiniteSets

(* event-watcher: CloudWatch                                               *)

CONSTANTS PollInterval, Window, BatchSize, MaxConsecutiveErrors, MaxRetries,
          MaxStreamRetries, Delays, MaxEntries, MaxPollTime

VARIABLES time, filtered, log, due, interval, consecutiveErrors, poll, seen, excused

CloudWatch == INSTANCE CloudWatchSource WITH MaxTime <- MaxPollTime

\* See CloudWatchSource: an entry is passed over only for a reason.
MissedForAReason == CloudWatch!MissedForAReason
-----------------------------------------------------------------------------
(* aggregator: the DNS cache                                               *)

CONSTANTS Resolvers, CoreDNS, Internal, Replies, MaxAge, Skew, MaxClock, MaxAnswers

VARIABLES clock, skew, answers, byWorkload, byIP, flow, recorded

Dns == INSTANCE DnsCache WITH Pods <- Resolvers, MaxTime <- MaxClock

\* See DnsCache: a pod's flow bears the name that the pod itself asked for.
OwnHostname == Dns!OwnHostname
-----------------------------------------------------------------------------
(* aggregator: the two ends of a flow                                      *)

CONSTANTS Selected, Target, Client, HostClient, Addrs, NodeAddr, Ports, HostnameOf, Uses,
          MaxConns

VARIABLES ip, podCache, sliceCache, conn, sent, peer, cur, held

Enrichment == INSTANCE Enrichment

\* See Enrichment: the backend named for a flow is the pod that served it.
RightBackend == Enrichment!RightBackend

\* See Enrichment: a reply makes no edge towards its client.
NoFalseEdge == Enrichment!NoFalseEdge
-----------------------------------------------------------------------------
(* opa                                                                     *)

CONSTANTS Answers, TargetFlags, Resources, Objects, ResourceOf, Outputs, UploadTimeout,
          CheckEvery, MaxErrors

VARIABLES opaCluster, opaPc, checks, work, actionItems, opaFailed, files, opaStatus, uploads,
          told, errorsLeft, always, ever

Opa == INSTANCE OpaReport WITH Timeout <- UploadTimeout, cluster <- opaCluster, pc <- opaPc,
         failed <- opaFailed, status <- opaStatus, attempts <- uploads

\* See OpaReport: what is uploaded is a whole report.
UploadedIsWhole == Opa!UploadedIsWhole
-----------------------------------------------------------------------------
(* event-watcher: what a message is taken for                              *)

CONSTANT MaxWords

VARIABLES message, console, event, outcome

Router == INSTANCE ViolationRouter

\* See ViolationRouter: a violation is posted as one of its kind, with its policy.
RoutedByKind == Router!RoutedByKind
-----------------------------------------------------------------------------
(* prometheus                                                              *)

CONSTANTS Workloads, MeasuredPods, OwnerOf, NamespaceOf, Prefixes, NameLength, ContainersOf,
          Templates, Measured, ClaimsOf, Claims, Configs, MaxAnomalies

VARIABLES config, exists, live, template, stage, query, found, storage, listing, statistics,
          anomalies

Metrics == INSTANCE MetricsCollector WITH Pods <- MeasuredPods

\* See MetricsCollector: the statistics of a pod add up to what was measured.
ReportAddsUp == Metrics!ReportAddsUp
=============================================================================
