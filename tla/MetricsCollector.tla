-------------------------- MODULE MetricsCollector ---------------------------
(***************************************************************************)
(* One run of the prometheus plugin (plugins/prometheus).  It asks         *)
(* Prometheus for one metric after the other over a range that is fixed at *)
(* the start, then lists the claims and then the workloads of the cluster, *)
(* which goes on changing, and joins the two: metrics of pods are split    *)
(* over containers and every sample is given to a controller.              *)
(*                                                                         *)
(* A series has one sample.  Memory is in bytes, CPU in millionths of a    *)
(* core, network in tenths of a byte (get30sIncreaseMetric divides by ten) *)
(* and GPU usage in hundredths, so that the fractions of the code's        *)
(* floating-point numbers are integers here.  PromQL is left out.          *)
(***************************************************************************)
EXTENDS Integers, Sequences, FiniteSets, FiniteSetsExt, Functions

CONSTANTS
  Workloads,        \* top controllers
  Pods,             \* pods with samples in the range
  OwnerOf,          \* the workload of each pod
  NamespaceOf,      \* of each workload
  Prefixes,         \* workloads whose name begins the name of the pod
  NameLength,       \* of each workload
  ContainersOf,     \* containers of each pod: a sequence
  Templates,        \* containers a workload's pod spec may name: sequences
  Measured,         \* Measured[metric][pod]: its value, of each container if it has one
  ClaimsOf,         \* the name of the claim of each volume of a pod: a sequence
  Claims,           \* the claims of the cluster: a sequence of [namespace, name, capacity]
  Configs,          \* records [gkeFallback, skipCAdvisor, skipKSM] of Booleans
  MaxAnomalies      \* bound: queries that fail or find nothing, and failing lists

VARIABLES
  config,
  exists,      \* workloads that exist
  live,        \* pods that exist
  template,    \* the containers of each workload's pod spec
  stage,       \* where the run is
  query,       \* number of the next query
  found,       \* metrics that some query found
  storage,     \* the claims as listed
  listing,     \* the workloads as listed: the pods, and the containers of each spec
  statistics,  \* the report
  anomalies

metricsVars == <<config, exists, live, template, stage, query, found, storage, listing, statistics,
                 anomalies>>

NamespaceOfPod(p) == NamespaceOf[OwnerOf[p]]

\* The queries of GetMetrics in their order.
Queries == <<"memory", "cpu", "memoryRequest", "cpuRequest", "memoryLimit", "cpuLimit",
             "networkTransmit", "networkReceive", "gpu", "gpuRequest", "gpuLimit">>
CAdvisor == {"memory", "cpu"}
KSM == {"memoryRequest", "cpuRequest", "memoryLimit", "cpuLimit"}
GPU == {"gpu", "gpuRequest", "gpuLimit"}
PodMetrics == {"networkTransmit", "networkReceive", "gpu"}

\* How much of a unit a value is counted in: splitting floors to whole units.
unit(metric) ==
  CASE metric \in {"networkTransmit", "networkReceive"} -> 10
    [] metric = "gpu" -> 100
    [] OTHER -> 1
-----------------------------------------------------------------------------
\* Mutant: the remainder is lost.
splitEqually(value, n, whole) ==
  [i \in 1..n |-> (value \div (n * whole)) * whole]

\* The split of adjustMetricsForMultiContainerPods: equal parts, and the remainder to the
\* first container.  One container takes the value as it is.
split(value, n, whole) ==
  LET equalSplit == (value \div (n * whole)) * whole
      remainder == value % (n * whole)
  IN  [i \in 1..n |-> IF i = 1 THEN equalSplit + remainder ELSE equalSplit]

Sample(p, container, metric, value) ==
  [pod |-> p, container |-> container, metric |-> metric, value |-> value]

\* A pod that is not in the listing loses its metric; the containers are those of the
\* workload's spec.
adjustMetricsForMultiContainerPods(metric, values) ==
  UNION {LET containers == listing.template[OwnerOf[p]]
             parts == split(values[p], Len(containers), unit(metric))
         IN  {Sample(p, containers[i], metric, parts[i]) : i \in 1..Len(containers)} :
         p \in DOMAIN values \cap listing.pods}

\* PVCByName looks for the name only, in whatever namespace; 0 when there is none.
PVCByName(name) ==
  LET named == {i \in 1..Len(storage) : storage[i].name = name}
  IN  IF named = {} THEN 0 ELSE Min(named)

\* AddPVCRef for every claim of a pod: the sum of the capacities it finds.
totalCapacity(p) ==
  SumFunction([i \in 1..Len(ClaimsOf[p]) |->
                 LET pvc == PVCByName(ClaimsOf[p][i])
                 IN  IF pvc = 0 THEN 0 ELSE storage[pvc].capacity])

\* ManufactureMetrics has a series for each reference to a claim, all with the pod's total.
ManufactureMetrics ==
  [p \in {q \in listing.pods : \E i \in 1..Len(ClaimsOf[q]) : PVCByName(ClaimsOf[q][i]) # 0}
     |-> totalCapacity(p)]

\* The workload that listed the pod, else the one of its namespace with the longest name
\* that begins the pod's name, else the pod itself.  Only listed workloads count.
getController(p) ==
  LET candidates == {w \in listing.workloads : NamespaceOf[w] = NamespaceOfPod(p)
                                               /\ w \in Prefixes[p]}
  IN  IF p \in listing.pods THEN OwnerOf[p]
      ELSE IF candidates = {} THEN p
      ELSE CHOOSE w \in candidates : \A v \in candidates : NameLength[w] >= NameLength[v]

\* What a query for a metric of containers found.
containerSeries(metric) ==
  IF metric \in found
  THEN UNION {{Sample(p, ContainersOf[p][i], metric, Measured[metric][p]) :
                 i \in 1..Len(ContainersOf[p])} : p \in DOMAIN Measured[metric]}
  ELSE {}

podSeries(metric) ==
  IF metric \in found THEN adjustMetricsForMultiContainerPods(metric, Measured[metric]) ELSE {}

storageSeries == adjustMetricsForMultiContainerPods("storageCapacity", ManufactureMetrics)

\* The field of the combined request of a container, 0 when no series has it.
fieldOf(series, p, container) ==
  LET own == {s \in series : s.pod = p /\ s.container = container}
  IN  IF own = {} THEN 0 ELSE (CHOOSE s \in own : TRUE).value

\* int64 of what the metric is reported in; a CPU use below a thousandth counts as one.
converted(metric, value) ==
  CASE metric = "cpu" -> IF value > 0 /\ value < 1000 THEN 1 ELSE value \div 1000
    [] metric \in {"cpuRequest", "cpuLimit"} -> value \div 1000
    [] metric \in {"networkTransmit", "networkReceive"} -> value \div 10
    [] OTHER -> value

Statistic(s, request, limit) ==
  [pod |-> s.pod, container |-> s.container, controller |-> getController(s.pod),
   metric |-> s.metric, value |-> converted(s.metric, s.value),
   request |-> request, limit |-> limit]

\* CalculateStatistics over the combined requests.  A container with a GPU request or limit
\* has a GPU statistic of its own when no exporter measured it.
CalculateStatistics ==
  LET field(metric, s) ==
        converted(metric, fieldOf(containerSeries(metric), s.pod, s.container))
      gpu == podSeries("gpu")
      asksGPU == {s \in containerSeries("gpuRequest") \cup containerSeries("gpuLimit") :
                    /\ s.value > 0
                    /\ \A g \in gpu : <<g.pod, g.container>> # <<s.pod, s.container>>}
  IN  {Statistic(s, field("memoryRequest", s), field("memoryLimit", s)) :
         s \in containerSeries("memory")}
      \cup {Statistic(s, field("cpuRequest", s), field("cpuLimit", s)) :
              s \in containerSeries("cpu")}
      \cup {Statistic(s, field("gpuRequest", s), field("gpuLimit", s)) :
              s \in gpu \cup {Sample(a.pod, a.container, "gpu", 0) : a \in asksGPU}}
      \cup {Statistic(s, 0, 0) : s \in podSeries("networkTransmit")
                                       \cup podSeries("networkReceive") \cup storageSeries}
-----------------------------------------------------------------------------
Init ==
  /\ config \in Configs
  /\ exists = Workloads /\ live = Pods
  /\ template \in [Workloads -> Templates]
  /\ stage = "query" /\ query = 1 /\ found = {}
  /\ storage = <<>>
  /\ listing = [pods |-> {}, workloads |-> {}, template |-> template]
  /\ statistics = {} /\ anomalies = 0

\* Later changes of the cluster are not seen by the run.
listable == stage \in {"query", "claims", "workloads"}
runUnchanged == UNCHANGED <<config, stage, query, found, storage, listing, statistics, anomalies>>
clusterUnchanged == UNCHANGED <<config, exists, live, template>>
Anomaly == anomalies < MaxAnomalies /\ anomalies' = anomalies + 1

\* The cluster changes: a pod ends, a workload is deleted with its pods, and a workload gets
\* another pod spec while pods of the old one are still there.
Delete(p) ==
  /\ listable /\ p \in live
  /\ live' = live \ {p}
  /\ UNCHANGED <<exists, template>>
  /\ runUnchanged

DeleteWorkload(w) ==
  /\ listable /\ w \in exists
  /\ exists' = exists \ {w}
  /\ live' = {p \in live : OwnerOf[p] # w}
  /\ UNCHANGED template
  /\ runUnchanged

Rollout(w) ==
  /\ listable /\ w \in exists
  /\ \E spec \in Templates \ {template[w]} : template' = [template EXCEPT ![w] = spec]
  /\ UNCHANGED <<exists, live>>
  /\ runUnchanged

\* An empty answer ends the run where it means that a source is missing.
required(metric) ==
  \/ metric \in CAdvisor /\ ~config.skipCAdvisor
  \/ metric \in KSM /\ ~config.skipKSM

hasFallback(metric) == config.gkeFallback /\ metric \in KSM \cup {"gpuRequest", "gpuLimit"}

Advance(failing) ==
  /\ stage' = IF failing THEN "failed" ELSE IF query = Len(Queries) THEN "claims" ELSE "query"
  /\ query' = query + 1

\* One query of GetMetrics: it finds the metric, fails or finds nothing.  Where it finds
\* nothing the GKE metrics may stand in; an error of theirs is ignored.  No error of a GPU
\* query ends the run.
Query ==
  /\ stage = "query"
  /\ LET metric == Queries[query]
     IN  \/ /\ found' = found \cup {metric}
            /\ Advance(FALSE)
            /\ UNCHANGED anomalies
         \/ /\ Anomaly /\ metric \notin GPU
            /\ Advance(TRUE)
            /\ UNCHANGED found
         \/ /\ Anomaly /\ hasFallback(metric)
            /\ found' = found \cup {metric}
            /\ Advance(FALSE)
         \/ /\ Anomaly
            /\ Advance(required(metric))
            /\ UNCHANGED found
  /\ UNCHANGED <<storage, listing, statistics>>
  /\ clusterUnchanged

Fail ==
  /\ stage \in {"claims", "workloads", "nodes", "write"}
  /\ Anomaly
  /\ stage' = "failed"
  /\ UNCHANGED <<query, found, storage, listing, statistics>>
  /\ clusterUnchanged

\* NewStorageInfoFromCluster.
ListClaims ==
  /\ stage = "claims"
  /\ storage' = Claims
  /\ stage' = "workloads"
  /\ UNCHANGED <<query, found, listing, statistics, anomalies>>
  /\ clusterUnchanged

\* GetAllTopControllersWithPods.
ListWorkloads ==
  /\ stage = "workloads"
  /\ listing' = [pods |-> live, workloads |-> exists, template |-> template]
  /\ stage' = "nodes"
  /\ UNCHANGED <<query, found, storage, statistics, anomalies>>
  /\ clusterUnchanged

\* GetNodesMetrics: its values do not depend on anything here, its errors do: see Fail.
GetNodesMetrics ==
  /\ stage = "nodes"
  /\ stage' = "write"
  /\ UNCHANGED <<query, found, storage, listing, statistics, anomalies>>
  /\ clusterUnchanged

\* main writes the report and renames it.
Write ==
  /\ stage = "write"
  /\ statistics' = CalculateStatistics
  /\ stage' = "done"
  /\ UNCHANGED <<query, found, storage, listing, anomalies>>
  /\ clusterUnchanged

Next ==
  \/ \E p \in Pods : Delete(p)
  \/ \E w \in Workloads : DeleteWorkload(w) \/ Rollout(w)
  \/ Query \/ Fail \/ ListClaims \/ ListWorkloads \/ GetNodesMetrics \/ Write

Spec == Init /\ [][Next]_metricsVars
-----------------------------------------------------------------------------
statisticsOf(p, metric) == {s \in statistics : s.pod = p /\ s.metric = metric}
total(set) == SumFunction([s \in set |-> s.value])

\* The claims a pod really mounts and what they add up to; whether their names occur in its
\* namespace only and each volume has a claim of its own.
ownClaims(p) ==
  {i \in 1..Len(Claims) : /\ Claims[i].namespace = NamespaceOfPod(p)
                          /\ \E j \in 1..Len(ClaimsOf[p]) : ClaimsOf[p][j] = Claims[i].name}
ownCapacity(p) == SumFunction([i \in ownClaims(p) |-> Claims[i].capacity])
unambiguous(p) ==
  /\ \A i \in 1..Len(Claims), j \in 1..Len(ClaimsOf[p]) :
       Claims[i].name = ClaimsOf[p][j] => Claims[i].namespace = NamespaceOfPod(p)
  /\ IsInjective(ClaimsOf[p])

\* The report adds up whatever happened to the cluster while it was made.  What was measured
\* of a pod that outlived the run is reported in full: the parts of its containers add up to
\* the pod's network use, GPU use and storage, also when the workload's spec names other
\* containers than the pod has.  Storage is the whole of each claim that the pod mounts, no
\* matter who else mounts it (see CapacitySpread), unless a claim of another namespace has
\* the same name, or two of its volumes have the same claim, which counts twice.  All is given to
\* the pod's own workload.  Of every pod the memory and CPU are reported as measured, and
\* never given to a workload of another namespace.  A report without memory or CPU is not
\* written, unless that was asked for.
ReportAddsUp ==
  stage = "done" =>
    /\ \A p \in live :
         /\ \A metric \in PodMetrics \cap found :
              p \in DOMAIN Measured[metric] =>
                total(statisticsOf(p, metric)) = converted(metric, Measured[metric][p])
         /\ unambiguous(p) => total(statisticsOf(p, "storageCapacity")) = ownCapacity(p)
         /\ \A s \in statistics : s.pod = p => s.controller = OwnerOf[p]
    /\ \A metric \in CAdvisor \cap found : \A p \in DOMAIN Measured[metric] :
         /\ {s.container : s \in statisticsOf(p, metric)} = Range(ContainersOf[p])
         /\ \A s \in statisticsOf(p, metric) :
              s.value = converted(metric, Measured[metric][p])
    /\ \A s \in statistics :
         s.controller \in Workloads => NamespaceOf[s.controller] = NamespaceOfPod(s.pod)
    /\ CAdvisor \subseteq found \/ config.skipCAdvisor

\* What the comment of ManufactureMetrics says, that it "spreads the capacity of
\* PersistentVolumeClaims across Pods that share that Claim"
\* (persistentvolumeclaim.go:139-140), and TestStorageCapacity: the storage of pods is no
\* more than the claims that they mount.  Does not hold: each is given the whole.
CapacitySpread ==
  stage = "done" =>
    LET mounting == {p \in listing.pods : unambiguous(p)}
        mounted == UNION {ownClaims(p) : p \in mounting}
    IN  total(UNION {statisticsOf(p, "storageCapacity") : p \in mounting})
          <= SumFunction([i \in mounted |-> Claims[i].capacity])
=============================================================================
