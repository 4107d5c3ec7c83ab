----------------------------- MODULE PolicySync -----------------------------
(***************************************************************************)
(* The kyverno-policy-sync job (plugins/kyverno-policy-sync).  A CronJob   *)
(* and users start it, so that several jobs may run at once; each competes *)
(* for a Lease, and the one that holds it fetches the policies from        *)
(* Insights, lists those in the cluster that carry the ownership           *)
(* annotation, compares the two by name and runs one kubectl command after *)
(* another.  A job may lose its lease, or be killed, at any point.  The    *)
(* lease is no fence: a job that has lost it works on until its context is *)
(* cancelled, and what kubectl has sent by then may reach the API server   *)
(* later.                                                                  *)
(*                                                                         *)
(* A policy is an object: a kind, a name and, for some kinds, a namespace. *)
(* Its contents are a version.  What Insights is told of each command      *)
(* (UpdateKyvernoPolicyStatus) is read by no job, and an error in telling  *)
(* it is only logged: it is left out.                                      *)
(***************************************************************************)
EXTENDS Integers, FiniteSets

CONSTANTS
  Jobs,        \* slots of jobs that may run at once
  Policies,    \* the policy objects there may be
  Name,        \* the name of each; kinds may share a name
  Elsewhere,   \* those in another namespace than the job's
  Versions,    \* contents a policy may have
  MaxEdits,    \* bound: edits by users, in Insights and in the cluster
  MaxFaults    \* bound: calls that fail, leases that are lost, jobs that die

ASSUME ConstantsAssumption ==
  /\ DOMAIN Name = Policies
  /\ Elsewhere \subseteq Policies
  /\ MaxEdits \in Nat /\ MaxFaults \in Nat
  /\ Versions \cap {"absent", "user"} = {}
  /\ "none" \notin Jobs

VARIABLES
  dryRun,     \* config.DryRun
  insights,   \* the contents Insights wants of each policy
  cluster,    \* what the cluster has: a version with the annotation, or a user's own
  lease,      \* the holder of the Lease
  pc,         \* where each job is
  expected,   \* managedPoliciesByInsights
  todo,       \* actions left to execute
  running,    \* the kubectl command under way
  failed,     \* len(result.Errors) > 0
  inflight,   \* requests of killed commands that may still reach the API server
  edits, faults,
  \* history
  wanted,     \* policies Insights has wanted at some time
  disturbed,  \* another than the job itself has changed the cluster while it worked
  synced      \* a job that was not disturbed succeeded without the result it promises

jobVars == <<pc, expected, todo, running, failed>>
envVars == <<dryRun, edits, faults>>
historyVars == <<wanted, disturbed, synced>>
vars == <<insights, cluster, lease, inflight, jobVars, envVars, historyVars>>

Absent == "absent"
User == "user"
None == "none"
Phases == <<"apply", "update", "remove">>
Names == {Name[p] : p \in Policies}
Contents == Versions \cup {Absent}
NoPolicies == [p \in Policies |-> Absent]
Idle == [op |-> "none", policy |-> "none", version |-> Absent]
Commands == [op : {"apply", "update", "remove"}, policy : Policies, version : Contents]

Fault == faults < MaxFaults /\ faults' = faults + 1

\* syncPoliciesInternal runs, or has returned.
AtWork(j) == pc[j] \in {"fetch", "list", "execute", "finish"}

\* The others that are at work have their cluster changed under them.
Disturb(j) ==
  disturbed' = [k \in Jobs |-> disturbed[k] \/ (k # j /\ AtWork(k) /\ cluster' # cluster)]
-----------------------------------------------------------------------------
(* comparePolicies                                                         *)

\* A map from names to one policy of a list that has the name.
ByName(list) == {m \in SUBSET list :
                   \A n \in Names : Cardinality({p \in m : Name[p] = n})
                                      = IF \E p \in list : Name[p] = n THEN 1 ELSE 0}

\* Mutant: the policies that are already there are not updated.
comparePoliciesNoUpdate(want, expectedMap, currentMap) ==
  LET Has(m, p) == \E q \in m : Name[q] = Name[p]
  IN  {[op |-> "apply", policy |-> p, version |-> want[p]] :
          p \in {q \in expectedMap : ~Has(currentMap, q)}}
      \cup {[op |-> "remove", policy |-> p, version |-> Absent] :
          p \in {q \in currentMap : ~Has(expectedMap, q)}}

\* The plan: names, not objects, are compared.
comparePolicies(want, expectedMap, currentMap) ==
  LET Has(m, p) == \E q \in m : Name[q] = Name[p]
  IN  {[op |-> "apply", policy |-> p, version |-> want[p]] :
          p \in {q \in expectedMap : ~Has(currentMap, q)}}
      \cup {[op |-> "update", policy |-> p, version |-> want[p]] :
          p \in {q \in expectedMap : Has(currentMap, q)}}
      \cup {[op |-> "remove", policy |-> p, version |-> Absent] :
          p \in {q \in currentMap : ~Has(expectedMap, q)}}

\* Mutant: the annotation is not looked at.
managedAny == {p \in Policies : cluster[p] # Absent}

\* The policies listInsightsManagedPolicies keeps: those with the annotation.
managed == {p \in Policies : cluster[p] \in Versions}

-----------------------------------------------------------------------------
(* A job                                                                   *)

\* The CronJob, or the on-demand job runner, starts a job.
Start(j) ==
  /\ pc[j] = "idle"
  /\ pc' = [pc EXCEPT ![j] = "electing"]
  /\ UNCHANGED <<insights, cluster, lease, inflight, expected, todo, running, failed,
                 envVars, historyVars>>

\* Leader election: the lease is free, or has expired.
Acquire(j) ==
  /\ pc[j] = "electing" /\ lease = None
  /\ lease' = j
  /\ pc' = [pc EXCEPT ![j] = "fetch"]
  /\ UNCHANGED <<insights, cluster, inflight, expected, todo, running, failed,
                 envVars, historyVars>>

\* The sync returns an error before it has changed anything.
GiveUp(j) ==
  /\ pc[j] \in {"fetch", "list"}
  /\ Fault
  /\ failed' = [failed EXCEPT ![j] = TRUE]
  /\ pc' = [pc EXCEPT ![j] = "finish"]
  /\ UNCHANGED <<insights, cluster, lease, inflight, expected, todo, running,
                 dryRun, edits, historyVars>>

\* GetClusterKyvernoPoliciesYAML and parsePoliciesFromYAML.
Fetch(j) ==
  /\ pc[j] = "fetch"
  /\ expected' = [expected EXCEPT ![j] = insights]
  /\ pc' = [pc EXCEPT ![j] = "list"]
  /\ UNCHANGED <<insights, cluster, lease, inflight, todo, running, failed,
                 envVars, historyVars>>

\* listInsightsManagedPolicies and the plan.
List(j) ==
  /\ pc[j] = "list"
  /\ \E e \in ByName({p \in Policies : expected[j][p] # Absent}), c \in ByName(managed) :
        todo' = [todo EXCEPT ![j] = comparePolicies(expected[j], e, c)]
  /\ pc' = [pc EXCEPT ![j] = "execute"]
  /\ UNCHANGED <<insights, cluster, lease, inflight, expected, running, failed,
                 envVars, historyVars>>

\* executeSyncActions: the next command, all of one phase before the next phase.
StartCommand(j) ==
  /\ pc[j] = "execute" /\ running[j] = Idle
  /\ \E i \in DOMAIN Phases, c \in todo[j] :
        /\ c.op = Phases[i]
        /\ \A d \in todo[j], k \in 1..(i - 1) : d.op # Phases[k]
        /\ running' = [running EXCEPT ![j] = c]
        /\ todo' = [todo EXCEPT ![j] = @ \ {c}]
  /\ UNCHANGED <<insights, cluster, lease, inflight, pc, expected, failed,
                 envVars, historyVars>>

\* What a command does to the cluster: apply overwrites whatever has the name,
\* and a policy of another namespace is not found by the delete.
CanEffect(c) == c.op # "remove" \/ c.policy \notin Elsewhere
Effect(c) == [cluster EXCEPT ![c.policy] = c.version]

CommandOk(j) ==
  /\ running[j] # Idle
  /\ IF dryRun THEN UNCHANGED cluster
     ELSE CanEffect(running[j]) /\ cluster' = Effect(running[j])
  /\ Disturb(j)
  /\ running' = [running EXCEPT ![j] = Idle]
  /\ UNCHANGED <<insights, lease, inflight, pc, expected, todo, failed, envVars, wanted, synced>>

\* Mutant: a failed command is not recorded in result.Errors.
CommandFailsUnseen(j) ==
  /\ running[j] # Idle /\ ~dryRun
  /\ IF CanEffect(running[j])
       THEN Fault /\ cluster' \in {cluster, Effect(running[j])}
       ELSE UNCHANGED <<cluster, faults>>
  /\ Disturb(j)
  /\ running' = [running EXCEPT ![j] = Idle]
  /\ UNCHANGED <<insights, lease, inflight, pc, expected, todo, failed, dryRun, edits, wanted, synced>>

\* kubectl fails, before or after the API server has acted; the loop goes on.
CommandFails(j) ==
  /\ running[j] # Idle /\ ~dryRun
  /\ IF CanEffect(running[j])
       THEN Fault /\ cluster' \in {cluster, Effect(running[j])}
       ELSE UNCHANGED <<cluster, faults>>
  /\ Disturb(j)
  /\ failed' = [failed EXCEPT ![j] = TRUE]
  /\ running' = [running EXCEPT ![j] = Idle]
  /\ UNCHANGED <<insights, lease, inflight, pc, expected, todo, dryRun, edits, wanted, synced>>

\* No other kind of policy has its name.
Unique(p) == \A q \in Policies : Name[q] = Name[p] => q = p

\* The cluster has what was wanted of p.
Holds(want, p) == IF want[p] = Absent THEN cluster[p] \in {Absent, User}
                  ELSE cluster[p] = want[p]

Executed(j) ==
  /\ pc[j] = "execute" /\ running[j] = Idle /\ todo[j] = {}
  /\ pc' = [pc EXCEPT ![j] = "finish"]
  /\ synced' = (synced /\ (failed[j] \/ disturbed[j] \/ dryRun
                           \/ \A p \in Policies : Unique(p) => Holds(expected[j], p)))
  /\ UNCHANGED <<insights, cluster, lease, inflight, expected, todo, running, failed,
                 envVars, wanted, disturbed>>

\* The memory of the process is gone.
Exit(j) ==
  /\ pc' = [pc EXCEPT ![j] = "idle"]
  /\ expected' = [expected EXCEPT ![j] = NoPolicies]
  /\ todo' = [todo EXCEPT ![j] = {}]
  /\ running' = [running EXCEPT ![j] = Idle]
  /\ failed' = [failed EXCEPT ![j] = FALSE]

\* The lease is released and the process exits, with 1 if the sync has failed.
Finish(j) ==
  /\ pc[j] = "finish"
  /\ lease' = IF lease = j THEN None ELSE lease
  /\ Exit(j)
  /\ disturbed' = [disturbed EXCEPT ![j] = FALSE]
  /\ UNCHANGED <<insights, cluster, inflight, envVars, wanted, synced>>

\* The lease is lost while its holder works: it could not be renewed for RenewDeadline
\* and, with ReleaseOnCancel, the elector gives it up before it cancels the context of
\* the leader; or the process was held up for longer than LeaseDuration.
Lapse(j) ==
  /\ AtWork(j) /\ lease = j
  /\ Fault
  /\ lease' = None
  /\ UNCHANGED <<insights, cluster, inflight, jobVars, dryRun, edits, historyVars>>

\* The process dies, or has lost the lease and the context of the leader is cancelled:
\* kubectl is killed, SyncPolicies returns "sync result is nil".  A lease that was not
\* given up stays until it expires.
Cancel(j) ==
  /\ AtWork(j)
  /\ IF lease = j THEN Fault ELSE UNCHANGED faults
  /\ inflight' = IF running[j] = Idle \/ dryRun THEN inflight ELSE inflight \cup {running[j]}
  /\ Exit(j)
  /\ disturbed' = [disturbed EXCEPT ![j] = FALSE]
  /\ UNCHANGED <<insights, cluster, lease, dryRun, edits, wanted, synced>>

\* LeaseDuration passes after the process that held the lease has gone.
Expire ==
  /\ lease # None /\ ~AtWork(lease)
  /\ lease' = None
  /\ UNCHANGED <<insights, cluster, inflight, jobVars, envVars, historyVars>>

-----------------------------------------------------------------------------
(* The environment                                                         *)

\* A request of a killed kubectl is served, or was lost with it.
Land(c) ==
  /\ c \in inflight
  /\ inflight' = inflight \ {c}
  /\ cluster' \in IF CanEffect(c) THEN {cluster, Effect(c)} ELSE {cluster}
  /\ Disturb(None)
  /\ UNCHANGED <<insights, lease, jobVars, envVars, wanted, synced>>

\* Users change the policies of Insights.
EditInsights ==
  /\ edits < MaxEdits /\ edits' = edits + 1
  /\ \E p \in Policies, v \in Contents :
        /\ v # insights[p]
        /\ insights' = [insights EXCEPT ![p] = v]
        /\ wanted' = IF v = Absent THEN wanted ELSE wanted \cup {p}
  /\ UNCHANGED <<cluster, lease, inflight, jobVars, dryRun, faults, disturbed, synced>>

\* Users put a policy of their own into the cluster.
EditCluster ==
  /\ edits < MaxEdits /\ edits' = edits + 1
  /\ \E p \in Policies : cluster' = [cluster EXCEPT ![p] = User]
  /\ Disturb(None)
  /\ UNCHANGED <<insights, lease, inflight, jobVars, dryRun, faults, wanted, synced>>

Init ==
  /\ dryRun \in BOOLEAN
  /\ insights \in [Policies -> Contents]
  /\ cluster = NoPolicies
  /\ lease = None
  /\ pc = [j \in Jobs |-> "idle"]
  /\ expected = [j \in Jobs |-> NoPolicies]
  /\ todo = [j \in Jobs |-> {}]
  /\ running = [j \in Jobs |-> Idle]
  /\ failed = [j \in Jobs |-> FALSE]
  /\ inflight = {}
  /\ edits = 0 /\ faults = 0
  /\ wanted = {p \in Policies : insights[p] # Absent}
  /\ disturbed = [j \in Jobs |-> FALSE]
  /\ synced = TRUE

JobStep(j) == \/ Fetch(j) \/ List(j) \/ StartCommand(j) \/ CommandOk(j)
              \/ Executed(j) \/ Finish(j)
              \/ CommandFails(j) /\ UNCHANGED faults

Next ==
  \/ \E j \in Jobs :
        \/ Start(j) \/ Acquire(j) \/ GiveUp(j) \/ Fetch(j) \/ List(j)
        \/ StartCommand(j) \/ CommandOk(j) \/ CommandFails(j)
        \/ Executed(j) \/ Finish(j) \/ Lapse(j) \/ Cancel(j)
  \/ Expire
  \/ \E c \in inflight : Land(c)
  \/ EditInsights
  \/ EditCluster

\* Kubernetes starts the jobs again and again and runs their processes; an expired
\* lease is taken by some job that waits, and a request does not stay in flight.
Fairness ==
  /\ \A j \in Jobs : WF_vars(Start(j)) /\ WF_vars(JobStep(j))
  /\ WF_vars(\E j \in Jobs : Acquire(j))
  /\ WF_vars(Expire)
  /\ WF_vars(\E c \in inflight : Land(c))

Spec == Init /\ [][Next]_vars /\ Fairness
-----------------------------------------------------------------------------
(* Properties                                                              *)

\* Type invariant of the job and of the policies.
TypeOK ==
  /\ dryRun \in BOOLEAN /\ synced \in BOOLEAN
  /\ insights \in [Policies -> Contents]
  /\ cluster \in [Policies -> Contents \cup {User}]
  /\ lease \in Jobs \cup {None}
  /\ pc \in [Jobs -> {"idle", "electing", "fetch", "list", "execute", "finish"}]
  /\ expected \in [Jobs -> [Policies -> Contents]]
  /\ todo \in [Jobs -> SUBSET Commands]
  /\ running \in [Jobs -> Commands \cup {Idle}]
  /\ failed \in [Jobs -> BOOLEAN] /\ disturbed \in [Jobs -> BOOLEAN]
  /\ inflight \subseteq Commands
  /\ wanted \subseteq Policies
  /\ edits \in 0..MaxEdits /\ faults \in 0..MaxFaults

\* The lock prevents concurrent syncs (lock.go, the plugin's README): no two jobs are
\* at work at the same time.  Does not hold: a job whose lease lapses works on.
NoConcurrentSync == \A j, k \in Jobs : AtWork(j) /\ AtWork(k) => j = k

\* A sync that reports success (result.Success in syncPoliciesInternal) has left in
\* the cluster what it fetched, for every name that only one kind uses, unless the
\* cluster was changed meanwhile by a user, by the late request of a killed job or by
\* a job that lost its lease and worked on.
SuccessIsSynced == synced

\* A job changes no policy that Insights has not wanted at some time (the annotation in
\* listInsightsManagedPolicies), and in a dry run none at all, whatever commands of
\* whatever jobs overlap.  It does change a user's own policy that has the name and
\* kind of a wanted one: see OnlyAnnotatedAffected.
OnlyWantedChange ==
  [][\A p \in Policies : cluster'[p] \in {cluster[p], User} \/ (p \in wanted /\ ~dryRun)]_vars

\* The job only affects policies that carry the annotation (the plugin's README): a
\* policy that a user has put into the cluster stays as it is.
OnlyAnnotatedAffected ==
  [][\A p \in Policies : cluster[p] = User => cluster'[p] = User]_vars

\* Once users stop editing, and calls stop failing, the cluster comes to have what
\* Insights wants, whatever jobs were cancelled or overlapped in between and whatever
\* of theirs landed late (a name that two kinds share, and a policy to be removed from another
\* namespace, are excepted: comparePolicies and removePolicy do not tell them apart).
Converges ==
  dryRun \/ <>[](\A p \in Policies :
                    Unique(p) => Holds(insights, p) \/ (p \in Elsewhere /\ insights[p] = Absent))
=============================================================================
