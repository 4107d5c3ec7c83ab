----------------------------- MODULE JobRunner ------------------------------
(***************************************************************************)
(* The on-demand-job-runner (plugins/on-demand-job-runner).  On a ticker   *)
(* it claims requests from Insights, starts one goroutine for each, which  *)
(* makes a Kubernetes Job from a CronJob, polls it until it is done or the *)
(* timeout has passed and tells Insights the outcome.  The next claim      *)
(* waits for the whole batch.  The process may die and start again.        *)
(*                                                                         *)
(* A request is an on-demand job of Insights.  The names of Kubernetes     *)
(* Jobs are random, so that each Create makes another Job.                 *)
(***************************************************************************)
EXTENDS Integers, FiniteSets

CONSTANTS
  Requests,           \* on-demand jobs users may ask for
  Unknown,            \* those whose report type has no CronJob
  MaxConcurrentJobs,
  MaxErrors           \* bound: calls that fail, and deaths of the process

VARIABLES
  order,     \* the status of each request at Insights
  batch,     \* requests the process has claimed and works on
  worker,    \* where the goroutine of each request is
  kubeJob,   \* the Kubernetes Job of each request
  errors,
  \* history
  created,   \* Kubernetes Jobs made for each request
  succeeded, \* requests whose Kubernetes Job has completed
  forgotten  \* requests the process lost: an answer was lost or it died

jobRunnerVars == <<order, batch, worker, kubeJob, errors, created, succeeded, forgotten>>

Known == Requests \ Unknown
Error == errors < MaxErrors /\ errors' = errors + 1
Goto(r, pc) == worker' = [worker EXCEPT ![r] = pc]
-----------------------------------------------------------------------------
\* A user asks for a report.
Ask(r) ==
  /\ order[r] = "none"
  /\ order' = [order EXCEPT ![r] = "pending"]
  /\ UNCHANGED <<batch, worker, kubeJob, errors, created, succeeded, forgotten>>

\* ClaimOnDemandJobs, once the previous batch has ended: Insights hands out as many
\* pending requests as the limit allows.
ClaimOnDemandJobs ==
  /\ batch = {}
  /\ LET pending == {r \in Requests : order[r] = "pending"}
     IN  \E claim \in SUBSET pending :
           /\ claim # {} /\ Cardinality(claim) <= MaxConcurrentJobs
           /\ claim = pending \/ Cardinality(claim) = MaxConcurrentJobs
           /\ order' = [r \in Requests |-> IF r \in claim THEN "running" ELSE order[r]]
           /\ \/ /\ batch' = claim
                 /\ worker' = [r \in Requests |-> IF r \in claim THEN "create" ELSE worker[r]]
                 /\ UNCHANGED <<errors, forgotten>>
              \/ \* the answer is lost: a retry claims others
                 /\ Error
                 /\ forgotten' = forgotten \cup claim
                 /\ UNCHANGED <<batch, worker>>
  /\ UNCHANGED <<kubeJob, created, succeeded>>

\* processOnDemandJob up to CreateJobFromCronJob.
Create(r) ==
  /\ worker[r] = "create"
  /\ \/ /\ r \in Known
        /\ kubeJob' = [kubeJob EXCEPT ![r] = "running"]
        /\ created' = [created EXCEPT ![r] = @ + 1]
        /\ \/ Goto(r, "wait") /\ UNCHANGED errors
           \/ Goto(r, "failed") /\ Error
     \/ /\ r \in Known /\ Error
        /\ Goto(r, "failed")
        /\ UNCHANGED <<kubeJob, created>>
     \/ /\ r \in Unknown
        /\ Goto(r, "failed")
        /\ UNCHANGED <<kubeJob, created, errors>>
  /\ UNCHANGED <<order, batch, succeeded, forgotten>>

\* Mutant: a Job that has failed ends the wait without an error.
PollDone(r) ==
  /\ worker[r] = "wait"
  /\ kubeJob[r] \in {"complete", "failed", "gone"} /\ Goto(r, "completed")
  /\ UNCHANGED <<order, batch, kubeJob, errors, created, succeeded, forgotten>>

\* WaitForJobCompletion: a turn of its loop finds that the Job has ended, or that it
\* was removed.
Poll(r) ==
  /\ worker[r] = "wait"
  /\ \/ kubeJob[r] = "complete" /\ Goto(r, "completed")
     \/ kubeJob[r] \in {"failed", "gone"} /\ Goto(r, "failed")
  /\ UNCHANGED <<order, batch, kubeJob, errors, created, succeeded, forgotten>>

\* Mutant: the Job is waited for as long as it takes.
NoTimeout(r) == FALSE /\ UNCHANGED jobRunnerVars

\* The deadline, which every turn looks at before the Job, has passed, or the Job
\* cannot be read.
Timeout(r) ==
  /\ worker[r] = "wait"
  /\ Goto(r, "failed")
  /\ UNCHANGED <<order, batch, kubeJob, errors, created, succeeded, forgotten>>

\* UpdateOnDemandJobStatus, whose error is only logged, and the end of the goroutine.
Report(r) ==
  /\ worker[r] \in {"completed", "failed"}
  /\ \/ order' = [order EXCEPT ![r] = worker[r]] /\ UNCHANGED <<errors, forgotten>>
     \/ Error /\ forgotten' = forgotten \cup {r} /\ UNCHANGED order
  /\ Goto(r, "none")
  /\ batch' = batch \ {r}
  /\ UNCHANGED <<kubeJob, created, succeeded>>

\* The process dies and starts again: nothing is kept.
Die ==
  /\ Error /\ batch # {}
  /\ forgotten' = forgotten \cup batch
  /\ batch' = {}
  /\ worker' = [r \in Requests |-> "none"]
  /\ UNCHANGED <<order, kubeJob, created, succeeded>>

\* Kubernetes runs the Job and removes it some time after it has ended.
RunJob(r) ==
  /\ \/ kubeJob[r] = "running"
        /\ \E end \in {"complete", "failed"} :
              /\ kubeJob' = [kubeJob EXCEPT ![r] = end]
              /\ succeeded' = IF end = "complete" THEN succeeded \cup {r} ELSE succeeded
     \/ kubeJob[r] \in {"complete", "failed"} /\ kubeJob' = [kubeJob EXCEPT ![r] = "gone"]
        /\ UNCHANGED succeeded
  /\ UNCHANGED <<order, batch, worker, errors, created, forgotten>>

Init ==
  /\ order = [r \in Requests |-> "none"]
  /\ batch = {}
  /\ worker = [r \in Requests |-> "none"]
  /\ kubeJob = [r \in Requests |-> "none"]
  /\ errors = 0
  /\ created = [r \in Requests |-> 0]
  /\ succeeded = {} /\ forgotten = {}

Next ==
  \/ ClaimOnDemandJobs \/ Die
  \/ \E r \in Requests : Ask(r) \/ Create(r) \/ Poll(r) \/ Timeout(r) \/ Report(r) \/ RunJob(r)

Spec == Init /\ [][Next]_jobRunnerVars

\* The goroutines run, the ticker ticks; whether a Job ends is not up to the runner.
Step(r) == Create(r) \/ Poll(r) \/ Timeout(r) \/ Report(r)
-----------------------------------------------------------------------------
\* Each request gets at most one Kubernetes Job, and Insights is told "completed"
\* only of a request whose Job has completed: what is claimed is claimed once, across
\* lost answers, timeouts and deaths of the process.
ClaimedOnce ==
  \A r \in Requests : /\ created[r] <= 1
                      /\ order[r] = "completed" => r \in succeeded
                      /\ Cardinality(batch) <= MaxConcurrentJobs

\* A claimed request ends in a status, unless a call about it failed or the process
\* died: then it stays "running" at Insights, since nothing is persisted.
ClaimedIsReported ==
  \A r \in Requests : order[r] = "running" ~> (order[r] \in {"completed", "failed"} \/ r \in forgotten)
=============================================================================
