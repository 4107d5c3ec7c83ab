------------------------------ MODULE Plugins -------------------------------
(***************************************************************************)
(* The on-demand-job-runner and the admission controller, each in its own  *)
(* process and with nothing in common, as instances of their modules with  *)
(* constants and variables of their own, and what each of them promises.   *)
(***************************************************************************)
EXTENDS Integers, Sequences, FiniteSets

(* on-demand-job-runner                                                    *)

CONSTANTS Jobs, UnknownJobs, MaxConcurrentJobs, MaxErrors

VARIABLES order, batch, worker, kubeJob, errors, created, succeeded, forgotten

JobRunner == INSTANCE JobRunner WITH Requests <- Jobs, Unknown <- UnknownJobs

\* See JobRunner: a request gets one Kubernetes Job, and "completed" is told of one
\* that completed.
ClaimedOnce == JobRunner!ClaimedOnce

\* See JobRunner: a claimed request ends in a status unless a fault hit it.
ClaimedIsReported == JobRunner!ClaimedIsReported
-----------------------------------------------------------------------------
(* admission controller                                                    *)

CONSTANTS Requests, Ignored, Deletes, ReportsOf, MaxVersion, MaxMishaps

VARIABLES failurePolicy, published, refresher, validator, mutator,
          pcOf, used, reports, answer, mishaps, since, why

Admission == INSTANCE AdmissionController

\* See AdmissionController: what is allowed was checked, or there is a reason.
AllowedForAReason == Admission!AllowedForAReason
=============================================================================
