----------------------------- MODULE MCPlugins ------------------------------
(* The job runner, the admission controller and the image-trust job, each in *)
(* its own process and with nothing in common: a behaviour is a behaviour of *)
(* one of them, chosen at the start, while the others stay in an initial     *)
(* state.                                                                    *)
EXTENDS Plugins, ImageTrust

VARIABLE plugin

MCReportsOf == <<{"opa", "pluto"}, {"polaris", "opa"}>>

(* image-trust: an image with a digest, one with a tag, one with neither, in *)
(* pods of a controller, a Job and their own, one of which is out of scope.  *)

Pod(image, owner, via, scope) == [image |-> image, owner |-> owner, via |-> via, scope |-> scope]

MCImages == {"pinned", "tagged", "local"}
MCKind == [i \in MCImages |-> CASE i = "pinned" -> "digest" [] i = "tagged" -> "tag" [] OTHER -> "none"]
MCPods == {Pod("pinned", "deployment", "controller", TRUE), Pod("pinned", "job", "job", TRUE),
           Pod("tagged", "bare pod", "orphan", TRUE), Pod("local", "system", "controller", FALSE)}

Config(modes, policy, attestations, types, keys, identities, resolve) ==
  [modes |-> modes, policy |-> policy, attestations |-> attestations, types |-> types,
   keys |-> keys, identities |-> identities, resolveDigests |-> resolve]

\* What users may write, with at most two modes, and three when they are
\* resolved; the policy "all"; and two images at once.
MCModes == {<<m>> : m \in AllModes}
           \cup {<<"key", "keyless">>, <<"keyless", "attestation-key">>,
                 <<"attestation-keyless", "keyless">>}
MCConfigs ==
  {c \in {Config(modes, "any", attestations, types, keys, identities, FALSE) :
             modes \in MCModes, attestations \in BOOLEAN, types \in BOOLEAN,
             keys \in BOOLEAN, identities \in BOOLEAN} :
     Len(ResolveVerificationModes(c)) <= 3}
  \cup {Config(<<"keyless", "key">>, "all", FALSE, FALSE, TRUE, TRUE, FALSE),
        Config(<<"keyless">>, "any", FALSE, FALSE, FALSE, TRUE, TRUE)}
-----------------------------------------------------------------------------
jobRunnerVars == <<order, batch, worker, kubeJob, errors, created, succeeded, forgotten>>
admissionVars == <<failurePolicy, published, refresher, validator, mutator,
                   pcOf, used, reports, answer, mishaps, since, why>>
trustVars == vars
pluginVars == <<plugin, jobRunnerVars, admissionVars, trustVars>>

MCInit ==
  /\ plugin \in {"job-runner", "admission", "image-trust"}
  /\ JobRunner!Init
  /\ Admission!Init /\ (plugin = "admission" \/ failurePolicy = "fail")
  /\ Init /\ (plugin = "image-trust" \/ config = CHOOSE c \in Configs : TRUE)

\* A step of one of them, which leaves the others alone.
JobRunnerDoes(step) ==
  plugin = "job-runner" /\ step /\ UNCHANGED <<plugin, admissionVars, trustVars>>
AdmissionDoes(step) ==
  plugin = "admission" /\ step /\ UNCHANGED <<plugin, jobRunnerVars, trustVars>>
TrustDoes(step) ==
  plugin = "image-trust" /\ step /\ UNCHANGED <<plugin, jobRunnerVars, admissionVars>>

MCNext == JobRunnerDoes(JobRunner!Next) \/ AdmissionDoes(Admission!Next) \/ TrustDoes(Next)

\* The fairness of each plugin while it is the one that runs.
MCFairness ==
  /\ \A r \in Jobs : WF_pluginVars(JobRunnerDoes(JobRunner!Step(r)))
  /\ WF_pluginVars(AdmissionDoes(Admission!RefreshStep))
  /\ WF_pluginVars(TrustDoes(MainGoroutine))
  /\ \A i \in Images : WF_pluginVars(TrustDoes(Goroutine(i)))

MCSpec == MCInit /\ [][MCNext]_pluginVars /\ MCFairness
-----------------------------------------------------------------------------
\* See AdmissionController: a published configuration arrives.
ConfigArrives == plugin = "admission" => Admission!ConfigArrives

\* See ImageTrust: the job ends, with a report or without one.
TrustRunEnds == plugin = "image-trust" => RunEnds
=============================================================================
