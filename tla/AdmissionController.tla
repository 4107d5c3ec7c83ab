------------------------ MODULE AdmissionController -------------------------
(***************************************************************************)
(* The admission controller (plugins/admission).  A goroutine replaces the *)
(* configuration of the validator and of the mutator every minute while    *)
(* requests are served; a request asks the cluster for the owners and the  *)
(* namespace of its object, runs the checks that are configured, and takes *)
(* the verdict of Insights.                                                *)
(*                                                                         *)
(* A configuration is a version, and decides which checks run; each        *)
(* request is submitted with their reports, and Insights decides it.  The  *)
(* patch of the mutator is left out: nothing here depends on it.           *)
(***************************************************************************)
EXTENDS Integers, FiniteSets

CONSTANTS
  Requests,
  Ignored,      \* requests of IgnoreUsernames
  Deletes,      \* requests with the operation DELETE: Object.Raw is empty
  ReportsOf,    \* for each version the checks that Configuration.Reports turns on
  MaxVersion,   \* bound: versions of the configuration
  MaxMishaps    \* bound: calls that fail and objects that cannot be read

VARIABLES
  failurePolicy, \* webhookFailurePolicy
  published,     \* the version Insights has
  refresher,     \* where keepConfigurationRefreshed is, and what it has read
  validator,     \* Validator.config, 0 when nil
  mutator,       \* Mutator.config
  pcOf,          \* where each request is
  used,          \* the version a request has read
  reports,       \* the reports that are sent with it
  answer,        \* what the API server is told
  mishaps,
  \* history
  since,         \* the validator's version when the request began
  why            \* what the answer rests on

admissionVars == <<failurePolicy, published, refresher, validator, mutator,
                   pcOf, used, reports, answer, mishaps, since, why>>
refreshVars == <<published, refresher, validator, mutator>>
requestVars == <<pcOf, used, reports, answer, since, why>>

Mishap == mishaps < MaxMishaps /\ mishaps' = mishaps + 1
Idle == [at |-> "wait", version |-> 0]
-----------------------------------------------------------------------------
(* refreshConfig                                                           *)

Publish ==
  /\ published < MaxVersion
  /\ published' = published + 1
  /\ UNCHANGED <<failurePolicy, refresher, validator, mutator, requestVars, mishaps>>

FetchConfig ==
  /\ refresher.at = "wait" /\ published # refresher.version
  /\ refresher' = [at |-> "inject", version |-> published]
  /\ UNCHANGED <<failurePolicy, published, validator, mutator, requestVars, mishaps>>

\* Mutant: a refresh that fails ends the goroutine.
FetchFailsForGood ==
  /\ refresher.at = "wait" /\ Mishap
  /\ refresher' = [refresher EXCEPT !.at = "ended"]
  /\ UNCHANGED <<failurePolicy, published, validator, mutator, requestVars>>

\* The first refresh that fails ends the process, which is started again; a later one
\* is logged, and the ticker tries again.
FetchFails ==
  /\ refresher.at = "wait" /\ Mishap
  /\ UNCHANGED <<failurePolicy, refreshVars, requestVars>>

\* handler.InjectConfig, then mutatorHandler.InjectConfig.
InjectValidator ==
  /\ refresher.at = "inject"
  /\ validator' = refresher.version
  /\ refresher' = [refresher EXCEPT !.at = "injectMutator"]
  /\ UNCHANGED <<failurePolicy, published, mutator, requestVars, mishaps>>

InjectMutator ==
  /\ refresher.at = "injectMutator"
  /\ mutator' = refresher.version
  /\ refresher' = [refresher EXCEPT !.at = "wait"]
  /\ UNCHANGED <<failurePolicy, published, validator, requestVars, mishaps>>

-----------------------------------------------------------------------------
(* Mutator.Handle, if the API server asks for it, and Validator.Handle     *)

Reply(r, allowed, reason) ==
  /\ answer' = [answer EXCEPT ![r] = IF allowed THEN "allowed" ELSE "denied"]
  /\ why' = [why EXCEPT ![r] = reason]
  /\ pcOf' = [pcOf EXCEPT ![r] = "done"]

\* Without a configuration there is no patch.  An error denies the request, whatever
\* the failure policy.
Mutate(r) ==
  /\ pcOf[r] = "new"
  /\ \/ mutator # 0 /\ Mishap /\ Reply(r, FALSE, "mutation")
     \/ pcOf' = [pcOf EXCEPT ![r] = "mutated"] /\ UNCHANGED <<answer, why, mishaps>>
  /\ UNCHANGED <<failurePolicy, refreshVars, used, reports, since>>

\* An error of handleInternal: the failure policy decides.
Errored(r) == Reply(r, failurePolicy = "ignore", "error")

\* handleInternal up to the owners: ignored users pass, and so does everything before
\* the first configuration has arrived; an object that is no JSON is an error.
Begin(r) ==
  /\ pcOf[r] \in {"new", "mutated"}
  /\ since' = [since EXCEPT ![r] = validator]
  /\ \/ r \in Ignored /\ Reply(r, TRUE, "user") /\ UNCHANGED mishaps
     \/ r \notin Ignored /\ validator = 0 /\ Reply(r, TRUE, "unconfigured") /\ UNCHANGED mishaps
     \/ r \notin Ignored /\ validator # 0 /\ Mishap /\ Errored(r)
     \/ /\ r \notin Ignored /\ validator # 0
        /\ pcOf' = [pcOf EXCEPT ![r] = "owner"]
        /\ UNCHANGED <<answer, why, mishaps>>
  /\ UNCHANGED <<failurePolicy, refreshVars, used, reports>>

\* Owners that exist and match let the object pass; an owner that cannot be read, or
\* none, leads to the checks.
Owner(r) ==
  /\ pcOf[r] = "owner"
  /\ \/ Reply(r, TRUE, "owner")
     \/ /\ pcOf' = [pcOf EXCEPT ![r] = "namespace"]
        /\ UNCHANGED <<answer, why>>
  /\ UNCHANGED <<failurePolicy, refreshVars, used, reports, since, mishaps>>

\* The namespace is read, and then the configuration, once for all checks.
Namespace(r) ==
  /\ pcOf[r] = "namespace"
  /\ \/ Mishap /\ Errored(r) /\ UNCHANGED used
     \/ /\ used' = [used EXCEPT ![r] = validator]
        /\ pcOf' = [pcOf EXCEPT ![r] = "checks"]
        /\ UNCHANGED <<answer, why, mishaps>>
  /\ UNCHANGED <<failurePolicy, refreshVars, reports, since>>

\* The checks.  Polaris and Pluto read the new object, which a DELETE does not have;
\* the configuration of Polaris is there, since refreshConfig falls back to a default.
GetPolarisReport(r, on) == IF r \in Deletes THEN {} ELSE on \cap {"polaris"}
ProcessOPA(r, on) == on \cap {"opa"}
ProcessPluto(r, on) == IF r \in Deletes THEN {} ELSE on \cap {"pluto"}

\* The checks run one after the other, and the first error ends the request; nothing is
\* sent unless all reports are there.
processInputYAML(r) ==
  LET on == ReportsOf[used[r]]
      run == GetPolarisReport(r, on) \cup ProcessOPA(r, on) \cup ProcessPluto(r, on)
  IN  /\ pcOf[r] = "checks"
      /\ \/ run # {} /\ Mishap /\ Errored(r) /\ UNCHANGED reports
         \/ /\ reports' = [reports EXCEPT ![r] = {"metadata"} \cup run]
            /\ pcOf' = [pcOf EXCEPT ![r] = "submit"]
            /\ UNCHANGED <<answer, why, mishaps>>
      /\ UNCHANGED <<failurePolicy, refreshVars, used, since>>

\* Mutant: the verdict of Insights only makes a warning.
sendResultsWarns(r) ==
  /\ pcOf[r] = "submit"
  /\ \/ Mishap /\ Errored(r)
     \/ \E success \in BOOLEAN :
           Reply(r, TRUE, IF success THEN "passed" ELSE "blocked") /\ UNCHANGED mishaps
  /\ UNCHANGED <<failurePolicy, refreshVars, used, reports, since>>

\* The reports are posted, and Success of the answer decides.
sendResults(r) ==
  /\ pcOf[r] = "submit"
  /\ \/ Mishap /\ Errored(r)
     \/ \E success \in BOOLEAN :
           Reply(r, success, IF success THEN "passed" ELSE "blocked") /\ UNCHANGED mishaps
  /\ UNCHANGED <<failurePolicy, refreshVars, used, reports, since>>

Init ==
  /\ failurePolicy \in {"ignore", "fail"}
  /\ published = 1
  /\ refresher = Idle
  /\ validator = 0 /\ mutator = 0
  /\ pcOf = [r \in Requests |-> "new"]
  /\ used = [r \in Requests |-> 0]
  /\ reports = [r \in Requests |-> {}]
  /\ answer = [r \in Requests |-> "none"]
  /\ mishaps = 0
  /\ since = [r \in Requests |-> 0]
  /\ why = [r \in Requests |-> "none"]

RefreshStep == FetchConfig \/ InjectValidator \/ InjectMutator

Next ==
  \/ Publish \/ FetchConfig \/ FetchFails \/ InjectValidator \/ InjectMutator
  \/ \E r \in Requests : \/ Mutate(r) \/ Begin(r) \/ Owner(r) \/ Namespace(r)
                         \/ processInputYAML(r) \/ sendResults(r)

Spec == Init /\ [][Next]_admissionVars
-----------------------------------------------------------------------------
\* A request that Insights blocks is denied, one that could not be checked is allowed
\* only under the failure policy Ignore, and Insights decides a request by the reports of
\* all checks of one configuration that the validator had while it served the request,
\* never by some of them or by those of two (Handle, processInputYAML).
AllowedForAReason ==
  \A r \in Requests :
    /\ answer[r] = "allowed" => why[r] \notin {"blocked", "mutation"}
    /\ answer[r] = "allowed" /\ why[r] = "error" => failurePolicy = "ignore"
    /\ why[r] \in {"passed", "blocked"} =>
         \E v \in (since[r]..validator) \ {0} :
           reports[r] = {"metadata"} \cup {c \in ReportsOf[v] : r \notin Deletes \/ c = "opa"}

\* A configuration that is published reaches the validator and the mutator, however
\* many refreshes fail (keepConfigurationRefreshed goes on after an error).
ConfigArrives == <>[](validator = published /\ mutator = published)
=============================================================================
