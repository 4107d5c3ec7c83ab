------------------------------ MODULE OpaReport ------------------------------
(***************************************************************************)
(* One run of the opa plugin (plugins/opa) and of the uploader             *)
(* (plugins/uploader) that waits for its report in the other container of  *)
(* the pod.  The plugin fetches the custom checks, runs each of them on    *)
(* the objects of every target resource, listing them anew for each check, *)
(* and leaves a report unless something failed.  Meanwhile the cluster     *)
(* changes.                                                                *)
(*                                                                         *)
(* A check is named; what its Rego finds in an object is a set of outputs. *)
(* Output formatting and the text of errors are left out.                  *)
(***************************************************************************)
EXTENDS Integers, Sequences, FiniteSets

CONSTANTS
  Answers,       \* what Insights may serve: sequences of checks and libraries, records
                 \* [name, isLibrary, regoVersion, needs], needs a set of library names
  TargetFlags,   \* --target-resource: a sequence of [apiGroups, resources], each a sequence
  Resources,     \* the <<group, resource>> pairs that the API server knows
  Objects,       \* objects that may exist
  ResourceOf,    \* the pair each object is of
  Outputs,       \* Outputs[check][object]: "string", "map" or "other" outputs
  Timeout,       \* attempts of the uploader
  CheckEvery,    \* attempts between two looks at the pod
  MaxErrors      \* bound: failing calls

VARIABLES
  cluster,     \* the objects that exist
  pc,          \* where the plugin is
  checks,      \* what getInsightsChecks returned
  work,        \* the passes that are still to make
  actionItems,
  failed,      \* an error was collected
  files,       \* the shared volume
  status,      \* the plugin container's state, as the API server tells it
  attempts,
  told,        \* what Insights received
  errorsLeft,
  \* history
  always,      \* objects that existed during the whole run
  ever         \* objects that existed at some time of the run

opaVars == <<cluster, pc, checks, work, actionItems, failed, files, status, attempts,
             told, errorsLeft, always, ever>>

pluginUnchanged == UNCHANGED <<cluster, always, ever, status, attempts, told>>

File(items) == [there |-> TRUE, items |-> items]
NoFile == [there |-> FALSE, items |-> {}]
Running == "running"
Nothing == [kind |-> "nothing", items |-> {}]
Failure == [kind |-> "failure", items |-> {}]
Report(file) == [kind |-> "report", items |-> file.items]
-----------------------------------------------------------------------------
\* A library of Rego v1 serves the checks of v1 and the others those of v0.
isV1(check) == check.regoVersion = "v1"

\* The checks of an answer, by their position.
GetOPACustomChecks(served) == {c \in DOMAIN served : ~served[c].isLibrary}

LibrariesFor(check, served) ==
  {served[i].name : i \in {j \in DOMAIN served :
                             served[j].isLibrary /\ isV1(served[j]) = isV1(check)}}

\* getGroupResources: all combinations of the groups and resources of each flag, by their
\* positions <<flag, group, resource>>.
getGroupResources(flags) ==
  UNION {{<<f, g, r>> : g \in DOMAIN flags[f].apiGroups, r \in DOMAIN flags[f].resources} :
           f \in DOMAIN flags}

groupResource(gr) ==
  <<TargetFlags[gr[1]].apiGroups[gr[2]], TargetFlags[gr[1]].resources[gr[3]]>>

\* The passes of the loops of processAllChecks and processCheckV2, and their order.
passes(served) == GetOPACustomChecks(served) \X getGroupResources(TargetFlags)

before(v, w) ==
  \/ v[1] < w[1]
  \/ /\ v[1] = w[1]
     /\ \E k \in 1..3 : v[2][k] < w[2][k] /\ \A j \in 1..(k - 1) : v[2][j] = w[2][j]

\* GetRegoQuery makes one query of the check and its libraries; preparing it fails when the
\* check imports one that is not among them.
prepares(check, served) == check.needs \subseteq LibrariesFor(check, served)

\* processResults: an output that is neither a string nor a well-formed map is an error.
processResults(check, object, outputs) ==
  [ok |-> "other" \notin outputs,
   items |-> IF "other" \in outputs THEN {}
             ELSE {<<check.name, object, out>> : out \in outputs}]

\* runRegoForItemV2 and the conversion of what it finds in the check's own package.
ProcessCheckForItem(check, served, object) ==
  IF prepares(check, served)
  THEN processResults(check, object, Outputs[check.name][object])
  ELSE [ok |-> FALSE, items |-> {}]

\* Mutant: a failing object is skipped.
processCheckTargetSkips(check, target, served, listed) ==
  [ok |-> TRUE,
   items |-> UNION {ProcessCheckForItem(check, served, object).items : object \in listed}]

\* processCheckTargetV2 after the list: one failing object ends the target without items.
processCheckTarget(check, target, served, listed) ==
  IF /\ target \in Resources
     /\ \A object \in listed : ProcessCheckForItem(check, served, object).ok
  THEN [ok |-> TRUE,
        items |-> UNION {ProcessCheckForItem(check, served, object).items : object \in listed}]
  ELSE [ok |-> FALSE, items |-> {}]
-----------------------------------------------------------------------------
Init ==
  /\ cluster \in SUBSET Objects
  /\ pc = "fetch"
  /\ checks = <<>> /\ work = {}
  /\ actionItems = {} /\ failed = FALSE
  /\ files = [name \in {"temp", "output"} |-> NoFile]
  /\ status = Running /\ attempts = 0 /\ told = Nothing
  /\ errorsLeft = MaxErrors
  /\ always = cluster /\ ever = cluster

\* Someone creates or deletes an object.
Change(object) ==
  /\ pc \in {"fetch", "process"}
  /\ cluster' = IF object \in cluster THEN cluster \ {object} ELSE cluster \cup {object}
  /\ always' = always \cap cluster'
  /\ ever' = ever \cup cluster'
  /\ UNCHANGED <<pc, checks, work, actionItems, failed, files, status, attempts, told,
                 errorsLeft>>

Error == errorsLeft > 0 /\ errorsLeft' = errorsLeft - 1

getInsightsChecks ==
  /\ pc = "fetch"
  /\ \/ /\ checks' \in Answers
        /\ work' = passes(checks')
        /\ pc' = "process"
        /\ UNCHANGED errorsLeft
     \/ /\ Error
        /\ pc' = "failed"
        /\ UNCHANGED <<checks, work>>
  /\ UNCHANGED <<actionItems, failed, files>>
  /\ pluginUnchanged

\* One pass of the loops.  Listing, and the kubernetes function of a check, may fail.
processNext ==
  /\ pc = "process"
  /\ \E pass \in work :
       /\ \A other \in work \ {pass} : before(pass, other)
       /\ work' = work \ {pass}
       /\ LET target == groupResource(pass[2])
              listed == {object \in cluster : ResourceOf[object] = target}
              done == processCheckTarget(checks[pass[1]], target, checks, listed)
          IN  \/ /\ actionItems' = actionItems \cup done.items
                 /\ failed' = IF done.ok THEN failed ELSE TRUE
                 /\ UNCHANGED errorsLeft
              \/ /\ Error
                 /\ failed' = TRUE
                 /\ UNCHANGED actionItems
  /\ UNCHANGED <<pc, checks, files>>
  /\ pluginUnchanged

\* Run gives nothing back when there was any error, and the process then exits with 1.
Run ==
  /\ pc = "process" /\ work = {}
  /\ pc' = IF failed THEN "failed" ELSE "write"
  /\ UNCHANGED <<checks, work, actionItems, failed, files, errorsLeft>>
  /\ pluginUnchanged

\* Mutant: the report is written in place.
outputFileInPlace == "output"

\* The name under which startOPAReporter writes.
outputTempFile == "temp"

\* os.WriteFile makes the file and then fills it; a failure panics.
WriteFile ==
  /\ \/ /\ pc = "write"
        /\ files' = [files EXCEPT ![outputTempFile] = File({})]
        /\ pc' = "fill"
        /\ UNCHANGED errorsLeft
     \/ /\ pc = "fill"
        /\ files' = [files EXCEPT ![outputTempFile] = File(actionItems)]
        /\ pc' = "rename"
        /\ UNCHANGED errorsLeft
     \/ /\ pc \in {"write", "fill"} /\ Error
        /\ pc' = "failed"
        /\ UNCHANGED files
  /\ UNCHANGED <<checks, work, actionItems, failed>>
  /\ pluginUnchanged

Rename ==
  /\ pc = "rename"
  /\ \/ /\ files' = [files EXCEPT !["output"] = files[outputTempFile]]
        /\ pc' = "completed"
        /\ UNCHANGED errorsLeft
     \/ /\ Error
        /\ pc' = "failed"
        /\ UNCHANGED files
  /\ UNCHANGED <<checks, work, actionItems, failed>>
  /\ pluginUnchanged

ended == pc \in {"failed", "killed", "completed"}

\* The container exceeds its memory limit.
Kill ==
  /\ ~ended /\ Error
  /\ pc' = "killed"
  /\ UNCHANGED <<checks, work, actionItems, failed, files>>
  /\ pluginUnchanged

\* The kubelet's report of the plugin's end reaches the API server some time later.
ReportStatus ==
  /\ status = Running /\ ended
  /\ status' = CASE pc = "failed" -> "Error"
                 [] pc = "killed" -> "OOMKilled"
                 [] pc = "completed" -> "Completed"
  /\ UNCHANGED <<cluster, pc, checks, work, actionItems, failed, files, attempts, told,
                 errorsLeft, always, ever>>

uploading == told = Nothing /\ attempts < Timeout

\* One attempt of uploader.sh.  Every CheckEvery attempts it looks for a container that
\* ended with an error, whose failure it posts; a failing look counts as none.  A file is
\* posted as it is.  A post that fails ends the script.
Attempt ==
  /\ uploading
  /\ attempts' = attempts + 1
  /\ LET looks == attempts' % CheckEvery = 0
     IN  \/ /\ looks /\ status = "Error"
            /\ told' = Failure
            /\ UNCHANGED errorsLeft
         \/ /\ ~(looks /\ status = "Error") /\ files["output"].there
            /\ told' = Report(files["output"])
            /\ UNCHANGED errorsLeft
         \/ /\ ~(looks /\ status = "Error") /\ ~files["output"].there
            /\ UNCHANGED <<told, errorsLeft>>
         \/ /\ looks /\ Error
            /\ told' = IF files["output"].there THEN Report(files["output"]) ELSE told
  /\ UNCHANGED <<cluster, pc, checks, work, actionItems, failed, files, status, always, ever>>

\* curl fails and with it the script.  Without SEND_FAILURES it ends as well.
PostFails ==
  /\ uploading
  /\ files["output"].there \/ (status = "Error" /\ (attempts + 1) % CheckEvery = 0)
  /\ Error
  /\ attempts' = Timeout
  /\ UNCHANGED <<cluster, pc, checks, work, actionItems, failed, files, status, told, always,
                 ever>>

Next ==
  \/ \E object \in Objects : Change(object)
  \/ getInsightsChecks \/ processNext \/ Run
  \/ WriteFile \/ Rename \/ Kill
  \/ ReportStatus \/ Attempt \/ PostFails

Spec == Init /\ [][Next]_opaVars
-----------------------------------------------------------------------------
\* What the checks find in these objects, as far as a target names them.
findings(objects) ==
  UNION {{<<check.name, object, out>> : out \in Outputs[check.name][object]} :
           check \in {checks[c] : c \in GetOPACustomChecks(checks)},
           object \in {o \in objects :
                         \E gr \in getGroupResources(TargetFlags) : ResourceOf[o] = groupResource(gr)}}

\* What the uploader posts as a report is a whole one: it has everything the checks find
\* in the objects that were there all along, of every check and every target, and nothing
\* that no object of the run explains.  Insights resolves the action items that a report
\* leaves out, so that half a report does harm.  Run's all or nothing on errors and the
\* rename at the end are what it rests on.  A failure is told only of a plugin that failed.
UploadedIsWhole ==
  /\ told.kind = "report" => /\ findings(always) \subseteq told.items
                             /\ told.items \subseteq findings(ever)
  /\ told.kind = "failure" => pc = "failed"
=============================================================================
