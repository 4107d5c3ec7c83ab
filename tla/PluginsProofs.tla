--------------------------- MODULE PluginsProofs ----------------------------
(***************************************************************************)
(* Proofs about the smaller stateful plugins, each an instance of its      *)
(* module with constants of its own: the on-demand-job-runner, the         *)
(* falco-agent, the realtime-reporter and the admission controller, for    *)
(* any number of requests, events, objects and versions; and about the     *)
(* image-trust job, for any images, pods and configurations.               *)
(***************************************************************************)
EXTENDS Plugins, Reporters, ImageTrust, FiniteSetTheorems, SequenceTheorems,
        FunctionTheorems, WellFoundedInduction, TLAPS

\* A set of natural numbers has a least element.
LEMMA LeastElement ==
  ASSUME NEW T \in SUBSET Nat, T # {}
  PROVE  \E x \in T : \A y \in T : x <= y
<1>1. PICK R : IsWellFoundedOn(R, Nat) /\ \A x, y \in Nat : <<x, y>> \in R <=> x < y
  <2>1. \A x, y \in Nat : <<x, y>> \in OpToRel(<, Nat) <=> x < y
    BY DEF OpToRel
  <2>2. QED
    BY <2>1, NatLessThanWellFounded, Zenon
<1>2. IsWellFoundedOn(R, Nat) /\ T \subseteq Nat
  BY <1>1
<1>3. PICK x \in T : \A y \in T : ~ (<<y, x>> \in R)
  BY <1>2, WFMin, Zenon
<1>4. \A y \in T : ~ (y < x)
  BY <1>1, <1>2, <1>3
<1>5. QED
  BY <1>2, <1>4

\* A sequence without repetitions that is as long as a set, and in it, has all of it.
LEMMA Enumeration ==
  ASSUME NEW S, IsFiniteSet(S), NEW s \in [1..Cardinality(S) -> S],
         \A i, j \in 1..Cardinality(S) : s[i] = s[j] => i = j
  PROVE  \A x \in S : \E i \in 1..Cardinality(S) : s[i] = x
<1> DEFINE m == Cardinality(S)
<1>1. m \in Nat
  BY FS_CardinalityType
<1>2. IsFiniteSet(1..m) /\ Cardinality(1..m) = m
  BY <1>1, FS_Interval
<1>3. s \in Injection(1..m, S)
  BY Fun_IsInj
<1>4. s \in Surjection(1..m, S)
  BY <1>2, <1>3, FS_Injection
<1>5. QED
  BY <1>4 DEF Surjection
-----------------------------------------------------------------------------
(* on-demand-job-runner                                                    *)

\* A request that was not claimed has no Kubernetes Job, and the goroutines are those of
\* the batch, each of a request that Insights takes for running; who is done with
\* success has seen the Job complete.
JobInv ==
  /\ order \in [Jobs -> {"none", "pending", "running", "completed", "failed"}]
  /\ worker \in [Jobs -> {"none", "create", "wait", "completed", "failed"}]
  /\ kubeJob \in [Jobs -> {"none", "running", "complete", "failed", "gone"}]
  /\ created \in [Jobs -> {0, 1}]
  /\ batch = {r \in Jobs : worker[r] # "none"}
  /\ Cardinality(batch) <= MaxConcurrentJobs
  /\ \A r \in Jobs :
       /\ order[r] \in {"none", "pending"} \/ worker[r] = "create" => created[r] = 0
       /\ worker[r] # "none" => order[r] = "running"
       /\ worker[r] = "completed" \/ kubeJob[r] = "complete" \/ order[r] = "completed"
            => r \in succeeded

\* The cardinality in the instance is the cardinality here.
LEMMA SameCardinality == \A S : JobRunner!Cardinality(S) = Cardinality(S)
BY DEF JobRunner!Cardinality, Cardinality, JobRunner!IsFiniteSet, IsFiniteSet

\* Every step of the job runner keeps what is known of claims and Jobs.
LEMMA JobInvKept ==
  ASSUME IsFiniteSet(Jobs), MaxConcurrentJobs \in Nat, JobInv, JobRunner!Next
  PROVE  JobInv'
<1>1. CASE JobRunner!ClaimOnDemandJobs
  <2>1. PICK claim \in SUBSET {r \in Jobs : order[r] = "pending"} :
          /\ Cardinality(claim) <= MaxConcurrentJobs
          /\ order' = [r \in Jobs |-> IF r \in claim THEN "running" ELSE order[r]]
          /\ \/ /\ batch' = claim
                /\ worker' = [r \in Jobs |-> IF r \in claim THEN "create" ELSE worker[r]]
             \/ UNCHANGED <<batch, worker>>
    BY <1>1, SameCardinality DEF JobRunner!ClaimOnDemandJobs
  <2>2. batch = {} /\ UNCHANGED <<kubeJob, created, succeeded>>
    BY <1>1 DEF JobRunner!ClaimOnDemandJobs
  <2>3. Cardinality(batch') <= MaxConcurrentJobs
    BY <2>1 DEF JobInv
  <2>4. batch' = {r \in Jobs : worker'[r] # "none"}
    BY <2>1, <2>2 DEF JobInv
  <2>5. QED
    BY <2>1, <2>2, <2>3, <2>4 DEF JobInv
<1>2. CASE JobRunner!Die
  <2>1. Cardinality(batch') = 0
    BY <1>2, FS_EmptySet DEF JobRunner!Die
  <2>2. QED
    BY <1>2, <2>1 DEF JobRunner!Die, JobInv
<1>3. ASSUME NEW r \in Jobs, JobRunner!Ask(r) PROVE JobInv'
  BY <1>3 DEF JobRunner!Ask, JobInv
<1>4. ASSUME NEW r \in Jobs, JobRunner!Create(r) PROVE JobInv'
  BY <1>4 DEF JobRunner!Create, JobRunner!Goto, JobInv
<1>5. ASSUME NEW r \in Jobs, JobRunner!Poll(r) PROVE JobInv'
  BY <1>5 DEF JobRunner!Poll, JobRunner!Goto, JobInv
<1>6. ASSUME NEW r \in Jobs, JobRunner!Timeout(r) PROVE JobInv'
  BY <1>6 DEF JobRunner!Timeout, JobRunner!Goto, JobInv
<1>7. ASSUME NEW r \in Jobs, JobRunner!Report(r) PROVE JobInv'
  <2>1. IsFiniteSet(batch)
    BY FS_Subset DEF JobInv
  <2>2. Cardinality(batch') <= Cardinality(batch) /\ Cardinality(batch) \in Nat
        /\ Cardinality(batch') \in Nat
    BY <1>7, <2>1, FS_RemoveElement, FS_CardinalityType, FS_Subset DEF JobRunner!Report
  <2>3. Cardinality(batch') <= MaxConcurrentJobs
    BY <2>2 DEF JobInv
  <2>4. batch' = {q \in Jobs : worker'[q] # "none"}
    BY <1>7 DEF JobRunner!Report, JobRunner!Goto, JobInv
  <2>5. QED
    BY <1>7, <2>3, <2>4 DEF JobRunner!Report, JobRunner!Goto, JobInv
<1>8. ASSUME NEW r \in Jobs, JobRunner!RunJob(r) PROVE JobInv'
  BY <1>8 DEF JobRunner!RunJob, JobInv
<1>9. QED
  BY <1>1, <1>2, <1>3, <1>4, <1>5, <1>6, <1>7, <1>8 DEF JobRunner!Next

\* Each request gets at most one Kubernetes Job, "completed" is told only of one that
\* completed, and a batch keeps to its limit, over lost answers, timeouts and deaths of
\* the process (ClaimOnDemandJobs, processOnDemandJob).
THEOREM RequestsClaimedOnce ==
  ASSUME IsFiniteSet(Jobs), MaxConcurrentJobs \in Nat
  PROVE  JobRunner!Spec => []ClaimedOnce
<1>1. JobRunner!Init => JobInv
  <2>1. Cardinality({}) = 0
    BY FS_EmptySet
  <2>2. QED
    BY <2>1 DEF JobRunner!Init, JobInv
<1>2. JobInv /\ [JobRunner!Next]_(JobRunner!jobRunnerVars) => JobInv'
  <2>1. JobInv /\ UNCHANGED JobRunner!jobRunnerVars => JobInv'
    BY DEF JobInv, JobRunner!jobRunnerVars
  <2>2. QED
    BY <2>1, JobInvKept
<1>3. JobInv => ClaimedOnce
  BY SameCardinality DEF JobInv, JobRunner!ClaimedOnce, ClaimedOnce
<1>4. QED
  BY <1>1, <1>2, <1>3, PTL DEF JobRunner!Spec
-----------------------------------------------------------------------------
(* falco-agent                                                             *)

\* What the names of files are told from.
FalcoAssumption == MaxTime \in Nat \ {0} /\ Posts \cap {"none", "partial"} = {}

FalcoTypes ==
  /\ clock \in 1..MaxTime
  /\ post \in [Posts -> {"new", "rejected", "named", "writing", "accepted"}]
  /\ name \in [Posts -> 0..MaxTime]
  /\ \A p \in Posts : /\ post[p] \in {"named", "writing", "accepted"} => name[p] # 0
                      /\ post[p] = "new" => name[p] = 0
  /\ file \in [1..MaxTime -> Posts \cup {"none", "partial"}]
  /\ get \in [Gets -> {"new", "reading", "ok", "error", "lost"}]
  /\ left \in [Gets -> SUBSET (1..MaxTime)]
  /\ report \in [Gets -> SUBSET Posts]
  /\ err \in [Gets -> BOOLEAN]
  /\ due \in [Gets -> SUBSET Posts]
  /\ raced \subseteq Gets /\ spoilt \subseteq Gets

\* An event that was acknowledged, is young and shares its name with none is in its file.
AcceptedIsStored ==
  \A p \in Posts :
    /\ post[p] = "accepted" /\ name[p] \notin old
    /\ \A q \in Posts \ {p} : name[q] # name[p]
    => file[name[p]] = p

\* What a report still owes: the file is there, no handler writes to it, and the loop
\* has not come to it, unless the loop has just ended with an error.
Owed(g, p) ==
  /\ post[p] = "accepted"
  /\ \A q \in Posts \ {p} : post[q] \in {"writing", "accepted"} => name[q] # name[p]
  /\ get[g] = "reading" =>
       \/ p \in report[g]
       \/ name[p] \in left[g] /\ file[name[p]] = p
       \/ left[g] = {} /\ err[g]

\* Under a loop that nothing disturbs nobody writes, its files are there, and it ends
\* without an error: the newest of them can be parsed, or will be removed.
Undisturbed(g) ==
  get[g] = "reading" /\ g \notin raced =>
    /\ \A p \in Posts : post[p] # "writing"
    /\ \A t \in left[g] : file[t] # "none"
    /\ g \in spoilt \/ IF left[g] = {} THEN ~err[g]
                       ELSE \A t \in left[g] : \/ \E u \in left[g] : u > t
                                               \/ file[t] \in Posts \/ t \in old

FalcoInv ==
  /\ FalcoTypes
  /\ AcceptedIsStored
  /\ \A g \in Gets : /\ \A p \in due[g] : Owed(g, p)
                     /\ get[g] = "new" => ~err[g]
                     /\ Undisturbed(g)
  /\ Falco!ReportComplete

\* Every step of the handlers keeps what is known of files and posts.
LEMMA FalcoInvKept ==
  ASSUME FalcoAssumption, FalcoInv, Falco!Next
  PROVE  FalcoInv'
<1> USE DEF FalcoAssumption, Falco!Times, Falco!Busy, Falco!ReportComplete
<1>1. CASE Falco!Tick
  <2>1. FalcoTypes' /\ AcceptedIsStored'
    BY <1>1 DEF Falco!Tick, FalcoInv, FalcoTypes, AcceptedIsStored
  <2>2. ASSUME NEW g \in Gets PROVE Undisturbed(g)' /\ \A q \in due[g] : Owed(g, q)'
    BY <1>1 DEF Falco!Tick, FalcoInv, FalcoTypes, Owed, Undisturbed
  <2>3. QED
    BY <1>1, <2>1, <2>2 DEF Falco!Tick, FalcoInv
<1>2. ASSUME NEW p \in Posts, Falco!Reject(p) PROVE FalcoInv'
  <2>1. FalcoTypes' /\ AcceptedIsStored'
    BY <1>2 DEF Falco!Reject, FalcoInv, FalcoTypes, AcceptedIsStored
  <2>2. ASSUME NEW g \in Gets PROVE Undisturbed(g)' /\ \A q \in due[g] : Owed(g, q)'
    BY <1>2 DEF Falco!Reject, FalcoInv, FalcoTypes, Owed, Undisturbed
  <2>3. QED
    BY <1>2, <2>1, <2>2 DEF Falco!Reject, FalcoInv
<1>3. ASSUME NEW p \in Posts, Falco!UniqueFilename(p) PROVE FalcoInv'
  <2>1. FalcoTypes' /\ AcceptedIsStored'
    BY <1>3 DEF Falco!UniqueFilename, FalcoInv, FalcoTypes, AcceptedIsStored
  <2>2. ASSUME NEW g \in Gets PROVE Undisturbed(g)' /\ \A q \in due[g] : Owed(g, q)'
    BY <1>3 DEF Falco!UniqueFilename, FalcoInv, FalcoTypes, Owed, Undisturbed
  <2>3. QED
    BY <1>3, <2>1, <2>2 DEF Falco!UniqueFilename, FalcoInv
<1>4. ASSUME NEW p \in Posts, Falco!CreateFile(p) PROVE FalcoInv'
  <2>1. FalcoTypes'
    BY <1>4 DEF Falco!CreateFile, FalcoInv, FalcoTypes
  <2>2. AcceptedIsStored'
    BY <1>4 DEF Falco!CreateFile, FalcoInv, FalcoTypes, AcceptedIsStored
  <2>3. ASSUME NEW g \in Gets, NEW q \in due'[g] PROVE Owed(g, q)'
    BY <1>4, <2>3 DEF Falco!CreateFile, FalcoInv, FalcoTypes, Owed
  <2>4. ASSUME NEW g \in Gets PROVE Undisturbed(g)'
    BY <1>4 DEF Falco!CreateFile, Undisturbed
  <2>5. QED
    BY <1>4, <2>1, <2>2, <2>3, <2>4 DEF Falco!CreateFile, FalcoInv, FalcoTypes
<1>5. ASSUME NEW p \in Posts, Falco!WriteFile(p) PROVE FalcoInv'
  <2>1. FalcoTypes'
    BY <1>5 DEF Falco!WriteFile, FalcoInv, FalcoTypes
  <2>2. AcceptedIsStored'
    BY <1>5 DEF Falco!WriteFile, FalcoInv, FalcoTypes, AcceptedIsStored
  <2>3. ASSUME NEW g \in Gets, NEW q \in due'[g] PROVE Owed(g, q)'
    BY <1>5, <2>3 DEF Falco!WriteFile, FalcoInv, FalcoTypes, Owed
  <2>4. ASSUME NEW g \in Gets PROVE Undisturbed(g)'
    BY <1>5 DEF Falco!WriteFile, FalcoInv, Undisturbed
  <2>5. QED
    BY <1>5, <2>1, <2>2, <2>3, <2>4 DEF Falco!WriteFile, FalcoInv, FalcoTypes
<1>11. ASSUME NEW p \in Posts, Falco!WriteFails(p) PROVE FalcoInv'
  <2>1. PICK rest \in Posts \cup {"none", "partial"} :
          file' = IF post[p] = "writing" THEN [file EXCEPT ![name[p]] = rest] ELSE file
    BY <1>11 DEF Falco!WriteFails
  <2>2. /\ post[p] \in {"named", "writing"} /\ post' = [post EXCEPT ![p] = "rejected"]
        /\ UNCHANGED <<clock, name, old, get, left, report, err, due, raced, spoilt>>
    BY <1>11 DEF Falco!WriteFails
  <2>3. FalcoTypes'
    BY <2>1, <2>2 DEF FalcoInv, FalcoTypes
  <2>4. AcceptedIsStored'
    BY <2>1, <2>2 DEF FalcoInv, FalcoTypes, AcceptedIsStored
  <2>5. ASSUME NEW g \in Gets, NEW q \in due'[g] PROVE Owed(g, q)'
    BY <2>1, <2>2, <2>5 DEF FalcoInv, FalcoTypes, Owed
  <2>6. ASSUME NEW g \in Gets PROVE Undisturbed(g)'
    BY <2>1, <2>2 DEF FalcoInv, FalcoTypes, Undisturbed
  <2>7. QED
    BY <2>2, <2>3, <2>4, <2>5, <2>6 DEF FalcoInv
<1>12. CASE Falco!Restart
  <2>1. FalcoTypes'
    BY <1>12 DEF Falco!Restart, FalcoInv, FalcoTypes
  <2>2. AcceptedIsStored'
    BY <1>12 DEF Falco!Restart, FalcoInv, FalcoTypes, AcceptedIsStored
  <2>3. ASSUME NEW g \in Gets, NEW q \in due'[g] PROVE Owed(g, q)'
    BY <1>12, <2>3 DEF Falco!Restart, FalcoInv, FalcoTypes, Owed
  <2>4. ASSUME NEW g \in Gets PROVE Undisturbed(g)'
    BY <1>12 DEF Falco!Restart, Undisturbed
  <2>5. QED
    BY <1>12, <2>1, <2>2, <2>3, <2>4 DEF Falco!Restart, FalcoInv, FalcoTypes
<1>6. ASSUME NEW t \in 1..MaxTime, Falco!Age(t) PROVE FalcoInv'
  <2>1. ASSUME NEW g \in Gets PROVE Undisturbed(g)'
    BY <1>6 DEF Falco!Age, FalcoInv, Undisturbed
  <2>2. QED
    BY <1>6, <2>1 DEF Falco!Age, FalcoInv, FalcoTypes, AcceptedIsStored, Owed
<1>7. ASSUME NEW g \in Gets, Falco!ReadDir(g) PROVE FalcoInv'
  <2>1. FalcoTypes'
    BY <1>7 DEF Falco!ReadDir, Falco!Files, Falco!Due, FalcoInv, FalcoTypes
  <2>2. AcceptedIsStored'
    BY <1>7 DEF Falco!ReadDir, FalcoInv, AcceptedIsStored
  <2>3. ASSUME NEW h \in Gets, NEW q \in due'[h] PROVE Owed(h, q)'
    <3>1. CASE h = g
      <4>1. q \in Falco!Due
        BY <1>7, <2>3, <3>1 DEF Falco!ReadDir, FalcoInv, FalcoTypes
      <4>2. q \in Posts /\ post[q] = "accepted" /\ \A r \in Posts \ {q} : name[r] # name[q]
        BY <4>1 DEF Falco!Due
      <4>3. file[name[q]] = q /\ name[q] \in 1..MaxTime
        BY <4>1, <4>2 DEF Falco!Due, FalcoInv, FalcoTypes, AcceptedIsStored
      <4>4. name[q] \in Falco!Files
        BY <4>2, <4>3 DEF Falco!Files
      <4>5. left'[g] = Falco!Files /\ UNCHANGED <<file, name, post>>
        BY <1>7 DEF Falco!ReadDir, FalcoInv, FalcoTypes
      <4>6. QED
        BY <3>1, <4>2, <4>3, <4>4, <4>5 DEF Owed
    <3>2. CASE h # g
      BY <1>7, <2>3, <3>2 DEF Falco!ReadDir, FalcoInv, FalcoTypes, Owed
    <3>3. QED
      BY <3>1, <3>2
  <2>4. ASSUME NEW h \in Gets PROVE Undisturbed(h)'
    <3>1. CASE h = g
      <4>1. /\ left'[g] = Falco!Files /\ UNCHANGED <<post, file, old, err>> /\ ~err[g]
            /\ raced' = IF \E p \in Posts : post[p] = "writing" THEN raced \cup {g} ELSE raced
            /\ spoilt' = IF \E t \in Falco!Files : /\ file[t] = "partial" /\ t \notin old
                                                    /\ \A u \in Falco!Files : u <= t
                           THEN spoilt \cup {g} ELSE spoilt
        BY <1>7 DEF Falco!ReadDir, FalcoInv, FalcoTypes
      <4>2. Falco!Files \subseteq 1..MaxTime /\ \A t \in Falco!Files : file[t] # "none"
        BY DEF Falco!Files
      <4>3. ASSUME g \notin spoilt', NEW t \in Falco!Files
            PROVE  (\E u \in Falco!Files : u > t) \/ file[t] \in Posts \/ t \in old
        <5>1. file[t] # "partial" \/ t \in old \/ \E u \in Falco!Files : ~(u <= t)
          BY <4>1, <4>3
        <5>2. file[t] \in Posts \cup {"none", "partial"}
          BY <4>2 DEF FalcoInv, FalcoTypes
        <5>3. QED
          BY <4>2, <5>1, <5>2
      <4>4. QED
        BY <3>1, <4>1, <4>2, <4>3 DEF Undisturbed
    <3>2. CASE h # g
      BY <1>7, <3>2 DEF Falco!ReadDir, FalcoInv, FalcoTypes, Undisturbed
    <3>3. QED
      BY <3>1, <3>2
  <2>5. QED
    BY <1>7, <2>1, <2>2, <2>3, <2>4 DEF Falco!ReadDir, FalcoInv, FalcoTypes
<1>8. ASSUME NEW g \in Gets, Falco!NextFile(g) PROVE FalcoInv'
  <2> DEFINE t == CHOOSE t \in left[g] : \A u \in left[g] : t <= u
             gone == file[t] = "none"
             young == ~gone /\ t \notin old
  <2>1. left[g] \in SUBSET Nat /\ left[g] # {}
    BY <1>8 DEF Falco!NextFile, FalcoInv, FalcoTypes
  <2>2. t \in left[g]
    BY <2>1, LeastElement, Zenon
  <2>3. t \in 1..MaxTime
    BY <2>2 DEF FalcoInv, FalcoTypes
  <2>4. /\ get[g] = "reading"
        /\ left' = [left EXCEPT ![g] = IF gone THEN {} ELSE @ \ {t}]
        /\ err' = [err EXCEPT ![g] = gone \/ (young /\ file[t] = "partial")]
        /\ report' = [report EXCEPT ![g] = IF young /\ file[t] \in Posts THEN @ \cup {file[t]}
                                                                        ELSE @]
        /\ file' = IF gone \/ young THEN file ELSE [file EXCEPT ![t] = "none"]
        /\ raced' = IF gone \/ young THEN raced ELSE raced \cup (Falco!Busy \ {g})
        /\ due' = [h \in Gets |-> IF t \in old THEN {p \in due[h] : name[p] # t} ELSE due[h]]
        /\ UNCHANGED <<clock, post, name, old, get, spoilt>>
        /\ Falco!Busy = {h \in Gets : get[h] = "reading"}
    BY <1>8 DEF Falco!NextFile
  <2>11. \A u \in left[g] : t <= u
    BY <2>1, LeastElement, Zenon
  <2> HIDE DEF t
  <2>5. FalcoTypes'
    BY <2>3, <2>4 DEF FalcoInv, FalcoTypes
  <2>6. AcceptedIsStored'
    BY <2>3, <2>4 DEF FalcoInv, FalcoTypes, AcceptedIsStored
  <2>7. ASSUME NEW h \in Gets, NEW q \in due'[h] PROVE Owed(h, q)'
    <3>1. CASE h = g
      <4>1. q \in due[g] /\ Owed(g, q) /\ (t \in old => name[q] # t)
        BY <2>4, <2>7, <3>1 DEF FalcoInv, FalcoTypes
      <4>2. \/ q \in report'[g]
            \/ name[q] \in left'[g] /\ file'[name[q]] = q
            \/ left'[g] = {} /\ err'[g]
        <5>1. CASE q \in report[g]
          BY <2>4, <5>1 DEF FalcoInv, FalcoTypes
        <5>2. CASE name[q] = t /\ file[t] = q
          BY <2>4, <4>1, <5>2 DEF FalcoInv, FalcoTypes
        <5>3. CASE name[q] # t /\ name[q] \in left[g] /\ file[name[q]] = q
          BY <2>3, <2>4, <5>3 DEF FalcoInv, FalcoTypes
        <5>4. QED
          BY <2>1, <2>4, <4>1, <5>1, <5>2, <5>3 DEF Owed
      <4>3. QED
        BY <2>4, <3>1, <4>1, <4>2 DEF Owed
    <3>2. CASE h # g
      BY <2>3, <2>4, <2>7, <3>2 DEF FalcoInv, FalcoTypes, Owed
    <3>3. QED
      BY <3>1, <3>2
  <2>8. ASSUME NEW h \in Gets PROVE Undisturbed(h)'
    <3>1. CASE h = g
      <4>1. SUFFICES ASSUME g \notin raced
                     PROVE  Undisturbed(g)'
        BY <2>4, <3>1 DEF Undisturbed
      <4>2. /\ \A p \in Posts : post[p] # "writing"
            /\ \A u \in left[g] : file[u] # "none"
            /\ g \notin spoilt => \A u \in left[g] : \/ \E v \in left[g] : v > u
                                                    \/ file[u] \in Posts \/ u \in old
        BY <2>1, <2>4, <4>1 DEF FalcoInv, Undisturbed
      <4>3. left'[g] = left[g] \ {t} /\ (\A u \in left'[g] : file'[u] = file[u])
        BY <2>2, <2>3, <2>4, <4>2 DEF FalcoInv, FalcoTypes
      <4>4. CASE left'[g] = {}
        <5>1. left[g] = {t}
          BY <2>2, <4>3, <4>4
        <5>2. g \notin spoilt => file[t] \in Posts \/ t \in old
          BY <2>3, <4>2, <5>1
        <5>3. g \notin spoilt => ~err'[g]
          BY <2>2, <2>4, <4>2, <5>2 DEF FalcoInv, FalcoTypes
        <5>4. QED
          BY <2>4, <4>2, <4>4, <5>3 DEF Undisturbed
      <4>5. CASE left'[g] # {}
        <5>1. ASSUME g \notin spoilt, NEW u \in left'[g]
              PROVE  (\E v \in left'[g] : v > u) \/ file'[u] \in Posts \/ u \in old
          <6>1. u \in left[g] /\ left[g] \subseteq Nat
            BY <2>1, <4>3
          <6>2. CASE \E v \in left[g] : v > u
            <7>1. PICK v \in left[g] : v > u
              BY <6>2
            <7>2. v # t
              BY <2>3, <2>11, <6>1, <7>1
            <7>3. QED
              BY <4>3, <7>1, <7>2
          <6>3. CASE file[u] \in Posts \/ u \in old
            BY <4>3, <6>3
          <6>4. QED
            BY <4>2, <5>1, <6>1, <6>2, <6>3
        <5>2. QED
          BY <2>4, <4>2, <4>3, <4>5, <5>1 DEF Undisturbed
      <4>6. QED
        BY <4>4, <4>5
    <3>2. CASE h # g
      <4>1. CASE gone \/ young
        BY <2>4, <3>2, <4>1 DEF FalcoInv, FalcoTypes, Undisturbed
      <4>2. CASE ~(gone \/ young)
        BY <2>4, <3>2, <4>2 DEF FalcoInv, FalcoTypes, Undisturbed
      <4>3. QED
        BY <4>1, <4>2
    <3>3. QED
      BY <3>1, <3>2
  <2>9. Falco!ReportComplete'
    BY <2>4 DEF FalcoInv, FalcoTypes
  <2>10. QED
    BY <2>4, <2>5, <2>6, <2>7, <2>8, <2>9 DEF FalcoInv, FalcoTypes
<1>9. ASSUME NEW g \in Gets, Falco!Answer(g) PROVE FalcoInv'
  <2>1. /\ get[g] = "reading" /\ left[g] = {}
        /\ get' = [get EXCEPT ![g] = IF err[g] THEN "error" ELSE "ok"]
        /\ UNCHANGED <<clock, post, name, file, old, left, report, err, due, raced, spoilt>>
    BY <1>9 DEF Falco!Answer
  <2>2. FalcoTypes' /\ AcceptedIsStored'
    BY <2>1 DEF FalcoInv, FalcoTypes, AcceptedIsStored
  <2>3. ASSUME NEW h \in Gets PROVE Undisturbed(h)' /\ \A q \in due[h] : Owed(h, q)'
    BY <2>1 DEF FalcoInv, FalcoTypes, Undisturbed, Owed
  <2>4. err[g] => g \in raced \cup spoilt
    BY <2>1 DEF FalcoInv, Undisturbed
  <2>5. ~err[g] => due[g] \subseteq report[g]
    BY <2>1 DEF FalcoInv, Owed
  <2>6. Falco!ReportComplete'
    BY <2>1, <2>4, <2>5 DEF FalcoInv, FalcoTypes
  <2>7. QED
    BY <2>1, <2>2, <2>3, <2>6 DEF FalcoInv, FalcoTypes
<1>10. QED
  BY <1>1, <1>2, <1>3, <1>4, <1>5, <1>6, <1>7, <1>8, <1>9, <1>11, <1>12 DEF Falco!Next

\* A report that is answered holds every event acknowledged before it began that is not
\* a day old and shares its file with none, and an error is answered only when a file was
\* written or removed meanwhile, or the newest file had been truncated by a write that did
\* not end (inputDataHandler, Aggregate24hrsData).
THEOREM FalcoReportComplete ==
  ASSUME FalcoAssumption
  PROVE  Falco!Spec => []ReportComplete
<1>1. Falco!Init => FalcoInv
  BY DEF FalcoAssumption, Falco!Init, Falco!Times, Falco!ReportComplete, FalcoInv, FalcoTypes,
         AcceptedIsStored, Undisturbed
<1>2. FalcoInv /\ [Falco!Next]_(Falco!falcoVars) => FalcoInv'
  <2>1. FalcoInv /\ UNCHANGED Falco!falcoVars => FalcoInv'
    BY DEF FalcoInv, FalcoTypes, AcceptedIsStored, Owed, Undisturbed, Falco!ReportComplete,
           Falco!falcoVars
  <2>2. QED
    BY <2>1, FalcoInvKept
<1>3. FalcoInv => ReportComplete
  BY DEF FalcoInv, ReportComplete
<1>4. QED
  BY <1>1, <1>2, <1>3, PTL DEF Falco!Spec
-----------------------------------------------------------------------------
(* realtime-reporter                                                       *)

Note == [object : Objects, old : Nat, new : Nat]

RealtimeTypes ==
  /\ object \in [Objects -> Nat]
  /\ known \in [Objects -> Nat]
  /\ view \in [Objects -> Nat]
  /\ watching \in BOOLEAN
  /\ queue \in Seq(Note)
  /\ watching => known = object

\* What Insights has seen of o is generation g, or nothing where the handler drops creations.
Agrees(seen, o, g) == IF o \in Owned THEN seen[o] \in {0, g} ELSE seen[o] = g

IsFirst(i) == \A j \in 1..(i - 1) : queue[j].object # queue[i].object
IsLast(i) == \A j \in (i + 1)..Len(queue) : queue[j].object # queue[i].object
IsNext(i, j) ==
  /\ i < j /\ queue[i].object = queue[j].object
  /\ \A k \in (i + 1)..(j - 1) : queue[k].object # queue[i].object

\* The notifications of an object form a chain from what Insights knows, unless that is
\* stale, to what the informer knows.
Chained ==
  /\ \A i, j \in 1..Len(queue) : IsNext(i, j) => queue[j].old = queue[i].new
  /\ \A i \in 1..Len(queue) : IsLast(i) => queue[i].new = known[queue[i].object]
  /\ \A i \in 1..Len(queue) :
       IsFirst(i) /\ queue[i].object \notin stale => Agrees(view, queue[i].object, queue[i].old)
  /\ \A o \in Objects \ stale :
       (\A i \in 1..Len(queue) : queue[i].object # o) => Agrees(view, o, known[o])

\* A generation that went back, which the handler drops, comes first and is known to be
\* stale.
BackIsStale ==
  \A i \in 1..Len(queue) :
    queue[i].new # 0 /\ queue[i].new < queue[i].old =>
      queue[i].object \in stale /\ IsFirst(i)

RealtimeInv == RealtimeTypes /\ Chained /\ BackIsStale

\* A notification that continues the chain is put at its end.
LEMMA ChainGrows ==
  ASSUME RealtimeInv, NEW o \in Objects, NEW g \in Nat,
         g = 0 \/ known[o] <= g,
         queue' = Append(queue, Realtime!Notification(o, known[o], g)),
         known' = [known EXCEPT ![o] = g],
         UNCHANGED <<view, stale>>
  PROVE  Chained' /\ BackIsStale' /\ queue' \in Seq(Note)
<1> DEFINE n == Realtime!Notification(o, known[o], g)
           m == Len(queue)
<1>1. n \in Note /\ n.object = o /\ n.old = known[o] /\ n.new = g
  BY DEF Realtime!Notification, Note, RealtimeInv, RealtimeTypes
<1>2. queue \in Seq(Note) /\ m \in Nat
  BY DEF RealtimeInv, RealtimeTypes
<1> HIDE DEF n
<1>3. /\ queue' \in Seq(Note)
      /\ Len(queue') = m + 1
      /\ \A i \in 1..m : queue'[i] = queue[i]
      /\ queue'[m + 1] = n
  BY <1>1, <1>2 DEF n
<1>4. \A i \in 1..m : queue[i] \in Note
  BY <1>2
<1>5. \A i \in 1..Len(queue') : i \in 1..m \/ i = m + 1
  BY <1>2, <1>3
<1>6. known'[o] = g /\ \A p \in Objects : p # o => known'[p] = known[p]
  BY DEF RealtimeInv, RealtimeTypes
<1> HIDE DEF m
<1>7. \A i, j \in 1..Len(queue') : IsNext(i, j)' => queue'[j].old = queue'[i].new
  <2> SUFFICES ASSUME NEW i \in 1..Len(queue'), NEW j \in 1..Len(queue'), IsNext(i, j)'
               PROVE  queue'[j].old = queue'[i].new
    OBVIOUS
  <2>1. i \in 1..m
    BY <1>2, <1>3, <1>5 DEF IsNext
  <2>2. CASE j \in 1..m
    <3>1. IsNext(i, j)
      BY <1>2, <1>3, <2>1, <2>2 DEF IsNext
    <3>2. QED
      BY <1>3, <2>1, <2>2, <3>1 DEF RealtimeInv, Chained, m
  <2>3. CASE j = m + 1
    <3>1. IsLast(i) /\ queue[i].object = o
      BY <1>1, <1>2, <1>3, <2>1, <2>3 DEF IsNext, IsLast, m
    <3>2. queue[i].new = known[o]
      BY <2>1, <3>1 DEF RealtimeInv, Chained, m
    <3>3. QED
      BY <1>1, <1>3, <2>1, <2>3, <3>2
  <2>4. QED
    BY <1>5, <2>2, <2>3
<1>8. \A i \in 1..Len(queue') : IsLast(i)' => queue'[i].new = known'[queue'[i].object]
  <2> SUFFICES ASSUME NEW i \in 1..Len(queue'), IsLast(i)'
               PROVE  queue'[i].new = known'[queue'[i].object]
    OBVIOUS
  <2>1. CASE i \in 1..m
    <3>1. m + 1 \in (i + 1)..Len(queue')
      BY <1>2, <1>3, <2>1
    <3>2. queue[i].object # o
      BY <1>1, <1>3, <2>1, <3>1 DEF IsLast
    <3>3. IsLast(i)
      BY <1>2, <1>3, <2>1 DEF IsLast, m
    <3>4. queue[i].new = known[queue[i].object] /\ queue[i].object \in Objects
      BY <1>4, <2>1, <3>3 DEF RealtimeInv, Chained, Note, m
    <3>5. QED
      BY <1>3, <1>6, <2>1, <3>2, <3>4
  <2>2. CASE i = m + 1
    BY <1>1, <1>3, <1>6, <2>2
  <2>3. QED
    BY <1>5, <2>1, <2>2
<1>9. \A i \in 1..Len(queue') : IsFirst(i)' /\ queue'[i].object \notin stale'
                                => Agrees(view', queue'[i].object, queue'[i].old)
  <2> SUFFICES ASSUME NEW i \in 1..Len(queue'), IsFirst(i)', queue'[i].object \notin stale'
               PROVE  Agrees(view', queue'[i].object, queue'[i].old)
    OBVIOUS
  <2>1. CASE i \in 1..m
    <3>1. IsFirst(i)
      BY <1>2, <1>3, <2>1 DEF IsFirst
    <3>2. QED
      BY <1>3, <2>1, <3>1 DEF RealtimeInv, Chained, Agrees, m
  <2>2. CASE i = m + 1
    <3>1. \A j \in 1..m : queue[j].object # o
      BY <1>1, <1>2, <1>3, <2>2 DEF IsFirst
    <3>2. Agrees(view, o, known[o])
      BY <1>1, <1>3, <2>2, <3>1 DEF RealtimeInv, Chained, m
    <3>3. QED
      BY <1>1, <1>3, <2>2, <3>2 DEF Agrees
  <2>3. QED
    BY <1>5, <2>1, <2>2
<1>10. \A p \in Objects \ stale' :
         (\A i \in 1..Len(queue') : queue'[i].object # p) => Agrees(view', p, known'[p])
  <2> SUFFICES ASSUME NEW p \in Objects \ stale', \A i \in 1..Len(queue') : queue'[i].object # p
               PROVE  Agrees(view', p, known'[p])
    OBVIOUS
  <2>1. p # o
    BY <1>1, <1>2, <1>3
  <2>2. \A i \in 1..m : queue[i].object # p
    BY <1>2, <1>3
  <2>3. QED
    BY <1>6, <2>1, <2>2 DEF RealtimeInv, Chained, Agrees, m
<1>11. BackIsStale'
  <2> SUFFICES ASSUME NEW i \in 1..Len(queue'), queue'[i].new # 0, queue'[i].new < queue'[i].old
               PROVE  queue'[i].object \in stale' /\ IsFirst(i)'
    BY DEF BackIsStale
  <2>1. i \in 1..m
    BY <1>1, <1>3, <1>5 DEF RealtimeInv, RealtimeTypes
  <2>2. queue[i].object \in stale /\ IsFirst(i)
    BY <1>3, <2>1 DEF RealtimeInv, BackIsStale, m
  <2>3. QED
    BY <1>2, <1>3, <2>1, <2>2 DEF IsFirst
<1>12. QED
  BY <1>3, <1>7, <1>8, <1>9, <1>10, <1>11 DEF Chained

\* The chains that are left when the first notification was handled: of its object the
\* rest begins with what it ended with.
LEMMA ChainShrinks ==
  ASSUME RealtimeInv, Realtime!Handle
  PROVE  RealtimeInv'
<1> DEFINE n == Head(queue)
           m == Len(queue)
<1>1. /\ queue \in Seq(Note) /\ queue # <<>> /\ m \in Nat \ {0}
      /\ n = queue[1] /\ n \in Note
      /\ \A i \in 1..m : queue[i] \in Note
      /\ queue' \in Seq(Note) /\ Len(queue') = m - 1
      /\ \A i \in 1..(m - 1) : queue'[i] = queue[i + 1]
  BY HeadTailProperties DEF Realtime!Handle, RealtimeInv, RealtimeTypes
<1>2. /\ n.object \in Objects /\ n.old \in Nat /\ n.new \in Nat
      /\ \A i \in 1..m : queue[i].object \in Objects /\ queue[i].old \in Nat /\ queue[i].new \in Nat
  BY <1>1 DEF Note
<1>3. /\ \/ ~Realtime!handled(n) /\ UNCHANGED <<view, stale>>
         \/ view' = [view EXCEPT ![n.object] = n.new] /\ stale' = stale \ {n.object}
         \/ UNCHANGED view /\ stale' = stale \cup {n.object}
      /\ UNCHANGED <<object, known, watching>>
  BY DEF Realtime!Handle, Realtime!Trouble
<1> HIDE DEF n
<1>4. RealtimeTypes'
  BY <1>1, <1>2, <1>3 DEF RealtimeInv, RealtimeTypes
<1>5. /\ \A o \in Objects \ {n.object} : view'[o] = view[o] /\ (o \in stale' <=> o \in stale)
      /\ n.object \notin stale' => Agrees(view', n.object, n.new)
  <2>1. IsFirst(1)
    BY <1>1 DEF IsFirst
  <2>2. n.object \notin stale => Agrees(view, n.object, n.old) /\ (n.new # 0 => n.old <= n.new)
    BY <1>1, <1>2, <2>1 DEF RealtimeInv, Chained, BackIsStale
  <2>3. CASE ~Realtime!handled(n) /\ UNCHANGED <<view, stale>>
    BY <1>2, <2>2, <2>3 DEF Realtime!handled, Agrees
  <2>4. CASE view' = [view EXCEPT ![n.object] = n.new] /\ stale' = stale \ {n.object}
    BY <1>2, <2>4 DEF Agrees, RealtimeInv, RealtimeTypes
  <2>5. CASE UNCHANGED view /\ stale' = stale \cup {n.object}
    BY <2>5
  <2>6. QED
    BY <1>3, <2>3, <2>4, <2>5
<1>6. \A i \in 1..(m - 1) : i + 1 \in 1..m
  BY <1>1
<1> HIDE DEF m
<1>7. \A i, j \in 1..Len(queue') : IsNext(i, j)' => queue'[j].old = queue'[i].new
  <2> SUFFICES ASSUME NEW i \in 1..Len(queue'), NEW j \in 1..Len(queue'), IsNext(i, j)'
               PROVE  queue'[j].old = queue'[i].new
    OBVIOUS
  <2>1. i \in 1..(m - 1) /\ j \in 1..(m - 1) /\ i < j
        /\ queue'[i].object = queue'[j].object
        /\ \A k \in (i + 1)..(j - 1) : queue'[k].object # queue'[i].object
    BY <1>1 DEF IsNext
  <2>2. ASSUME NEW k \in (i + 2)..j PROVE queue[k].object # queue[i + 1].object
    <3>1. k - 1 \in (i + 1)..(j - 1) /\ k - 1 \in 1..(m - 1)
      BY <1>1, <2>1
    <3>2. queue'[k - 1] = queue[k]
      BY <1>1, <3>1
    <3>3. QED
      BY <1>1, <2>1, <3>1, <3>2
  <2>3. IsNext(i + 1, j + 1)
    BY <1>1, <1>6, <2>1, <2>2 DEF IsNext
  <2>4. queue[j + 1].old = queue[i + 1].new
    BY <1>6, <2>1, <2>3 DEF RealtimeInv, Chained, m
  <2>5. QED
    BY <1>1, <2>1, <2>4
<1>8. \A i \in 1..Len(queue') : IsLast(i)' => queue'[i].new = known'[queue'[i].object]
  <2> SUFFICES ASSUME NEW i \in 1..Len(queue'), IsLast(i)'
               PROVE  queue'[i].new = known'[queue'[i].object]
    OBVIOUS
  <2>1. i \in 1..(m - 1)
    BY <1>1
  <2>2. ASSUME NEW k \in (i + 2)..m PROVE queue[k].object # queue[i + 1].object
    <3>1. k - 1 \in (i + 1)..Len(queue') /\ k - 1 \in 1..(m - 1)
      BY <1>1, <2>1
    <3>2. queue'[k - 1] = queue[k]
      BY <1>1, <3>1
    <3>3. QED
      BY <1>1, <2>1, <3>1, <3>2 DEF IsLast
  <2>3. IsLast(i + 1)
    BY <1>1, <2>1, <2>2 DEF IsLast, m
  <2>4. queue[i + 1].new = known[queue[i + 1].object]
    BY <1>6, <2>1, <2>3 DEF RealtimeInv, Chained, m
  <2>5. QED
    BY <1>1, <1>3, <2>1, <2>4
<1>9. \A i \in 1..Len(queue') : IsFirst(i)' /\ queue'[i].object \notin stale'
                                => Agrees(view', queue'[i].object, queue'[i].old)
  <2> SUFFICES ASSUME NEW i \in 1..Len(queue'), IsFirst(i)', queue'[i].object \notin stale'
               PROVE  Agrees(view', queue'[i].object, queue'[i].old)
    OBVIOUS
  <2>1. i \in 1..(m - 1) /\ queue'[i] = queue[i + 1]
    BY <1>1
  <2>2. ASSUME NEW k \in 2..i PROVE queue[k].object # queue[i + 1].object
    <3>1. k - 1 \in 1..(i - 1) /\ k - 1 \in 1..(m - 1)
      BY <1>1, <2>1
    <3>2. queue'[k - 1] = queue[k]
      BY <1>1, <3>1
    <3>3. QED
      BY <2>1, <3>1, <3>2 DEF IsFirst
  <2>3. CASE queue[i + 1].object = n.object
    <3>1. IsNext(1, i + 1)
      BY <1>1, <2>1, <2>2, <2>3 DEF IsNext
    <3>2. queue[i + 1].old = n.new
      BY <1>1, <1>6, <2>1, <3>1 DEF RealtimeInv, Chained, m
    <3>3. QED
      BY <1>5, <2>1, <2>3, <3>2 DEF Agrees
  <2>4. CASE queue[i + 1].object # n.object
    <3>1. IsFirst(i + 1)
      BY <1>1, <2>1, <2>2, <2>4 DEF IsFirst
    <3>2. queue[i + 1].object \in Objects \ {n.object}
      BY <1>2, <1>6, <2>1, <2>4 DEF m
    <3>3. Agrees(view, queue[i + 1].object, queue[i + 1].old)
      BY <1>5, <1>6, <2>1, <3>1, <3>2 DEF RealtimeInv, Chained, m
    <3>4. QED
      BY <1>5, <2>1, <3>2, <3>3 DEF Agrees
  <2>5. QED
    BY <2>3, <2>4
<1>10. \A p \in Objects \ stale' :
         (\A i \in 1..Len(queue') : queue'[i].object # p) => Agrees(view', p, known'[p])
  <2> SUFFICES ASSUME NEW p \in Objects \ stale', \A i \in 1..Len(queue') : queue'[i].object # p
               PROVE  Agrees(view', p, known'[p])
    OBVIOUS
  <2>1. ASSUME NEW k \in 2..m PROVE queue[k].object # p
    <3>1. k - 1 \in 1..(m - 1) /\ k \in Int
      BY <1>1
    <3>2. queue'[k - 1] = queue[k]
      BY <1>1, <3>1
    <3>3. QED
      BY <1>1, <3>1, <3>2
  <2>2. CASE p = n.object
    <3>1. IsLast(1)
      BY <1>1, <2>1, <2>2 DEF IsLast, m
    <3>2. n.new = known[p]
      BY <1>1, <2>2, <3>1 DEF RealtimeInv, Chained, m
    <3>3. QED
      BY <1>3, <1>5, <2>2, <3>2 DEF Agrees
  <2>3. CASE p # n.object
    <3>1. \A k \in 1..m : queue[k].object # p
      BY <1>1, <2>1, <2>3
    <3>2. Agrees(view, p, known[p])
      BY <1>5, <2>3, <3>1 DEF RealtimeInv, Chained, m
    <3>3. QED
      BY <1>3, <1>5, <2>3, <3>2 DEF Agrees
  <2>4. QED
    BY <2>2, <2>3
<1>11. BackIsStale'
  <2> SUFFICES ASSUME NEW i \in 1..Len(queue'), queue'[i].new # 0, queue'[i].new < queue'[i].old
               PROVE  queue'[i].object \in stale' /\ IsFirst(i)'
    BY DEF BackIsStale
  <2>1. i \in 1..(m - 1) /\ queue'[i] = queue[i + 1]
    BY <1>1
  <2>2. queue[i + 1].object \in stale /\ IsFirst(i + 1)
    BY <1>6, <2>1 DEF RealtimeInv, BackIsStale, m
  <2>3. queue[i + 1].object # n.object
    BY <1>1, <2>1, <2>2 DEF IsFirst
  <2>4. queue'[i].object \in stale'
    BY <1>2, <1>5, <1>6, <2>1, <2>2, <2>3 DEF m
  <2>5. ASSUME NEW j \in 1..(i - 1) PROVE queue'[j].object # queue'[i].object
    <3>1. j \in 1..(m - 1) /\ j + 1 \in 1..i
      <4>1. m \in Nat /\ i \in 1..(m - 1)
        BY <1>1, <2>1
      <4>2. QED
        BY <4>1 DEF m
    <3>2. queue[j + 1].object # queue[i + 1].object
      BY <2>1, <2>2, <3>1 DEF IsFirst
    <3>3. QED
      BY <1>1, <2>1, <3>1, <3>2
  <2>6. QED
    BY <2>4, <2>5 DEF IsFirst
<1>12. QED
  BY <1>4, <1>7, <1>8, <1>9, <1>10, <1>11 DEF Chained, RealtimeInv

\* The cardinality in the instance is the cardinality here.
LEMMA SameSize == \A S : Realtime!Cardinality(S) = Cardinality(S)
BY DEF Realtime!Cardinality, Cardinality, Realtime!IsFiniteSet, IsFiniteSet

\* Listing anew begins a chain of one notification for each object that has changed.
LEMMA ChainsBegin ==
  ASSUME IsFiniteSet(Objects), RealtimeInv, Realtime!Relist
  PROVE  RealtimeInv'
<1> DEFINE gone == {o \in Objects : known[o] # 0 /\ object[o] = 0}
           base == IF gone = {} THEN known ELSE [o \in Objects |-> 0]
           changed == {o \in Objects : object[o] # base[o]}
           m == Cardinality(changed)
<1>1. /\ ~watching /\ Len(queue) = 0
      /\ known' = object /\ watching' = TRUE /\ UNCHANGED <<object, view>>
      /\ stale' = stale \cup IF gone = {} THEN {o \in changed : object[o] < base[o]}
                                        ELSE {o \in Objects : view[o] # 0}
  BY DEF Realtime!Relist
<1>2. PICK s \in [1..m -> changed] :
         /\ \A i, j \in 1..m : s[i] = s[j] => i = j
         /\ queue' = [i \in 1..m |-> Realtime!Notification(s[i], base[s[i]], object[s[i]])]
  <2>1. PICK s \in [1..m -> changed] :
           /\ \A i, j \in DOMAIN s : s[i] = s[j] => i = j
           /\ queue' = [i \in DOMAIN s |-> Realtime!Notification(s[i], base[s[i]], object[s[i]])]
    <3>1. Realtime!Cardinality(changed) = m
      BY SameSize
    <3>2. QED
      BY <3>1, Zenon DEF Realtime!Relist
  <2>2. DOMAIN s = 1..m
    BY <2>1
  <2>3. QED
    BY <2>1, <2>2
<1>3. base \in [Objects -> Nat] /\ object \in [Objects -> Nat] /\ view \in [Objects -> Nat]
  BY DEF RealtimeInv, RealtimeTypes
<1>4. \A o \in Objects \ stale' : Agrees(view, o, base[o]) /\ (o \in changed => base[o] <= object[o])
  <2>1. ASSUME NEW o \in Objects \ stale PROVE Agrees(view, o, known[o])
    BY <1>1 DEF RealtimeInv, Chained
  <2>2. CASE gone = {}
    BY <1>1, <1>3, <2>1, <2>2
  <2>3. CASE gone # {}
    BY <1>1, <1>3, <2>3 DEF Agrees
  <2>4. QED
    BY <2>2, <2>3
<1>5. \A o \in changed : object[o] < base[o] => o \in stale'
  BY <1>3, <1>4, SMTT(30)
<1> HIDE DEF base
<1>6. changed \subseteq Objects /\ IsFiniteSet(changed)
  BY FS_Subset
<1>7. m \in Nat
  BY <1>6, FS_CardinalityType
<1>8. \A x \in changed : \E i \in 1..m : s[i] = x
  <2>1. \A i, j \in 1..m : s[i] = s[j] => i = j
    BY <1>2
  <2> HIDE DEF changed
  <2>2. QED
    BY <1>6, <2>1, Enumeration
<1> HIDE DEF m
<1>9. /\ queue' \in Seq(Note) /\ Len(queue') = m
      /\ \A i \in 1..m : /\ s[i] \in changed /\ s[i] \in Objects
                         /\ queue'[i].object = s[i]
                         /\ queue'[i].old = base[s[i]] /\ queue'[i].new = object[s[i]]
  <2>1. \A i \in 1..m : s[i] \in changed /\ s[i] \in Objects
    BY <1>2
  <2>2. \A i \in 1..m : Realtime!Notification(s[i], base[s[i]], object[s[i]]) \in Note
    BY <1>3, <2>1 DEF Realtime!Notification, Note
  <2>3. queue' \in [1..m -> Note]
    BY <1>2, <2>2
  <2>4. queue' \in Seq(Note) /\ Len(queue') = m
    BY <1>7, <2>3
  <2>5. QED
    BY <1>2, <2>1, <2>4 DEF Realtime!Notification
<1>10. \A i, j \in 1..m : queue'[i].object = queue'[j].object => i = j
  BY <1>2, <1>9
<1>11. RealtimeTypes'
  BY <1>1, <1>3, <1>9 DEF RealtimeInv, RealtimeTypes
<1>12. \A i, j \in 1..Len(queue') : ~IsNext(i, j)'
  BY <1>7, <1>9, <1>10 DEF IsNext
<1>13. \A i \in 1..Len(queue') : /\ queue'[i].new = known'[queue'[i].object]
                                 /\ queue'[i].object \notin stale' =>
                                      Agrees(view', queue'[i].object, queue'[i].old)
  BY <1>1, <1>4, <1>9
<1>14. ASSUME NEW o \in Objects \ stale', \A i \in 1..Len(queue') : queue'[i].object # o
       PROVE  Agrees(view', o, known'[o])
  <2>1. o \notin changed
    BY <1>8, <1>9, <1>14
  <2>2. QED
    BY <1>1, <1>4, <1>14, <2>1
<1>15. BackIsStale'
  <2> SUFFICES ASSUME NEW i \in 1..Len(queue'), queue'[i].new < queue'[i].old
               PROVE  queue'[i].object \in stale' /\ IsFirst(i)'
    BY DEF BackIsStale
  <2>1. queue'[i].object \in stale'
    BY <1>5, <1>9
  <2>2. IsFirst(i)'
    BY <1>7, <1>9, <1>10 DEF IsFirst
  <2>3. QED
    BY <2>1, <2>2
<1>16. QED
  BY <1>11, <1>12, <1>13, <1>14, <1>15 DEF RealtimeInv, Chained

\* The chains depend on the queue, what is known and seen, and what is stale.
LEMMA ChainsKept ==
  ASSUME Chained, BackIsStale, UNCHANGED <<queue, known, view, stale>>
  PROVE  Chained' /\ BackIsStale'
BY DEF Chained, BackIsStale, IsFirst, IsLast, IsNext

\* Every step of the reporter and the cluster keeps what is known of cache, queue and
\* uploads.
LEMMA RealtimeInvKept ==
  ASSUME IsFiniteSet(Objects), MaxGeneration \in Nat, RealtimeInv, Realtime!Next
  PROVE  RealtimeInv'
<1>1. ASSUME NEW o \in Objects, NEW to \in 0..MaxGeneration, Realtime!Change(o, to)
      PROVE  RealtimeInv'
  <2>1. CASE watching
    <3>1. known = object /\ object[o] \in Nat
      BY <2>1 DEF RealtimeInv, RealtimeTypes
    <3>2. /\ to = 0 \/ known[o] <= to
          /\ queue' = Append(queue, Realtime!Notification(o, known[o], to))
          /\ known' = [known EXCEPT ![o] = to]
          /\ UNCHANGED <<view, stale>>
          /\ object' = [object EXCEPT ![o] = to] /\ UNCHANGED watching
      BY <1>1, <2>1, <3>1 DEF Realtime!Change
    <3>3. Chained' /\ BackIsStale' /\ queue' \in Seq(Note)
      <4>1. to \in Nat
        BY <1>1
      <4>2. QED
        BY <3>2, <4>1, ChainGrows
    <3>4. RealtimeTypes'
      BY <3>1, <3>2, <3>3 DEF RealtimeInv, RealtimeTypes
    <3>5. QED
      BY <3>3, <3>4 DEF RealtimeInv
  <2>2. CASE ~watching
    <3>1. UNCHANGED <<queue, known, watching, view, stale>> /\ object' \in [Objects -> Nat]
      BY <1>1, <2>2 DEF Realtime!Change, RealtimeInv, RealtimeTypes
    <3>2. QED
      BY <2>2, <3>1, ChainsKept DEF RealtimeInv, RealtimeTypes
  <2>3. QED
    BY <2>1, <2>2 DEF RealtimeInv, RealtimeTypes
<1>2. ASSUME NEW o \in Objects, Realtime!Resync(o) PROVE RealtimeInv'
  <2>1. /\ known[o] \in Nat
        /\ queue' = Append(queue, Realtime!Notification(o, known[o], known[o]))
        /\ known' = [known EXCEPT ![o] = known[o]]
        /\ UNCHANGED <<object, known, watching, view, stale>>
    BY <1>2 DEF Realtime!Resync, RealtimeInv, RealtimeTypes
  <2>2. known[o] <= known[o]
    BY <2>1
  <2>3. Chained' /\ BackIsStale' /\ queue' \in Seq(Note)
    BY <2>1, <2>2, ChainGrows
  <2>4. QED
    BY <2>1, <2>3 DEF RealtimeInv, RealtimeTypes
<1>3. CASE Realtime!Disconnect
  BY <1>3, ChainsKept DEF Realtime!Disconnect, RealtimeInv, RealtimeTypes
<1>4. CASE Realtime!Restart
  <2>1. 1..Len(queue') = {} /\ queue' \in Seq(Note)
    BY <1>4 DEF Realtime!Restart
  <2>2. \A o \in Objects \ stale' : Agrees(view', o, known'[o])
    BY <1>4 DEF Realtime!Restart, Agrees
  <2>3. RealtimeTypes'
    BY <1>4, <2>1 DEF Realtime!Restart, RealtimeInv, RealtimeTypes
  <2>4. QED
    BY <2>1, <2>2, <2>3 DEF RealtimeInv, Chained, BackIsStale
<1>5. QED
  BY <1>1, <1>2, <1>3, <1>4, ChainsBegin, ChainShrinks DEF Realtime!Next

\* When the handler has nothing left to do Insights knows every object of which no event
\* was lost as it is, over broken watches, lists, resyncs, restarts and failed uploads
\* (the event handlers of the watcher, UploadToInsights).
THEOREM InsightsFollows ==
  ASSUME IsFiniteSet(Objects), MaxGeneration \in Nat
  PROVE  Realtime!Spec => []ViewFollows
<1>1. Realtime!Init => RealtimeInv
  <2> SUFFICES ASSUME Realtime!Init PROVE RealtimeInv
    OBVIOUS
  <2>1. 1..Len(queue) = {} /\ queue \in Seq(Note)
    BY DEF Realtime!Init
  <2>2. \A o \in Objects : Agrees(view, o, known[o])
    BY DEF Realtime!Init, Agrees
  <2>3. object \in [Objects -> Nat] /\ known \in [Objects -> Nat] /\ view \in [Objects -> Nat]
    BY DEF Realtime!Init
  <2>4. RealtimeTypes
    BY <2>1, <2>3 DEF Realtime!Init, RealtimeTypes
  <2>5. QED
    BY <2>1, <2>2, <2>4 DEF RealtimeInv, Chained, BackIsStale
<1>2. RealtimeInv /\ [Realtime!Next]_(Realtime!realtimeVars) => RealtimeInv'
  <2>1. RealtimeInv /\ UNCHANGED Realtime!realtimeVars => RealtimeInv'
    BY DEF RealtimeInv, RealtimeTypes, Chained, BackIsStale, IsFirst, IsLast, IsNext,
           Realtime!realtimeVars
  <2>2. QED
    BY <2>1, RealtimeInvKept
<1>3. RealtimeInv => ViewFollows
  BY DEF RealtimeInv, RealtimeTypes, Chained, Agrees, Realtime!ViewFollows, ViewFollows
<1>4. QED
  BY <1>1, <1>2, <1>3, PTL DEF Realtime!Spec
-----------------------------------------------------------------------------
(* admission controller                                                    *)

\* The checks that a configuration may turn on.
AdmissionAssumption ==
  /\ MaxVersion \in Nat \ {0}
  /\ \A v \in 1..MaxVersion : ReportsOf[v] \subseteq {"polaris", "opa", "pluto"}

\* The validator's versions only grow, and lag behind the published one.
RefreshInv ==
  /\ refresher \in [at : {"wait", "inject", "injectMutator"}, version : Nat]
  /\ published \in 1..MaxVersion
  /\ validator \in Nat
  /\ validator <= refresher.version /\ refresher.version <= published

\* What Insights gets for request r under version v.
AllReports(r, v) == {"metadata"} \cup {c \in ReportsOf[v] : r \notin Deletes \/ c = "opa"}

\* A request that is past its namespace uses one version of those that the validator
\* had since it began, and one that is submitted comes with all reports of it.
RequestInv ==
  /\ pcOf \in [Requests -> {"new", "mutated", "owner", "namespace", "checks", "submit", "done"}]
  /\ used \in [Requests -> Nat]
  /\ since \in [Requests -> Nat]
  /\ reports = [r \in Requests |-> reports[r]]
  /\ answer = [r \in Requests |-> answer[r]]
  /\ why = [r \in Requests |-> why[r]]
  /\ \A r \in Requests :
       /\ since[r] <= validator
       /\ pcOf[r] \in {"owner", "namespace"} => since[r] # 0
       /\ pcOf[r] # "done" => why[r] = "none" /\ answer[r] = "none"
       /\ pcOf[r] \in {"checks", "submit"} =>
            used[r] \in since[r]..validator /\ used[r] # 0
       /\ pcOf[r] = "submit" => reports[r] = AllReports(r, used[r])

AdmissionInv == RefreshInv /\ RequestInv /\ Admission!AllowedForAReason

\* Every step of the refresher and of the requests keeps what is known of versions and
\* reports.
LEMMA AdmissionInvKept ==
  ASSUME AdmissionAssumption, AdmissionInv, Admission!Next
  PROVE  AdmissionInv'
<1> USE DEF AdmissionInv, Admission!Mishap
<1>1. ASSUME \/ Admission!Publish \/ Admission!FetchConfig \/ Admission!FetchFails
             \/ Admission!InjectValidator \/ Admission!InjectMutator
      PROVE  AdmissionInv'
  <2>1. UNCHANGED <<failurePolicy, pcOf, used, reports, answer, since, why>>
    BY <1>1 DEF Admission!Publish, Admission!FetchConfig, Admission!FetchFails,
                Admission!InjectValidator, Admission!InjectMutator, Admission!refreshVars,
                Admission!requestVars
  <2>2. RefreshInv' /\ validator <= validator'
    <3>1. CASE Admission!Publish
      BY <3>1 DEF Admission!Publish, RefreshInv, AdmissionAssumption
    <3>2. CASE Admission!FetchConfig
      BY <3>2 DEF Admission!FetchConfig, RefreshInv, AdmissionAssumption
    <3>3. CASE Admission!FetchFails
      BY <3>3 DEF Admission!FetchFails, Admission!refreshVars, RefreshInv
    <3>4. CASE Admission!InjectValidator
      BY <3>4 DEF Admission!InjectValidator, RefreshInv
    <3>5. CASE Admission!InjectMutator
      BY <3>5 DEF Admission!InjectMutator, RefreshInv
    <3>6. QED
      BY <1>1, <3>1, <3>2, <3>3, <3>4, <3>5
  <2>3. validator \in Nat /\ validator' \in Nat
    BY <2>2 DEF RefreshInv
  <2>4. RequestInv'
    BY <2>1, <2>2, <2>3 DEF RequestInv, AllReports
  <2>5. Admission!AllowedForAReason'
    BY <2>1, <2>2, <2>3 DEF Admission!AllowedForAReason, RequestInv
  <2>6. QED
    BY <2>2, <2>4, <2>5
<1>2. ASSUME NEW r \in Requests,
             \/ Admission!Mutate(r) \/ Admission!Begin(r) \/ Admission!Owner(r)
             \/ Admission!Namespace(r) \/ Admission!processInputYAML(r) \/ Admission!sendResults(r)
      PROVE  AdmissionInv'
  <2>1. UNCHANGED <<failurePolicy, published, refresher, validator>>
    BY <1>2 DEF Admission!Mutate, Admission!Begin, Admission!Owner, Admission!Namespace,
                Admission!processInputYAML, Admission!sendResults, Admission!refreshVars
  <2>2. RefreshInv'
    BY <2>1 DEF RefreshInv
  <2>3. validator \in Nat
    BY DEF RefreshInv
  <2>4. CASE Admission!Mutate(r)
    <3>1. RequestInv'
      BY <2>1, <2>3, <2>4 DEF Admission!Mutate, Admission!Reply, RequestInv, AllReports
    <3>2. Admission!AllowedForAReason'
      BY <2>1, <2>4 DEF Admission!Mutate, Admission!Reply, RequestInv, Admission!AllowedForAReason
    <3>3. QED
      BY <2>2, <3>1, <3>2
  <2>5. CASE Admission!Begin(r)
    <3>1. RequestInv'
      BY <2>1, <2>3, <2>5 DEF Admission!Begin, Admission!Errored, Admission!Reply, RequestInv, AllReports
    <3>2. Admission!AllowedForAReason'
      BY <2>1, <2>5 DEF Admission!Begin, Admission!Errored, Admission!Reply, RequestInv,
                      Admission!AllowedForAReason
    <3>3. QED
      BY <2>2, <3>1, <3>2
  <2>6. CASE Admission!Owner(r)
    <3>1. RequestInv'
      BY <2>1, <2>3, <2>6 DEF Admission!Owner, Admission!Reply, RequestInv, AllReports
    <3>2. Admission!AllowedForAReason'
      BY <2>1, <2>6 DEF Admission!Owner, Admission!Reply, RequestInv, Admission!AllowedForAReason
    <3>3. QED
      BY <2>2, <3>1, <3>2
  <2>7. CASE Admission!Namespace(r)
    <3>1. RequestInv'
      BY <2>1, <2>3, <2>7 DEF Admission!Namespace, Admission!Errored, Admission!Reply, RequestInv,
                              AllReports
    <3>2. Admission!AllowedForAReason'
      BY <2>1, <2>7 DEF Admission!Namespace, Admission!Errored, Admission!Reply, RequestInv,
                        Admission!AllowedForAReason
    <3>3. QED
      BY <2>2, <3>1, <3>2
  <2>8. CASE Admission!processInputYAML(r)
    <3> DEFINE on == ReportsOf[used[r]]
               run == Admission!GetPolarisReport(r, on) \cup Admission!ProcessOPA(r, on)
                        \cup Admission!ProcessPluto(r, on)
    <3>1. used[r] \in 1..MaxVersion
      <4>1. used[r] \in since[r]..validator /\ used[r] \in Nat \ {0} /\ since[r] \in Nat
        BY <2>8 DEF Admission!processInputYAML, RequestInv
      <4>2. validator <= MaxVersion /\ MaxVersion \in Nat
        BY DEF RefreshInv, AdmissionAssumption
      <4>3. QED
        BY <2>3, <4>1, <4>2
    <3>2. on \subseteq {"polaris", "opa", "pluto"}
      BY <3>1 DEF AdmissionAssumption
    <3>3. {"metadata"} \cup run = AllReports(r, used[r])
      BY <3>2 DEF AllReports, Admission!GetPolarisReport, Admission!ProcessOPA,
                  Admission!ProcessPluto
    <3>4. /\ \/ Admission!Errored(r) /\ UNCHANGED reports
             \/ /\ reports' = [reports EXCEPT ![r] = AllReports(r, used[r])]
                /\ pcOf' = [pcOf EXCEPT ![r] = "submit"]
                /\ UNCHANGED <<answer, why>>
          /\ pcOf[r] = "checks" /\ UNCHANGED <<used, since>>
      BY <2>8, <3>3 DEF Admission!processInputYAML
    <3> HIDE DEF on, run
    <3>5. RequestInv'
      BY <2>1, <2>3, <3>4 DEF Admission!Errored, Admission!Reply, RequestInv, AllReports
    <3>6. Admission!AllowedForAReason'
      BY <2>1, <3>4 DEF Admission!Errored, Admission!Reply, RequestInv,
                        Admission!AllowedForAReason
    <3>7. QED
      BY <2>2, <3>5, <3>6
  <2>9. CASE Admission!sendResults(r)
    <3>1. RequestInv'
      BY <2>1, <2>3, <2>9 DEF Admission!sendResults, Admission!Errored, Admission!Reply, RequestInv,
                              AllReports
    <3>2. used[r] \in (since[r]..validator) \ {0} /\ reports[r] = AllReports(r, used[r])
      BY <2>9 DEF Admission!sendResults, RequestInv
    <3>3. Admission!AllowedForAReason'
      BY <2>1, <2>9, <3>2 DEF Admission!sendResults, Admission!Errored, Admission!Reply, RequestInv,
                              Admission!AllowedForAReason, AllReports
    <3>4. QED
      BY <2>2, <3>1, <3>3
  <2>10. QED
    BY <1>2, <2>4, <2>5, <2>6, <2>7, <2>8, <2>9
<1>3. QED
  BY <1>1, <1>2 DEF Admission!Next

\* A request that is allowed passed the verdict of Insights on all reports of one version
\* of the configuration that the validator had while it served the request, or has one of
\* the other reasons, while the configuration is replaced under it (Handle,
\* processInputYAML, InjectConfig).
THEOREM RequestsAllowedForAReason ==
  ASSUME AdmissionAssumption
  PROVE  Admission!Spec => []AllowedForAReason
<1>1. Admission!Init => AdmissionInv
  BY DEF AdmissionAssumption, Admission!Init, Admission!Idle, AdmissionInv, RefreshInv, RequestInv,
         Admission!AllowedForAReason
<1>2. AdmissionInv /\ [Admission!Next]_(Admission!admissionVars) => AdmissionInv'
  <2>1. AdmissionInv /\ UNCHANGED Admission!admissionVars => AdmissionInv'
    <3> SUFFICES ASSUME AdmissionInv, UNCHANGED Admission!admissionVars PROVE AdmissionInv'
      OBVIOUS
    <3>1. RefreshInv'
      BY DEF AdmissionInv, RefreshInv, Admission!admissionVars
    <3>2. RequestInv'
      BY DEF AdmissionInv, RequestInv, AllReports, Admission!admissionVars
    <3>3. Admission!AllowedForAReason'
      BY DEF AdmissionInv, Admission!AllowedForAReason, Admission!admissionVars
    <3>4. QED
      BY <3>1, <3>2, <3>3 DEF AdmissionInv
  <2>2. QED
    BY <2>1, AdmissionInvKept
<1>3. AdmissionInv => AllowedForAReason
  BY DEF AdmissionInv, AllowedForAReason
<1>4. QED
  BY <1>1, <1>2, <1>3, PTL DEF Admission!Spec
-----------------------------------------------------------------------------
(* image-trust: what is reported of an image                               *)

\* A configuration has modes, all of them known, and a pod is listed in one of the ways.
TrustAssumption ==
  /\ \A c \in Configs : c.modes \in Seq(AllModes) /\ c.modes # <<>>
  /\ \A p \in Pods : p.image \in Images /\ p.via \in {"controller", "orphan", "job"}

Failing == {"untrusted", "unsigned", "transient", "error"}
ChecksAt(m) == ChecksOf[Modes[m]]

\* What cosign was asked of an image and said.
Good(j, c) == c \in DOMAIN truth[j] /\ truth[j][c] = "good"
Bad(j, c) == c \in DOMAIN truth[j] /\ truth[j][c] # "good"
Signed(j) == {c \in DOMAIN truth[j] : truth[j][c] # "none"}
FailureOf(j) == [status : Failing, signers : SUBSET Signed(j)]
SuccessOf(j) == [status : {"verified"}, signers : SUBSET Signed(j)]

\* An attempt at an image that is at this mode and check: unless a call has failed, the
\* checks before it in the mode did not pass; of the modes before it none passed, or all
\* did, as the policy has it.
CheckingAt(j, m, c, attempts, earlier) ==
  /\ m \in 1..Len(Modes) /\ c \in 1..Len(ChecksAt(m))
  /\ attempts \in Seq(FailureOf(j))
  /\ earlier \in Seq(IF config.policy = "any" THEN FailureOf(j) ELSE SuccessOf(j))
  /\ ~failed[j] => \A k \in 1..(c - 1) : Bad(j, ChecksAt(m)[k])
  /\ config.policy = "any" /\ ~failed[j] =>
       \A n \in 1..(m - 1) : \A k \in 1..Len(ChecksAt(n)) : Bad(j, ChecksAt(n)[k])
  /\ config.policy # "any" =>
       \A n \in 1..(m - 1) : \E k \in 1..Len(ChecksAt(n)) : Good(j, ChecksAt(n)[k])

\* An observation agrees with what is known of the image.
Earns(base, o) ==
  /\ o.status = "verified" => base.trusted
  /\ o.status \in {"unsigned", "untrusted"} => ~base.maybe \/ base.failed
  /\ o.signers \subseteq base.signers

ImageInv(j) ==
  /\ stage[j] \in {"none", "queued", "resolved", "checking", "backoff", "done"}
  /\ stage[j] \in {"none", "queued", "resolved"} =>
       mode[j] = 1 /\ check[j] = 1 /\ inMode[j] = <<>> /\ byMode[j] = <<>>
  /\ stage[j] = "checking" => CheckingAt(j, mode[j], check[j], inMode[j], byMode[j])
  /\ stage[j] = "done" => Earns(basis[j], result[j])

\* A map by image.
Maps(f) == f = [j \in Images |-> f[j]]

TrustTypes ==
  /\ config \in Configs
  /\ Maps(stage) /\ Maps(mode) /\ Maps(check) /\ Maps(inMode) /\ Maps(byMode)
  /\ Maps(result) /\ Maps(basis) /\ Maps(truth)
  /\ failed \in [Images -> BOOLEAN]

PhaseInv ==
  /\ phase \in {"load", "discover"} => \A j \in Images : stage[j] = "none"
  /\ phase \in {"resolve", "verify"} => images = {p.image : p \in discovered}
  /\ \A j \in Images : stage[j] # "none" => j \in images
  /\ phase = "written" => \A j \in Images : stage[j] \in {"none", "done"}

TrustInv ==
  TrustTypes /\ PhaseInv /\ (\A j \in Images : ImageInv(j)) /\ SuppressedForAReason

\* The modes are those of the configuration, in some order, and each has checks.
LEMMA ModesOfConfig ==
  ASSUME TrustAssumption, config \in Configs
  PROVE  /\ Modes \in Seq(Resolved(config)) /\ Len(Modes) \in Nat \ {0}
         /\ \A m \in Resolved(config) : \E n \in 1..Len(Modes) : Modes[n] = m
         /\ \A n \in 1..Len(Modes) : /\ Modes[n] \in Resolved(config)
                                          /\ DOMAIN ChecksAt(n) = 1..Len(ChecksAt(n))
                                          /\ Len(ChecksAt(n)) \in Nat \ {0}
<1> DEFINE R == Resolved(config)
           all == Modes
           also(m, signed) == IF (config.attestations \/ config.types)
                                 /\ signed \in Range(config.modes) /\ m \notin Range(config.modes)
                              THEN <<m>> ELSE <<>>
<1>2. config.modes \in Seq(AllModes) /\ config.modes # <<>>
  BY DEF TrustAssumption
<1>3. /\ also("attestation-keyless", "keyless") \in Seq(AllModes)
      /\ also("attestation-key", "key") \in Seq(AllModes)
  <2>1. <<>> \in Seq(AllModes) /\ \A m \in AllModes : <<m>> \in Seq(AllModes)
    OBVIOUS
  <2>2. \A m, signed : also(m, signed) = <<m>> \/ also(m, signed) = <<>>
    BY Zenon
  <2>3. "attestation-keyless" \in AllModes /\ "attestation-key" \in AllModes
    BY DEF AllModes
  <2> HIDE DEF also
  <2>4. QED
    BY <2>1, <2>2, <2>3
<1>4. all = config.modes \o also("attestation-keyless", "keyless") \o also("attestation-key", "key")
  BY DEF Modes, ResolveVerificationModes
<1>5. R = Range(all)
  BY DEF Resolved, Modes
<1> HIDE DEF also, R, all
<1>6. all \in Seq(AllModes) /\ Len(all) >= Len(config.modes)
  BY <1>2, <1>3, <1>4
<1>7. Len(config.modes) > 0
  BY <1>2
<1>8. DOMAIN all = 1..Len(all)
  BY <1>6
<1>9. Modes = all
  BY DEF all
<1>10. R = {all[n] : n \in 1..Len(all)}
  BY <1>5, <1>8 DEF Range
<1>11. Len(all) \in Nat \ {0}
  BY <1>2, <1>6, <1>7
<1>known. R \subseteq {"keyless", "key", "attestation-keyless", "attestation-key"} /\ all \in Seq(R)
  <2>1. \A n \in 1..Len(all) : all[n] \in AllModes /\ all[n] \in R
    BY <1>6, <1>10
  <2>2. all \in [1..Len(all) -> R]
    BY <1>6, <1>8, <2>1
  <2>3. QED
    BY <1>6, <1>10, <1>11, <2>1, <2>2 DEF AllModes
<1>12. \A m \in {"keyless", "key", "attestation-keyless", "attestation-key"} :
         /\ DOMAIN ChecksOf[m] = 1..Len(ChecksOf[m])
         /\ Len(ChecksOf[m]) \in Nat \ {0}
  <2>2. /\ ChecksOf["keyless"] = <<"identity">>
        /\ ChecksOf["key"] = <<"key1", "key2">>
        /\ ChecksOf["attestation-keyless"] = <<"attestedIdentity">>
        /\ ChecksOf["attestation-key"] = <<"attestedKey">>
    BY DEF ChecksOf, AllModes
  <2>3. /\ \A c \in STRING : DOMAIN <<c>> = 1..Len(<<c>>) /\ Len(<<c>>) = 1
        /\ \A c, d \in STRING : DOMAIN <<c, d>> = 1..Len(<<c, d>>) /\ Len(<<c, d>>) = 2
    OBVIOUS
  <2>4. QED
    BY <2>2, <2>3
<1>13. \A n \in 1..Len(all) : all[n] \in R
  BY <1>10
<1>14. \A n \in 1..Len(all) : DOMAIN ChecksAt(n) = 1..Len(ChecksAt(n)) /\ Len(ChecksAt(n)) \in Nat \ {0}
  BY <1>known, <1>9, <1>12, <1>13 DEF ChecksAt
<1>15. QED
  BY <1>known, <1>9, <1>10, <1>11, <1>13, <1>14 DEF R

\* mergeObservations gives one of the attempts.
LEMMA MergedIsAttempt ==
  ASSUME NEW S, \A o \in S : o.status \in Failing, NEW attempts \in Seq(S), Len(attempts) > 0
  PROVE  mergeObservations(attempts) \in S
<1> DEFINE D == DOMAIN attempts
           p(n) == Priority[attempts[n].status]
           First(n) == \A m \in D : p(n) < p(m) \/ (p(n) = p(m) /\ n <= m)
<1>1. D = 1..Len(attempts) /\ Len(attempts) \in Nat /\ 1 \in D
  OBVIOUS
<1>2. \A n \in D : attempts[n] \in S /\ p(n) \in Nat
  <2>1. \A s \in Failing : Priority[s] \in Nat
    BY DEF Failing, Priority
  <2>2. \A n \in D : attempts[n] \in S
    BY <1>1
  <2>3. QED
    BY <2>1, <2>2
<1> HIDE DEF p, D
<1>3. PICK r \in {p(n) : n \in D} : \A q \in {p(n) : n \in D} : r <= q
  <2>1. {p(n) : n \in D} \in SUBSET Nat /\ {p(n) : n \in D} # {}
    BY <1>1, <1>2
  <2>2. QED
    BY <2>1, LeastElement
<1>4. PICK n \in {m \in D : p(m) = r} : \A m \in {x \in D : p(x) = r} : n <= m
  <2>1. {m \in D : p(m) = r} \in SUBSET Nat /\ {m \in D : p(m) = r} # {}
    BY <1>1, <1>3
  <2>2. QED
    BY <2>1, LeastElement
<1>5. First(n)
  <2> SUFFICES ASSUME NEW m \in D PROVE p(n) < p(m) \/ (p(n) = p(m) /\ n <= m)
    OBVIOUS
  <2>1. p(n) = r /\ p(n) \in Nat /\ p(m) \in Nat /\ r <= p(m)
    BY <1>2, <1>3, <1>4
  <2>2. p(m) = r => n <= m
    BY <1>4
  <2>3. QED
    BY <2>1, <2>2
<1>6. n \in D
  BY <1>4
<1> HIDE DEF First
<1>7. (CHOOSE x \in D : First(x)) \in D
  BY <1>5, <1>6
<1>8. mergeObservations(attempts) = attempts[CHOOSE x \in D : First(x)]
  BY DEF mergeObservations, First, p, D
<1>9. QED
  BY <1>2, <1>7, <1>8

\* What is known of an image when its goroutine ends.
LEMMA BasisOfImage ==
  ASSUME TrustAssumption, config \in Configs, NEW j
  PROVE  /\ config.policy = "any" =>
              \A n \in 1..Len(Modes) : \A k \in 1..Len(ChecksAt(n)) :
                Good(j, ChecksAt(n)[k]) => Basis(j).trusted
         /\ config.policy # "any" /\ (\A n \in 1..Len(Modes) :
                \E k \in 1..Len(ChecksAt(n)) : Good(j, ChecksAt(n)[k])) => Basis(j).trusted
         /\ config.policy = "any" /\ (\A n \in 1..Len(Modes) :
                \A k \in 1..Len(ChecksAt(n)) : Bad(j, ChecksAt(n)[k])) => ~Basis(j).maybe
         /\ config.policy # "any" =>
              \A n \in 1..Len(Modes) :
                (\A k \in 1..Len(ChecksAt(n)) : Bad(j, ChecksAt(n)[k])) => ~Basis(j).maybe
         /\ failed[j] => Basis(j).failed
         /\ Basis(j).signers = Signed(j)
<1> DEFINE R == Resolved(config)
           C(m) == Range(ChecksOf[m])
           May(c) == c \in DOMAIN truth[j] => truth[j][c] = "good"
<1>1. Basis(j).trusted <=>
        IF config.policy = "any" THEN \E m \in R : \E c \in C(m) : Good(j, c)
                                 ELSE \A m \in R : \E c \in C(m) : Good(j, c)
  BY DEF Basis, Trusted, passes, Good
<1>2. Basis(j).maybe <=>
        IF config.policy = "any" THEN \E m \in R : \E c \in C(m) : May(c)
                                 ELSE \A m \in R : \E c \in C(m) : May(c)
  BY DEF Basis, Trusted, mayPass
<1>3. (failed[j] => Basis(j).failed) /\ Basis(j).signers = Signed(j)
  BY DEF Basis, Signed
<1>4. /\ \A m \in R : \E n \in 1..Len(Modes) : Modes[n] = m
      /\ \A n \in 1..Len(Modes) : Modes[n] \in R
      /\ \A n \in 1..Len(Modes) : DOMAIN ChecksAt(n) = 1..Len(ChecksAt(n))
  BY ModesOfConfig
<1>5. \A n \in 1..Len(Modes) :
        C(Modes[n]) = {ChecksAt(n)[k] : k \in 1..Len(ChecksAt(n))}
  BY <1>4 DEF Range, ChecksAt
<1>6. \A c : Bad(j, c) => ~May(c)
  BY DEF Bad
<1> HIDE DEF R, C, May
<1>7. /\ \A n \in 1..Len(Modes) : \A k \in 1..Len(ChecksAt(n)) :
           ChecksAt(n)[k] \in C(Modes[n])
      /\ \A n \in 1..Len(Modes) : \A c \in C(Modes[n]) :
           \E k \in 1..Len(ChecksAt(n)) : ChecksAt(n)[k] = c
  BY <1>5
<1>8. ASSUME config.policy = "any", NEW n \in 1..Len(Modes), NEW k \in 1..Len(ChecksAt(n)),
             Good(j, ChecksAt(n)[k])
      PROVE  Basis(j).trusted
  BY <1>1, <1>4, <1>7, <1>8
<1>9. ASSUME config.policy # "any",
             \A n \in 1..Len(Modes) : \E k \in 1..Len(ChecksAt(n)) : Good(j, ChecksAt(n)[k])
      PROVE  Basis(j).trusted
  <2>1. ASSUME NEW m \in R PROVE \E c \in C(m) : Good(j, c)
    <3>1. PICK n \in 1..Len(Modes) : Modes[n] = m
      BY <1>4
    <3>2. QED
      BY <1>7, <1>9, <3>1
  <2>2. QED
    BY <1>1, <1>9, <2>1
<1>10. ASSUME config.policy = "any",
              \A n \in 1..Len(Modes) : \A k \in 1..Len(ChecksAt(n)) : Bad(j, ChecksAt(n)[k])
       PROVE  ~Basis(j).maybe
  <2>1. ASSUME NEW m \in R, NEW c \in C(m) PROVE ~May(c)
    <3>1. PICK n \in 1..Len(Modes) : Modes[n] = m
      BY <1>4
    <3>2. PICK k \in 1..Len(ChecksAt(n)) : ChecksAt(n)[k] = c
      BY <1>7, <3>1
    <3>3. QED
      BY <1>6, <1>10, <3>2
  <2>2. QED
    BY <1>2, <1>10, <2>1
<1>11. ASSUME config.policy # "any", NEW n \in 1..Len(Modes),
              \A k \in 1..Len(ChecksAt(n)) : Bad(j, ChecksAt(n)[k])
       PROVE  ~Basis(j).maybe
  <2>1. ASSUME NEW c \in C(Modes[n]) PROVE ~May(c)
    <3>1. PICK k \in 1..Len(ChecksAt(n)) : ChecksAt(n)[k] = c
      BY <1>7
    <3>2. QED
      BY <1>6, <1>11, <3>1
  <2>2. Modes[n] \in R
    BY <1>4
  <2>3. QED
    BY <1>2, <1>11, <2>1, <2>2
<1>12. QED
  BY <1>3, <1>8, <1>9, <1>10, <1>11

\* What a step of the goroutine comes to: the image is done, waits for another attempt, or
\* goes on to another check.
Outcome(i) ==
  \/ \E o : /\ Finish(i, o) /\ basis' = [basis EXCEPT ![i] = Basis(i)]
            /\ Earns(Basis(i), o)
  \/ /\ stage' = [stage EXCEPT ![i] = "backoff"]
     /\ UNCHANGED <<mode, check, inMode, byMode, tries, expired, truth, failed, result, basis>>
  \/ \E m, c, attempts, earlier :
       Goto(i, m, c, attempts, earlier) /\ CheckingAt(i, m, c, attempts, earlier)

\* VerifyWithRetries ends with what it was told, or tries again.
LEMMA AfterTryEarns ==
  ASSUME NEW i, NEW o, AfterTry(i, o), Earns(Basis(i), o)
  PROVE  Outcome(i)
BY DEF AfterTry, Outcome

\* A verifier has answered with a success, one of its checks being good, or with a failure,
\* in which case all of them are bad unless a call failed.
LEMMA AfterModeEarns ==
  ASSUME TrustAssumption, config \in Configs, NEW i, failed[i] \in BOOLEAN,
         CheckingAt(i, mode[i], check[i], inMode[i], byMode[i]), NEW o, AfterMode(i, o),
         \/ o \in SuccessOf(i) /\ \E k \in 1..Len(ChecksAt(mode[i])) : Good(i, ChecksAt(mode[i])[k])
         \/ /\ o \in FailureOf(i)
            /\ ~failed[i] => \A k \in 1..Len(ChecksAt(mode[i])) : Bad(i, ChecksAt(mode[i])[k])
  PROVE  Outcome(i)
<1> DEFINE attempts == Append(byMode[i], o)
           last == mode[i] = Len(Modes)
           AllBad(n) == \A k \in 1..Len(ChecksAt(n)) : Bad(i, ChecksAt(n)[k])
           SomeGood(n) == \E k \in 1..Len(ChecksAt(n)) : Good(i, ChecksAt(n)[k])
<1>1. /\ Len(Modes) \in Nat /\ mode[i] \in 1..Len(Modes)
      /\ \A n \in 1..Len(Modes) : Len(ChecksAt(n)) \in Nat \ {0}
  BY ModesOfConfig DEF CheckingAt
<1>2. /\ failed[i] => Basis(i).failed
      /\ Basis(i).signers = Signed(i)
  BY BasisOfImage
<1>3. CASE config.policy = "any" /\ o.status = "verified"
  <2>1. AfterTry(i, o)
    BY <1>3 DEF AfterMode
  <2>2. o \in SuccessOf(i) /\ SomeGood(mode[i])
    BY <1>3 DEF FailureOf, Failing
  <2>3. Basis(i).trusted
    BY <1>1, <1>3, <2>2, BasisOfImage
  <2>4. Earns(Basis(i), o)
    BY <1>2, <2>2, <2>3 DEF Earns, SuccessOf
  <2>5. QED
    BY <2>1, <2>4, AfterTryEarns
<1>4. CASE config.policy = "any" /\ o.status # "verified"
  <2>1. o \in FailureOf(i) /\ (~failed[i] => AllBad(mode[i]))
    BY <1>4 DEF SuccessOf
  <2>2. byMode[i] \in Seq(FailureOf(i))
    BY <1>4 DEF CheckingAt
  <2>3. attempts \in Seq(FailureOf(i)) /\ Len(attempts) > 0
    BY <2>1, <2>2
  <2>4. ~failed[i] => \A n \in 1..(mode[i] - 1) : AllBad(n)
    BY <1>4 DEF CheckingAt
  <2>5. ~failed[i] => \A n \in 1..mode[i] : AllBad(n)
    <3>1. \A n \in 1..mode[i] : n = mode[i] \/ n \in 1..(mode[i] - 1)
      BY <1>1
    <3>2. QED
      BY <2>1, <2>4, <3>1
  <2>6. CASE ~last
    <3>1. Goto(i, mode[i] + 1, 1, <<>>, attempts)
      BY <1>4, <2>6 DEF AfterMode
    <3>2. mode[i] + 1 \in 1..Len(Modes) /\ (mode[i] + 1) - 1 = mode[i]
      <4>1. \A l \in Nat : \A x \in 1..l : x # l => x + 1 \in 1..l /\ (x + 1) - 1 = x
        OBVIOUS
      <4>2. QED
        BY <1>1, <2>6, <4>1
    <3>3. 1 \in 1..Len(ChecksAt(mode[i] + 1)) /\ 1..(1 - 1) = {}
      BY <1>1, <3>2
    <3>4. CheckingAt(i, mode[i] + 1, 1, <<>>, attempts)
      BY <1>4, <2>3, <2>5, <3>2, <3>3 DEF CheckingAt
    <3>5. QED
      BY <3>1, <3>4 DEF Outcome
  <2>7. CASE last
    <3>1. AfterTry(i, mergeObservations(attempts))
      BY <1>4, <2>7 DEF AfterMode
    <3>2. \A f \in FailureOf(i) : f.status \in Failing
      BY DEF FailureOf
    <3> HIDE DEF attempts
    <3>3. PICK merged : merged = mergeObservations(attempts)
      OBVIOUS
    <3>4. merged \in FailureOf(i)
      BY <2>3, <3>2, <3>3, MergedIsAttempt
    <3>5. ~failed[i] => ~Basis(i).maybe
      BY <1>4, <2>5, <2>7, BasisOfImage
    <3>6. Earns(Basis(i), merged)
      BY <1>2, <3>4, <3>5 DEF Earns, FailureOf, Failing
    <3>7. QED
      BY <3>1, <3>3, <3>6, AfterTryEarns
  <2>8. QED
    BY <2>6, <2>7
<1>5. CASE config.policy # "any" /\ o.status # "verified"
  <2>1. AfterTry(i, o)
    BY <1>5 DEF AfterMode
  <2>2. o \in FailureOf(i) /\ (~failed[i] => AllBad(mode[i]))
    BY <1>5 DEF SuccessOf
  <2>3. ~failed[i] => ~Basis(i).maybe
    BY <1>1, <1>5, <2>2, BasisOfImage
  <2>4. Earns(Basis(i), o)
    BY <1>2, <2>2, <2>3 DEF Earns, FailureOf, Failing
  <2>5. QED
    BY <2>1, <2>4, AfterTryEarns
<1>6. CASE config.policy # "any" /\ o.status = "verified"
  <2>1. o \in SuccessOf(i) /\ SomeGood(mode[i])
    BY <1>6 DEF FailureOf, Failing
  <2>2. byMode[i] \in Seq(SuccessOf(i))
    BY <1>6 DEF CheckingAt
  <2>3. attempts \in Seq(SuccessOf(i))
    BY <2>1, <2>2
  <2>4. \A n \in 1..mode[i] : SomeGood(n)
    <3>1. \A n \in 1..mode[i] : n = mode[i] \/ n \in 1..(mode[i] - 1)
      BY <1>1
    <3>2. \A n \in 1..(mode[i] - 1) : SomeGood(n)
      BY <1>6 DEF CheckingAt
    <3>3. QED
      BY <2>1, <3>1, <3>2
  <2>5. CASE ~last
    <3>1. Goto(i, mode[i] + 1, 1, <<>>, attempts)
      BY <1>6, <2>5 DEF AfterMode
    <3>2. mode[i] + 1 \in 1..Len(Modes) /\ (mode[i] + 1) - 1 = mode[i]
      BY <1>1, <2>5
    <3>3. 1 \in 1..Len(ChecksAt(mode[i] + 1)) /\ 1..(1 - 1) = {}
      BY <1>1, <3>2
    <3>4. CheckingAt(i, mode[i] + 1, 1, <<>>, attempts)
      BY <1>6, <2>3, <2>4, <3>2, <3>3 DEF CheckingAt
    <3>5. QED
      BY <3>1, <3>4 DEF Outcome
  <2>6. CASE last
    <3>1. AfterTry(i, mergeVerified(attempts))
      BY <1>6, <2>6 DEF AfterMode
    <3>2. Basis(i).trusted
      BY <1>6, <2>4, <2>6, BasisOfImage
    <3> HIDE DEF attempts
    <3>3. ASSUME NEW f \in Range(attempts) PROVE f.signers \subseteq Signed(i)
      <4>1. PICK x \in DOMAIN attempts : f = attempts[x]
        BY <3>3 DEF Range
      <4>2. f \in SuccessOf(i)
        BY <2>3, <4>1
      <4>3. QED
        BY <4>2 DEF SuccessOf
    <3>4. /\ mergeVerified(attempts).status = "verified"
          /\ mergeVerified(attempts).signers \subseteq Signed(i)
      BY <3>3 DEF mergeVerified, Observation
    <3>5. Earns(Basis(i), mergeVerified(attempts))
      BY <1>2, <3>2, <3>4 DEF Earns
    <3>6. QED
      BY <3>1, <3>5, AfterTryEarns
  <2>7. QED
    BY <2>5, <2>6
<1>7. QED
  BY <1>3, <1>4, <1>5, <1>6

\* The same of one check of the verifier.
LEMMA AfterCheckEarns ==
  ASSUME TrustAssumption, config \in Configs, NEW i, failed[i] \in BOOLEAN,
         CheckingAt(i, mode[i], check[i], inMode[i], byMode[i]), NEW o, AfterCheck(i, o),
         \/ o \in SuccessOf(i) /\ Good(i, Current(i))
         \/ o \in FailureOf(i) /\ (~failed[i] => Bad(i, Current(i)))
  PROVE  Outcome(i)
<1> DEFINE attempts == Append(inMode[i], o)
           last == check[i] = Len(ChecksOf[Modes[mode[i]]])
<1>1. /\ mode[i] \in 1..Len(Modes) /\ check[i] \in 1..Len(ChecksAt(mode[i]))
      /\ Len(ChecksAt(mode[i])) \in Nat \ {0} /\ check[i] \in Nat
  <2>1. mode[i] \in 1..Len(Modes) /\ check[i] \in 1..Len(ChecksAt(mode[i]))
    BY DEF CheckingAt
  <2>2. Len(ChecksAt(mode[i])) \in Nat \ {0}
    BY <2>1, ModesOfConfig
  <2>3. QED
    BY <2>1, <2>2
<1>2. Current(i) = ChecksAt(mode[i])[check[i]]
  BY DEF Current, ChecksAt
<1>3. CASE o.status = "verified"
  <2>1. AfterMode(i, o)
    BY <1>3 DEF AfterCheck
  <2>2. o \in SuccessOf(i) /\ Good(i, Current(i))
    BY <1>3 DEF FailureOf, Failing
  <2>3. QED
    BY <1>1, <1>2, <2>1, <2>2, AfterModeEarns
<1>4. CASE o.status # "verified"
  <2>1. o \in FailureOf(i) /\ (~failed[i] => Bad(i, ChecksAt(mode[i])[check[i]]))
    BY <1>2, <1>4 DEF SuccessOf
  <2>2. inMode[i] \in Seq(FailureOf(i))
    BY DEF CheckingAt
  <2>3. attempts \in Seq(FailureOf(i)) /\ Len(attempts) > 0
    BY <2>1, <2>2
  <2>4. ~failed[i] => \A k \in 1..check[i] : Bad(i, ChecksAt(mode[i])[k])
    <3>1. \A k \in 1..check[i] : k = check[i] \/ k \in 1..(check[i] - 1)
      BY <1>1
    <3>2. ~failed[i] => \A k \in 1..(check[i] - 1) : Bad(i, ChecksAt(mode[i])[k])
      BY DEF CheckingAt
    <3>3. QED
      BY <2>1, <3>1, <3>2
  <2>5. CASE ~last
    <3>1. Goto(i, mode[i], check[i] + 1, attempts, byMode[i])
      BY <1>4, <2>5 DEF AfterCheck
    <3>2. check[i] + 1 \in 1..Len(ChecksAt(mode[i])) /\ (check[i] + 1) - 1 = check[i]
      BY <1>1, <2>5 DEF ChecksAt
    <3>3. CheckingAt(i, mode[i], check[i] + 1, attempts, byMode[i])
      BY <2>3, <2>4, <3>2 DEF CheckingAt
    <3>4. QED
      BY <3>1, <3>3 DEF Outcome
  <2>6. CASE last
    <3>1. AfterMode(i, mergeObservations(attempts))
      BY <1>4, <2>6 DEF AfterCheck
    <3>2. \A f \in FailureOf(i) : f.status \in Failing
      BY DEF FailureOf
    <3> HIDE DEF attempts
    <3>3. PICK merged : merged = mergeObservations(attempts)
      OBVIOUS
    <3>4. merged \in FailureOf(i)
      BY <2>3, <3>2, <3>3, MergedIsAttempt
    <3>5. ~failed[i] => \A k \in 1..Len(ChecksAt(mode[i])) : Bad(i, ChecksAt(mode[i])[k])
      BY <2>4, <2>6 DEF ChecksAt
    <3>6. AfterMode(i, merged)
      BY <3>1, <3>3
    <3>7. QED
      BY <3>4, <3>5, <3>6, AfterModeEarns
  <2>7. QED
    BY <2>5, <2>6
<1>5. QED
  BY <1>3, <1>4

\* The configuration decides the modes and their checks.
LEMMA ModesStay ==
  ASSUME config' = config
  PROVE  Modes' = Modes /\ \A n : ChecksAt(n)' = ChecksAt(n)
BY DEF Modes, ResolveVerificationModes, ChecksOf, ChecksAt, AllModes, Range

\* What the images were asked is only added to, and a failed call remains one.
Grows(j) ==
  /\ \A x \in DOMAIN truth[j] : x \in DOMAIN truth'[j] /\ truth'[j][x] = truth[j][x]
  /\ failed[j] => failed'[j]

\* An attempt remains right while more is asked or a call fails.
LEMMA CheckingStays ==
  ASSUME config' = config, NEW j, NEW m, NEW c, NEW attempts, NEW earlier,
         CheckingAt(j, m, c, attempts, earlier), Grows(j)
  PROVE  CheckingAt(j, m, c, attempts, earlier)'
<1>1. Modes' = Modes /\ \A n : ChecksAt(n)' = ChecksAt(n)
  BY ModesStay
<1>2. \A x : (Good(j, x) => Good(j, x)') /\ (Bad(j, x) => Bad(j, x)')
  BY DEF Grows, Good, Bad
<1>3. Signed(j) \subseteq Signed(j)'
  BY DEF Grows, Signed
<1>4. FailureOf(j) \subseteq FailureOf(j)' /\ SuccessOf(j) \subseteq SuccessOf(j)'
  BY <1>3 DEF FailureOf, SuccessOf, Failing
<1>5. attempts \in Seq(FailureOf(j)')
  BY <1>4 DEF CheckingAt
<1>6. earlier \in Seq(IF config.policy = "any" THEN FailureOf(j)' ELSE SuccessOf(j)')
  BY <1>4 DEF CheckingAt
<1>7. ~failed'[j] => ~failed[j]
  BY DEF Grows
<1>8. QED
  BY <1>1, <1>2, <1>5, <1>6, <1>7 DEF CheckingAt

\* An attempt begins with the first check of the first mode.
LEMMA CheckingStarts ==
  ASSUME TrustAssumption, config \in Configs, config' = config, NEW j
  PROVE  CheckingAt(j, 1, 1, <<>>, <<>>)'
<1>1. Modes' = Modes /\ \A n : ChecksAt(n)' = ChecksAt(n)
  BY ModesStay
<1>2. Len(Modes) \in Nat \ {0} /\ \A n \in 1..Len(Modes) : Len(ChecksAt(n)) \in Nat \ {0}
  BY ModesOfConfig
<1>3. 1 \in 1..Len(Modes) /\ 1 \in 1..Len(ChecksAt(1)) /\ 1..(1 - 1) = {}
  BY <1>2
<1>4. QED
  BY <1>1, <1>3 DEF CheckingAt

\* The state of an image that the invariant is about stays.
Rests(j) ==
  /\ stage'[j] = stage[j] /\ mode'[j] = mode[j] /\ check'[j] = check[j]
  /\ inMode'[j] = inMode[j] /\ byMode'[j] = byMode[j]
  /\ result'[j] = result[j] /\ basis'[j] = basis[j]

\* The invariant of an image that rests is kept.
LEMMA ImageFrame ==
  ASSUME config' = config, NEW j, ImageInv(j), Rests(j), Grows(j)
  PROVE  ImageInv(j)'
<1>1. ASSUME stage'[j] = "checking"
      PROVE  CheckingAt(j, mode[j], check[j], inMode[j], byMode[j])'
  <2>1. PICK m, c, attempts, earlier : /\ m = mode[j] /\ c = check[j]
                                       /\ attempts = inMode[j] /\ earlier = byMode[j]
    OBVIOUS
  <2>2. CheckingAt(j, m, c, attempts, earlier)
    BY <1>1, <2>1 DEF ImageInv, Rests
  <2>3. CheckingAt(j, m, c, attempts, earlier)'
    BY <2>2, CheckingStays
  <2>4. /\ m = mode'[j] /\ c = check'[j] /\ attempts = inMode'[j] /\ earlier = byMode'[j]
    BY <2>1 DEF Rests
  <2>5. QED
    BY <2>3, <2>4
<1>2. stage[j] = "done" => Earns(basis'[j], result'[j])
  BY DEF ImageInv, Rests
<1>3. QED
  BY <1>1, <1>2 DEF ImageInv, Rests, Earns

\* A step of the goroutine of an image.
StepOf(i) ==
  /\ phase' = phase /\ config' = config /\ images' = images /\ findings' = findings
  /\ stage[i] \notin {"none", "done"} /\ stage'[i] # "none"
  /\ \A j \in Images : j # i => Rests(j) /\ Grows(j)
  /\ TrustTypes' /\ ImageInv(i)'

\* Such a step keeps the invariant.
LEMMA StepKept ==
  ASSUME TrustInv, NEW i \in Images, StepOf(i)
  PROVE  TrustInv'
<1>1. \A j \in Images : ImageInv(j)'
  <2>1. ASSUME NEW j \in Images, j # i PROVE ImageInv(j)'
    BY <2>1, ImageFrame DEF TrustInv, StepOf
  <2>2. QED
    BY <2>1 DEF StepOf
<1>2. phase \notin {"load", "discover", "written"}
  BY DEF TrustInv, PhaseInv, StepOf
<1>3. \A j \in Images : stage'[j] # "none" => stage[j] # "none"
  BY DEF StepOf, Rests
<1>4. discovered' = discovered
  BY DEF discovered, listed
<1>5. PhaseInv'
  BY <1>2, <1>3, <1>4 DEF TrustInv, PhaseInv, StepOf
<1>6. SuppressedForAReason'
  BY <1>2 DEF StepOf, SuppressedForAReason
<1>7. QED
  BY <1>1, <1>5, <1>6 DEF TrustInv, StepOf

\* What a step with an outcome does to an image, and to the others.
LEMMA OutcomeIsStep ==
  ASSUME TrustInv, NEW i \in Images, Outcome(i), stage[i] = "checking",
         phase' = phase, config' = config, images' = images, findings' = findings
  PROVE  StepOf(i)
<1> USE DEF Maps
<1>1. TrustTypes
  BY DEF TrustInv
<1>2. ASSUME NEW o, Finish(i, o), basis' = [basis EXCEPT ![i] = Basis(i)],
             Earns(Basis(i), o)
      PROVE  StepOf(i)
  <2>1. TrustTypes'
    BY <1>1, <1>2 DEF TrustTypes, Finish
  <2>2. stage'[i] = "done" /\ result'[i] = o /\ basis'[i] = Basis(i)
    BY <1>1, <1>2 DEF TrustTypes, Finish
  <2>3. Earns(basis'[i], result'[i])
    BY <1>2, <2>2
  <2>4. ImageInv(i)'
    BY <2>2, <2>3 DEF ImageInv, Earns
  <2>5. \A j \in Images : j # i => Rests(j) /\ Grows(j)
    BY <1>1, <1>2 DEF TrustTypes, Finish, Rests, Grows
  <2>6. QED
    BY <2>1, <2>2, <2>4, <2>5 DEF StepOf
<1>3. CASE /\ stage' = [stage EXCEPT ![i] = "backoff"]
           /\ UNCHANGED <<mode, check, inMode, byMode, tries, expired, truth, failed, result,
                          basis>>
  <2>1. TrustTypes' /\ stage'[i] = "backoff"
    BY <1>1, <1>3 DEF TrustTypes
  <2>2. ImageInv(i)'
    BY <2>1 DEF ImageInv
  <2>3. \A j \in Images : j # i => Rests(j) /\ Grows(j)
    BY <1>1, <1>3 DEF TrustTypes, Rests, Grows
  <2>4. QED
    BY <2>1, <2>2, <2>3 DEF StepOf
<1>4. ASSUME NEW m, NEW c, NEW attempts, NEW earlier, Goto(i, m, c, attempts, earlier),
             CheckingAt(i, m, c, attempts, earlier)
      PROVE  StepOf(i)
  <2>1. TrustTypes' /\ UNCHANGED <<stage, truth, failed, result, basis>>
    BY <1>1, <1>4 DEF TrustTypes, Goto
  <2>2. mode'[i] = m /\ check'[i] = c /\ inMode'[i] = attempts /\ byMode'[i] = earlier
    BY <1>1, <1>4 DEF TrustTypes, Goto
  <2>3. CheckingAt(i, m, c, attempts, earlier)'
    BY <1>4, <2>1, CheckingStays DEF Grows
  <2>4. CheckingAt(i, mode[i], check[i], inMode[i], byMode[i])'
    BY <2>2, <2>3
  <2>5. ImageInv(i)'
    BY <2>1, <2>4 DEF ImageInv
  <2>6. \A j \in Images : j # i => Rests(j) /\ Grows(j)
    BY <1>1, <1>4 DEF TrustTypes, Goto, Rests, Grows
  <2>7. QED
    BY <2>1, <2>5, <2>6 DEF StepOf
<1>5. QED
  BY <1>2, <1>3, <1>4 DEF Outcome

\* What cosign answers is what is true of the check.
LEMMA ObserveIsTrue ==
  ASSUME NEW i, NEW c \in DOMAIN truth[i]
  PROVE  \/ observe(c, truth[i][c]) \in SuccessOf(i) /\ Good(i, c)
         \/ observe(c, truth[i][c]) \in FailureOf(i) /\ Bad(i, c)
<1> USE DEF observe, verifyKeyless, verifyWithKey, verifyType,
            verifyTypeWithKey, Observation, NoSignature, SuccessOf, FailureOf, Failing,
            Signed, Good, Bad
<1>1. CASE truth[i][c] = "good"
  BY <1>1
<1>2. CASE truth[i][c] = "untrusted"
  BY <1>2
<1>3. CASE truth[i][c] \notin {"good", "untrusted"}
  BY <1>3
<1>4. QED
  BY <1>1, <1>2, <1>3

\* An answer of cosign is passed on by the verifiers.
LEMMA AnswerKept ==
  ASSUME TrustAssumption, TrustInv, NEW i \in Images, Answer(i)
  PROVE  TrustInv'
<1>1. /\ stage[i] = "checking" /\ config \in Configs /\ failed[i] \in BOOLEAN
      /\ CheckingAt(i, mode[i], check[i], inMode[i], byMode[i])
  BY DEF TrustInv, TrustTypes, ImageInv, Answer, AtCheck
<1>2. PICK c, o : /\ c = Current(i) /\ c \in DOMAIN truth[i]
                  /\ o = observe(c, truth[i][c]) /\ AfterCheck(i, o)
  BY DEF Answer
<1>3. \/ o \in SuccessOf(i) /\ Good(i, Current(i))
      \/ o \in FailureOf(i) /\ (~failed[i] => Bad(i, Current(i)))
  BY <1>2, ObserveIsTrue
<1>4. Outcome(i)
  BY <1>1, <1>2, <1>3, AfterCheckEarns
<1>5. QED
  BY <1>1, <1>4, OutcomeIsStep, StepKept DEF Answer

\* A call that failed is a failure of its check.
LEMMA AnswerFailedKept ==
  ASSUME TrustAssumption, TrustInv, NEW i \in Images, AnswerFailed(i)
  PROVE  TrustInv'
<1>1. /\ stage[i] = "checking" /\ config \in Configs /\ failed[i] \in BOOLEAN
      /\ CheckingAt(i, mode[i], check[i], inMode[i], byMode[i])
  BY DEF TrustInv, TrustTypes, ImageInv, AnswerFailed, AtCheck
<1>2. PICK status \in {"error", "transient", "unsigned", "untrusted"} : AfterCheck(i, Observation(status, {}))
  BY DEF AnswerFailed, classifyCosignFailure
<1>3. PICK o : o = Observation(status, {})
  OBVIOUS
<1>4. /\ AfterCheck(i, o)
      /\ \/ o \in SuccessOf(i) /\ Good(i, Current(i))
         \/ o \in FailureOf(i) /\ (~failed[i] => Bad(i, Current(i)))
  <2>1. o \in FailureOf(i)
    BY <1>3 DEF Observation, FailureOf, Failing
  <2>2. QED
    BY <1>2, <1>3, <2>1 DEF AnswerFailed
<1>5. Outcome(i)
  BY <1>1, <1>4, AfterCheckEarns
<1>6. QED
  BY <1>1, <1>5, OutcomeIsStep, StepKept DEF AnswerFailed

\* More is asked of an image, or a call fails.
LEMMA NotesKept ==
  ASSUME TrustInv, NEW i \in Images,
         Decide(i) \/ CallFails(i) \/ Timeout(i)
  PROVE  TrustInv'
<1> USE DEF Maps
<1>1. TrustTypes /\ ImageInv(i)
  BY DEF TrustInv
<1>2. /\ stage[i] \in {"checking", "backoff"}
      /\ UNCHANGED <<phase, config, images, stage, mode, check, inMode, byMode, result,
                     findings, basis>>
  BY DEF Decide, CallFails, Timeout, AtCheck
<1>3. \A j \in Images : Grows(j)
  <2>1. CASE Decide(i)
    BY <1>1, <2>1 DEF Decide, TrustTypes, Grows
  <2>2. CASE CallFails(i) \/ Timeout(i)
    BY <1>1, <2>2 DEF CallFails, Timeout, TrustTypes, Grows
  <2>3. QED
    BY <2>1, <2>2
<1>4. TrustTypes'
  <2>1. CASE Decide(i)
    <3>1. Maps(truth)' /\ failed' = failed
      BY <1>1, <2>1 DEF Decide, TrustTypes
    <3>2. QED
      BY <1>1, <1>2, <3>1 DEF TrustTypes
  <2>2. CASE CallFails(i) \/ Timeout(i)
    <3>1. failed' \in [Images -> BOOLEAN] /\ truth' = truth
      BY <1>1, <2>2 DEF CallFails, Timeout, TrustTypes
    <3>2. QED
      BY <1>1, <1>2, <3>1 DEF TrustTypes
  <2>3. QED
    BY <2>1, <2>2
<1>5. \A j \in Images : Rests(j)
  BY <1>2 DEF Rests
<1>6. ImageInv(i)'
  BY <1>1, <1>2, <1>3, <1>5, ImageFrame
<1>7. StepOf(i)
  BY <1>2, <1>3, <1>4, <1>5, <1>6 DEF StepOf
<1>8. QED
  BY <1>7, StepKept

\* The digest is looked up.
LEMMA EnrichKept ==
  ASSUME TrustInv, NEW i \in Images, EnrichDigest(i)
  PROVE  TrustInv'
<1> USE DEF Maps
<1>1. TrustTypes /\ ImageInv(i)
  BY DEF TrustInv
<1>2. /\ stage[i] = "queued" /\ stage' = [stage EXCEPT ![i] = "resolved"]
      /\ UNCHANGED <<phase, config, images, mode, check, inMode, byMode, result, findings,
                     basis, truth, failed>>
  BY DEF EnrichDigest
<1>3. TrustTypes' /\ stage'[i] = "resolved"
  BY <1>1, <1>2 DEF TrustTypes
<1>4. ImageInv(i)'
  BY <1>1, <1>2, <1>3 DEF ImageInv
<1>5. \A j \in Images : j # i => Rests(j) /\ Grows(j)
  BY <1>1, <1>2 DEF TrustTypes, Rests, Grows
<1>6. StepOf(i)
  BY <1>2, <1>3, <1>4, <1>5 DEF StepOf
<1>7. QED
  BY <1>6, StepKept

\* The goroutine of an image begins, or ends without a call of cosign.
LEMMA StartOrStop ==
  ASSUME TrustAssumption, TrustInv, NEW i \in Images, Preflight(i) \/ Backoff(i)
  PROVE  TrustInv'
<1> USE DEF Maps
<1>1. TrustTypes /\ ImageInv(i) /\ config \in Configs
  BY DEF TrustInv, TrustTypes
<1>2. /\ stage[i] \in {"resolved", "backoff"}
      /\ UNCHANGED <<phase, config, images, findings>>
  BY DEF Preflight, Backoff
<1>3. \/ \E status \in {"error", "unknown"} :
           /\ Finish(i, Observation(status, {}))
           /\ basis' = [basis EXCEPT ![i] = Basis(i)]
      \/ /\ stage' = [stage EXCEPT ![i] = "checking"]
         /\ mode' = [mode EXCEPT ![i] = 1] /\ check' = [check EXCEPT ![i] = 1]
         /\ inMode' = [inMode EXCEPT ![i] = <<>>] /\ byMode' = [byMode EXCEPT ![i] = <<>>]
         /\ failed' = failed \/ failed' = [failed EXCEPT ![i] = FALSE]
         /\ UNCHANGED <<truth, result, basis>>
  <2>1. CASE Preflight(i)
    <3>1. stage[i] = "resolved"
      BY <2>1 DEF Preflight
    <3>2. mode[i] = 1 /\ check[i] = 1 /\ inMode[i] = <<>> /\ byMode[i] = <<>>
      BY <1>1, <3>1 DEF ImageInv
    <3>3. /\ mode = [mode EXCEPT ![i] = 1] /\ check = [check EXCEPT ![i] = 1]
          /\ inMode = [inMode EXCEPT ![i] = <<>>] /\ byMode = [byMode EXCEPT ![i] = <<>>]
      BY <1>1, <3>2 DEF TrustTypes
    <3>4. QED
      BY <2>1, <3>3 DEF Preflight
  <2>2. CASE Backoff(i)
    BY <2>2 DEF Backoff
  <2>3. QED
    BY <2>1, <2>2
<1>4. ASSUME NEW status \in {"error", "unknown"}, Finish(i, Observation(status, {})),
             basis' = [basis EXCEPT ![i] = Basis(i)]
      PROVE  StepOf(i)
  <2>1. TrustTypes'
    BY <1>1, <1>2, <1>4 DEF TrustTypes, Finish
  <2>2. /\ stage'[i] = "done" /\ result'[i].status \in {"error", "unknown"}
        /\ result'[i].signers = {}
    BY <1>1, <1>4 DEF TrustTypes, Finish, Observation
  <2>3. ImageInv(i)'
    BY <2>2 DEF ImageInv, Earns
  <2>4. \A j \in Images : j # i => Rests(j) /\ Grows(j)
    BY <1>1, <1>4 DEF TrustTypes, Finish, Rests, Grows
  <2>5. QED
    BY <1>2, <2>1, <2>2, <2>3, <2>4 DEF StepOf
<1>5. ASSUME stage' = [stage EXCEPT ![i] = "checking"],
             mode' = [mode EXCEPT ![i] = 1], check' = [check EXCEPT ![i] = 1],
             inMode' = [inMode EXCEPT ![i] = <<>>], byMode' = [byMode EXCEPT ![i] = <<>>],
             failed' = failed \/ failed' = [failed EXCEPT ![i] = FALSE],
             UNCHANGED <<truth, result, basis>>
      PROVE  StepOf(i)
  <2>1. TrustTypes'
    BY <1>1, <1>2, <1>5 DEF TrustTypes
  <2>2. /\ stage'[i] = "checking" /\ mode'[i] = 1 /\ check'[i] = 1
        /\ inMode'[i] = <<>> /\ byMode'[i] = <<>>
    BY <1>1, <1>5 DEF TrustTypes
  <2>3. CheckingAt(i, 1, 1, <<>>, <<>>)'
    BY <1>1, <1>2, CheckingStarts
  <2>4. CheckingAt(i, mode[i], check[i], inMode[i], byMode[i])'
    BY <2>2, <2>3
  <2>5. ImageInv(i)'
    BY <2>2, <2>4 DEF ImageInv
  <2>6. \A j \in Images : j # i => Rests(j) /\ Grows(j)
    BY <1>1, <1>5 DEF TrustTypes, Rests, Grows
  <2>7. QED
    BY <1>2, <2>1, <2>2, <2>5, <2>6 DEF StepOf
<1>6. QED
  BY <1>3, <1>4, <1>5, StepKept

\* The job lists the images.
LEMMA ListKept ==
  ASSUME TrustAssumption, TrustInv, ListImages
  PROVE  TrustInv'
<1> USE DEF Maps
<1>1. TrustTypes /\ \A j \in Images : stage[j] = "none" /\ ImageInv(j)
  BY DEF TrustInv, PhaseInv, ListImages
<1>2. discovered' = discovered
  BY DEF discovered, listed
<1>3. /\ phase' = "resolve" /\ images' = {p.image : p \in discovered}
      /\ stage' = [j \in Images |-> IF j \in images' THEN "queued" ELSE "none"]
      /\ UNCHANGED <<config, mode, check, inMode, byMode, truth, failed, result, basis>>
  BY DEF ListImages
<1>4. TrustTypes'
  BY <1>1, <1>3 DEF TrustTypes
<1>5. \A j \in Images : ImageInv(j)'
  BY <1>1, <1>3 DEF ImageInv
<1>6. PhaseInv'
  BY <1>2, <1>3 DEF PhaseInv
<1>7. SuppressedForAReason'
  BY <1>3 DEF SuppressedForAReason
<1>8. QED
  BY <1>4, <1>5, <1>6, <1>7 DEF TrustInv

\* The job starts, refuses, or builds its verifiers.
LEMMA JobStepKept ==
  ASSUME TrustInv, LoadFromEnvironment \/ StartVerifying
  PROVE  TrustInv'
<1>1. /\ UNCHANGED <<config, images, stage, mode, check, inMode, byMode, truth, failed, result, basis>>
      /\ \/ phase = "load" /\ phase' \in {"discover", "refused"}
         \/ phase = "resolve" /\ phase' \in {"verify", "fatal"}
  BY DEF LoadFromEnvironment, StartVerifying, imageVars
<1>2. TrustTypes'
  BY <1>1 DEF TrustInv, TrustTypes, Maps
<1>3. \A j \in Images : ImageInv(j)'
  BY <1>1, ImageFrame DEF TrustInv, Rests, Grows
<1>4. discovered' = discovered
  BY DEF discovered, listed
<1>5. PhaseInv'
  BY <1>1, <1>4 DEF TrustInv, PhaseInv
<1>6. SuppressedForAReason'
  BY <1>1 DEF SuppressedForAReason
<1>7. QED
  BY <1>2, <1>3, <1>5, <1>6 DEF TrustInv

\* The report is built from the results of all images.
LEMMA BuildKept ==
  ASSUME TrustAssumption, TrustInv, Build
  PROVE  TrustInv'
<1>1. /\ UNCHANGED <<config, images, stage, mode, check, inMode, byMode, truth, failed, result, basis>>
      /\ phase = "verify" /\ phase' = "written"
      /\ \A j \in images : stage[j] = "done"
  BY DEF Build, imageVars
<1>2. TrustTypes'
  BY <1>1 DEF TrustInv, TrustTypes, Maps
<1>3. \A j \in Images : ImageInv(j)'
  BY <1>1, ImageFrame DEF TrustInv, Rests, Grows
<1>4. PhaseInv'
  BY <1>1 DEF TrustInv, PhaseInv
<1>5. ASSUME NEW p \in Pods, p.scope, <<p.owner, p.image>> \notin findings'
      PROVE  \/ basis[p.image].trusted \/ p.image \in ImageAllowlist
             \/ basis[p.image].signers \cap SignerAllowlist # {}
  <2>1. p \in discovered
    BY <1>5 DEF TrustAssumption, discovered, listed
  <2>2. p.image \in images /\ p.image \in Images
    BY <1>1, <2>1 DEF TrustInv, PhaseInv, TrustAssumption
  <2>3. Earns(basis[p.image], result[p.image])
    BY <1>1, <2>2 DEF TrustInv, ImageInv
  <2>4. Allowlisted(p.image) \/ result[p.image].status = "verified"
    BY <1>5, <2>1 DEF Build
  <2>5. QED
    BY <2>3, <2>4 DEF Earns, Allowlisted
<1>6. SuppressedForAReason'
  BY <1>1, <1>5 DEF SuppressedForAReason
<1>7. QED
  BY <1>2, <1>3, <1>4, <1>6 DEF TrustInv

\* The invariant of the job holds throughout.
LEMMA TrustInvHolds ==
  ASSUME TrustAssumption
  PROVE  Spec => []TrustInv
<1>1. Init => TrustInv
  <2> SUFFICES ASSUME Init PROVE TrustInv
    OBVIOUS
  <2>1. TrustTypes
    BY DEF Init, TrustTypes, Maps
  <2>2. \A j \in Images : ImageInv(j)
    BY DEF Init, ImageInv
  <2>3. PhaseInv /\ SuppressedForAReason
    BY DEF Init, PhaseInv, SuppressedForAReason
  <2>4. QED
    BY <2>1, <2>2, <2>3 DEF TrustInv
<1>2. TrustInv /\ [Next]_vars => TrustInv'
  <2> SUFFICES ASSUME TrustInv, [Next]_vars PROVE TrustInv'
    OBVIOUS
  <2>1. CASE UNCHANGED vars
    <3>1. UNCHANGED <<phase, config, images, stage, mode, check, inMode, byMode, truth, failed,
                      result, findings, basis>>
      BY <2>1 DEF vars, imageVars
    <3>2. TrustTypes'
      BY <3>1 DEF TrustInv, TrustTypes, Maps
    <3>3. \A j \in Images : ImageInv(j)'
      BY <3>1, ImageFrame DEF TrustInv, Rests, Grows
    <3>4. discovered' = discovered
      BY DEF discovered, listed
    <3>5. PhaseInv' /\ SuppressedForAReason'
      BY <3>1, <3>4 DEF TrustInv, PhaseInv, SuppressedForAReason
    <3>6. QED
      BY <3>2, <3>3, <3>5 DEF TrustInv
  <2>2. CASE LoadFromEnvironment \/ StartVerifying
    BY <2>2, JobStepKept
  <2>3. CASE ListImages
    BY <2>3, ListKept
  <2>4. CASE Build
    BY <2>4, BuildKept
  <2>5. ASSUME NEW i \in Images, EnrichDigest(i)
        PROVE  TrustInv'
    BY <2>5, EnrichKept
  <2>6. ASSUME NEW i \in Images, Preflight(i) \/ Backoff(i)
        PROVE  TrustInv'
    BY <2>6, StartOrStop
  <2>7. ASSUME NEW i \in Images, Decide(i) \/ CallFails(i) \/ Timeout(i)
        PROVE  TrustInv'
    BY <2>7, NotesKept
  <2>8. ASSUME NEW i \in Images, Answer(i)
        PROVE  TrustInv'
    BY <2>8, AnswerKept
  <2>9. ASSUME NEW i \in Images, AnswerFailed(i)
        PROVE  TrustInv'
    BY <2>9, AnswerFailedKept
  <2>10. QED
    BY <2>1, <2>2, <2>3, <2>4, <2>5, <2>6, <2>7, <2>8, <2>9 DEF Next
<1>3. QED
  BY <1>1, <1>2, PTL DEF Spec

\* For any images, configurations, allowlists, number of slots and of retries: an image is
\* reported verified only if the checks that the policy demands hold of it, and unsigned or
\* untrusted only if they do not or a call of the last attempt failed, with any number of
\* keys and modes answering, failing, timing out and being retried in any order.
THEOREM StatusesEarned ==
  ASSUME TrustAssumption
  PROVE  Spec => []StatusIsEarned
<1>1. TrustInv => StatusIsEarned
  BY DEF TrustInv, ImageInv, Earns, StatusIsEarned
<1>2. QED
  BY <1>1, TrustInvHolds, PTL

\* For any pods: a workload in scope has no finding only if its image is trusted, is
\* allowlisted or has a signature of an allowlisted signer.
THEOREM FindingsSuppressedForAReason ==
  ASSUME TrustAssumption
  PROVE  Spec => []SuppressedForAReason
<1>1. TrustInv => SuppressedForAReason
  BY DEF TrustInv
<1>2. QED
  BY <1>1, TrustInvHolds, PTL
=============================================================================
