-------------------------- MODULE PolicySyncProofs --------------------------
(***************************************************************************)
(* Proofs about PolicySync, for any number of jobs, policies and versions: *)
(* a job changes only policies that Insights has wanted, and a success     *)
(* means that the cluster has what was fetched, although the lease does    *)
(* not keep the jobs apart.                                                *)
(***************************************************************************)
EXTENDS PolicySync, FiniteSetTheorems, TLAPS
-----------------------------------------------------------------------------
(* Types                                                                   *)

\* comparePolicies makes commands on policies that are wanted or managed, with the
\* contents that were fetched.
LEMMA PlanIsCommands ==
  ASSUME NEW want \in [Policies -> Contents],
         NEW e \in SUBSET Policies, NEW c \in SUBSET Policies
  PROVE  /\ comparePolicies(want, e, c) \subseteq Commands
         /\ \A d \in comparePolicies(want, e, c) : d.policy \in e \cup c
  BY DEF comparePolicies, Commands, Contents

\* A map of comparePolicies holds policies of the list it was made from.
LEMMA ByNameOfList ==
  ASSUME NEW list, NEW m \in ByName(list)
  PROVE  m \subseteq list
  BY DEF ByName

\* Every step keeps the types.
LEMMA TypeKept ==
  ASSUME TypeOK, [Next]_vars
  PROVE  TypeOK'
<1> USE ConstantsAssumption DEF TypeOK
<1>1. ASSUME NEW j \in Jobs, Start(j) PROVE TypeOK'
  BY <1>1 DEF Start, envVars, historyVars
<1>2. ASSUME NEW j \in Jobs, Acquire(j) PROVE TypeOK'
  BY <1>2 DEF Acquire, envVars, historyVars
<1>3. ASSUME NEW j \in Jobs, GiveUp(j) PROVE TypeOK'
  BY <1>3 DEF GiveUp, Fault, historyVars
<1>4. ASSUME NEW j \in Jobs, Fetch(j) PROVE TypeOK'
  BY <1>4 DEF Fetch, envVars, historyVars
<1>5. ASSUME NEW j \in Jobs, List(j) PROVE TypeOK'
  <2>1. PICK e \in ByName({p \in Policies : expected[j][p] # Absent}), c \in ByName(managed) :
             todo' = [todo EXCEPT ![j] = comparePolicies(expected[j], e, c)]
    BY <1>5 DEF List
  <2>2. e \in SUBSET Policies /\ c \in SUBSET Policies
    BY ByNameOfList DEF managed
  <2>3. comparePolicies(expected[j], e, c) \subseteq Commands
    BY <2>2, PlanIsCommands
  <2> QED
    BY <1>5, <2>1, <2>3 DEF List, envVars, historyVars
<1>6. ASSUME NEW j \in Jobs, StartCommand(j) PROVE TypeOK'
  BY <1>6 DEF StartCommand, envVars, historyVars
<1>7. ASSUME NEW j \in Jobs, CommandOk(j) PROVE TypeOK'
  BY <1>7 DEF CommandOk, Disturb, AtWork, Effect, CanEffect, envVars, Commands
<1>8. ASSUME NEW j \in Jobs, CommandFails(j) PROVE TypeOK'
  <2>1. running[j] \in Commands
    BY <1>8 DEF CommandFails
  <2>2. cluster' \in [Policies -> Contents \cup {User}]
    BY <1>8, <2>1 DEF CommandFails, Effect, Commands
  <2>3. faults' \in 0..MaxFaults
    BY <1>8 DEF CommandFails, Fault
  <2>4. /\ failed' \in [Jobs -> BOOLEAN]
        /\ running' \in [Jobs -> Commands \cup {Idle}]
        /\ disturbed' \in [Jobs -> BOOLEAN]
    BY <1>8 DEF CommandFails, Disturb, AtWork
  <2> QED
    BY <1>8, <2>2, <2>3, <2>4 DEF CommandFails
<1>9. ASSUME NEW j \in Jobs, Executed(j) PROVE TypeOK'
  BY <1>9 DEF Executed, envVars
<1>10. ASSUME NEW j \in Jobs, Finish(j) PROVE TypeOK'
  BY <1>10 DEF Finish, Exit, NoPolicies, Contents, envVars
<1>11. ASSUME NEW j \in Jobs, Cancel(j) PROVE TypeOK'
  <2>1. faults' \in 0..MaxFaults
    BY <1>11 DEF Cancel, Fault
  <2>2. inflight' \subseteq Commands
    BY <1>11 DEF Cancel
  <2>3. disturbed' \in [Jobs -> BOOLEAN]
    BY <1>11 DEF Cancel
  <2>4. /\ pc' \in [Jobs -> {"idle", "electing", "fetch", "list", "execute", "finish"}]
        /\ expected' \in [Jobs -> [Policies -> Contents]]
        /\ todo' \in [Jobs -> SUBSET Commands]
        /\ running' \in [Jobs -> Commands \cup {Idle}]
        /\ failed' \in [Jobs -> BOOLEAN]
    BY <1>11 DEF Cancel, Exit, NoPolicies, Contents
  <2> QED
    BY <1>11, <2>1, <2>2, <2>3, <2>4 DEF Cancel
<1>12. CASE Expire
  BY <1>12 DEF Expire, jobVars, envVars, historyVars, None
<1>13. ASSUME NEW c \in inflight, Land(c) PROVE TypeOK'
  BY <1>13 DEF Land, Effect, Disturb, AtWork, Commands, jobVars, envVars
<1>14. CASE EditInsights
  BY <1>14 DEF EditInsights, jobVars
<1>15. CASE EditCluster
  BY <1>15 DEF EditCluster, Disturb, AtWork, jobVars
<1>16. CASE UNCHANGED vars
  BY <1>16 DEF vars, jobVars, envVars, historyVars
<1>17. ASSUME NEW j \in Jobs, Lapse(j) PROVE TypeOK'
  BY <1>17 DEF Lapse, Fault, None, jobVars, historyVars
<1>18. QED
  BY <1>1, <1>2, <1>3, <1>4, <1>5, <1>6, <1>7, <1>8, <1>9, <1>10, <1>11, <1>12, <1>13,
     <1>14, <1>15, <1>16, <1>17 DEF Next

\* The types of the variables: a plan holds commands on known policies, and a request
\* in flight is one.
THEOREM TypeCorrect == Spec => []TypeOK
<1>1. Init => TypeOK
  BY ConstantsAssumption DEF Init, TypeOK, NoPolicies, Contents
<1>2. TypeOK /\ [Next]_vars => TypeOK'
  BY TypeKept
<1> QED
  BY <1>1, <1>2, PTL DEF Spec
-----------------------------------------------------------------------------
(* Only wanted policies change                                             *)

\* Whatever the job may write or remove is something that Insights has wanted: what
\* is fetched, what carries the annotation, and every command made of the two.
WantedInv ==
  /\ \A p \in Policies : insights[p] # Absent => p \in wanted
  /\ \A p \in Policies : cluster[p] \in Versions => p \in wanted
  /\ \A j \in Jobs, p \in Policies : expected[j][p] # Absent => p \in wanted
  /\ \A j \in Jobs : \A c \in todo[j] : c.policy \in wanted
  /\ \A j \in Jobs : running[j] # Idle => running[j].policy \in wanted
  /\ \A c \in inflight : c.policy \in wanted
  /\ dryRun => inflight = {}

\* A command changes the one policy it names.
LEMMA EffectOnOne ==
  ASSUME TypeOK, NEW c \in Commands
  PROVE  /\ Effect(c) \in [Policies -> Contents \cup {User}]
         /\ \A p \in Policies : Effect(c)[p] # cluster[p] => p = c.policy
  BY DEF TypeOK, Effect, Commands

\* Every step keeps it.
LEMMA WantedKept ==
  ASSUME TypeOK, WantedInv, [Next]_vars
  PROVE  WantedInv'
<1> USE ConstantsAssumption DEF TypeOK, WantedInv
<1>1. ASSUME NEW j \in Jobs, Start(j) PROVE WantedInv'
  BY <1>1 DEF Start, envVars, historyVars
<1>2. ASSUME NEW j \in Jobs, Acquire(j) PROVE WantedInv'
  BY <1>2 DEF Acquire, envVars, historyVars
<1>3. ASSUME NEW j \in Jobs, GiveUp(j) PROVE WantedInv'
  BY <1>3 DEF GiveUp, historyVars
<1>4. ASSUME NEW j \in Jobs, Fetch(j) PROVE WantedInv'
  BY <1>4 DEF Fetch, envVars, historyVars
<1>5. ASSUME NEW j \in Jobs, List(j) PROVE WantedInv'
  <2>1. PICK e \in ByName({p \in Policies : expected[j][p] # Absent}), c \in ByName(managed) :
             todo' = [todo EXCEPT ![j] = comparePolicies(expected[j], e, c)]
    BY <1>5 DEF List
  <2>2. e \subseteq {p \in Policies : expected[j][p] # Absent} /\ c \subseteq managed
    BY ByNameOfList
  <2>3. e \in SUBSET Policies /\ c \in SUBSET Policies
    BY <2>2 DEF managed
  <2>4. e \cup c \subseteq wanted
    BY <2>2 DEF managed
  <2>5. \A d \in comparePolicies(expected[j], e, c) : d.policy \in wanted
    <3>1. expected[j] \in [Policies -> Contents]
      OBVIOUS
    <3>2. \A d \in comparePolicies(expected[j], e, c) : d.policy \in e \cup c
      BY <2>3, <3>1, PlanIsCommands, Zenon
    <3> QED
      BY <2>4, <3>2, Zenon
  <2> QED
    BY <1>5, <2>1, <2>5 DEF List, envVars, historyVars
<1>6. ASSUME NEW j \in Jobs, StartCommand(j) PROVE WantedInv'
  BY <1>6 DEF StartCommand, envVars, historyVars
<1>7. ASSUME NEW j \in Jobs, CommandOk(j) PROVE WantedInv'
  <2>1. running[j] \in Commands /\ running[j].policy \in wanted
    BY <1>7 DEF CommandOk
  <2>2. \A p \in Policies : cluster'[p] \in Versions => p \in wanted
    BY <1>7, <2>1, EffectOnOne, SMTT(30) DEF CommandOk
  <2> QED
    BY <1>7, <2>2 DEF CommandOk, envVars
<1>8. ASSUME NEW j \in Jobs, CommandFails(j) PROVE WantedInv'
  <2>1. running[j] \in Commands /\ running[j].policy \in wanted
    BY <1>8 DEF CommandFails
  <2>2. \A p \in Policies : cluster'[p] \in Versions => p \in wanted
    BY <1>8, <2>1, EffectOnOne DEF CommandFails
  <2> QED
    BY <1>8, <2>2 DEF CommandFails
<1>9. ASSUME NEW j \in Jobs, Executed(j) PROVE WantedInv'
  BY <1>9 DEF Executed, envVars
<1>10. ASSUME NEW j \in Jobs, Finish(j) PROVE WantedInv'
  BY <1>10 DEF Finish, Exit, NoPolicies, envVars
<1>11. ASSUME NEW j \in Jobs, Cancel(j) PROVE WantedInv'
  <2>1. /\ \A c \in inflight' : c.policy \in wanted
        /\ dryRun => inflight' = {}
    BY <1>11 DEF Cancel
  <2>2. /\ \A k \in Jobs, p \in Policies : expected'[k][p] # Absent => p \in wanted
        /\ \A k \in Jobs : \A c \in todo'[k] : c.policy \in wanted
        /\ \A k \in Jobs : running'[k] # Idle => running'[k].policy \in wanted
    BY <1>11 DEF Cancel, Exit, NoPolicies
  <2> QED
    BY <1>11, <2>1, <2>2 DEF Cancel
<1>12. CASE Expire
  BY <1>12 DEF Expire, jobVars, envVars, historyVars
<1>13. ASSUME NEW c \in inflight, Land(c) PROVE WantedInv'
  <2>1. \A p \in Policies : cluster'[p] \in Versions => p \in wanted
    BY <1>13, EffectOnOne DEF Land
  <2> QED
    BY <1>13, <2>1 DEF Land, jobVars, envVars
<1>14. CASE EditInsights
  BY <1>14 DEF EditInsights, jobVars
<1>15. CASE EditCluster
  BY <1>15 DEF EditCluster, jobVars, User
<1>16. CASE UNCHANGED vars
  BY <1>16 DEF vars, jobVars, envVars, historyVars
<1>17. ASSUME NEW j \in Jobs, Lapse(j) PROVE WantedInv'
  BY <1>17 DEF Lapse, Fault, None, jobVars, historyVars
<1>18. QED
  BY <1>1, <1>2, <1>3, <1>4, <1>5, <1>6, <1>7, <1>8, <1>9, <1>10, <1>11, <1>12, <1>13,
     <1>14, <1>15, <1>16, <1>17 DEF Next

\* What a step may do to the cluster.
LEMMA StepChangesWanted ==
  ASSUME TypeOK, WantedInv, [Next]_vars
  PROVE  [\A p \in Policies :
            cluster'[p] \in {cluster[p], User} \/ (p \in wanted /\ ~dryRun)]_vars
<1> DEFINE Good == \A p \in Policies :
                     cluster'[p] \in {cluster[p], User} \/ (p \in wanted /\ ~dryRun)
<1> USE DEF TypeOK, WantedInv
<1>1. ASSUME NEW j \in Jobs, CommandOk(j) PROVE Good
  <2>1. running[j] \in Commands
    BY <1>1 DEF CommandOk
  <2> QED
    BY <1>1, <2>1, EffectOnOne DEF CommandOk
<1>2. ASSUME NEW j \in Jobs, CommandFails(j) PROVE Good
  <2>1. running[j] \in Commands
    BY <1>2 DEF CommandFails
  <2> QED
    BY <1>2, <2>1, EffectOnOne DEF CommandFails
<1>3. ASSUME NEW c \in inflight, Land(c) PROVE Good
  BY <1>3, EffectOnOne, SMTT(30) DEF Land
<1>4. ASSUME EditCluster PROVE Good
  BY <1>4 DEF EditCluster
<1>5. ASSUME NEW j \in Jobs,
             \/ Start(j) \/ Acquire(j) \/ GiveUp(j) \/ Fetch(j) \/ List(j)
             \/ StartCommand(j) \/ Executed(j) \/ Finish(j) \/ Lapse(j) \/ Cancel(j)
      PROVE  Good
  BY <1>5 DEF Start, Acquire, GiveUp, Fetch, List, StartCommand, Executed, Finish, Lapse, Cancel
<1>6. ASSUME Expire \/ EditInsights PROVE Good
  BY <1>6 DEF Expire, EditInsights
<1>7. Next => Good
  BY <1>1, <1>2, <1>3, <1>4, <1>5, <1>6 DEF Next
<1> QED
  BY <1>7

\* A job changes no policy that Insights has not wanted at some time (the annotation in
\* listInsightsManagedPolicies), and in a dry run none: for any number of jobs, however
\* their commands overlap and however late their requests arrive.
THEOREM OnlyWantedPoliciesChange == Spec => OnlyWantedChange
<1>1. Init => TypeOK /\ WantedInv
  BY ConstantsAssumption DEF Init, TypeOK, WantedInv, NoPolicies, Contents, Absent
<1>2. TypeOK /\ WantedInv /\ [Next]_vars => (TypeOK /\ WantedInv)'
  BY TypeKept, WantedKept
<1>3. TypeOK /\ WantedInv /\ [Next]_vars =>
        [\A p \in Policies : cluster'[p] \in {cluster[p], User} \/ (p \in wanted /\ ~dryRun)]_vars
  BY StepChangesWanted
<1> QED
  BY <1>1, <1>2, <1>3, PTL DEF Spec, OnlyWantedChange
-----------------------------------------------------------------------------
(* Success means synced                                                    *)

\* The commands on policy p among those a job has left and the one it runs.
CommandsOn(p, left, cmd) == {c \in left \cup ({cmd} \ {Idle}) : c.policy = p}

\* A job is on its way to give p the contents it fetched: every command on p writes
\* them, and there is such a command left unless the cluster has them.
OnTrack(p, left, cmd, want, clus) ==
  /\ \A c \in CommandsOn(p, left, cmd) : c.version = want[p]
  /\ \/ CommandsOn(p, left, cmd) # {}
     \/ IF want[p] = Absent THEN clus[p] \in {Absent, User} ELSE clus[p] = want[p]

\* The job executes its plan and nothing has gone wrong.
Undisturbed(j) == pc[j] = "execute" /\ ~failed[j] /\ ~disturbed[j] /\ ~dryRun

OnTrackInv ==
  \A j \in Jobs, p \in Policies :
    Undisturbed(j) /\ Unique(p) => OnTrack(p, todo[j], running[j], expected[j], cluster)

OnlyExecuteRuns == \A j \in Jobs : running[j] # Idle => pc[j] = "execute"

\* Idle is no command.
LEMMA IdleIsNoCommand == Idle \notin Commands
  BY DEF Idle, Commands

\* A map of comparePolicies finds a policy whose name is its own if, and only if, the
\* list has it.
LEMMA ByNameFindsUnique ==
  ASSUME NEW list \in SUBSET Policies, NEW m \in ByName(list), NEW p \in Policies, Unique(p)
  PROVE  /\ p \in m <=> p \in list
         /\ (\E q \in m : Name[q] = Name[p]) <=> p \in list
<1>1. m \subseteq list /\ Name[p] \in Names
  BY DEF ByName, Names
<1>2. Cardinality({q \in m : Name[q] = Name[p]})
        = IF \E q \in list : Name[q] = Name[p] THEN 1 ELSE 0
  BY <1>1 DEF ByName
<1>3. ASSUME p \in list PROVE p \in m
  <2>1. Cardinality({q \in m : Name[q] = Name[p]}) = 1
    BY <1>2, <1>3
  <2>2. {q \in m : Name[q] = Name[p]} # {}
    BY <2>1, FS_EmptySet
  <2> QED
    BY <1>1, <2>2 DEF Unique
<1> QED
  BY <1>1, <1>3 DEF Unique

\* The plan is on track from the start.
LEMMA PlanOnTrack ==
  ASSUME TypeOK, NEW want \in [Policies -> Contents],
         NEW e \in ByName({p \in Policies : want[p] # Absent}), NEW c \in ByName(managed),
         NEW p \in Policies, Unique(p)
  PROVE  OnTrack(p, comparePolicies(want, e, c), Idle, want, cluster)
<1> DEFINE plan == comparePolicies(want, e, c)
           Has(m, q) == \E r \in m : Name[r] = Name[q]
<1>1. /\ p \in e <=> want[p] # Absent
      /\ Has(e, p) <=> want[p] # Absent
  BY ByNameFindsUnique
<1>2. p \in c <=> cluster[p] \in Versions
  BY ByNameFindsUnique DEF managed
<1>3. CommandsOn(p, plan, Idle) = {d \in plan : d.policy = p}
  BY DEF CommandsOn
<1>4. ASSUME NEW d \in plan, d.policy = p PROVE d.version = want[p]
  BY <1>1, <1>4 DEF comparePolicies
<1>5. ASSUME want[p] # Absent PROVE \E d \in plan : d.policy = p
  <2>1. CASE Has(c, p)
    <3>1. [op |-> "update", policy |-> p, version |-> want[p]] \in plan
      BY <1>1, <1>5, <2>1 DEF comparePolicies
    <3> QED
      BY <3>1
  <2>2. CASE ~ Has(c, p)
    <3>1. [op |-> "apply", policy |-> p, version |-> want[p]] \in plan
      BY <1>1, <1>5, <2>2 DEF comparePolicies
    <3> QED
      BY <3>1
  <2> QED
    BY <2>1, <2>2
<1>6. ASSUME want[p] = Absent, cluster[p] \notin {Absent, User} PROVE \E d \in plan : d.policy = p
  <2>1. p \in c /\ ~ Has(e, p)
    BY <1>1, <1>2, <1>6 DEF TypeOK, Contents
  <2>2. [op |-> "remove", policy |-> p, version |-> Absent] \in plan
    BY <2>1 DEF comparePolicies
  <2> QED
    BY <2>2
<1> HIDE DEF plan
<1>7. OnTrack(p, plan, Idle, want, cluster)
  BY <1>3, <1>4, <1>5, <1>6 DEF OnTrack
<1> QED
  BY <1>7 DEF plan

\* The step of one job that does not leave it executing keeps the others on track.
LEMMA OtherJobsOnTrack ==
  ASSUME OnTrackInv, OnlyExecuteRuns, NEW j \in Jobs,
         UNCHANGED <<cluster, dryRun>>, pc'[j] # "execute", running'[j] = Idle,
         \A k \in Jobs \ {j} :
           /\ pc'[k] = pc[k] /\ failed'[k] = failed[k]
           /\ pc[k] = "execute" /\ ~ disturbed'[k] => ~ disturbed[k]
           /\ expected'[k] = expected[k] /\ todo'[k] = todo[k] /\ running'[k] = running[k]
  PROVE  OnTrackInv' /\ OnlyExecuteRuns'
<1>1. OnlyExecuteRuns'
  BY DEF OnlyExecuteRuns
<1>2. ASSUME NEW k \in Jobs, NEW p \in Policies, Undisturbed(k)', Unique(p)
      PROVE  OnTrack(p, todo'[k], running'[k], expected'[k], cluster')
  <2>1. k # j
    BY <1>2 DEF Undisturbed
  <2>2. Undisturbed(k)
    BY <1>2, <2>1 DEF Undisturbed
  <2>3. OnTrack(p, todo[k], running[k], expected[k], cluster)
    BY <1>2, <2>2 DEF OnTrackInv
  <2> QED
    BY <2>1, <2>3
<1> QED
  BY <1>1, <1>2 DEF OnTrackInv, Unique

\* A change of the cluster disturbs whoever else is at work; a job that is undisturbed
\* after a step it has no part in stays on track.
LEMMA EnvironmentKeepsTrack ==
  ASSUME OnTrackInv, OnlyExecuteRuns,
         UNCHANGED <<pc, expected, todo, running, failed, dryRun>>, Disturb(None)
  PROVE  OnTrackInv' /\ OnlyExecuteRuns'
<1>1. OnlyExecuteRuns'
  BY DEF OnlyExecuteRuns
<1>2. ASSUME NEW k \in Jobs, NEW p \in Policies, Undisturbed(k)', Unique(p)
      PROVE  OnTrack(p, todo'[k], running'[k], expected'[k], cluster')
  <2>1. Undisturbed(k) /\ cluster' = cluster
    BY <1>2, ConstantsAssumption DEF Undisturbed, Disturb, AtWork, None
  <2> QED
    BY <1>2, <2>1 DEF OnTrackInv
<1> QED
  BY <1>1, <1>2 DEF OnTrackInv, Unique

\* Every step keeps every undisturbed job on track.
LEMMA OnTrackKept ==
  ASSUME TypeOK, OnTrackInv, OnlyExecuteRuns, [Next]_vars
  PROVE  OnTrackInv' /\ OnlyExecuteRuns'
<1> DEFINE Goal == OnTrackInv' /\ OnlyExecuteRuns'
<1>1. ASSUME NEW j \in Jobs, Start(j) \/ Acquire(j) \/ GiveUp(j) \/ Fetch(j) PROVE Goal
  <2>1. /\ pc[j] # "execute" /\ pc'[j] # "execute" /\ running' = running
        /\ UNCHANGED <<cluster, dryRun, todo>>
    BY <1>1 DEF Start, Acquire, GiveUp, Fetch, envVars, TypeOK
  <2>2. running'[j] = Idle
    BY <2>1 DEF OnlyExecuteRuns
  <2>3. \A k \in Jobs \ {j} : /\ pc'[k] = pc[k] /\ failed'[k] = failed[k]
                              /\ expected'[k] = expected[k]
                              /\ disturbed'[k] = disturbed[k]
    BY <1>1 DEF Start, Acquire, GiveUp, Fetch, envVars, historyVars, TypeOK
  <2> QED
    BY <2>1, <2>2, <2>3, OtherJobsOnTrack
<1>2. ASSUME NEW j \in Jobs, Executed(j) PROVE Goal
  <2>1. /\ pc'[j] # "execute" /\ running'[j] = Idle
        /\ UNCHANGED <<cluster, dryRun, todo, running, failed, expected, disturbed>>
        /\ \A k \in Jobs \ {j} : pc'[k] = pc[k]
    BY <1>2 DEF Executed, envVars, TypeOK
  <2> QED
    BY <2>1, OtherJobsOnTrack
<1>3. ASSUME NEW j \in Jobs, Finish(j) PROVE Goal
  <2>1. /\ pc'[j] # "execute" /\ running'[j] = Idle
        /\ UNCHANGED <<cluster, dryRun>>
        /\ \A k \in Jobs \ {j} :
             /\ pc'[k] = pc[k] /\ failed'[k] = failed[k] /\ disturbed'[k] = disturbed[k]
             /\ expected'[k] = expected[k] /\ todo'[k] = todo[k] /\ running'[k] = running[k]
    BY <1>3 DEF Finish, Exit, envVars, TypeOK
  <2> QED
    BY <2>1, OtherJobsOnTrack
<1>4. ASSUME NEW j \in Jobs, Cancel(j) PROVE Goal
  <2>1. /\ pc'[j] # "execute" /\ running'[j] = Idle
        /\ UNCHANGED <<cluster, dryRun>>
        /\ \A k \in Jobs \ {j} :
             /\ pc'[k] = pc[k] /\ failed'[k] = failed[k] /\ disturbed'[k] = disturbed[k]
             /\ expected'[k] = expected[k] /\ todo'[k] = todo[k] /\ running'[k] = running[k]
    BY <1>4 DEF Cancel, Exit, TypeOK
  <2> QED
    BY <2>1, OtherJobsOnTrack
<1>5. ASSUME NEW j \in Jobs, List(j) PROVE Goal
  <2>1. PICK e \in ByName({p \in Policies : expected[j][p] # Absent}), c \in ByName(managed) :
             todo' = [todo EXCEPT ![j] = comparePolicies(expected[j], e, c)]
    BY <1>5 DEF List
  <2>2. /\ UNCHANGED <<cluster, dryRun, running, failed, expected, disturbed>>
        /\ pc' = [pc EXCEPT ![j] = "execute"] /\ pc[j] = "list"
    BY <1>5 DEF List, envVars, historyVars
  <2>3. \A k \in Jobs \ {j} : pc'[k] = pc[k] /\ todo'[k] = todo[k]
    BY <2>1, <2>2 DEF TypeOK
  <2>4. running[j] = Idle /\ todo'[j] = comparePolicies(expected[j], e, c)
        /\ expected[j] \in [Policies -> Contents]
    BY <2>1, <2>2 DEF OnlyExecuteRuns, TypeOK
  <2>5. OnlyExecuteRuns'
    BY <2>2, <2>4 DEF OnlyExecuteRuns, TypeOK
  <2>6. ASSUME NEW k \in Jobs, NEW p \in Policies, Undisturbed(k)', Unique(p)
        PROVE  OnTrack(p, todo'[k], running'[k], expected'[k], cluster')
    <3>1. CASE k = j
      <4>1. OnTrack(p, comparePolicies(expected[j], e, c), Idle, expected[j], cluster)
        BY <2>4, <2>6, PlanOnTrack
      <4> QED
        BY <2>2, <2>4, <3>1, <4>1
    <3>2. CASE k # j
      <4>1. Undisturbed(k)
        BY <2>2, <2>3, <2>6, <3>2 DEF Undisturbed
      <4>2. OnTrack(p, todo[k], running[k], expected[k], cluster)
        BY <2>6, <4>1 DEF OnTrackInv
      <4> QED
        BY <2>2, <2>3, <3>2, <4>2
    <3> QED
      BY <3>1, <3>2
  <2> QED
    BY <2>5, <2>6 DEF OnTrackInv, Unique
<1>6. ASSUME NEW j \in Jobs, StartCommand(j) PROVE Goal
  <2>1. PICK c \in todo[j] : /\ running' = [running EXCEPT ![j] = c]
                             /\ todo' = [todo EXCEPT ![j] = @ \ {c}]
    BY <1>6 DEF StartCommand
  <2>2. /\ UNCHANGED <<cluster, dryRun, pc, failed, expected, disturbed>>
        /\ pc[j] = "execute" /\ running[j] = Idle
    BY <1>6 DEF StartCommand, envVars, historyVars
  <2>3. c \in Commands /\ c # Idle
    BY <2>1, IdleIsNoCommand DEF TypeOK
  <2>4. /\ running'[j] = c /\ todo'[j] = todo[j] \ {c}
        /\ \A k \in Jobs \ {j} : running'[k] = running[k] /\ todo'[k] = todo[k]
    BY <2>1 DEF TypeOK
  <2>5. OnlyExecuteRuns'
    BY <2>2, <2>4 DEF OnlyExecuteRuns
  <2>6. ASSUME NEW k \in Jobs, NEW p \in Policies, Undisturbed(k)', Unique(p)
        PROVE  OnTrack(p, todo'[k], running'[k], expected'[k], cluster')
    <3>1. OnTrack(p, todo[k], running[k], expected[k], cluster)
      BY <2>2, <2>6 DEF Undisturbed, OnTrackInv
    <3>2. CommandsOn(p, todo'[k], running'[k]) = CommandsOn(p, todo[k], running[k])
      BY <2>2, <2>3, <2>4 DEF CommandsOn
    <3> QED
      BY <2>2, <3>1, <3>2 DEF OnTrack
  <2> QED
    BY <2>5, <2>6 DEF OnTrackInv, Unique
<1>7. ASSUME NEW j \in Jobs, CommandOk(j) PROVE Goal
  <2>1. /\ UNCHANGED <<dryRun, pc, failed, expected, todo>> /\ Disturb(j)
        /\ running[j] # Idle /\ running' = [running EXCEPT ![j] = Idle]
        /\ dryRun \/ cluster' = Effect(running[j])
        /\ dryRun => cluster' = cluster
    BY <1>7 DEF CommandOk, envVars
  <2>2. running[j] \in Commands /\ pc[j] = "execute"
    BY <2>1 DEF TypeOK, OnlyExecuteRuns
  <2>3. running'[j] = Idle /\ \A k \in Jobs \ {j} : running'[k] = running[k]
    BY <2>1 DEF TypeOK
  <2>4. OnlyExecuteRuns'
    BY <2>1, <2>3 DEF OnlyExecuteRuns
  <2>5. ASSUME NEW k \in Jobs, NEW p \in Policies, Undisturbed(k)', Unique(p)
        PROVE  OnTrack(p, todo'[k], running'[k], expected'[k], cluster')
    <3>0. CASE k # j
      <4>1. Undisturbed(k) /\ cluster' = cluster
        BY <2>1, <2>5, <3>0 DEF Undisturbed, Disturb, AtWork
      <4>2. OnTrack(p, todo[k], running[k], expected[k], cluster)
        BY <2>5, <4>1 DEF OnTrackInv
      <4> QED
        BY <2>1, <2>3, <3>0, <4>1, <4>2
    <3> SUFFICES ASSUME k = j PROVE OnTrack(p, todo'[k], running'[k], expected'[k], cluster')
      BY <3>0
    <3>1. ~ dryRun /\ Undisturbed(j)
      BY <2>1, <2>5 DEF Undisturbed, Disturb
    <3>2. OnTrack(p, todo[j], running[j], expected[j], cluster)
      BY <2>5, <3>1 DEF OnTrackInv
    <3>3. cluster' = [cluster EXCEPT ![running[j].policy] = running[j].version]
      BY <2>1, <3>1 DEF Effect
    <3>4. CommandsOn(p, todo[j], Idle) \subseteq CommandsOn(p, todo[j], running[j])
      BY DEF CommandsOn
    <3>5. CASE running[j].policy = p
      <4>1. running[j] \in CommandsOn(p, todo[j], running[j])
        BY <2>1, <3>5 DEF CommandsOn
      <4>2. running[j].version = expected[j][p]
        BY <3>2, <4>1 DEF OnTrack
      <4>3. cluster'[p] = expected[j][p]
        BY <3>3, <3>5, <4>2 DEF TypeOK
      <4> QED
        BY <2>1, <2>3, <3>1, <3>2, <3>4, <4>3 DEF OnTrack
    <3>6. CASE running[j].policy # p
      <4>1. CommandsOn(p, todo[j], Idle) = CommandsOn(p, todo[j], running[j])
        BY <3>6 DEF CommandsOn
      <4>2. cluster'[p] = cluster[p]
        BY <3>3, <3>6 DEF TypeOK
      <4> QED
        BY <2>1, <2>3, <3>1, <3>2, <4>1, <4>2 DEF OnTrack
    <3> QED
      BY <3>5, <3>6
  <2> QED
    BY <2>4, <2>5 DEF OnTrackInv, Unique
<1>8. ASSUME NEW j \in Jobs, CommandFails(j) PROVE Goal
  <2>1. /\ UNCHANGED <<dryRun, pc, expected, todo>> /\ Disturb(j)
        /\ running[j] # Idle /\ running' = [running EXCEPT ![j] = Idle]
        /\ failed' = [failed EXCEPT ![j] = TRUE]
    BY <1>8 DEF CommandFails
  <2>2. pc[j] = "execute"
    BY <2>1 DEF OnlyExecuteRuns
  <2>3. OnlyExecuteRuns'
    BY <2>1 DEF OnlyExecuteRuns, TypeOK
  <2>4. failed'[j] /\ \A k \in Jobs \ {j} : failed'[k] = failed[k] /\ running'[k] = running[k]
    BY <2>1 DEF TypeOK
  <2>5. ASSUME NEW k \in Jobs, NEW p \in Policies, Undisturbed(k)', Unique(p)
        PROVE  OnTrack(p, todo'[k], running'[k], expected'[k], cluster')
    <3>1. k # j
      BY <2>4, <2>5 DEF Undisturbed
    <3>2. Undisturbed(k) /\ cluster' = cluster
      BY <2>1, <2>4, <2>5, <3>1 DEF Undisturbed, Disturb, AtWork
    <3>3. OnTrack(p, todo[k], running[k], expected[k], cluster)
      BY <2>5, <3>2 DEF OnTrackInv
    <3> QED
      BY <2>1, <2>4, <3>1, <3>2, <3>3
  <2> QED
    BY <2>3, <2>5 DEF OnTrackInv, Unique
<1>9. ASSUME Expire \/ EditInsights \/ (\E j \in Jobs : Lapse(j)) \/ UNCHANGED vars PROVE Goal
  <2>1. UNCHANGED <<pc, expected, todo, running, failed, dryRun, disturbed, cluster>>
    BY <1>9 DEF Expire, EditInsights, Lapse, vars, jobVars, envVars, historyVars
  <2>2. Disturb(None)
    BY <2>1 DEF Disturb, TypeOK
  <2> QED
    BY <2>1, <2>2, EnvironmentKeepsTrack
<1>10. ASSUME (\E c \in inflight : Land(c)) \/ EditCluster PROVE Goal
  <2>1. UNCHANGED <<pc, expected, todo, running, failed, dryRun>> /\ Disturb(None)
    BY <1>10 DEF Land, EditCluster, jobVars, envVars
  <2> QED
    BY <2>1, EnvironmentKeepsTrack
<1> QED
  BY <1>1, <1>2, <1>3, <1>4, <1>5, <1>6, <1>7, <1>8, <1>9, <1>10 DEF Next

\* A job that ends its plan on track has the result it promises.
LEMMA SyncedKept ==
  ASSUME TypeOK, OnTrackInv, synced, [Next]_vars
  PROVE  synced'
<1>1. ASSUME NEW j \in Jobs, Executed(j) PROVE synced'
  <2>1. synced' = (synced /\ (failed[j] \/ disturbed[j] \/ dryRun
                              \/ \A p \in Policies : Unique(p) => Holds(expected[j], p)))
    BY <1>1 DEF Executed
  <2>2. pc[j] = "execute" /\ running[j] = Idle /\ todo[j] = {}
    BY <1>1 DEF Executed
  <2>3. ASSUME ~ failed[j], ~ disturbed[j], ~ dryRun, NEW p \in Policies, Unique(p)
        PROVE  Holds(expected[j], p)
    <3>1. OnTrack(p, {}, Idle, expected[j], cluster)
      BY <2>2, <2>3 DEF OnTrackInv, Undisturbed
    <3>2. CommandsOn(p, {}, Idle) = {}
      BY DEF CommandsOn
    <3> QED
      BY <3>1, <3>2 DEF OnTrack, Holds
  <2> QED
    BY <2>1, <2>3, Zenon
<1>2. ASSUME NEW j \in Jobs,
             \/ Start(j) \/ Acquire(j) \/ GiveUp(j) \/ Fetch(j) \/ List(j)
             \/ StartCommand(j) \/ CommandOk(j) \/ CommandFails(j) \/ Finish(j)
             \/ Lapse(j) \/ Cancel(j)
      PROVE  synced'
  BY <1>2 DEF Start, Acquire, GiveUp, Fetch, List, StartCommand, CommandOk, CommandFails,
              Finish, Lapse, Cancel, historyVars
<1>3. ASSUME \/ Expire \/ (\E c \in inflight : Land(c)) \/ EditInsights \/ EditCluster
             \/ UNCHANGED vars
      PROVE  synced'
  BY <1>3 DEF Expire, Land, EditInsights, EditCluster, vars, historyVars
<1> QED
  BY <1>1, <1>2, <1>3 DEF Next

\* A sync that reports success has left in the cluster what it fetched, for every name
\* that only one kind uses (comparePolicies, executeSyncActions), unless a user, the late
\* request of a killed job or a job without the lease changed the cluster meanwhile: for
\* any number of jobs and policies.
THEOREM SuccessMeansSynced == Spec => []SuccessIsSynced
<1> DEFINE Inv == TypeOK /\ OnTrackInv /\ OnlyExecuteRuns /\ synced
<1>1. Init => Inv
  <2> SUFFICES ASSUME Init PROVE Inv
    OBVIOUS
  <2>1. TypeOK
    BY ConstantsAssumption DEF Init, TypeOK, NoPolicies, Contents
  <2>2. /\ synced /\ \A j \in Jobs : pc[j] # "execute" /\ running[j] = Idle
    BY DEF Init
  <2> QED
    BY <2>1, <2>2 DEF OnTrackInv, OnlyExecuteRuns, Undisturbed
<1>2. Inv /\ [Next]_vars => Inv'
  BY TypeKept, OnTrackKept, SyncedKept
<1>3. Inv => SuccessIsSynced
  BY DEF SuccessIsSynced
<1> QED
  BY <1>1, <1>2, <1>3, PTL DEF Spec
=============================================================================
