-------------------------- MODULE RightSizerProofs --------------------------
(***************************************************************************)
(* Proofs about RightSizer, for any workloads, containers and multipliers  *)
(* and any number of restarts, crashes and failed calls: the ConfigMap     *)
(* follows the memory, the report has one item per container, and the      *)
(* limits stay within the maximum.                                         *)
(***************************************************************************)
EXTENDS RightSizer, FiniteSetTheorems, SequenceTheorems, TLAPS

\* What is left of a sequence is a sequence whose elements come from increasing
\* positions that were kept.
LEMMA LeftIsSelection ==
  ASSUME NEW S, NEW s \in Seq(S), NEW kept \in SUBSET (1..Len(s)), NEW t \in Left(s, kept)
  PROVE  /\ t \in Seq(S)
         /\ \E f \in [1..Len(t) -> kept] :
              /\ \A i, j \in 1..Len(t) : i < j => f[i] < f[j]
              /\ \A j \in 1..Len(t) : t[j] = s[f[j]]
<1> DEFINE m == Cardinality(kept)
<1>1. IsFiniteSet(1..Len(s))
  BY FS_Interval
<1>2. m \in Nat
  BY <1>1, FS_Subset, FS_CardinalityType
<1>3. PICK f \in [1..m -> kept] : /\ \A i, j \in 1..m : i < j => f[i] < f[j]
                                  /\ t = [j \in 1..m |-> s[f[j]]]
  BY DEF Left
<1> HIDE DEF m
<1>4. \A j \in 1..m : s[f[j]] \in S
  BY <1>3, ElementOfSeq
<1>5. t \in [1..m -> S]
  BY <1>3, <1>4
<1>6. t \in Seq(S) /\ Len(t) = m
  BY <1>2, <1>5, SeqDef, LenProperties
<1>7. QED
  BY <1>3, <1>6
-----------------------------------------------------------------------------
(* The report is persisted                                                 *)

InFlight(g) == writer[g] \in {"get", "put"}

\* A write of the report is still to come.
Pending == run \in {"pod", "patch", "store"} \/ \E g \in Goroutines : writer[g] = "snapshot"

\* Run writes the report just when it is in WriteConfigMap, and nobody writes while the
\* process is down.  Where nothing failed and nobody raced, at most one write is under
\* way, and unless another is to come it carries what the memory has; if there is
\* none at all, the ConfigMap has it.
PersistInv ==
  /\ writer \in [Goroutines -> {"none", "snapshot", "get", "put"}]
  /\ reportJSON = [g \in Goroutines |-> reportJSON[g]]
  /\ writer["run"] # "none" <=> run = "write"
  /\ run = "down" => writer["age"] = "none"
  /\ failures \in Nat
  /\ failures = 0 /\ ~raced /\ run # "down" =>
       /\ \A g, h \in Goroutines : InFlight(g) /\ InFlight(h) => g = h
       /\ Pending \/ \A g \in Goroutines : InFlight(g) => reportJSON[g] = items
       /\ Pending \/ (\E g \in Goroutines : InFlight(g)) \/ cmReport = items

\* Every step of either goroutine, of the API server and of the cluster keeps the account
\* of what is written.
LEMMA PersistInvKept ==
  ASSUME PersistInv, Next
  PROVE  PersistInv'
<1> USE DEF PersistInv, InFlight, Pending, Goroutines, reportVars, writeVars
<1>1. ASSUME NEW w \in Workloads,
             DeliverStarted(w) \/ DeliverStartedTooLate(w) \/ DeliverScaling(w)
      PROVE  PersistInv'
  BY <1>1 DEF DeliverStarted, DeliverStartedTooLate, DeliverScaling, runVars
<1>2. CASE ControllerLookupFails \/ PatchFails \/ FetchFails
  BY <1>2 DEF ControllerLookupFails, PatchFails, FetchFails, Fail
<1>3. ASSUME NEW c \in Containers, CreateItem(c) PROVE PersistInv'
  BY <1>3 DEF CreateItem
<1>4. CASE PatchOK
  BY <1>4 DEF PatchOK
<1>5. CASE StoreItem
  BY <1>5 DEF StoreItem
<1>6. CASE PodDone
  BY <1>6 DEF PodDone
<1>7. CASE FetchResource \/ ReadLength
  BY <1>7 DEF FetchResource, ReadLength
<1>8. CASE RemoveItems
  BY <1>8 DEF RemoveItems
<1>9. CASE RemoveOldItems
  BY <1>9 DEF RemoveOldItems, runVars
<1>10. ASSUME NEW g \in Goroutines, Snapshot(g) PROVE PersistInv'
  BY <1>10 DEF Snapshot, runVars
<1>11. ASSUME NEW g \in Goroutines, GetConfigMap(g) PROVE PersistInv'
  BY <1>11 DEF GetConfigMap, runVars
<1>12. ASSUME NEW g \in Goroutines, PutConfigMap(g) PROVE PersistInv'
  BY <1>12 DEF PutConfigMap, WriteReturns
<1>13. ASSUME NEW g \in Goroutines, WriteFails(g) PROVE PersistInv'
  <2>1. failures' \in Nat /\ failures' # 0
    BY <1>13 DEF WriteFails, Fail
  <2>2. QED
    BY <1>13, <2>1 DEF WriteFails, WriteReturns
<1>14. CASE Crash \/ Panic
  BY <1>14 DEF Crash, Panic, ProcessLost
<1>15. CASE Start
  BY <1>15 DEF Start
<1>16. CASE StartEmpty
  BY <1>16 DEF StartEmpty, Fail
<1>17. CASE Cluster
  BY <1>17 DEF Cluster, Restart, Rollout, UserSetsLimit, runVars
<1>18. QED
  BY <1>1, <1>2, <1>3, <1>4, <1>5, <1>6, <1>7, <1>8, <1>9, <1>10, <1>11, <1>12, <1>13,
     <1>14, <1>15, <1>16, <1>17
     DEF Next, ProcessOOMKilledPod, RemoveRelatedItems, WriteConfigMap

\* What PersistInv says holds throughout.
LEMMA PersistInvariant == Spec => []PersistInv
<1>1. Init => PersistInv
  BY DEF Init, PersistInv, InFlight, Pending, Goroutines
<1>2. PersistInv /\ [Next]_vars => PersistInv'
  <2>1. PersistInv /\ UNCHANGED vars => PersistInv'
    BY DEF PersistInv, InFlight, Pending, vars, reportVars, runVars, writeVars
  <2>2. QED
    BY <2>1, PersistInvKept
<1>3. QED
  BY <1>1, <1>2, PTL DEF Spec

\* Between two events the ConfigMap has the report that is in memory, after crashes and
\* restarts too (WriteConfigMap, ReadConfigMap), as long as no call to the Kubernetes
\* API failed and the two goroutines did not write at the same time.
THEOREM ReportPersisted == Spec => []PersistedUnlessRaced
<1>1. PersistInv => PersistedUnlessRaced
  BY DEF PersistInv, PersistedUnlessRaced, InFlight, Pending
<1>2. QED
  BY <1>1, PersistInvariant, PTL
-----------------------------------------------------------------------------
(* Types                                                                   *)

Pos == Nat \ {0}
RealItem == [key : Keys, start : Pos, end : Pos, ooms : Pos, gen : Pos]

\* Limits and generations are positive, and so is the limit of a patch; the item being
\* handled is about a container of the workload that is handled.
TypeInv ==
  /\ TypeOK
  /\ reportJSON \in [Goroutines -> Seq(Item)]
  /\ limit \in [Keys -> Pos]
  /\ podLimit \in [Keys -> Pos]
  /\ gen \in [Workloads -> Pos]
  /\ run \in {"pod", "patch", "store"} => spec \in [Keys -> Pos]
  /\ run \in {"patch", "store"} => item \in RealItem /\ item.key[1] = work
  /\ run = "patch" => IncrementMemory(item, spec[item.key]) > 0

\* An item is a real one or the blank one of a failed look-up.
LEMMA ItemCases == Item = RealItem \cup {Blank}
BY DEF Item, RealItem, Pos

\* Only the blank item belongs to no container.
LEMMA BlankIsNone ==
  ASSUME NEW it \in Item, it.key # <<>>
  PROVE  it \in RealItem
BY ItemCases DEF Blank

\* A real item belongs to a container.
LEMMA RealKey ==
  ASSUME NEW it \in RealItem
  PROVE  it.key \in Keys /\ it.key # <<>>
BY DEF RealItem, Keys

\* The increment of a positive limit is a natural number within the maximum.
LEMMA IncrementType ==
  ASSUME NEW it \in RealItem, NEW m \in Pos
  PROVE  /\ IncrementMemory(it, m) \in Nat
         /\ IncrementMemory(it, m) <= it.start * MaxMultiplier
<1>1. it.start \in Nat
  BY DEF RealItem, Pos
<1>2. it.start * MaxMultiplier \in Nat
  BY <1>1, MultipliersAssumption
<1>3. m * IncrementMultiplier \in Nat
  BY MultipliersAssumption DEF Pos
<1>4. QED
  BY <1>2, <1>3 DEF IncrementMemory, MaxAllowedEndingMemory

\* What CreateRightSizerReportItem makes: a new item, or the one in the report with one
\* OOM-kill more.
LEMMA NewItemType ==
  ASSUME items \in Seq(Item), spec \in [Keys -> Pos], gen \in [Workloads -> Pos],
         NEW k \in Keys
  PROVE  /\ NewItem(k) \in RealItem
         /\ NewItem(k).key = k
         /\ Position(k) = {} => NewItem(k).start = spec[k]
         /\ Position(k) # {} => \E i \in Position(k) : NewItem(k).start = items[i].start
<1>0. k # <<>> /\ k[1] \in Workloads
  <2>1. PICK w \in Workloads, c \in Containers : k = <<w, c>>
    BY DEF Keys
  <2>2. QED
    BY <2>1
<1>1. CASE Position(k) = {}
  BY <1>0, <1>1 DEF NewItem, RealItem, Pos
<1>2. CASE Position(k) # {}
  <2> DEFINE p == CHOOSE i \in Position(k) : TRUE
  <2>1. p \in Position(k)
    BY <1>2
  <2> HIDE DEF p
  <2>2. items[p] \in Item /\ items[p].key = k
    BY <2>1, ElementOfSeq DEF Position
  <2>3. items[p] \in RealItem
    BY <1>0, <2>2, BlankIsNone
  <2>4. NewItem(k) = [items[p] EXCEPT !.ooms = @ + 1, !.end = spec[k]]
    BY <1>2 DEF NewItem, p
  <2>5. items[p].ooms + 1 \in Pos /\ spec[k] \in Pos
    BY <2>3 DEF RealItem, Pos
  <2>6. NewItem(k) \in RealItem /\ NewItem(k).key = k /\ NewItem(k).start = items[p].start
    BY <2>2, <2>3, <2>4, <2>5 DEF RealItem
  <2>7. QED
    BY <1>2, <2>1, <2>6
<1>3. QED
  BY <1>1, <1>2

\* What StoreItem makes of the report: the new item is in it, and the others stay where
\* they are.
LEMMA StoredType ==
  ASSUME items \in Seq(Item), NEW new \in RealItem
  PROVE  /\ Stored(new) \in Seq(Item)
         /\ Position(new.key) = {} =>
              /\ Len(Stored(new)) = Len(items) + 1
              /\ \A i \in 1..Len(items) : Stored(new)[i] = items[i]
              /\ Stored(new)[Len(items) + 1] = [new EXCEPT !.ooms = 1]
         /\ Position(new.key) # {} =>
              /\ Len(Stored(new)) = Len(items)
              /\ \A i \in 1..Len(items) : /\ Stored(new)[i].key = items[i].key
                                          /\ Stored(new)[i].start = items[i].start
<1>1. CASE Position(new.key) = {}
  <2>1. [new EXCEPT !.ooms = 1] \in Item
    BY ItemCases DEF RealItem, Pos
  <2>2. Stored(new) = Append(items, [new EXCEPT !.ooms = 1])
    BY <1>1 DEF Stored
  <2>3. QED
    BY <1>1, <2>1, <2>2
<1>2. CASE Position(new.key) # {}
  <2> DEFINE St(i) == IF items[i].key = new.key THEN [new EXCEPT !.start = items[i].start]
                                                ELSE items[i]
  <2>1. ASSUME NEW i \in 1..Len(items)
        PROVE  St(i) \in Item /\ St(i).key = items[i].key /\ St(i).start = items[i].start
    <3>1. items[i] \in Item
      BY ElementOfSeq
    <3>2. CASE items[i].key = new.key
      <4>1. items[i] \in RealItem
        BY <3>1, <3>2, BlankIsNone, RealKey
      <4>2. QED
        BY <3>2, <4>1, ItemCases DEF RealItem
    <3>3. QED
      BY <3>1, <3>2
  <2>2. Stored(new) = [i \in 1..Len(items) |-> St(i)]
    BY <1>2 DEF Stored
  <2> HIDE DEF St
  <2>3. Stored(new) \in [1..Len(items) -> Item]
    BY <2>1, <2>2
  <2>4. Stored(new) \in Seq(Item) /\ Len(Stored(new)) = Len(items)
    BY <2>3, SeqDef, LenProperties
  <2>5. QED
    BY <1>2, <2>1, <2>2, <2>4
<1>3. QED
  BY <1>1, <1>2

\* The slice that RemoveItems makes before it takes the lock and fills under it.
LEMMA CopiedType ==
  ASSUME items \in Seq(Item), lenRead \in Nat
  PROVE  Copied \in Seq(Item) /\ Len(Copied) = lenRead
<1>1. \A i \in 1..Len(items) : items[i] \in Item
  BY ElementOfSeq
<1>2. Copied \in [1..lenRead -> Item]
  BY <1>1, ItemCases DEF Copied
<1>3. QED
  BY <1>2, SeqDef, LenProperties

\* Every step keeps the types.
LEMMA TypeInvKept ==
  ASSUME TypeInv, Next
  PROVE  TypeInv'
<1> USE DEF TypeInv, TypeOK, reportVars, writeVars, limitVars, podVars
<1>e. <<>> \in Seq(Item) /\ Blank \in Item
  BY EmptySeq, ItemCases
<1>1. ASSUME NEW w \in Workloads, DeliverStarted(w) PROVE TypeInv'
  BY <1>1 DEF DeliverStarted
<1>2. ASSUME NEW w \in Workloads, DeliverStartedTooLate(w) PROVE TypeInv'
  BY <1>2 DEF DeliverStartedTooLate, runVars, IncrementMemory, MaxAllowedEndingMemory
<1>3. ASSUME NEW w \in Workloads, DeliverScaling(w) PROVE TypeInv'
  <2>1. doomed' \in Seq(Item)
    BY <1>3, LeftIsSelection DEF DeliverScaling
  <2>2. QED
    BY <1>3, <2>1 DEF DeliverScaling
<1>4. CASE ControllerLookupFails
  BY <1>4 DEF ControllerLookupFails
<1>5. ASSUME NEW c \in Containers, CreateItem(c) PROVE TypeInv'
  <2>1. <<work, c>> \in Keys /\ <<work, c>>[1] = work
    BY DEF Keys
  <2>2. NewItem(<<work, c>>) \in RealItem /\ NewItem(<<work, c>>).key = <<work, c>>
    BY <1>5, <2>1, NewItemType DEF CreateItem
  <2>3. item' \in RealItem /\ item' \in Item /\ item'.key = <<work, c>>
    BY <1>5, <2>2, ItemCases DEF CreateItem
  <2>4. run' = "patch" => IncrementMemory(item, spec[item.key])' > 0
    BY <1>5, <2>2 DEF CreateItem, IncrementMemory, MaxAllowedEndingMemory
  <2>5. QED
    BY <1>5, <2>1, <2>3, <2>4 DEF CreateItem
<1>6. CASE PatchOK
  <2> DEFINE new == IncrementMemory(item, spec[item.key])
             g == IF limit[item.key] = new THEN gen[work] ELSE gen[work] + 1
  <2>1. item \in RealItem /\ item.key \in Keys /\ spec[item.key] \in Pos
    BY <1>6, RealKey DEF PatchOK
  <2>2. new \in Pos
    BY <1>6, <2>1, IncrementType DEF PatchOK, Pos
  <2>3. g \in Pos
    BY DEF Pos
  <2> HIDE DEF new, g
  <2>4. item' = [item EXCEPT !.gen = g, !.end = new]
    BY <1>6 DEF PatchOK, new, g
  <2>5. item' \in RealItem /\ item' \in Item /\ item'.key = item.key
    BY <2>1, <2>2, <2>3, <2>4, ItemCases DEF RealItem
  <2>6. limit' \in [Keys -> Pos] /\ gen' \in [Workloads -> Pos] /\ patched' \subseteq Keys
    BY <1>6, <2>1, <2>2, <2>3 DEF PatchOK, new, g
  <2>7. limit' \in [Keys -> Nat] /\ gen' \in [Workloads -> Nat]
    BY <2>6 DEF Pos
  <2>8. QED
    BY <1>6, <2>5, <2>6, <2>7 DEF PatchOK
<1>7. CASE PatchFails
  BY <1>7 DEF PatchFails
<1>8. CASE StoreItem
  <2>1. items' \in Seq(Item)
    BY <1>8, StoredType DEF StoreItem
  <2>2. QED
    BY <1>8, <1>e, <2>1 DEF StoreItem
<1>9. CASE PodDone
  BY <1>9 DEF PodDone, Goroutines
<1>10. CASE FetchResource
  <2>1. doomed' \in Seq(Item)
    BY <1>10, LeftIsSelection DEF FetchResource
  <2>2. QED
    BY <1>10, <2>1 DEF FetchResource
<1>11. CASE FetchFails \/ ReadLength
  <2>1. doomed' \in Seq(Item) /\ lenRead' \in Nat
    <3>1. CASE FetchFails
      BY <1>e, <3>1 DEF FetchFails
    <3>2. CASE ReadLength
      BY <3>2, LenProperties DEF ReadLength
    <3>3. QED
      BY <1>11, <3>1, <3>2
  <2>2. QED
    BY <1>11, <2>1 DEF FetchFails, ReadLength
<1>12. CASE RemoveItems
  <2>1. items' \in Seq(Item)
    BY <1>12, CopiedType, LeftIsSelection DEF RemoveItems
  <2>2. QED
    BY <1>12, <1>e, <2>1 DEF RemoveItems, Goroutines
<1>13. CASE RemoveOldItems
  <2>1. items' \in Seq(Item)
    BY <1>13, LeftIsSelection DEF RemoveOldItems
  <2>2. QED
    BY <1>13, <2>1 DEF RemoveOldItems, runVars, Goroutines, IncrementMemory,
                       MaxAllowedEndingMemory
<1>14. ASSUME NEW g \in Goroutines, Snapshot(g) \/ GetConfigMap(g) PROVE TypeInv'
  <2>1. CASE Snapshot(g)
    BY <2>1 DEF Snapshot, runVars, IncrementMemory, MaxAllowedEndingMemory
  <2>2. CASE GetConfigMap(g)
    BY <2>2 DEF GetConfigMap, runVars, IncrementMemory, MaxAllowedEndingMemory
  <2>3. QED
    BY <1>14, <2>1, <2>2
<1>15. ASSUME NEW g \in Goroutines, PutConfigMap(g) \/ WriteFails(g) PROVE TypeInv'
  <2>1. cmReport' \in Seq(Item) /\ cmVersion' \in Nat
    BY <1>15 DEF PutConfigMap, WriteFails
  <2>2. reportJSON' \in [Goroutines -> Seq(Item)]
    BY <1>15, <1>e DEF PutConfigMap, WriteFails, WriteReturns
  <2>3. writer' \in [Goroutines -> {"none", "snapshot", "get", "put"}]
    BY <1>15 DEF PutConfigMap, WriteFails, WriteReturns
  <2>4. run' \in {run, "idle"} /\ UNCHANGED <<work, todo, spec, item, doomed, lenRead>>
    BY <1>15 DEF PutConfigMap, WriteFails, WriteReturns
  <2>5. UNCHANGED <<reportVars, limitVars, podVars>>
    BY <1>15 DEF PutConfigMap, WriteFails, WriteReturns
  <2>6. IncrementMemory(item, spec[item.key])' = IncrementMemory(item, spec[item.key])
    BY <2>4 DEF IncrementMemory, MaxAllowedEndingMemory
  <2>7. QED
    BY <2>1, <2>2, <2>3, <2>4, <2>5, <2>6
<1>16. CASE Crash \/ Panic
  <2>1. ProcessLost
    BY <1>16 DEF Crash, Panic
  <2>2. items' \in Seq(Item) /\ doomed' \in Seq(Item) /\ item' \in Item
    BY <1>e, <2>1 DEF ProcessLost
  <2>3. reportJSON' \in [Goroutines -> Seq(Item)]
    BY <1>e, <2>1 DEF ProcessLost
  <2>4. QED
    BY <2>1, <2>2, <2>3 DEF ProcessLost
<1>17. CASE Start \/ StartEmpty
  BY <1>17 DEF Start, StartEmpty
<1>18. ASSUME NEW k \in Keys, NEW reason, Restart(k, reason) PROVE TypeInv'
  BY <1>18 DEF Restart, runVars, IncrementMemory, MaxAllowedEndingMemory
<1>19. ASSUME NEW w \in Workloads, Rollout(w) PROVE TypeInv'
  BY <1>19 DEF Rollout, runVars, IncrementMemory, MaxAllowedEndingMemory
<1>20. ASSUME NEW k \in Keys, NEW m \in UserLimits, UserSetsLimit(k, m) PROVE TypeInv'
  <2>1. m \in Pos
    BY MultipliersAssumption DEF Pos
  <2>2. limit' \in [Keys -> Pos] /\ gen' \in [Workloads -> Pos]
    <3>1. limit' \in [Keys -> Pos]
      BY <1>20, <2>1 DEF UserSetsLimit
    <3>2. k[1] \in Workloads
      BY DEF Keys
    <3>3. gen[k[1]] + 1 \in Pos
      BY <3>2 DEF Pos
    <3>4. QED
      BY <1>20, <3>1, <3>3 DEF UserSetsLimit
  <2>3. limit' \in [Keys -> Nat] /\ gen' \in [Workloads -> Nat]
    BY <2>2 DEF Pos
  <2>4. QED
    BY <1>20, <2>2, <2>3 DEF UserSetsLimit, runVars, IncrementMemory, MaxAllowedEndingMemory
<1>21. QED
  BY <1>1, <1>2, <1>3, <1>4, <1>5, <1>6, <1>7, <1>8, <1>9, <1>10, <1>11, <1>12, <1>13,
     <1>14, <1>15, <1>16, <1>17, <1>18, <1>19, <1>20
     DEF Next, ProcessOOMKilledPod, RemoveRelatedItems, WriteConfigMap, Cluster

\* The types hold throughout.
LEMMA TypeInvariant == Spec => []TypeInv
<1>1. Init => TypeInv
  <2>1. <<>> \in Seq(Item) /\ Blank \in Item
    BY EmptySeq, ItemCases
  <2>2. QED
    BY <2>1 DEF Init, TypeInv, TypeOK, Goroutines, FirstLimit, Pos
<1>2. TypeInv /\ [Next]_vars => TypeInv'
  <2>1. TypeInv /\ UNCHANGED vars => TypeInv'
    BY DEF TypeInv, TypeOK, vars, reportVars, runVars, writeVars, limitVars, podVars,
           IncrementMemory, MaxAllowedEndingMemory
  <2>2. QED
    BY <2>1, TypeInvKept
<1>3. QED
  BY <1>1, <1>2, PTL DEF Spec

\* Every item of the report, in memory and in the ConfigMap, is about a container and
\* has limits, a generation and an OOM-kill, or is the blank one of a fresh slice, over
\* all that the two goroutines, crashes and users do (report.go, controller.go).
THEOREM TypeCorrect == Spec => []TypeOK
<1>1. TypeInv => TypeOK
  BY DEF TypeInv
<1>2. QED
  BY <1>1, TypeInvariant, PTL
-----------------------------------------------------------------------------
(* One item per container                                                  *)

Distinct(s) ==
  \A i, j \in 1..Len(s) : i # j /\ s[i].key = s[j].key => s[i].key = <<>>
NoBlank(s) == \A i \in 1..Len(s) : s[i].key # <<>>

\* The same holds of the report in memory, the one in the ConfigMap, from which a
\* restart takes it, and those that are about to be written; and as long as no
\* item was aged out after RemoveItems read the length, that length is not too large.
DistinctInv ==
  /\ Distinct(items)
  /\ Distinct(cmReport)
  /\ \A g \in Goroutines : Distinct(reportJSON[g])
  /\ ~shrunk => /\ NoBlank(items)
                /\ NoBlank(cmReport)
                /\ \A g \in Goroutines : NoBlank(reportJSON[g])
                /\ run = "remove" => lenRead <= Len(items)

\* Leaving elements out makes no two of them equal, and no element blank.
LEMMA LeftDistinct ==
  ASSUME NEW S, NEW s \in Seq(S), NEW kept \in SUBSET (1..Len(s)), NEW t \in Left(s, kept)
  PROVE  /\ Distinct(s) => Distinct(t)
         /\ NoBlank(s) => NoBlank(t)
<1>1. PICK f \in [1..Len(t) -> kept] : /\ \A i, j \in 1..Len(t) : i < j => f[i] < f[j]
                                       /\ \A j \in 1..Len(t) : t[j] = s[f[j]]
  BY LeftIsSelection
<1>2. \A j \in 1..Len(t) : f[j] \in 1..Len(s)
  BY <1>1
<1>3. Len(t) \in Nat /\ Len(s) \in Nat
  BY LeftIsSelection, LenProperties
<1>4. \A i, j \in 1..Len(t) : i # j => f[i] # f[j]
  <2> SUFFICES ASSUME NEW i \in 1..Len(t), NEW j \in 1..Len(t), i # j PROVE f[i] # f[j]
    OBVIOUS
  <2>1. i < j \/ j < i
    BY <1>3
  <2>2. QED
    BY <1>1, <1>2, <1>3, <2>1
<1>5. ASSUME Distinct(s) PROVE Distinct(t)
  <2> SUFFICES ASSUME NEW i \in 1..Len(t), NEW j \in 1..Len(t), i # j, t[i].key = t[j].key
               PROVE  t[i].key = <<>>
    BY DEF Distinct
  <2>1. f[i] \in 1..Len(s) /\ f[j] \in 1..Len(s) /\ f[i] # f[j]
    BY <1>2, <1>4
  <2>2. t[i] = s[f[i]] /\ t[j] = s[f[j]]
    BY <1>1
  <2>3. QED
    BY <1>5, <2>1, <2>2 DEF Distinct
<1>6. ASSUME NoBlank(s) PROVE NoBlank(t)
  BY <1>1, <1>2, <1>6 DEF NoBlank
<1>7. QED
  BY <1>5, <1>6

\* StoreItem replaces the item of its container or adds one where there was none.
LEMMA StoredDistinct ==
  ASSUME items \in Seq(Item), NEW new \in RealItem
  PROVE  /\ Distinct(items) => Distinct(Stored(new))
         /\ NoBlank(items) => NoBlank(Stored(new))
<1>0. Len(items) \in Nat
  BY LenProperties
<1>1. CASE Position(new.key) = {}
  <2>1. /\ Len(Stored(new)) = Len(items) + 1
        /\ \A i \in 1..Len(items) : Stored(new)[i].key = items[i].key
        /\ Stored(new)[Len(items) + 1].key = new.key
    <3>1. [new EXCEPT !.ooms = 1].key = new.key
      BY DEF RealItem
    <3>2. QED
      BY <1>1, <3>1, StoredType
  <2>2. \A i \in 1..Len(items) : items[i].key # new.key
    BY <1>1 DEF Position
  <2>3. \A i \in 1..Len(items)+1 : i \in 1..Len(items) \/ i = Len(items) + 1
    BY <1>0
  <2>4. new.key # <<>>
    BY RealKey
  <2>5. QED
    BY <1>0, <2>1, <2>2, <2>3, <2>4 DEF Distinct, NoBlank
<1>2. CASE Position(new.key) # {}
  <2>1. /\ Len(Stored(new)) = Len(items)
        /\ \A i \in 1..Len(items) : Stored(new)[i].key = items[i].key
    BY <1>2, StoredType
  <2>2. QED
    BY <2>1 DEF Distinct, NoBlank
<1>3. QED
  BY <1>1, <1>2

\* Blank items come into the copy only if the report became shorter meanwhile.
LEMMA CopiedDistinct ==
  ASSUME items \in Seq(Item), lenRead \in Nat
  PROVE  /\ Distinct(items) => Distinct(Copied)
         /\ NoBlank(items) /\ lenRead <= Len(items) => NoBlank(Copied)
<1>1. Len(Copied) = lenRead /\ Len(items) \in Nat
  BY CopiedType, LenProperties
<1>2. \A i \in 1..lenRead : Copied[i] = IF i <= Len(items) THEN items[i] ELSE Blank
  BY DEF Copied
<1>3. Blank.key = <<>>
  BY DEF Blank
<1>4. QED
  BY <1>1, <1>2, <1>3 DEF Distinct, NoBlank

\* Every step keeps the items of the memory and of the ConfigMap distinct.
LEMMA DistinctInvKept ==
  ASSUME TypeInv, DistinctInv, Next
  PROVE  DistinctInv'
<1> USE DEF DistinctInv, reportVars, writeVars
<1>t. items \in Seq(Item) /\ doomed \in Seq(Item) /\ lenRead \in Nat
  BY DEF TypeInv, TypeOK
<1>e. Distinct(<<>>) /\ NoBlank(<<>>)
  BY DEF Distinct, NoBlank
<1>1. ASSUME UNCHANGED <<items, cmReport, reportJSON, shrunk>>,
             run' = "remove" => run = "remove" /\ lenRead' = lenRead
      PROVE  DistinctInv'
  BY <1>1 DEF Distinct, NoBlank
<1>2. ASSUME NEW w \in Workloads,
             DeliverStarted(w) \/ DeliverStartedTooLate(w) \/ DeliverScaling(w)
      PROVE  DistinctInv'
  BY <1>1, <1>2 DEF DeliverStarted, DeliverStartedTooLate, DeliverScaling, runVars
<1>3. CASE ControllerLookupFails \/ PatchFails \/ PodDone \/ FetchFails
  BY <1>1, <1>3 DEF ControllerLookupFails, PatchFails, PodDone, FetchFails
<1>4. ASSUME NEW c \in Containers, CreateItem(c) PROVE DistinctInv'
  BY <1>1, <1>4 DEF CreateItem
<1>5. CASE PatchOK \/ FetchResource
  BY <1>1, <1>5 DEF PatchOK, FetchResource
<1>6. CASE StoreItem
  <2>1. item \in RealItem /\ items' = Stored(item)
    BY <1>6 DEF StoreItem, TypeInv
  <2>2. Distinct(items') /\ (~shrunk => NoBlank(items'))
    BY <1>t, <2>1, StoredDistinct
  <2>3. QED
    BY <1>6, <2>2 DEF StoreItem
<1>7. CASE ReadLength
  BY <1>7, <1>t, LenProperties DEF ReadLength
<1>8. CASE RemoveItems
  <2> DEFINE kept == {i \in 1..lenRead : ~Matches(Copied[i], doomed)}
  <2>1. Copied \in Seq(Item) /\ Len(Copied) = lenRead /\ kept \in SUBSET (1..Len(Copied))
    BY <1>t, CopiedType
  <2>2. Distinct(Copied) /\ (~shrunk => NoBlank(Copied))
    BY <1>8, <1>t, CopiedDistinct DEF RemoveItems
  <2>3. items' \in Left(Copied, kept) \/ items' = items
    BY <1>8 DEF RemoveItems
  <2> HIDE DEF kept
  <2>4. Distinct(items') /\ (~shrunk => NoBlank(items'))
    BY <2>1, <2>2, <2>3, LeftDistinct
  <2>5. run' # "remove" /\ UNCHANGED <<cmReport, reportJSON, shrunk>>
    BY <1>8 DEF RemoveItems
  <2>6. QED
    BY <2>4, <2>5
<1>9. CASE RemoveOldItems
  <2>1. Distinct(items') /\ (~shrunk => NoBlank(items'))
    BY <1>9, <1>t, LeftDistinct DEF RemoveOldItems
  <2>2. shrunk' = (shrunk \/ run = "remove") /\ UNCHANGED <<cmReport, reportJSON, run>>
    BY <1>9 DEF RemoveOldItems, runVars
  <2>3. QED
    BY <2>1, <2>2
<1>10. ASSUME NEW g \in Goroutines, Snapshot(g) PROVE DistinctInv'
  <2>1. /\ reportJSON' = [reportJSON EXCEPT ![g] = items]
        /\ UNCHANGED <<items, cmReport, shrunk, run, lenRead>>
    BY <1>10 DEF Snapshot, runVars
  <2>2. \A h \in Goroutines : reportJSON'[h] \in {reportJSON[h], items}
    BY <2>1 DEF TypeInv
  <2>3. QED
    BY <2>1, <2>2
<1>11. ASSUME NEW g \in Goroutines, GetConfigMap(g) PROVE DistinctInv'
  BY <1>1, <1>11 DEF GetConfigMap, runVars
<1>12. ASSUME NEW g \in Goroutines, PutConfigMap(g) \/ WriteFails(g) PROVE DistinctInv'
  <2>1. /\ reportJSON' = [reportJSON EXCEPT ![g] = <<>>]
        /\ cmReport' \in {cmReport, reportJSON[g]}
        /\ run' = "remove" => run = "remove"
        /\ UNCHANGED <<items, shrunk, lenRead>>
    BY <1>12 DEF PutConfigMap, WriteFails, WriteReturns
  <2>2. \A h \in Goroutines : reportJSON'[h] \in {reportJSON[h], <<>>}
    BY <2>1 DEF TypeInv
  <2>3. QED
    BY <1>e, <2>1, <2>2
<1>13. CASE Crash \/ Panic
  <2>1. /\ items' = <<>>
        /\ run' = "down"
        /\ reportJSON' = [g \in Goroutines |-> <<>>]
        /\ UNCHANGED <<cmReport, shrunk>>
    BY <1>13 DEF Crash, Panic, ProcessLost
  <2>2. QED
    BY <1>e, <2>1
<1>14. CASE Start
  BY <1>14 DEF Start
<1>15. CASE StartEmpty \/ Cluster
  BY <1>1, <1>15 DEF StartEmpty, Cluster, Restart, Rollout, UserSetsLimit, runVars
<1>16. QED
  BY <1>2, <1>3, <1>4, <1>5, <1>6, <1>7, <1>8, <1>9, <1>10, <1>11, <1>12, <1>13, <1>14, <1>15
     DEF Next, ProcessOOMKilledPod, RemoveRelatedItems, WriteConfigMap

\* The report has one item per container, whatever is aged out, removed or reloaded
\* between CreateRightSizerReportItem and StoreItem, and no blank item unless items
\* were aged out just before RemoveItems took the lock.
THEOREM OneItemPerContainer == Spec => []ItemsDistinct
<1>1. Init => DistinctInv
  BY DEF Init, DistinctInv, Distinct, NoBlank
<1>2. TypeInv /\ DistinctInv /\ [Next]_vars => DistinctInv'
  <2>1. DistinctInv /\ UNCHANGED vars => DistinctInv'
    BY DEF DistinctInv, Distinct, NoBlank, vars, reportVars, runVars, writeVars
  <2>2. QED
    BY <2>1, DistinctInvKept
<1>3. DistinctInv => ItemsDistinct
  BY DEF DistinctInv, Distinct, NoBlank, ItemsDistinct
<1>4. QED
  BY <1>1, <1>2, <1>3, TypeInvariant, PTL DEF Spec
-----------------------------------------------------------------------------
(* Limits stay below the maximum                                           *)

About(s, k) == \E i \in 1..Len(s) : s[i].key = k
InReport(k) == About(items, k)

\* As long as nobody set a limit and no item left the report: every item starts from
\* the first limit; a container whose limit was ever updated is in the report, or
\* about to be stored; and so is one that Run saw with another limit.
MaxInv ==
  ~touched =>
    /\ run = "down" => items = <<>> /\ cmReport = <<>>
    /\ \A i \in 1..Len(items) : items[i].start = FirstLimit
    /\ run \in {"patch", "store"} => item.start = FirstLimit
    /\ run \in {"pod", "patch", "store"} =>
         \A k \in Keys : spec[k] # FirstLimit => InReport(k)
    /\ \A k \in Keys : limit[k] # FirstLimit \/ podLimit[k] # FirstLimit =>
                        InReport(k) \/ (run = "store" /\ item.key = k)
    /\ \A k \in Keys : limit[k] <= FirstLimit * MaxMultiplier

\* Storing an item keeps the others in the report, with what they started from.
LEMMA StoredKeeps ==
  ASSUME items \in Seq(Item), NEW new \in RealItem,
         new.start = FirstLimit, \A i \in 1..Len(items) : items[i].start = FirstLimit
  PROVE  /\ \A k : About(items, k) => About(Stored(new), k)
         /\ About(Stored(new), new.key)
         /\ \A i \in 1..Len(Stored(new)) : Stored(new)[i].start = FirstLimit
<1>0. Len(items) \in Nat
  BY LenProperties
<1>1. CASE Position(new.key) = {}
  <2>1. [new EXCEPT !.ooms = 1].key = new.key /\ [new EXCEPT !.ooms = 1].start = FirstLimit
    BY DEF RealItem
  <2>2. /\ Len(Stored(new)) = Len(items) + 1
        /\ \A i \in 1..Len(items) : Stored(new)[i] = items[i]
        /\ Stored(new)[Len(items) + 1].key = new.key
        /\ Stored(new)[Len(items) + 1].start = FirstLimit
    BY <1>1, <2>1, StoredType
  <2>3. \A i \in 1..Len(Stored(new)) : i \in 1..Len(items) \/ i = Len(items) + 1
    BY <1>0, <2>2
  <2>4. 1..Len(items) \subseteq 1..Len(Stored(new)) /\ Len(items) + 1 \in 1..Len(Stored(new))
    BY <1>0, <2>2
  <2>5. \A i \in 1..Len(Stored(new)) : Stored(new)[i].start = FirstLimit
    BY <2>2, <2>3
  <2>6. QED
    BY <2>2, <2>4, <2>5 DEF About
<1>2. CASE Position(new.key) # {}
  <2>1. /\ Len(Stored(new)) = Len(items)
        /\ \A i \in 1..Len(items) : Stored(new)[i].key = items[i].key
        /\ \A i \in 1..Len(items) : Stored(new)[i].start = items[i].start
    BY <1>2, StoredType
  <2>2. About(items, new.key)
    BY <1>2 DEF Position, About
  <2>3. QED
    BY <2>1, <2>2 DEF About
<1>3. QED
  BY <1>1, <1>2

\* Every step keeps what the limits started from, and the limits below the maximum
\* of it.
LEMMA MaxInvKept ==
  ASSUME TypeInv, PersistInv, MaxInv, Next
  PROVE  MaxInv'
<1> USE DEF MaxInv, reportVars, writeVars, limitVars, podVars
<1> SUFFICES ASSUME ~touched' PROVE MaxInv'
  OBVIOUS
<1>1. ASSUME ~touched, UNCHANGED <<items, limit, podLimit, item, spec>>,
             run' = "down" => run = "down" /\ cmReport' = cmReport,
             run' \in {"patch", "store"} => run \in {"patch", "store"},
             run' \in {"pod", "patch", "store"} => run \in {"pod", "patch", "store"},
             run = "store" => run' = "store"
      PROVE  MaxInv'
  BY <1>1 DEF InReport
<1>2. ASSUME NEW w \in Workloads, DeliverStarted(w) PROVE MaxInv'
  BY <1>2 DEF DeliverStarted, InReport
<1>3. ASSUME NEW w \in Workloads, DeliverStartedTooLate(w) \/ DeliverScaling(w)
      PROVE  MaxInv'
  BY <1>1, <1>3 DEF DeliverStartedTooLate, DeliverScaling, runVars
<1>4. CASE ControllerLookupFails \/ PodDone
  BY <1>4 DEF ControllerLookupFails, PodDone, InReport
<1>5. CASE PatchFails
  BY <1>5 DEF PatchFails, InReport
<1>6. CASE FetchResource \/ FetchFails \/ ReadLength
  BY <1>1, <1>6 DEF FetchResource, FetchFails, ReadLength
<1>7. ASSUME NEW c \in Containers, CreateItem(c) PROVE MaxInv'
  <2> DEFINE k == <<work, c>>
  <2>1. k \in Keys /\ items \in Seq(Item) /\ spec \in [Keys -> Pos]
        /\ gen \in [Workloads -> Pos]
    BY <1>7 DEF CreateItem, TypeInv, TypeOK, Keys
  <2> HIDE DEF k
  <2>2. NewItem(k).start = FirstLimit
    <3>1. CASE Position(k) = {}
      <4>1. ~InReport(k)
        BY <3>1 DEF Position, InReport, About
      <4>2. spec[k] = FirstLimit
        BY <1>7, <2>1, <4>1 DEF CreateItem
      <4>3. QED
        BY <2>1, <3>1, <4>2, NewItemType
    <3>2. CASE Position(k) # {}
      <4>1. PICK i \in Position(k) : NewItem(k).start = items[i].start
        BY <2>1, <3>2, NewItemType
      <4>2. QED
        BY <1>7, <4>1 DEF Position, CreateItem
    <3>3. QED
      BY <3>1, <3>2
  <2>3. item'.start = FirstLimit
    BY <1>7, <2>2 DEF CreateItem, k
  <2>4. run = "pod" /\ run' \in {"patch", "store"}
        /\ ~touched /\ UNCHANGED <<items, spec, limit, podLimit, cmReport>>
    BY <1>7 DEF CreateItem
  <2>5. QED
    BY <2>3, <2>4 DEF InReport
<1>8. CASE PatchOK
  <2> DEFINE k == item.key
             new == IncrementMemory(item, spec[k])
  <2>1. item \in RealItem /\ k \in Keys /\ spec[k] \in Pos /\ item.start = FirstLimit
    BY <1>8, RealKey DEF PatchOK, TypeInv
  <2>2. new <= FirstLimit * MaxMultiplier
    BY <2>1, IncrementType
  <2>3. item'.key = k /\ item'.start = FirstLimit
    BY <1>8, <2>1 DEF PatchOK, RealItem
  <2>4. limit' = [limit EXCEPT ![k] = new] /\ run = "patch" /\ run' = "store"
        /\ ~touched /\ UNCHANGED <<items, spec, podLimit, cmReport>>
    BY <1>8 DEF PatchOK
  <2> HIDE DEF k, new
  <2>5. \A h \in Keys : h # k => limit'[h] = limit[h]
    BY <2>4
  <2>6. \A h \in Keys : limit'[h] <= FirstLimit * MaxMultiplier
    BY <1>8, <2>2, <2>4 DEF TypeInv, TypeOK
  <2>7. QED
    BY <1>8, <2>3, <2>4, <2>5, <2>6 DEF InReport
<1>9. CASE StoreItem
  <2>1. items \in Seq(Item) /\ item \in RealItem /\ items' = Stored(item)
        /\ item.start = FirstLimit
    BY <1>9 DEF StoreItem, TypeInv, TypeOK
  <2>2. /\ \A k : About(items, k) => About(items', k)
        /\ About(items', item.key)
        /\ \A i \in 1..Len(items') : items'[i].start = FirstLimit
    BY <1>9, <2>1, StoredKeeps DEF StoreItem
  <2>3. run = "store" /\ run' = "pod" /\ ~touched /\ UNCHANGED <<spec, limit, podLimit>>
    BY <1>9 DEF StoreItem
  <2>4. QED
    BY <1>9, <2>2, <2>3 DEF StoreItem, InReport
<1>10. CASE RemoveItems
  <2>1. ~touched /\ UNCHANGED items
    BY <1>10 DEF RemoveItems
  <2>2. run = "remove" /\ run' \in {"write", "idle"}
        /\ UNCHANGED <<limit, podLimit, item, spec, cmReport>>
    BY <1>10 DEF RemoveItems
  <2>3. QED
    BY <1>1, <2>1, <2>2
<1>11. CASE RemoveOldItems \/ Crash \/ Panic
  BY <1>11 DEF RemoveOldItems, Crash, Panic, ProcessLost
<1>12. ASSUME NEW g \in Goroutines, Snapshot(g) \/ GetConfigMap(g) PROVE MaxInv'
  BY <1>1, <1>12 DEF Snapshot, GetConfigMap, runVars
<1>13. ASSUME NEW g \in Goroutines, PutConfigMap(g) \/ WriteFails(g) PROVE MaxInv'
  <2>1. writer[g] # "none"
    BY <1>13 DEF PutConfigMap, WriteFails
  <2>2. run # "down" /\ (g = "run" => run = "write")
    BY <2>1 DEF PersistInv, Goroutines
  <2>3. run' = IF g = "run" THEN "idle" ELSE run
    BY <1>13 DEF PutConfigMap, WriteFails, WriteReturns
  <2>4. ~touched /\ UNCHANGED <<items, limit, podLimit, item, spec>>
    BY <1>13 DEF PutConfigMap, WriteFails, WriteReturns
  <2>5. QED
    BY <1>1, <2>2, <2>3, <2>4
<1>14. CASE Start \/ StartEmpty
  BY <1>14 DEF Start, StartEmpty, InReport
<1>15. ASSUME NEW k \in Keys, NEW reason, Restart(k, reason) PROVE MaxInv'
  BY <1>1, <1>15 DEF Restart, runVars
<1>16. ASSUME NEW w \in Workloads, Rollout(w) PROVE MaxInv'
  BY <1>16 DEF Rollout, runVars, InReport
<1>17. ASSUME NEW k \in Keys, NEW m \in UserLimits, UserSetsLimit(k, m) PROVE MaxInv'
  BY <1>17 DEF UserSetsLimit
<1>18. QED
  BY <1>2, <1>3, <1>4, <1>5, <1>6, <1>7, <1>8, <1>9, <1>10, <1>11, <1>12, <1>13, <1>14,
     <1>15, <1>16, <1>17
     DEF Next, ProcessOOMKilledPod, RemoveRelatedItems, WriteConfigMap, Cluster

\* Over any number of OOM-kills and updates no limit exceeds the first-seen one times
\* the maximum (MaxAllowedEndingMemory, IncrementMemory), while nobody else sets
\* limits and the report does not forget the container.
THEOREM UpdatesWithinMaximum == Spec => []WithinMaximum
<1>1. Init => MaxInv
  <2>1. FirstLimit <= FirstLimit * MaxMultiplier
    BY MultipliersAssumption DEF FirstLimit
  <2>2. QED
    BY <2>1 DEF Init, MaxInv
<1>2. TypeInv /\ PersistInv /\ MaxInv /\ [Next]_vars => MaxInv'
  <2>1. MaxInv /\ UNCHANGED vars => MaxInv'
    BY DEF MaxInv, InReport, vars, reportVars, runVars, writeVars, limitVars, podVars
  <2>2. QED
    BY <2>1, MaxInvKept
<1>3. MaxInv => WithinMaximum
  BY DEF MaxInv, WithinMaximum
<1>4. QED
  BY <1>1, <1>2, <1>3, TypeInvariant, PersistInvariant, PTL DEF Spec
=============================================================================
