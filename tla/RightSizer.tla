----------------------------- MODULE RightSizer -----------------------------
(***************************************************************************)
(* The right-sizer controller (plugins/right-sizer/src): it watches for    *)
(* OOM-killed containers, keeps a report of them in memory and in a        *)
(* ConfigMap, and may raise the memory limits of their pod-controllers.    *)
(* Two goroutines share the report: Controller.Run, which handles one      *)
(* Kubernetes event after the other, and LoopRemoveOldItems, which ages    *)
(* items out.  Each action is a stretch of code that holds itemsLock, makes *)
(* one call to the Kubernetes API, or touches nothing shared.              *)
(*                                                                         *)
(* A workload is a pod-controller with one pod at a time; namespaces are   *)
(* the allowed ones.  Memory is a natural number and the two multipliers   *)
(* are integers.  Which items are too old at an instant is left open.      *)
(***************************************************************************)
EXTENDS Integers, Sequences, FiniteSets

CONSTANTS
  Workloads,            \* pod-controllers
  Containers,           \* the containers in each of their pods
  MinimumOOMs,          \* updateMemoryLimitsMinimumOOMs
  IncrementMultiplier,  \* updateMemoryLimitsIncrement
  MaxMultiplier,        \* updateMemoryLimitsMax
  UserLimits,           \* bound: the limits users set
  MaxRestarts,          \* bound: container starts in a behaviour
  MaxFaults,            \* bound: crashes, and failed calls to the Kubernetes API
  MaxGeneration         \* bound: metadata.generation

ASSUME MultipliersAssumption ==
  /\ MinimumOOMs \in Nat \ {0}
  /\ IncrementMultiplier \in Nat \ {0}
  /\ MaxMultiplier \in Nat \ {0}
  /\ UserLimits \subseteq Nat \ {0}
  /\ MaxRestarts \in Nat
  /\ MaxFaults \in Nat
  /\ MaxGeneration \in Nat

Keys == Workloads \X Containers
FirstLimit == 1
NoSpec == [k \in Keys |-> 0]

\* What make([]RightSizerReportItem, n) fills the slice with.
Blank == [key |-> <<>>, start |-> 0, end |-> 0, ooms |-> 0, gen |-> 0]

VARIABLES
  \* RightSizerReportBuilder
  items,        \* Report.Items
  \* Controller.Run
  run,          \* where it is
  work,         \* the workload of the event it handles
  todo,         \* OOM-killed containers of the pod still to be handled
  spec,         \* the limits in the pod it got from the lister
  item,         \* reportItem, a copy
  doomed,       \* relatedItems
  lenRead,      \* numStartingItems, read before the lock is taken
  \* WriteConfigMap in each goroutine
  writer,       \* where the goroutine is in it
  reportJSON,   \* the report it writes
  version,      \* the resourceVersion of the ConfigMap it got, 0 for none
  \* the cluster
  cmVersion,    \* resourceVersion of the ConfigMap, 0 if there is none
  cmReport,     \* the report in it
  limit,        \* memory limits in the pod-controllers
  gen,          \* metadata.generation of the pod-controllers
  podLimit,     \* memory limits in their pods
  oomKilled,    \* whose last termination was an OOM-kill after startTime
  started,      \* Started events that were not delivered yet
  restarts,     \* how often containers were started
  \* history
  kills,        \* how often each container was OOM-killed, up to MinimumOOMs
  patched,      \* the containers whose limits the controller has updated
  shrunk,       \* items were aged out between lenRead and the lock
  raced,        \* the latest report was read while another write was under way
  failures,     \* API calls that have failed
  crashes,      \* crashes so far
  touched       \* a user has set a limit, or an item has left the report

reportVars == <<items, shrunk, touched>>
runVars == <<run, work, todo, spec, item, doomed, lenRead>>
writeVars == <<writer, reportJSON, version, cmVersion, cmReport, raced>>
limitVars == <<limit, gen, patched>>
podVars == <<podLimit, oomKilled, started, restarts, kills>>
vars == <<reportVars, runVars, writeVars, limitVars, podVars, crashes, failures>>

Goroutines == {"run", "age"}

\* What is left of the sequence s at the positions kept, in their order (the set has
\* one element).
Left(s, kept) ==
  LET m == Cardinality(kept)
  IN {[j \in 1..m |-> s[f[j]]] :
        f \in {g \in [1..m -> kept] : \A i, j \in 1..m : i < j => g[i] < g[j]}}
-----------------------------------------------------------------------------
\* A call to the Kubernetes API fails.
Fail == crashes + failures < MaxFaults /\ failures' = failures + 1

(* The report                                                              *)

Position(k) == {i \in 1..Len(items) : items[i].key = k}

\* Mutant: StartingMemory is only taken over from an item that is there.
NewItemWithoutStart(k) ==
  IF Position(k) = {}
    THEN [key |-> k, start |-> 0, end |-> spec[k], ooms |-> 1, gen |-> gen[k[1]]]
    ELSE LET old == items[CHOOSE i \in Position(k) : TRUE]
         IN [old EXCEPT !.ooms = @ + 1, !.end = spec[k]]

\* CreateRightSizerReportItem, with PopulateExistingItemFields.
NewItem(k) ==
  IF Position(k) = {}
    THEN [key |-> k, start |-> spec[k], end |-> spec[k], ooms |-> 1, gen |-> gen[k[1]]]
    ELSE LET old == items[CHOOSE i \in Position(k) : TRUE]
         IN [old EXCEPT !.ooms = @ + 1, !.end = spec[k]]

\* Mutant: an item is never looked up before it is stored.
StoredAgain(new) == Append(items, new)

\* StoreItem: FirstOOM and StartingMemory of an item that is there are kept,
\* and an item that is not there, or not any more, starts to count at 1.
Stored(new) ==
  IF Position(new.key) = {}
    THEN Append(items, [new EXCEPT !.ooms = 1])
    ELSE [i \in 1..Len(items) |->
            IF items[i].key = new.key THEN [new EXCEPT !.start = items[i].start] ELSE items[i]]

\* Mutant: the maximum follows the limits that were set last.
MaxAllowedOfEnding(it) == it.end * MaxMultiplier

MaxAllowedEndingMemory(it) == it.start * MaxMultiplier

\* IncrementMemory; 0 if the maximum would be exceeded.
IncrementMemory(it, current) ==
  IF current * IncrementMultiplier > MaxAllowedEndingMemory(it)
    THEN 0 ELSE current * IncrementMultiplier

\* UpdateMemoryLimitsPrecheck, with updating enabled.
Precheck(it) == it.ooms >= MinimumOOMs

Matches(kept, doomedItems) == \E j \in 1..Len(doomedItems) : kept.key = doomedItems[j].key

\* RemoveItems decrements its index inside the loop over the items to remove,
\* so it reads keptItems[-1] when the first item is removed while others are
\* left to be compared.  Both slices have the report's order and no key twice.
RemovePanics(kept, doomedItems) ==
  Len(kept) > 0 /\ \E j \in 1..(Len(doomedItems) - 1) : kept[1].key = doomedItems[j].key
-----------------------------------------------------------------------------
(* Controller.Run: a container was started                                 *)

\* processEvent gets the pod; processOOMKilledPod goes through its containers.
\* Every container whose last termination was an OOM-kill is handled, whichever
\* container was started.
DeliverStarted(w) ==
  /\ run = "idle"
  /\ started[w] > 0
  /\ started' = [started EXCEPT ![w] = @ - 1]
  /\ run' = "pod"
  /\ work' = w
  /\ todo' = {c \in Containers : <<w, c>> \in oomKilled}
  /\ spec' = podLimit
  /\ UNCHANGED <<item, doomed, lenRead, reportVars, writeVars, limitVars, podLimit,
                 oomKilled, restarts, kills, crashes, failures>>

\* The pod is gone when its event is handled.
DeliverStartedTooLate(w) ==
  /\ run = "idle"
  /\ started[w] > 0
  /\ started' = [started EXCEPT ![w] = @ - 1]
  /\ UNCHANGED <<runVars, reportVars, writeVars, limitVars, podLimit, oomKilled,
                 restarts, kills, crashes, failures>>

\* GetControllerFromPod fails: the other containers and WriteConfigMap are skipped.
ControllerLookupFails ==
  /\ run = "pod"
  /\ todo # {}
  /\ run' = "idle"
  /\ todo' = {}
  /\ spec' = NoSpec
  /\ Fail
  /\ UNCHANGED <<work, item, doomed, lenRead, reportVars, writeVars, limitVars,
                 podVars, crashes>>

CreateItem(c) ==
  LET it == NewItem(<<work, c>>) IN
  /\ run = "pod"
  /\ c \in todo
  /\ todo' = todo \ {c}
  /\ item' = it
  /\ run' = IF Precheck(it) /\ IncrementMemory(it, spec[<<work, c>>]) > 0
              THEN "patch" ELSE "store"
  /\ UNCHANGED <<work, spec, doomed, lenRead, reportVars, writeVars, limitVars, podVars,
                 crashes, failures>>

\* A patch that changes nothing leaves the generation alone.
PatchOK ==
  LET k   == item.key
      new == IncrementMemory(item, spec[k])
      g   == IF limit[k] = new THEN gen[work] ELSE gen[work] + 1
  IN /\ run = "patch"
     /\ g <= MaxGeneration
     /\ run' = "store"
     /\ limit' = [limit EXCEPT ![k] = new]
     /\ gen' = [gen EXCEPT ![work] = g]
     /\ item' = [item EXCEPT !.gen = g, !.end = new]
     /\ patched' = patched \cup {k}
     /\ UNCHANGED <<work, todo, spec, doomed, lenRead, reportVars, writeVars,
                    podVars, crashes, failures>>

PatchFails ==
  /\ run = "patch"
  /\ run' = "store"
  /\ Fail
  /\ UNCHANGED <<work, todo, spec, item, doomed, lenRead, reportVars, writeVars, limitVars,
                 podVars, crashes>>

StoreItem ==
  /\ run = "store"
  /\ run' = "pod"
  /\ items' = Stored(item)
  /\ item' = Blank
  /\ UNCHANGED <<work, todo, spec, doomed, lenRead, shrunk, touched, writeVars, limitVars,
                 podVars, crashes, failures>>

PodDone ==
  /\ run = "pod"
  /\ todo = {}
  /\ run' = "write"
  /\ spec' = NoSpec
  /\ writer' = [writer EXCEPT !["run"] = "snapshot"]
  /\ UNCHANGED <<work, todo, item, doomed, lenRead, reportVars, reportJSON, version,
                 cmVersion, cmReport, raced, limitVars, podVars, crashes, failures>>
-----------------------------------------------------------------------------
(* Controller.Run: another event of a pod-controller                       *)

\* MatchItems, under the read lock.
DeliverScaling(w) ==
  /\ run = "idle"
  /\ \E i \in 1..Len(items) : items[i].key # <<>> /\ items[i].key[1] = w
  /\ run' = "fetch"
  /\ work' = w
  /\ doomed' \in Left(items, {i \in 1..Len(items) : items[i].key # <<>> /\ items[i].key[1] = w})
  /\ UNCHANGED <<todo, spec, item, lenRead, reportVars, writeVars, limitVars, podVars,
                 crashes, failures>>

\* The resource is fetched; what is older and has other limits is to go.
FetchResource ==
  LET older == {i \in 1..Len(doomed) : /\ doomed[i].gen < gen[work]
                                       /\ doomed[i].end # limit[doomed[i].key]}
  IN /\ run = "fetch"
     /\ doomed' \in Left(doomed, older)
     /\ run' = IF older = {} THEN "idle" ELSE "length"
     /\ UNCHANGED <<work, todo, spec, item, lenRead, reportVars, writeVars, limitVars,
                    podVars, crashes, failures>>

FetchFails ==
  /\ run = "fetch"
  /\ run' = "idle"
  /\ doomed' = <<>>
  /\ Fail
  /\ UNCHANGED <<work, todo, spec, item, lenRead, reportVars, writeVars, limitVars,
                 podVars, crashes>>

\* RemoveItems reads the length of the report before it takes the lock.
ReadLength ==
  /\ run = "length"
  /\ lenRead' = Len(items)
  /\ run' = "remove"
  /\ UNCHANGED <<work, todo, spec, item, doomed, reportVars, writeVars, limitVars,
                 podVars, crashes, failures>>

Copied == [i \in 1..lenRead |-> IF i <= Len(items) THEN items[i] ELSE Blank]

\* Mutant: the report is not written when related items were removed.
RemoveItemsUnsaved ==
  /\ run = "remove"
  /\ ~RemovePanics(Copied, doomed)
  /\ items' \in Left(Copied, {i \in 1..lenRead : ~Matches(Copied[i], doomed)})
  /\ run' = "idle"
  /\ doomed' = <<>>
  /\ lenRead' = 0
  /\ touched' = TRUE
  /\ UNCHANGED <<work, todo, spec, item, shrunk, writeVars, limitVars, podVars, crashes,
                 failures>>

RemoveItems ==
  LET kept == {i \in 1..lenRead : ~Matches(Copied[i], doomed)}
      any  == kept # 1..lenRead IN
  /\ run = "remove"
  /\ ~RemovePanics(Copied, doomed)
  /\ items' \in IF any THEN Left(Copied, kept) ELSE {items}
  /\ run' = IF any THEN "write" ELSE "idle"
  /\ writer' = IF any THEN [writer EXCEPT !["run"] = "snapshot"] ELSE writer
  /\ doomed' = <<>>
  /\ lenRead' = 0
  /\ touched' = (touched \/ any)
  /\ UNCHANGED <<work, todo, spec, item, shrunk, reportJSON, version, cmVersion, cmReport,
                 raced, limitVars, podVars, crashes, failures>>
-----------------------------------------------------------------------------
(* LoopRemoveOldItems and WriteConfigMap                                   *)

\* RemoveOldItems: an item without a LastOOM is always too old.
RemoveOldItems ==
  /\ run # "down"
  /\ writer["age"] = "none"
  /\ \E kept \in SUBSET (1..Len(items)) :
       /\ kept # 1..Len(items)
       /\ \A i \in kept : items[i] # Blank
       /\ items' \in Left(items, kept)
  /\ writer' = [writer EXCEPT !["age"] = "snapshot"]
  /\ shrunk' = (shrunk \/ run = "remove")
  /\ touched' = TRUE
  /\ UNCHANGED <<runVars, reportJSON, version, cmVersion, cmReport, raced, limitVars,
                 podVars, crashes, failures>>

\* WriteConfigMap reads the report, then gets the ConfigMap, then puts it back.
Snapshot(g) ==
  /\ writer[g] = "snapshot"
  /\ writer' = [writer EXCEPT ![g] = "get"]
  /\ reportJSON' = [reportJSON EXCEPT ![g] = items]
  /\ raced' = \E h \in Goroutines \ {g} : writer[h] \in {"get", "put"}
  /\ UNCHANGED <<version, cmVersion, cmReport, runVars, reportVars, limitVars, podVars,
                 crashes, failures>>

GetConfigMap(g) ==
  /\ writer[g] = "get"
  /\ writer' = [writer EXCEPT ![g] = "put"]
  /\ version' = [version EXCEPT ![g] = cmVersion]
  /\ UNCHANGED <<reportJSON, cmVersion, cmReport, raced, runVars, reportVars, limitVars,
                 podVars, crashes, failures>>

\* Either way the goroutine goes back to its loop; its error is only logged.
WriteReturns(g) ==
  /\ writer' = [writer EXCEPT ![g] = "none"]
  /\ reportJSON' = [reportJSON EXCEPT ![g] = <<>>]
  /\ version' = [version EXCEPT ![g] = 0]
  /\ run' = IF g = "run" THEN "idle" ELSE run
  /\ UNCHANGED <<work, todo, spec, item, doomed, lenRead, raced, reportVars, limitVars,
                 podVars, crashes>>

\* Update (or Create, where nothing was found) of an unchanged ConfigMap.  Its
\* resourceVersion matters only to another write under way.
PutConfigMap(g) ==
  /\ writer[g] = "put"
  /\ version[g] = cmVersion
  /\ cmVersion' = IF \E h \in Goroutines \ {g} : version[h] = 1 THEN 2 ELSE 1
  /\ cmReport' = reportJSON[g]
  /\ WriteReturns(g)
  /\ UNCHANGED failures

\* A conflict, or any other error of Get, Update or Create.
WriteFails(g) ==
  /\ writer[g] \in {"get", "put"}
  /\ WriteReturns(g)
  /\ Fail
  /\ UNCHANGED <<cmVersion, cmReport>>
-----------------------------------------------------------------------------
(* Crash and restart                                                       *)

ProcessLost ==
  /\ run' = "down"
  /\ items' = <<>>
  /\ todo' = {}
  /\ spec' = NoSpec
  /\ item' = Blank
  /\ doomed' = <<>>
  /\ lenRead' = 0
  /\ writer' = [g \in Goroutines |-> "none"]
  /\ reportJSON' = [g \in Goroutines |-> <<>>]
  /\ version' = [g \in Goroutines |-> 0]
  /\ touched' = TRUE
  /\ UNCHANGED <<work, shrunk, cmVersion, cmReport, raced, limitVars, podVars, failures>>

Crash ==
  /\ run # "down"
  /\ crashes + failures < MaxFaults
  /\ crashes' = crashes + 1
  /\ ProcessLost

\* Nothing recovers from a panic in Run's goroutine.
Panic ==
  /\ run = "remove"
  /\ RemovePanics(Copied, doomed)
  /\ ProcessLost
  /\ UNCHANGED crashes

\* ReadConfigMap finds the report, or creates an empty ConfigMap.  What ended
\* before startTime is not looked at any more.
Start ==
  /\ run = "down"
  /\ run' = "idle"
  /\ items' = cmReport
  /\ cmVersion' = IF cmVersion = 0 THEN 1 ELSE cmVersion
  /\ oomKilled' = {}
  /\ UNCHANGED <<work, todo, spec, item, doomed, lenRead, shrunk, touched, writer,
                 reportJSON, version, cmReport, raced, limitVars, podLimit,
                 started, restarts, kills, crashes, failures>>

\* ReadConfigMap fails: Run logs it and goes on with an empty report.
StartEmpty ==
  /\ run = "down"
  /\ run' = "idle"
  /\ oomKilled' = {}
  /\ Fail
  /\ UNCHANGED <<items, work, todo, spec, item, doomed, lenRead, shrunk, touched, writeVars,
                 limitVars, podLimit, started, restarts, kills, crashes>>
-----------------------------------------------------------------------------
(* The cluster                                                             *)

\* A container ends, is started again, and the kubelet emits an event.
Restart(k, reason) ==
  /\ restarts < MaxRestarts
  /\ restarts' = restarts + 1
  /\ oomKilled' = IF reason = "oom" /\ run # "down" THEN oomKilled \cup {k}
                                                   ELSE oomKilled \ {k}
  /\ started' = [started EXCEPT ![k[1]] = @ + 1]
  /\ kills' = IF reason = "oom" /\ kills[k] < MinimumOOMs
                THEN [kills EXCEPT ![k] = @ + 1] ELSE kills
  /\ UNCHANGED <<runVars, reportVars, writeVars, limitVars, podLimit, crashes, failures>>

\* The pod is replaced by one with the limits of the pod-controller.
Rollout(w) ==
  /\ \E c \in Containers : podLimit[<<w, c>>] # limit[<<w, c>>]
  /\ podLimit' = [k \in Keys |-> IF k[1] = w THEN limit[k] ELSE podLimit[k]]
  /\ oomKilled' = {k \in oomKilled : k[1] # w}
  /\ UNCHANGED <<runVars, reportVars, writeVars, limitVars, started, restarts,
                 kills, crashes, failures>>

UserSetsLimit(k, m) ==
  /\ m # limit[k]
  /\ gen[k[1]] < MaxGeneration
  /\ limit' = [limit EXCEPT ![k] = m]
  /\ gen' = [gen EXCEPT ![k[1]] = @ + 1]
  /\ touched' = TRUE
  /\ UNCHANGED <<runVars, items, shrunk, writeVars, patched, podVars, crashes, failures>>
-----------------------------------------------------------------------------
Init ==
  /\ items = <<>>
  /\ run = "down"
  /\ work \in Workloads
  /\ todo = {}
  /\ spec = NoSpec
  /\ item = Blank
  /\ doomed = <<>>
  /\ lenRead = 0
  /\ writer = [g \in Goroutines |-> "none"]
  /\ reportJSON = [g \in Goroutines |-> <<>>]
  /\ version = [g \in Goroutines |-> 0]
  /\ cmVersion = 0
  /\ cmReport = <<>>
  /\ limit = [k \in Keys |-> FirstLimit]
  /\ gen = [w \in Workloads |-> 1]
  /\ podLimit = [k \in Keys |-> FirstLimit]
  /\ oomKilled = {}
  /\ started = [w \in Workloads |-> 0]
  /\ restarts = 0
  /\ kills = [k \in Keys |-> 0]
  /\ patched = {}
  /\ shrunk = FALSE
  /\ raced = FALSE
  /\ failures = 0
  /\ crashes = 0
  /\ touched = FALSE

ProcessOOMKilledPod ==
  \/ ControllerLookupFails \/ (\E c \in Containers : CreateItem(c))
  \/ PatchOK \/ PatchFails \/ StoreItem \/ PodDone

RemoveRelatedItems == FetchResource \/ FetchFails \/ ReadLength \/ RemoveItems \/ Panic

WriteConfigMap(g) == Snapshot(g) \/ GetConfigMap(g) \/ PutConfigMap(g) \/ WriteFails(g)

Cluster ==
  \/ \E k \in Keys, reason \in {"oom", "error"} : Restart(k, reason)
  \/ \E w \in Workloads : Rollout(w)
  \/ \E k \in Keys, m \in UserLimits : UserSetsLimit(k, m)

Next ==
  \/ \E w \in Workloads : DeliverStarted(w) \/ DeliverStartedTooLate(w) \/ DeliverScaling(w)
  \/ ProcessOOMKilledPod
  \/ RemoveRelatedItems
  \/ RemoveOldItems
  \/ \E g \in Goroutines : WriteConfigMap(g)
  \/ Crash \/ Start \/ StartEmpty
  \/ Cluster

Spec == Init /\ [][Next]_vars
-----------------------------------------------------------------------------
(* Properties                                                              *)

Item == [key : Keys, start : Nat \ {0}, end : Nat \ {0}, ooms : Nat \ {0}, gen : Nat \ {0}]
          \cup {Blank}

\* The variables stay in their types; an item that is not blank has limits, a
\* generation and at least one OOM-kill.
TypeOK ==
  /\ items \in Seq(Item)
  /\ run \in {"down", "idle", "pod", "patch", "store", "write", "fetch", "length", "remove"}
  /\ work \in Workloads
  /\ todo \subseteq Containers
  /\ item \in Item
  /\ doomed \in Seq(Item)
  /\ lenRead \in Nat
  /\ writer \in [Goroutines -> {"none", "snapshot", "get", "put"}]
  /\ cmVersion \in Nat
  /\ cmReport \in Seq(Item)
  /\ limit \in [Keys -> Nat]
  /\ gen \in [Workloads -> Nat]
  /\ patched \subseteq Keys

\* The report has one item per container, whatever is aged out, removed or
\* reloaded between CreateRightSizerReportItem and StoreItem; and every item is
\* about a container, unless items were aged out just before RemoveItems took
\* the lock.
ItemsDistinct ==
  /\ \A i, j \in 1..Len(items) :
       i # j /\ items[i].key = items[j].key => items[i].key = <<>>
  /\ ~shrunk => \A i \in 1..Len(items) : items[i].key # <<>>

\* README: the report is persisted in a ConfigMap.  Between two events it has
\* what the memory has, after a restart too, as long as no call to the API
\* failed and the two goroutines did not write at the same time.
PersistedUnlessRaced ==
  run = "idle" /\ (\A g \in Goroutines : writer[g] = "none") /\ failures = 0 /\ ~raced
    => cmReport = items

\* README: the limits of the first-seen OOM-kill times the maximum is the
\* highest value to which limits are updated.  It holds over any number of
\* OOM-kills and updates while nobody else touches the limits and the report
\* does not forget the container.
WithinMaximum ==
  ~touched => \A k \in Keys : limit[k] <= FirstLimit * MaxMultiplier

\* README: a container must have a minimum number of OOM-kills before its
\* limits are updated.
PatchNeedsMinimumOOMs == \A k \in patched : kills[k] >= MinimumOOMs

\* report.go: RemoveItems removes the items it is given from the report.
RemoveItemsReturns == run = "remove" => ~RemovePanics(Copied, doomed)
=============================================================================
