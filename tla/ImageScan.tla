----------------------------- MODULE ImageScan ------------------------------
(***************************************************************************)
(* The image scanner (plugins/trivy).  A CronJob starts a run.  It fetches *)
(* the report of the last run from Insights, lists the images of the       *)
(* cluster, scans a limited number of them, those never scanned first and  *)
(* then those whose scan is the oldest, looks for newer versions of the    *)
(* images with vulnerabilities, scans these too and merges everything into *)
(* a new report.  Scans run in goroutines below a semaphore and share two  *)
(* maps, each with a lock.                                                 *)
(*                                                                         *)
(* An image of the cluster is a name and an ID; an image that could not be *)
(* pulled has no ID.  The time of the last scan is a rank: 0 is the oldest *)
(* and equal ranks are scans of one run.  An entry of the report refers to *)
(* its vulnerabilities, whose details are kept once in the report.         *)
(* The report holds a list of entries; entries that are equal are one here.*)
(***************************************************************************)
EXTENDS Integers, FiniteSets, FiniteSetsExt

CONSTANTS
  Images,              \* [name, id] of the images there may be; id is NoID without one
  NoID,
  Found,               \* for each name, the digest a scan finds
  Vulnerabilities,     \* for each name, the vulnerabilities a scan finds
  Key,                 \* for each name GetRecommendationKey; NoTag without a tag
  NoTag,
  Newest,              \* for each name the newest version, or the name itself
  MaxImagesToScan, MaxConcurrentScans, retryCount,
  MaxChanges,          \* bound: rollouts that change the cluster
  MaxFaults            \* bound: runs that are killed or whose report is lost

ASSUME ImageScanAssumption ==
  /\ MaxImagesToScan \in Nat /\ MaxConcurrentScans \in Nat \ {0} /\ retryCount \in Nat \ {0}
  /\ \A i \in Images : Newest[i.name] \in DOMAIN Key

VARIABLES
  cluster,     \* images of the cluster that the namespace lists and IMAGES_TO_SCAN let through
  report,      \* the entries of the last report, at Insights
  details,     \* the vulnerabilities that report has the details of
  phase,       \* where the run is
  listed,      \* inClusterImages
  kept,        \* lastReport.Images
  toScan,      \* images that ScanImages is called with
  worker,      \* for each of them where its goroutine is
  tries,       \* scans it has begun
  reportByRef, \* the result of each: "nil" or "ok"
  lock,        \* who holds reportByRefLock
  fresh,       \* allReports, as entries
  changes, faults

scanVars == <<toScan, worker, tries, reportByRef, lock>>
vars == <<cluster, report, details, phase, listed, kept, scanVars, fresh, changes, faults>>

Names == DOMAIN Key
Refs == Images \cup {[name |-> n, id |-> NoID] : n \in {Newest[i.name] : i \in Images}}
Entry(name, sha, rec, vulns, rank) ==
  [name |-> name, sha |-> sha, rec |-> rec, vulns |-> vulns, rank |-> rank]
Nobody == [name |-> NoTag, id |-> NoID]
-----------------------------------------------------------------------------
(* What is scanned and what is kept                                        *)

\* GetUniqueID: an image without an ID is known by its name.  The entry of such an
\* image has an ID, so that the two are never the same.
uid(i) == IF i.id = NoID THEN i.name ELSE i.id

\* GetUnscannedImagesToScan: one image for each unique ID the report does not have,
\* recommendations included, in any order, cut off at the limit.
GetUnscannedImagesToScan(images, old) ==
  LET unscanned == {i \in images : ~\E e \in old : e.sha = uid(i)}
      ids == {uid(i) : i \in unscanned}
      n == Min({Cardinality(ids), MaxImagesToScan})
  IN  {s \in SUBSET unscanned : Cardinality(s) = n /\ Cardinality({uid(i) : i \in s}) = n}

\* Mutant: the newest scans are repeated first.
GetImagesToReScanNewest(images, old, room) ==
  LET again == {e \in old : ~e.rec /\ \E i \in images : i.name = e.name /\ uid(i) = e.sha}
      n == Min({Cardinality(again), room})
  IN  {{i \in images : \E e \in s : i.name = e.name /\ uid(i) = e.sha} :
         s \in {t \in SUBSET again : /\ Cardinality(t) = n
                                     /\ \A e \in t, f \in again \ t : e.rank >= f.rank}}

\* GetImagesToReScan: the entries whose scan is the oldest, while there is room.
GetImagesToReScan(images, old, room) ==
  LET again == {e \in old : ~e.rec /\ \E i \in images : i.name = e.name /\ uid(i) = e.sha}
      n == Min({Cardinality(again), room})
  IN  {{i \in images : \E e \in s : i.name = e.name /\ uid(i) = e.sha} :
         s \in {t \in SUBSET again : /\ Cardinality(t) = n
                                     /\ \A e \in t, f \in again \ t : e.rank <= f.rank}}

\* getImages: entries that match the images, or do not; the others of the two sorts pass.
getImages(base, images, isRecommendation, match) ==
  {e \in base :
     IF isRecommendation
       THEN ~e.rec \/ (\E i \in images : Key[i.name] = Key[e.name]) = match
       ELSE e.rec \/ (\E i \in images : uid(i) = e.sha) = match}

matching(images) == getImages(report, images, FALSE, TRUE)

\* Mutant: all that is in the cluster is taken out, not only what is scanned now.
GetKeptUnlimited(images, chosen) ==
  getImages(getImages(matching(images), images, FALSE, FALSE), images, TRUE, TRUE)

\* The entries of the last report that outlive the choice of what to scan.
GetKept(images, chosen) ==
  getImages(getImages(matching(images), chosen, FALSE, FALSE), images, TRUE, TRUE)
-----------------------------------------------------------------------------
(* ScanImages                                                              *)

\* The maps are filled with nil for every image before the first goroutine starts.
StartScans(images) ==
  /\ toScan' = images
  /\ worker' = [r \in Refs |-> IF r \in images THEN "queued" ELSE "none"]
  /\ tries' = [r \in Refs |-> 0]
  /\ reportByRef' = [r \in Refs |-> "nil"]
  /\ lock' = Nobody

StopScans ==
  /\ toScan' = {}
  /\ worker' = [r \in Refs |-> "none"]
  /\ tries' = [r \in Refs |-> 0]
  /\ reportByRef' = [r \in Refs |-> "nil"]
  /\ lock' = Nobody

Scanning == phase \in {"scan", "scanNewest"}
AtWork == {r \in toScan : worker[r] \notin {"queued", "done"}}

\* The loop takes a place of the semaphore and starts the goroutine.
Launch(r) ==
  /\ Scanning /\ worker[r] = "queued"
  /\ Cardinality(AtWork) < MaxConcurrentScans
  /\ worker' = [worker EXCEPT ![r] = "scanning"]
  /\ UNCHANGED <<cluster, report, details, phase, listed, kept, toScan, tries,
                 reportByRef, lock, fresh, changes, faults>>

\* Mutant: ScanImage hands on the error of RunCommand as it is.
scanErrorsBare == {"unknownOS", "other"}

\* The errors ScanImage returns: each is wrapped, so that none has the text
\* util.UnknownOSMessage, which ScanImages compares it with.
scanErrors == {"other"}

\* ScanImage ends, and the goroutine locks reportByRefLock and sets the result.
ScanOk(r) ==
  /\ worker[r] = "scanning" /\ lock = Nobody
  /\ reportByRef' = [reportByRef EXCEPT ![r] = "ok"]
  /\ worker' = [worker EXCEPT ![r] = "done"]
  /\ UNCHANGED <<cluster, report, details, phase, listed, kept, toScan, tries, lock,
                 fresh, changes, faults>>

ScanFails(r) ==
  /\ worker[r] = "scanning" /\ lock = Nobody
  /\ lock' = r
  /\ reportByRef' = [reportByRef EXCEPT ![r] = "nil"]
  /\ \E e \in scanErrors : worker' = [worker EXCEPT ![r] = e]
  /\ UNCHANGED <<cluster, report, details, phase, listed, kept, toScan, tries,
                 fresh, changes, faults>>

\* With errorsByRefLock, which is only taken while reportByRefLock is held, the error
\* is recorded.  The break for an unknown OS leaves reportByRefLock locked.
RecordError(r) ==
  /\ worker[r] \in {"unknownOS", "other"}
  /\ IF worker[r] = "unknownOS"
       THEN worker' = [worker EXCEPT ![r] = "done"] /\ UNCHANGED <<tries, lock>>
       ELSE /\ lock' = Nobody
            /\ tries' = [tries EXCEPT ![r] = @ + 1]
            /\ worker' = [worker EXCEPT ![r] = IF tries[r] + 1 = retryCount THEN "done" ELSE "scanning"]
  /\ UNCHANGED <<cluster, report, details, phase, listed, kept, toScan, reportByRef,
                 fresh, changes, faults>>

\* ConvertTrivyResultsToImageReport: a recommendation that could not be scanned is
\* left out, an image that could not be is reported with its error.
Converted(rec) ==
  {Entry(r.name, IF r.id = NoID THEN Found[r.name] ELSE r.id, rec, Vulnerabilities[r.name], 0) :
      r \in {q \in toScan : reportByRef[q] = "ok"}}
  \cup {Entry(r.name, r.id, rec, {}, 0) : r \in {q \in toScan : reportByRef[q] # "ok" /\ ~rec}}
-----------------------------------------------------------------------------
(* The run                                                                 *)

\* Up to ScanImages.  An entry that is kept and whose name has no tag makes the run
\* panic, since getImages takes the part behind the colon (parts[1]).
Start ==
  /\ phase = "idle"
  /\ listed' = cluster
  /\ \E new \in GetUnscannedImagesToScan(cluster, report) :
       \E old \in GetImagesToReScan(cluster, report, MaxImagesToScan - Cardinality(new)) :
         LET rest == getImages(matching(cluster), new \cup old, FALSE, FALSE) IN
         IF \E e \in rest : Key[e.name] = NoTag
           THEN phase' = "panicked" /\ UNCHANGED <<kept, scanVars>>
           ELSE /\ phase' = "scan"
                /\ kept' = GetKept(cluster, new \cup old)
                /\ StartScans(new \cup old)
  /\ UNCHANGED <<cluster, report, details, fresh, changes, faults>>

\* ScanImages returns; GetNewestVersionsToScan asks the registries, some of which may
\* fail.  An image without an ID does not match its own report and gets no recommendation.
\* With NO_RECOMMENDATIONS no registry is asked, which leaves what no answer leaves: kept
\* as it is, and nothing to scan.
GetNewestVersions ==
  /\ phase = "scan" /\ \A r \in toScan : worker[r] = "done"
  /\ fresh' = Converted(FALSE)
  /\ LET vulnerable == {r \in toScan : /\ reportByRef[r] = "ok" /\ r.id # NoID
                                       /\ Vulnerabilities[r.name] # {}
                                       /\ Key[r.name] # NoTag /\ Newest[r.name] # r.name}
     IN  \E answered \in SUBSET vulnerable :
           LET newest == {[name |-> Newest[r.name], id |-> NoID] : r \in answered}
           IN  /\ kept' = getImages(kept, newest, TRUE, FALSE)
               /\ StartScans(newest)
  /\ phase' = "scanNewest"
  /\ UNCHANGED <<cluster, report, details, listed, changes, faults>>

\* Minimize: the time of the scan is the newest of all, and the details nobody refers
\* to any more are dropped.
Ranked(old, new) ==
  LET ranks == {e.rank : e \in {f \in old : ~f.rec}}
      dense(n) == Cardinality({r \in ranks : r < n})
  IN  {[e EXCEPT !.rank = IF e.rec THEN 0 ELSE dense(e.rank)] : e \in old}
      \cup {[e EXCEPT !.rank = IF e.rec THEN 0 ELSE Cardinality(ranks)] : e \in new}

vulnsOf(entries) == UNION {e.vulns : e \in entries}

\* Mutant: the entries that were kept are not asked for their vulnerabilities.
detailsAfterFresh(old, new) == vulnsOf(new)

detailsAfter(old, new) == (details \cup vulnsOf(new)) \cap vulnsOf(old \cup new)

Reset ==
  /\ StopScans
  /\ kept' = {} /\ fresh' = {} /\ listed' = {}
  /\ phase' = "idle"

\* The report is written, and uploaded.
Minimize ==
  /\ phase = "scanNewest" /\ \A r \in toScan : worker[r] = "done"
  /\ LET new == fresh \cup Converted(TRUE)
     IN  /\ report' = Ranked(kept, new)
         /\ details' = detailsAfter(kept, new)
  /\ Reset
  /\ UNCHANGED <<cluster, changes, faults>>

\* The run fails after it has begun, is killed, or its report is not uploaded: the
\* next run starts from the same report.
Fail ==
  /\ phase \in {"scan", "scanNewest"} /\ faults < MaxFaults
  /\ faults' = faults + 1
  /\ Reset
  /\ UNCHANGED <<cluster, report, details, changes>>

Panicked ==
  /\ phase = "panicked"
  /\ Reset
  /\ UNCHANGED <<cluster, report, details, changes, faults>>

\* A rollout or a change of the lists adds and removes images.  A run looks at the cluster once: a change
\* while it is under way is one that follows it.
Change ==
  /\ phase = "idle" /\ changes < MaxChanges
  /\ changes' = changes + 1
  /\ \E i \in Images : cluster' = IF i \in cluster THEN cluster \ {i} ELSE cluster \cup {i}
  /\ UNCHANGED <<report, details, phase, listed, kept, scanVars, fresh, faults>>

Init ==
  /\ cluster \in SUBSET Images
  /\ report = {} /\ details = {}
  /\ phase = "idle"
  /\ listed = {} /\ kept = {} /\ fresh = {}
  /\ toScan = {}
  /\ worker = [r \in Refs |-> "none"]
  /\ tries = [r \in Refs |-> 0]
  /\ reportByRef = [r \in Refs |-> "nil"]
  /\ lock = Nobody
  /\ changes = 0 /\ faults = 0

Goroutine(r) == Launch(r) \/ ScanOk(r) \/ ScanFails(r) \/ RecordError(r)

Next ==
  \/ Start \/ GetNewestVersions \/ Minimize \/ Fail \/ Panicked \/ Change
  \/ \E r \in Refs : Launch(r) \/ ScanOk(r) \/ ScanFails(r) \/ RecordError(r)

\* The CronJob starts a run whenever there is none, and its goroutines run.  That a scan
\* ends is assumed of trivy and skopeo: they are started without a timeout (scan.go:196,
\* 251), and nothing in the code ends one that hangs.
Fairness ==
  /\ WF_vars(Start) /\ WF_vars(GetNewestVersions) /\ WF_vars(Minimize) /\ WF_vars(Panicked)
  /\ \A r \in Refs : WF_vars(Goroutine(r))

Spec == Init /\ [][Next]_vars /\ Fairness
-----------------------------------------------------------------------------
(* Properties                                                              *)

\* A run never ends before its report has every image with an ID that it listed and that
\* the last report had, whatever scans fail (main, getImages): what is taken out of the
\* last report is scanned again.  An image without an ID may be lost: see UnpulledKept.
NothingForgotten ==
  Scanning =>
    \A i \in listed : i.id # NoID /\ (\E e \in report : ~e.rec /\ e.sha = i.id) =>
      \/ \E e \in kept \cup fresh : ~e.rec /\ e.sha = i.id
      \/ phase = "scan" /\ \E r \in toScan : r.id = i.id

\* The report has "the images scanned and not scanned from the latest report" (main.go:21):
\* what NothingForgotten says, of images without an ID, which are known by their name.
\* Does not hold: a run that has no room to scan such an image loses its entry.
UnpulledKept ==
  Scanning =>
    \A i \in listed : i.id = NoID /\ (\E e \in report : ~e.rec /\ e.name = i.name) =>
      \/ \E e \in kept \cup fresh : ~e.rec /\ e.name = i.name
      \/ phase = "scan" /\ i \in toScan

\* The details of the report are those its entries refer to, none is missing and none
\* is left over, however entries are kept, replaced and dropped over the runs (Minimize).
DetailsComplete == details = vulnsOf(report)

\* ScanImages returns: no goroutine leaves a lock behind that the others wait for
\* (the break for an unknown OS would, if ScanImage ever returned that error bare), as
\* long as the commands that it runs end.
ScansEnd == Scanning ~> ~Scanning

\* The image is hidden by an entry of its digest that is a recommendation, or has
\* another name: then it is neither new nor up for another scan.
Hidden(i) == \E e \in report : e.sha = i.id /\ (e.rec \/ e.name # i.name)

\* Images without an ID are new in every run, and may leave no room for others.
Crowded == Cardinality({i \in cluster : i.id = NoID}) >= MaxImagesToScan

\* An image that stays in the cluster is scanned again and again, and not just once:
\* neither failing scans nor other images keep it from its turn (GetImagesToReScan),
\* unless it is hidden, the limit is used up by images that cannot be pulled, or a
\* name without a tag makes every run panic.
ScannedAgain ==
  \A i \in {j \in Images : j.id # NoID} :
    <>[](i \in cluster) =>
      []<>(\/ phase = "scan" /\ i \in toScan
           \/ Hidden(i) \/ Crowded \/ phase = "panicked")
=============================================================================
