----------------------------- MODULE FalcoAgent -----------------------------
(***************************************************************************)
(* The falco-agent (plugins/falco-agent).  Each POST of a Falco event is   *)
(* handled by a goroutine that looks up the pod and writes the event to a  *)
(* file of its own; each GET of the report reads the directory, skips what *)
(* it cannot parse and removes files of more than 24 hours.  Nothing locks *)
(* the directory.                                                          *)
(*                                                                         *)
(* A file is named after the time it is written, so that a directory is    *)
(* read in the order of the clock.  Writing a file may fail, and the agent *)
(* may die; reading the directory and what is in it does not fail, but for *)
(* what is missing or truncated.                                           *)
(***************************************************************************)
EXTENDS Integers, FiniteSets

CONSTANTS
  Posts,      \* events that are posted
  Gets,       \* requests for the report
  MaxTime     \* bound: readings of the clock

VARIABLES
  clock,      \* time.Now().UnixNano()
  post,       \* where the handler of each event is
  name,       \* the file name it has chosen
  file,       \* for each name the event written, "none" or "partial"
  old,        \* names given more than 24 hours ago, and not since
  get,        \* where the handler of each report is
  left,       \* names it has still to look at
  report,     \* events it has collected
  err,        \* the named result err of Aggregate24hrsData
  \* history
  due,        \* events it has to report: accepted before it began
  raced,      \* a file was being written or removed under it
  spoilt      \* the newest file it found was one that an unfinished write had left

falcoVars == <<clock, post, name, file, old, get, left, report, err, due, raced, spoilt>>

Times == 1..MaxTime
Files == {t \in Times : file[t] # "none"}
Busy == {g \in Gets : get[g] = "reading"}
-----------------------------------------------------------------------------
(* inputDataHandler                                                        *)

\* The clock moves on between two events or not at all.
Tick ==
  /\ clock < MaxTime
  /\ clock' = clock + 1
  /\ UNCHANGED <<post, name, file, old, get, left, report, err, due, raced, spoilt>>

\* The body, the pod or its controller cannot be read: an error is answered.
Reject(p) ==
  /\ post[p] = "new"
  /\ post' = [post EXCEPT ![p] = "rejected"]
  /\ UNCHANGED <<clock, name, file, old, get, left, report, err, due, raced, spoilt>>

\* The pod is found.  UniqueFilename looks for the bare name in the working directory,
\* not in the output folder, and therefore returns it as it is.
UniqueFilename(p) ==
  /\ post[p] = "new"
  /\ name' = [name EXCEPT ![p] = clock]
  /\ post' = [post EXCEPT ![p] = "named"]
  /\ UNCHANGED <<clock, file, old, get, left, report, err, due, raced, spoilt>>

\* WriteFile creates or truncates the file ...
CreateFile(p) ==
  /\ post[p] = "named"
  /\ file' = [file EXCEPT ![name[p]] = "partial"]
  /\ old' = old \ {name[p]}
  /\ post' = [post EXCEPT ![p] = "writing"]
  /\ raced' = raced \cup Busy
  /\ due' = [g \in Gets |-> {q \in due[g] : name[q] # name[p]}]
  /\ UNCHANGED <<clock, name, get, left, report, err, spoilt>>

\* ... and writes the event, which is then acknowledged.
WriteFile(p) ==
  /\ post[p] = "writing"
  /\ file' = [file EXCEPT ![name[p]] = p]
  /\ post' = [post EXCEPT ![p] = "accepted"]
  /\ UNCHANGED <<clock, name, old, get, left, report, err, due, raced, spoilt>>

\* The file cannot be opened, or only a part of it or all of it is written before the
\* error: what is there is left, and the error is answered.
WriteFails(p) ==
  /\ post[p] \in {"named", "writing"}
  /\ \/ post[p] = "named" /\ UNCHANGED file
     \/ /\ post[p] = "writing"
        /\ \E rest \in {"partial", p} : file' = [file EXCEPT ![name[p]] = rest]
  /\ post' = [post EXCEPT ![p] = "rejected"]
  /\ UNCHANGED <<clock, name, old, get, left, report, err, due, raced, spoilt>>

\* The agent dies and is started again: its handlers are gone, its files are as they were.
Restart ==
  /\ post' = [p \in Posts |-> IF post[p] \in {"named", "writing"} THEN "rejected" ELSE post[p]]
  /\ get' = [g \in Gets |-> IF get[g] = "reading" THEN "lost" ELSE get[g]]
  /\ left' = [g \in Gets |-> {}]
  /\ report' = [g \in Gets |-> IF get[g] = "reading" THEN {} ELSE report[g]]
  /\ due' = [g \in Gets |-> IF get[g] = "reading" THEN {} ELSE due[g]]
  /\ UNCHANGED <<clock, name, file, old, err, raced, spoilt>>

\* A day passes for a file that nobody writes.
Age(t) ==
  /\ file[t] # "none" /\ t \notin old
  /\ \A p \in Posts : post[p] = "writing" => name[p] # t
  /\ old' = old \cup {t}
  /\ UNCHANGED <<clock, post, name, file, get, left, report, err, due, raced, spoilt>>
-----------------------------------------------------------------------------
(* outputDataHandler: Aggregate24hrsData                                   *)

\* The events a report has to hold: accepted, young, in a file no other event took.
Due == {p \in Posts : /\ post[p] = "accepted" /\ name[p] \notin old
                      /\ \A q \in Posts \ {p} : name[q] # name[p]}

ReadDir(g) ==
  /\ get[g] = "new"
  /\ get' = [get EXCEPT ![g] = "reading"]
  /\ left' = [left EXCEPT ![g] = Files]
  /\ due' = [due EXCEPT ![g] = Due]
  /\ raced' = IF \E p \in Posts : post[p] = "writing" THEN raced \cup {g} ELSE raced
  /\ spoilt' = IF \E t \in Files : /\ file[t] = "partial" /\ t \notin old
                                   /\ \A u \in Files : u <= t
                 THEN spoilt \cup {g} ELSE spoilt
  /\ UNCHANGED <<clock, post, name, file, old, report, err>>

\* Mutant: the loop ends at the first file that cannot be parsed.
NextFileStops(g) ==
  /\ get[g] = "reading" /\ left[g] # {}
  /\ LET t == CHOOSE t \in left[g] : \A u \in left[g] : t <= u
         bad == file[t] = "none" \/ (file[t] = "partial" /\ t \notin old)
         young == ~bad /\ t \notin old
     IN  /\ left' = [left EXCEPT ![g] = IF bad THEN {} ELSE @ \ {t}]
         /\ err' = [err EXCEPT ![g] = file[t] = "none"]
         /\ report' = [report EXCEPT ![g] = IF young THEN @ \cup {file[t]} ELSE @]
         /\ file' = IF bad \/ young THEN file ELSE [file EXCEPT ![t] = "none"]
         /\ raced' = IF bad \/ young THEN raced ELSE raced \cup (Busy \ {g})
         /\ due' = [h \in Gets |-> IF t \in old THEN {p \in due[h] : name[p] # t} ELSE due[h]]
  /\ UNCHANGED <<clock, post, name, old, get, spoilt>>

\* One turn of the loop: a missing file ends it, a young one is read, an old one is
\* removed.  A young file that cannot be parsed is skipped, but err keeps the error until
\* the next file overwrites it.
NextFile(g) ==
  /\ get[g] = "reading" /\ left[g] # {}
  /\ LET t == CHOOSE t \in left[g] : \A u \in left[g] : t <= u
         gone == file[t] = "none"
         young == ~gone /\ t \notin old
     IN  /\ left' = [left EXCEPT ![g] = IF gone THEN {} ELSE @ \ {t}]
         /\ err' = [err EXCEPT ![g] = gone \/ (young /\ file[t] = "partial")]
         /\ report' = [report EXCEPT ![g] = IF young /\ file[t] \in Posts THEN @ \cup {file[t]} ELSE @]
         /\ file' = IF gone \/ young THEN file ELSE [file EXCEPT ![t] = "none"]
         /\ raced' = IF gone \/ young THEN raced ELSE raced \cup (Busy \ {g})
         /\ due' = [h \in Gets |-> IF t \in old THEN {p \in due[h] : name[p] # t} ELSE due[h]]
  /\ UNCHANGED <<clock, post, name, old, get, spoilt>>

\* The report, or an error, is answered.
Answer(g) ==
  /\ get[g] = "reading" /\ left[g] = {}
  /\ get' = [get EXCEPT ![g] = IF err[g] THEN "error" ELSE "ok"]
  /\ UNCHANGED <<clock, post, name, file, old, left, report, err, due, raced, spoilt>>

Init ==
  /\ clock = 1
  /\ post = [p \in Posts |-> "new"]
  /\ name = [p \in Posts |-> 0]
  /\ file = [t \in Times |-> "none"]
  /\ old = {}
  /\ get = [g \in Gets |-> "new"]
  /\ left = [g \in Gets |-> {}]
  /\ report = [g \in Gets |-> {}]
  /\ err = [g \in Gets |-> FALSE]
  /\ due = [g \in Gets |-> {}]
  /\ raced = {} /\ spoilt = {}

Next ==
  \/ Tick
  \/ \E p \in Posts : Reject(p) \/ UniqueFilename(p) \/ CreateFile(p) \/ WriteFile(p)
                     \/ WriteFails(p)
  \/ Restart
  \/ \E t \in Times : Age(t)
  \/ \E g \in Gets : ReadDir(g) \/ NextFile(g) \/ Answer(g)

Spec == Init /\ [][Next]_falcoVars
-----------------------------------------------------------------------------
\* A report that is answered holds every event that had been acknowledged when the
\* report began and was not a day old, whatever is written, aged and removed while
\* it is made (Aggregate24hrsData), unless two events were named in the same
\* nanosecond; and an error is answered only when a file was written or removed
\* at the same time, or when the newest file was truncated by a write that failed or
\* that the agent did not survive (routes.go:110, data.go:66).
ReportComplete ==
  \A g \in Gets : /\ get[g] = "ok" => due[g] \subseteq report[g]
                  /\ get[g] = "error" => g \in raced \cup spoilt

\* "skip malformed files and continue" (data.go:65): a file that an unfinished write left
\* does not make a report fail under which nothing changed.  Does not hold: the error of
\* the newest file is not overwritten.
MalformedSkipped == \A g \in Gets : get[g] = "error" => g \in raced
=============================================================================
