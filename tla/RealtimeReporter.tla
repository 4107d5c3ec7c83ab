-------------------------- MODULE RealtimeReporter --------------------------
(***************************************************************************)
(* The realtime-reporter (realtime-reporter).  An informer lists and       *)
(* watches objects and calls a handler for each change, one after another; *)
(* the handler makes a Polaris report of the object and uploads it to      *)
(* Insights, which keeps the latest event of each object.                  *)
(*                                                                         *)
(* An object is known by its generation: 0 when it does not exist, and 1   *)
(* again when it is created anew.  Its contents follow the generation.     *)
(***************************************************************************)
EXTENDS Integers, Sequences, FiniteSets

CONSTANTS
  Objects,
  Owned,          \* objects whose owner is of a watched kind
  MaxGeneration,  \* bound: generations of an object
  MaxQueue,       \* bound: notifications that wait
  MaxTrouble      \* bound: uploads lost, watches interrupted, restarts

VARIABLES
  object,   \* the generation of each object in the cluster
  known,    \* the informer's cache
  watching, \* the watch is connected
  queue,    \* notifications for the handler
  view,     \* what Insights knows of each object
  trouble,
  \* history
  stale     \* objects of which an event was lost or could not be told

realtimeVars == <<object, known, watching, queue, view, trouble, stale>>

Trouble == trouble < MaxTrouble /\ trouble' = trouble + 1
Notification(o, from, to) == [object |-> o, old |-> from, new |-> to]
-----------------------------------------------------------------------------
\* A user creates, changes or deletes an object; a watch tells the informer at once.
Change(o, to) ==
  /\ to # object[o]
  /\ to \in {0, IF object[o] = 0 THEN 1 ELSE object[o] + 1} /\ to <= MaxGeneration
  /\ object' = [object EXCEPT ![o] = to]
  /\ IF watching
       THEN /\ Len(queue) < MaxQueue
            /\ queue' = Append(queue, Notification(o, object[o], to))
            /\ known' = [known EXCEPT ![o] = to]
       ELSE UNCHANGED <<queue, known>>
  /\ UNCHANGED <<watching, view, trouble, stale>>

\* A resync, or a change of the status alone: an update with the same generation.
Resync(o) ==
  /\ watching /\ known[o] # 0 /\ Len(queue) < MaxQueue
  /\ queue' = Append(queue, Notification(o, known[o], known[o]))
  /\ UNCHANGED <<object, known, watching, view, trouble, stale>>

\* The watch breaks ...
Disconnect ==
  /\ watching /\ Trouble
  /\ watching' = FALSE
  /\ UNCHANGED <<object, known, queue, view, stale>>

\* ... and the informer lists again.  It takes an object that was deleted and created
\* anew for one that was changed.  For an object that is gone it hands the handler a
\* DeletedFinalStateUnknown, which DeleteFunc takes for the object and panics: the
\* process dies, starts again and lists from nothing.
Relist ==
  /\ ~watching
  /\ Len(queue) = 0
  /\ LET gone == {o \in Objects : known[o] # 0 /\ object[o] = 0}
         base == IF gone = {} THEN known ELSE [o \in Objects |-> 0]
         changed == {o \in Objects : object[o] # base[o]}
     IN  /\ \E s \in [1..Cardinality(changed) -> changed] :
              /\ \A i, j \in DOMAIN s : s[i] = s[j] => i = j
              /\ queue' = [i \in DOMAIN s |-> Notification(s[i], base[s[i]], object[s[i]])]
         /\ stale' = stale \cup IF gone = {} THEN {o \in changed : object[o] < base[o]}
                              ELSE {o \in Objects : view[o] # 0}
  /\ known' = object
  /\ watching' = TRUE
  /\ UNCHANGED <<object, view, trouble>>

\* The process is restarted: what was queued is gone, and everything is listed.
Restart ==
  /\ Trouble
  /\ queue' = <<>>
  /\ known' = [o \in Objects |-> 0]
  /\ watching' = FALSE
  /\ stale' = stale \cup {o \in Objects : view[o] # 0}
  /\ UNCHANGED <<object, view>>

\* Mutant: UpdateFunc keeps an update only when the generation is the same.
handledSame(n) ==
  \/ n.old = 0 /\ n.object \notin Owned
  \/ n.old # 0 /\ n.new # 0 /\ n.old = n.new
  \/ n.new = 0

\* The handler: AddFunc drops an object whose owner is watched, UpdateFunc one whose
\* generation has not grown, DeleteFunc none.
handled(n) ==
  \/ n.old = 0 /\ n.object \notin Owned
  \/ n.old # 0 /\ n.new # 0 /\ n.old < n.new
  \/ n.new = 0

\* UploadToInsights tries ten times when the request fails; an answer with an error
\* status is taken for success.  Either way the event may be lost.
Handle ==
  /\ queue # <<>>
  /\ queue' = Tail(queue)
  /\ LET n == Head(queue)
     IN  IF ~handled(n) THEN UNCHANGED <<view, stale, trouble>>
         ELSE \/ /\ view' = [view EXCEPT ![n.object] = n.new]
                 /\ stale' = stale \ {n.object}
                 /\ UNCHANGED trouble
              \/ /\ Trouble
                 /\ stale' = stale \cup {n.object}
                 /\ UNCHANGED view
  /\ UNCHANGED <<object, known, watching>>

Init ==
  /\ object \in [Objects -> {0, 1}]
  /\ known = [o \in Objects |-> 0]
  /\ watching = FALSE
  /\ queue = <<>>
  /\ view = [o \in Objects |-> 0]
  /\ trouble = 0
  /\ stale = {}

Next ==
  \/ \E o \in Objects, to \in 0..MaxGeneration : Change(o, to)
  \/ \E o \in Objects : Resync(o)
  \/ Disconnect \/ Relist \/ Restart \/ Handle

Spec == Init /\ [][Next]_realtimeVars
-----------------------------------------------------------------------------
\* When the handler has nothing left to do, Insights knows every object as it is,
\* unless an event of it was lost, or the object was deleted while the reporter did
\* not watch: then it stays as it was until its next change.  Of an object with a
\* watched owner Insights is told nothing that is newer than the object.
ViewFollows ==
  queue = <<>> /\ watching =>
    \A o \in Objects \ stale : IF o \in Owned THEN view[o] \in {0, object[o]} ELSE view[o] = object[o]
=============================================================================
