----------------------------- MODULE Reporters ------------------------------
(***************************************************************************)
(* The falco-agent and the realtime-reporter, each in its own process and  *)
(* with nothing in common, as instances of their modules with constants    *)
(* and variables of their own, and what each of them promises.             *)
(***************************************************************************)
EXTENDS Integers, Sequences, FiniteSets

(* falco-agent                                                             *)

CONSTANTS Posts, Gets, MaxTime

VARIABLES clock, post, name, file, old, get, left, report, err, due, raced, spoilt

Falco == INSTANCE FalcoAgent

\* See FalcoAgent: a report holds every event acknowledged before it.
ReportComplete == Falco!ReportComplete
-----------------------------------------------------------------------------
(* realtime-reporter                                                       *)

CONSTANTS Objects, Owned, MaxGeneration, MaxQueue, MaxTrouble

VARIABLES object, known, watching, queue, view, trouble, stale

Realtime == INSTANCE RealtimeReporter

\* See RealtimeReporter: a handler that is idle has left Insights up to date.
ViewFollows == Realtime!ViewFollows
=============================================================================
