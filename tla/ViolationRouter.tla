-------------------------- MODULE ViolationRouter ---------------------------
(***************************************************************************)
(* What the event-watcher takes a log entry or a Kubernetes event for      *)
(* (event-watcher, pkg/utils/utils.go, pkg/consumers).  A source looks for *)
(* words in the message of an answer of the API server, names the watched  *)
(* event after the kind of policy it found, and the handler of that name   *)
(* looks for the policy in the message again before it posts the report.   *)
(* The text of a policy's author is part of the message.                   *)
(*                                                                         *)
(* A message is a header, up to and with the word after the policy's name, *)
(* and the text after it.  Both are sets of the words that the code looks  *)
(* for, written here without blanks and punctuation: "quotedVpol" is vpol. *)
(* after a quote, "failed" and "error" are failed: and error: after a      *)
(* blank, "webhook" stands for admission webhook and "blockedDueTo" for    *)
(* blocked due to the following policies.                                  *)
(***************************************************************************)
EXTENDS Integers, FiniteSets

CONSTANTS
  MaxWords        \* bound: words of interest in an author's text

VARIABLES
  message,        \* an audit log entry, or an event of Kyverno's
  console,        \* ConsoleMode
  event,          \* the watched event made of it
  outcome         \* what the handler does: the policies and the object it posts

routerVars == <<message, console, event, outcome>>

BlockingKinds == {"ClusterPolicy", "ValidatingPolicy", "NamespacedValidatingPolicy",
                  "ImageValidatingPolicy", "ValidatingAdmissionPolicy"}
AuditKinds == BlockingKinds
NoEvent == [prefix |-> "none", object |-> "none"]
Undone == [handler |-> "none", policies |-> {}, object |-> "none"]
Skipped == [handler |-> "skipped", policies |-> {}, object |-> "none"]
Panic == [handler |-> "panic", policies |-> {}, object |-> "none"]
-----------------------------------------------------------------------------
(* Messages, as Kyverno and the API server write them.                       *)

\* Where a word is part of others: nvpol. and ivpol. end in vpol., and a quoted one holds
\* the bare one.
Within == [nvpol |-> {"quotedNvpol"}, ivpol |-> {"quotedIvpol"},
           vpol |-> {"quotedVpol", "quotedNvpol", "nvpol", "quotedIvpol", "ivpol"}]
Holds(words) == words \cup {w \in DOMAIN Within : words \cap Within[w] # {}}

\* The words in front of the author's text.  A policy that could not be evaluated "errors".
Frame(kind, failure) ==
  LET denial == {"kyverno", "webhook", "deniedTheRequest"}
  IN  CASE kind = "ClusterPolicy" ->
             denial \cup {"blockedDueTo", "resource"}
        [] kind = "ValidatingPolicy" -> denial \cup {"quotedVpol", failure}
        [] kind = "NamespacedValidatingPolicy" -> denial \cup {"quotedNvpol", failure}
        [] kind = "ImageValidatingPolicy" -> denial \cup {"quotedIvpol", failure}
        [] kind = "ValidatingAdmissionPolicy" ->
             {"ValidatingAdmissionPolicy", "withBinding", "deniedRequest"}
        [] OTHER -> {}

TextWords == {"kyverno", "blockedDueTo", "quotedVpol", "quotedNvpol", "nvpol",
              "quotedIvpol", "ivpol", "ValidatingAdmissionPolicy", "deniedRequest", "resource",
              "failed", "error", "notYAML"}
Texts == {t \in SUBSET TextWords : Cardinality(t) <= MaxWords}

\* A denied request (of an unrelated kind for "other"), and a violation that was let pass:
\* an event of Kyverno's, or an annotation of the entry with the failures of one request.
Blocked(kind, failure, uid, text) ==
  [kind |-> kind, blocked |-> TRUE, failure |-> failure, uid |-> uid, text |-> text,
   header |-> Frame(kind, failure), words |-> Holds(Frame(kind, failure) \cup text),
   failures |-> 1]
Passed(kind, failures) ==
  [kind |-> kind, blocked |-> FALSE, failure |-> "failed", uid |-> TRUE, text |-> {},
   header |-> {}, words |-> {}, failures |-> failures]
-----------------------------------------------------------------------------
(* The kind a message is taken for.  Only an answer of 400 or more is asked. *)

contains(m, w) == w \in m.words

\* Where the first of the words is.
Index(m, ws) == IF ws \cap m.header # {} THEN "header"
                ELSE IF ws \cap m.text # {} THEN "text" ELSE "nowhere"

IsKyvernoPolicyViolation(m) ==
  m.blocked /\ contains(m, "kyverno") /\ contains(m, "blockedDueTo")

\* Not the code: it looks for the bare word.
IsValidatingPolicyViolationBare(m) ==
  /\ m.blocked /\ contains(m, "kyverno")
  /\ contains(m, "vpol") /\ ~contains(m, "quotedIvpol")

IsValidatingPolicyViolation(m) ==
  /\ m.blocked /\ contains(m, "kyverno")
  /\ contains(m, "quotedVpol") /\ ~contains(m, "quotedNvpol") /\ ~contains(m, "quotedIvpol")

IsNamespacedValidatingPolicyViolation(m) ==
  m.blocked /\ contains(m, "kyverno") /\ contains(m, "nvpol")

IsImageValidatingPolicyViolation(m) ==
  m.blocked /\ contains(m, "kyverno") /\ contains(m, "ivpol")

IsValidatingAdmissionPolicyViolation(m) ==
  m.blocked /\ contains(m, "ValidatingAdmissionPolicy")

\* The object that a report is about: that of the entry if it has a UID, or else the one
\* that the message names after "resource".
extractObjectRefFromMessage(m) ==
  IF ~m.uid /\ contains(m, "deniedTheRequest") /\ contains(m, "resource")
    THEN "message" ELSE "objectRef"

\* The first kind that fits gives the event its name.
CreateBlockedPolicyViolationEvent(m) ==
  LET prefix == IF IsKyvernoPolicyViolation(m) THEN "pol-violation"
                ELSE IF IsValidatingPolicyViolation(m) THEN "vpol-violation"
                ELSE IF IsNamespacedValidatingPolicyViolation(m) THEN "nvpol-violation"
                ELSE IF IsImageValidatingPolicyViolation(m) THEN "ivpol-violation"
                ELSE IF IsValidatingAdmissionPolicyViolation(m) THEN "vap-violation"
                ELSE "none"
  IN  IF prefix = "none" THEN NoEvent
      ELSE [prefix |-> prefix, object |-> extractObjectRefFromMessage(m)]

\* An entry of the audit log that was allowed although a ValidatingAdmissionPolicy failed.
CreateValidatingAdmissionPolicyViolationAuditOnlyAllowEvent(m) ==
  [prefix |-> "audit-only-vap", object |-> "objectRef"]

\* An event of Kyverno's about a request that it let pass.
auditOnlyPrefix(m) ==
  CASE m.kind = "ClusterPolicy" -> "audit-only-cp"
    [] m.kind = "ValidatingPolicy" -> "audit-only-vpol"
    [] m.kind = "NamespacedValidatingPolicy" -> "audit-only-nvpol"
    [] m.kind = "ImageValidatingPolicy" -> "audit-only-ivpol"
    [] OTHER -> "none"
-----------------------------------------------------------------------------
(* The policies that a handler finds in the message: the one that failed is  *)
(* "violated"; it may find "unknown" in its place, or "garbled" text.        *)

\* What follows the first "blockedDueTo", read as YAML.
ExtractPoliciesFromMessage(m) ==
  LET at == Index(m, {"blockedDueTo"})
  IN  IF contains(m, "webhook") /\ contains(m, "deniedTheRequest") /\ ~contains(m, "notYAML")
        THEN CASE at = "header" -> {"violated"} [] at = "text" -> {"garbled"} [] OTHER -> {}
        ELSE {}

\* What stands between "Policy", in the header, and the first of the words: the name, or
\* the name and all the text up to a word of the author's.
PolicyName(m, ends) ==
  LET at == Index(m, ends)
  IN  CASE at = "header" -> {"violated"} [] at = "text" -> {"garbled"} [] OTHER -> {"unknown"}

ExtractValidatingPoliciesFromMessage(m) ==
  IF /\ contains(m, "vpol") /\ ~contains(m, "nvpol") /\ contains(m, "kyverno")
     /\ contains(m, "deniedTheRequest")
    THEN PolicyName(m, {"failed"}) ELSE {"unknown"}

ExtractNamespacedValidatingPoliciesFromMessage(m) ==
  IF contains(m, "nvpol") /\ contains(m, "kyverno") /\ contains(m, "deniedTheRequest")
    THEN PolicyName(m, {"failed"}) ELSE {"unknown"}

\* Of the kinds of policy, only this one is looked for in front of "error" too.
ExtractImageValidatingPoliciesFromMessage(m) ==
  IF contains(m, "ivpol") /\ contains(m, "kyverno") /\ contains(m, "deniedTheRequest")
    THEN PolicyName(m, {"error", "failed"}) ELSE {"unknown"}

\* The name is what stands before "withBinding", which is not looked for first.
ExtractValidatingAdmissionPoliciesFromMessage(m) ==
  IF ~contains(m, "deniedRequest") THEN {}
  ELSE IF ~contains(m, "withBinding") THEN {"panic"} ELSE {"violated"}

\* The name after the first "policy" of the annotation.
ExtractAuditOnlyAllowedValidatingAdmissionPoliciesFromMessage(m) ==
  IF m.failures > 1 THEN {"firstViolated"} ELSE {"violated"}

\* The policy is the object of the event; the message only gives the rule.
ExtractAuditOnlyClusterPoliciesFromMessage(m) == {"violated"}
ExtractAuditOnlyValidatingPoliciesFromMessage(m) == {"violated"}
ExtractAuditOnlyNamespacedValidatingPoliciesFromMessage(m) == {"violated"}
ExtractAuditOnlyImageValidatingPoliciesFromMessage(m) == {"violated"}

\* A handler posts the policies, about the object of the event.
SendToInsights(policies) ==
  [handler |-> event.prefix, object |-> event.object, policies |-> policies]

\* The handlers: each reads the message of its event and posts what it finds there.
PolicyViolationHandler == SendToInsights(ExtractPoliciesFromMessage(message))
ValidatingPolicyViolationHandler ==
  SendToInsights(ExtractValidatingPoliciesFromMessage(message))
NamespacedValidatingAdmissionPolicyViolationHandler ==
  SendToInsights(ExtractNamespacedValidatingPoliciesFromMessage(message))
ImageValidatingPolicyViolationHandler ==
  SendToInsights(ExtractImageValidatingPoliciesFromMessage(message))
ValidatingAdmissionPolicyViolationHandler ==
  SendToInsights(ExtractValidatingAdmissionPoliciesFromMessage(message))
AuditOnlyAllowedValidatingAdmissionPolicyHandler ==
  SendToInsights(ExtractAuditOnlyAllowedValidatingAdmissionPoliciesFromMessage(message))
ClusterPolicyAuditHandler ==
  SendToInsights(ExtractAuditOnlyClusterPoliciesFromMessage(message))
ValidatingPolicyAuditHandler ==
  SendToInsights(ExtractAuditOnlyValidatingPoliciesFromMessage(message))
NamespacedValidatingPolicyAuditHandler ==
  SendToInsights(ExtractAuditOnlyNamespacedValidatingPoliciesFromMessage(message))
ImageValidatingPolicyAuditHandler ==
  SendToInsights(ExtractAuditOnlyImageValidatingPoliciesFromMessage(message))

\* In console mode there is one handler for all.  It asks for a result that no source
\* provides, and panics.
ConsoleHandler == Panic

\* The handler of each name, and what it does.
registerDefaultHandlers(prefix) ==
  CASE prefix = "pol-violation" -> PolicyViolationHandler
    [] prefix = "vpol-violation" -> ValidatingPolicyViolationHandler
    [] prefix = "nvpol-violation" -> NamespacedValidatingAdmissionPolicyViolationHandler
    [] prefix = "ivpol-violation" -> ImageValidatingPolicyViolationHandler
    [] prefix = "vap-violation" -> ValidatingAdmissionPolicyViolationHandler
    [] prefix = "audit-only-vap" -> AuditOnlyAllowedValidatingAdmissionPolicyHandler
    [] prefix = "audit-only-cp" -> ClusterPolicyAuditHandler
    [] prefix = "audit-only-vpol" -> ValidatingPolicyAuditHandler
    [] prefix = "audit-only-nvpol" -> NamespacedValidatingPolicyAuditHandler
    [] prefix = "audit-only-ivpol" -> ImageValidatingPolicyAuditHandler
-----------------------------------------------------------------------------
\* A source of audit log entries.  Making the event of a violation looks for its policies
\* already, and so may panic.
processLogEvent ==
  LET created == CreateBlockedPolicyViolationEvent(message)
      annotated == ~message.blocked /\ message.kind = "ValidatingAdmissionPolicy"
      panics == /\ created.prefix = "vap-violation"
                /\ ExtractValidatingAdmissionPoliciesFromMessage(message) = {"panic"}
  IN  /\ event = NoEvent /\ outcome = Undone
      /\ message.blocked \/ annotated
      /\ \/ panics /\ outcome' = Panic /\ UNCHANGED event
         \/ ~panics /\ created # NoEvent /\ event' = created /\ UNCHANGED outcome
         \/ /\ created = NoEvent /\ annotated
            /\ event' = CreateValidatingAdmissionPolicyViolationAuditOnlyAllowEvent(message)
            /\ UNCHANGED outcome
         \/ created = NoEvent /\ ~annotated /\ outcome' = Skipped /\ UNCHANGED event
      /\ UNCHANGED <<message, console>>

\* The log file's entries are read as those of CloudWatch are.
processNewAuditLogEntries == processLogEvent

\* The source of Kubernetes events.
processKyvernoKubernetesEvents ==
  /\ event = NoEvent /\ outcome = Undone
  /\ ~message.blocked /\ message.kind # "ValidatingAdmissionPolicy"
  /\ IF auditOnlyPrefix(message) = "none"
       THEN outcome' = Skipped /\ UNCHANGED event
       ELSE /\ event' = [prefix |-> auditOnlyPrefix(message), object |-> "objectRef"]
            /\ UNCHANGED outcome
  /\ UNCHANGED <<message, console>>

\* The handler of the event's name.
ProcessEvent ==
  /\ event # NoEvent /\ outcome = Undone
  /\ outcome' = IF console THEN ConsoleHandler ELSE registerDefaultHandlers(event.prefix)
  /\ UNCHANGED <<message, console, event>>
-----------------------------------------------------------------------------
Init ==
  /\ \/ \E k \in BlockingKinds \cup {"other"}, f \in {"failed", "error"}, uid \in BOOLEAN, t \in Texts :
          message = Blocked(k, f, uid, t)
     \/ \E k \in AuditKinds \cup {"other"}, n \in 1 .. 2 : message = Passed(k, n)
  /\ console \in BOOLEAN /\ event = NoEvent /\ outcome = Undone

Next ==
  \/ processLogEvent \/ processNewAuditLogEntries
  \/ processKyvernoKubernetesEvents \/ ProcessEvent

Spec == Init /\ [][Next]_routerVars
-----------------------------------------------------------------------------
HandlerOf(m) ==
  CASE m.kind = "ClusterPolicy" -> IF m.blocked THEN "pol-violation" ELSE "audit-only-cp"
    [] m.kind = "ValidatingPolicy" -> IF m.blocked THEN "vpol-violation" ELSE "audit-only-vpol"
    [] m.kind = "NamespacedValidatingPolicy" ->
         IF m.blocked THEN "nvpol-violation" ELSE "audit-only-nvpol"
    [] m.kind = "ImageValidatingPolicy" -> IF m.blocked THEN "ivpol-violation" ELSE "audit-only-ivpol"
    [] m.kind = "ValidatingAdmissionPolicy" ->
         IF m.blocked THEN "vap-violation" ELSE "audit-only-vap"
    [] OTHER -> "skipped"

\* The words of an author that mislead the watcher about a policy of the kind.
Misleading(kind) ==
  CASE kind = "ClusterPolicy" -> {"notYAML"}
    [] kind = "ValidatingPolicy" ->
         {"blockedDueTo", "quotedNvpol", "nvpol", "quotedIvpol"}
    [] kind = "NamespacedValidatingPolicy" -> {"blockedDueTo"}
    [] kind = "ImageValidatingPolicy" ->
         {"blockedDueTo", "quotedNvpol", "nvpol"}
    [] kind = "ValidatingAdmissionPolicy" -> {"kyverno"}
    [] OTHER -> {"kyverno", "ValidatingAdmissionPolicy"}

\* A violation is posted by the handler of its kind, with the policy that failed and about
\* the object of the request, and another refusal of the API server is not posted
\* (utils.go:573, factory.go:96).  Exceptions: the author's text misleads the watcher;
\* only the first of several audited failures is posted; the console handler panics; and
\* a (namespaced) ValidatingPolicy that could not be evaluated is posted as "unknown", or,
\* if " failed:" is in the author's text, under all the text up to there (utils.go:78, 96).
RoutedByKind ==
  outcome # Undone =>
    \/ console
    \/ message.text \cap Misleading(message.kind) # {}
    \/ /\ outcome.handler = HandlerOf(message)
       /\ \/ outcome.policies = {"violated"}
          \/ message.kind = "other" \/ message.failures > 1
          \/ /\ message.failure = "error"
             /\ message.kind \in {"ValidatingPolicy", "NamespacedValidatingPolicy"}
             /\ outcome.policies = IF "failed" \in message.text THEN {"garbled"} ELSE {"unknown"}
       /\ \/ outcome.object = "objectRef"
          \/ message.kind \in {"ClusterPolicy", "other"} \/ "resource" \in message.text
=============================================================================
