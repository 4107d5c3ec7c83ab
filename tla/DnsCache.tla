------------------------------ MODULE DnsCache ------------------------------
(***************************************************************************)
(* The DNS cache of the network-flow aggregator (collector/dns/cache.go,   *)
(* collector/server.go), for one external address.  Agents report the DNS  *)
(* answers that pods get, with the time of their own clock, and later the  *)
(* flows of the pods to the address; a flow is given the host name that    *)
(* the cache has for the pod, or else for the address.                     *)
(***************************************************************************)
EXTENDS Integers, Sequences, SequencesExt

CONSTANTS
  Pods,
  CoreDNS,        \* the pods among them that are CoreDNS's
  Internal,       \* host names under .cluster.local
  Replies,        \* what pods ask and are answered: <<pod, name, rcode>>
  MaxAge,         \* maxAge, in ticks
  Skew,           \* how far the clock of a node may be ahead
  MaxTime,        \* bound: the clock
  MaxAnswers      \* bound: answers that the agents have yet to report

VARIABLES
  clock,          \* the aggregator's clock
  skew,           \* how far the clock of a pod's node is ahead
  answers,        \* answers yet to be reported, each agent's own in order
  byWorkload,     \* the cache
  byIP,
  flow,           \* the last flow and the host name it was given
  \* history
  recorded        \* the last answer of each pod that was recorded, and the latest of all

dnsVars == <<clock, skew, answers, byWorkload, byIP, flow, recorded>>

Never == [name |-> "none", seenAt |-> -1]
NoFlow == [pod |-> "none", name |-> "none"]
-----------------------------------------------------------------------------
expired(entry, time) == entry = Never \/ time - entry.seenAt > MaxAge

pruneLocked(entry, time) == IF expired(entry, time) THEN Never ELSE entry

isCacheable(answer) ==
  answer.rcode = "Success" /\ answer.name \notin Internal /\ answer.pod \notin CoreDNS

\* A pod asks for a name; its agent stamps the answer.
Answer(reply) ==
  /\ Len(answers) < MaxAnswers
  /\ answers' = Append(answers, [pod |-> reply[1], name |-> reply[2], rcode |-> reply[3],
                                 time |-> clock + skew[reply[1]]])
  /\ flow' = NoFlow
  /\ UNCHANGED <<clock, skew, byWorkload, byIP, recorded>>

firstOf(i) == \A j \in 1 .. i - 1 : answers[j].pod # answers[i].pod

\* The agent drops an answer: its queue was full.
Drop(i) ==
  /\ firstOf(i)
  /\ answers' = RemoveAt(answers, i)
  /\ flow' = NoFlow
  /\ UNCHANGED <<clock, skew, byWorkload, byIP, recorded>>

\* The answer goes to both maps, and both are pruned by its time.
RecordResponse(i) ==
  LET answer == answers[i]
      entry == [name |-> answer.name, seenAt |-> answer.time]
  IN  /\ firstOf(i)
      /\ answers' = RemoveAt(answers, i)
      /\ IF isCacheable(answer)
           THEN /\ byWorkload' = [p \in Pods |->
                     pruneLocked(IF p = answer.pod THEN entry ELSE byWorkload[p], answer.time)]
                /\ byIP' = entry
                /\ recorded' = [recorded EXCEPT ![answer.pod] = entry,
                                  !["latest"] = IF answer.time > @ THEN answer.time ELSE @]
           ELSE UNCHANGED <<byWorkload, byIP, recorded>>
      /\ flow' = NoFlow
      /\ UNCHANGED <<clock, skew>>

\* Not the code: the name that any pod got last comes first.
LookupByIP(pod) ==
  IF ~expired(byIP, clock) THEN byIP.name
  ELSE IF ~expired(byWorkload[pod], clock) THEN byWorkload[pod].name
  ELSE "none"

\* The pod's own name for the address, or else the last one that any pod got.
Lookup(pod) ==
  IF ~expired(byWorkload[pod], clock) THEN byWorkload[pod].name
  ELSE IF ~expired(byIP, clock) THEN byIP.name
  ELSE "none"

\* A flow of the pod to the address, which no Service, pod or node has, is enriched.
Flow(pod) ==
  /\ flow' = [pod |-> pod, name |-> Lookup(pod)]
  /\ UNCHANGED <<clock, skew, answers, byWorkload, byIP, recorded>>

Tick ==
  /\ clock < MaxTime
  /\ clock' = clock + 1
  /\ flow' = NoFlow
  /\ UNCHANGED <<skew, answers, byWorkload, byIP, recorded>>
-----------------------------------------------------------------------------
Init ==
  /\ clock = 0 /\ flow = NoFlow
  /\ \E ahead \in {{}} \cup {{p} : p \in Pods \ CoreDNS} :
       skew = [p \in Pods |-> IF p \in ahead THEN Skew ELSE 0]
  /\ answers = <<>>
  /\ byWorkload = [p \in Pods |-> Never] /\ byIP = Never
  /\ recorded = [p \in Pods \cup {"latest"} |-> IF p = "latest" THEN -1 ELSE Never]

Next ==
  \/ \E reply \in Replies : Answer(reply)
  \/ \E i \in DOMAIN answers : Drop(i) \/ RecordResponse(i)
  \/ \E p \in Pods : Flow(p)
  \/ Tick

Spec == Init /\ [][Next]_dnsVars
-----------------------------------------------------------------------------
\* A pod's flow bears the name that the pod itself asked for, as long as the answer is not
\* older than the maximum age, whatever other pods asked for at that address
\* (cache.go:Lookup).  An answer whose stamp is so far ahead that pruning by it removed
\* the pod's own one is the exception; and no flow bears a name that no one resolved
\* within the maximum age.
OwnHostname ==
  flow # NoFlow =>
    LET own == recorded[flow.pod]
    IN  /\ ~expired(own, clock) =>
             \/ flow.name = own.name
             \/ recorded["latest"] - own.seenAt > MaxAge
        /\ flow.name # "none" =>
             \E p \in Pods : recorded[p].name = flow.name /\ ~expired(recorded[p], clock)
=============================================================================
