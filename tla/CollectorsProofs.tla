-------------------------- MODULE CollectorsProofs --------------------------
(***************************************************************************)
(* Proofs about the parts that collect and enrich what a cluster reports,  *)
(* each an instance of its module with constants of its own: how the       *)
(* event-watcher reads CloudWatch and what it takes a message for, the DNS *)
(* cache of the network-flow aggregator and how that names the ends of a   *)
(* flow, the reports of trivy, what opa uploads, and how the statistics of *)
(* prometheus add up.                                                      *)
(***************************************************************************)
EXTENDS Collectors, ImageScan, Functions, FiniteSetTheorems, SequenceTheorems,
        WellFoundedInduction, TLAPS

(* event-watcher: CloudWatch                                               *)

\* An entry is late by less than what the window has beyond two intervals of polling: the
\* window is fixed and the interval is configured.
CloudWatchAssumption ==
  /\ PollInterval \in Nat /\ Window \in Nat /\ Delays \subseteq Nat
  /\ \A d \in Delays : d + 2 * PollInterval <= Window

Unread == {i \in 1..Len(log) : i \notin seen /\ i \notin excused}

\* The ticker never waits for more than twice the configured interval, so that what is
\* unread when a poll ends is still in the window of the next one.
CloudWatchInv ==
  /\ time \in Nat /\ due \in Nat /\ interval \in {PollInterval, 2 * PollInterval}
  /\ log \in Seq(Int)
  /\ time <= due /\ due <= time + 2 * PollInterval
  /\ poll = CloudWatch!Waiting \/ poll.pc \in {"streams", "stream"}
  /\ \A i \in Unread :
       log[i] >= (IF poll = CloudWatch!Waiting THEN due ELSE time) - Window

\* When a poll ends, every entry that its window has was read or passed over by it.
LEMMA NothingUnread ==
  ASSUME CloudWatchAssumption, CloudWatchInv, poll # CloudWatch!Waiting,
         UNCHANGED <<time, log>>, poll' = CloudWatch!Waiting,
         CloudWatch!inWindow \subseteq seen' \cup excused',
         seen \subseteq seen', excused \subseteq excused',
         due' \in {due, time + PollInterval, time + 2 * PollInterval},
         interval' \in {PollInterval, 2 * PollInterval}
  PROVE  CloudWatchInv'
<1>1. Unread' = {}
  BY DEF CloudWatchInv, Unread, CloudWatch!inWindow
<1>2. time' \in Nat /\ due' \in Nat /\ time' <= due' /\ due' <= time' + 2 * PollInterval
  BY DEF CloudWatchAssumption, CloudWatchInv
<1>3. QED
  BY <1>1, <1>2 DEF CloudWatchInv

\* Every step of the poll keeps the invariant.
LEMMA CloudWatchInvKept ==
  ASSUME CloudWatchAssumption, CloudWatchInv, CloudWatch!Next
  PROVE  CloudWatchInv'
<1> USE DEF CloudWatch!Waiting
<1>1. ASSUME NEW d \in Delays, CloudWatch!Log(d) PROVE CloudWatchInv'
  <2>1. d \in Nat /\ time - d \in Int /\ time - d >= due - Window
    BY DEF CloudWatchAssumption, CloudWatchInv
  <2>2. /\ log' = Append(log, time - d) /\ poll = CloudWatch!Waiting
        /\ UNCHANGED <<time, due, interval, poll, seen, excused>>
    BY <1>1 DEF CloudWatch!Log
  <2>3. log \in Seq(Int)
    BY DEF CloudWatchInv
  <2>4. /\ log' \in Seq(Int) /\ Len(log') = Len(log) + 1 /\ Len(log) \in Nat
        /\ log'[Len(log) + 1] = time - d
        /\ \A i \in 1..Len(log) : log'[i] = log[i]
    BY <2>1, <2>2, <2>3
  <2>5. ASSUME NEW i \in Unread' PROVE log'[i] >= due - Window
    <3>1. CASE i = Len(log) + 1
      BY <3>1, <2>1, <2>4
    <3>2. CASE i # Len(log) + 1
      <4>1. i \in 1..Len(log)
        BY <2>4, <3>2 DEF Unread
      <4>2. i \in Unread
        BY <2>2, <4>1 DEF Unread
      <4>3. QED
        BY <2>2, <2>4, <4>1, <4>2 DEF CloudWatchInv
    <3>3. QED
      BY <3>1, <3>2
  <2>6. QED
    BY <2>2, <2>4, <2>5 DEF CloudWatchInv
<1>2. CASE CloudWatch!Tick
  <2>1. time' = time + 1 /\ time < due /\ UNCHANGED <<due, interval, log, poll, seen, excused>>
        /\ poll = CloudWatch!Waiting
    BY <1>2 DEF CloudWatch!Tick
  <2>2. time' \in Nat /\ time' <= due' /\ due' <= time' + 2 * PollInterval
    BY <2>1 DEF CloudWatchAssumption, CloudWatchInv
  <2>3. Unread' = Unread
    BY <2>1 DEF Unread
  <2>4. QED
    BY <2>1, <2>2, <2>3 DEF CloudWatchInv
<1>3. CASE CloudWatch!Fire
  <2>1. time = due /\ due' = time + interval /\ poll' = [pc |-> "streams", attempt |-> 1]
        /\ poll = CloudWatch!Waiting /\ UNCHANGED <<time, interval, log, seen, excused>>
    BY <1>3 DEF CloudWatch!Fire
  <2>2. due' \in Nat /\ time' <= due' /\ due' <= time' + 2 * PollInterval
    BY <2>1 DEF CloudWatchAssumption, CloudWatchInv
  <2>3. Unread' = Unread
    BY <2>1 DEF Unread
  <2>4. QED
    BY <2>1, <2>2, <2>3 DEF CloudWatchInv
<1>4. CASE CloudWatch!getLogStreams
  <2>1. Unread' = Unread
    BY <1>4 DEF CloudWatch!getLogStreams, Unread
  <2>2. QED
    BY <1>4, <2>1 DEF CloudWatch!getLogStreams, CloudWatchInv
<1>5. CASE CloudWatch!processLogStream
  <2>1. CloudWatch!returned \subseteq CloudWatch!inWindow
    BY DEF CloudWatch!returned
  <2>2. CloudWatch!inWindow \subseteq seen' \cup excused'
    BY <1>5, <2>1 DEF CloudWatch!processLogStream
  <2>3. QED
    BY <1>5, <2>2, NothingUnread DEF CloudWatch!processLogStream, CloudWatch!Succeeded,
                                     CloudWatchInv
<1>6. ASSUME NEW retryable \in BOOLEAN, CloudWatch!getLogStreamsFails(retryable)
      PROVE  CloudWatchInv'
  <2>1. CASE retryable /\ poll.attempt < MaxRetries
    <3>1. Unread' = Unread
      BY <1>6, <2>1 DEF CloudWatch!getLogStreamsFails, Unread
    <3>2. poll.pc = "streams" /\ poll' = [poll EXCEPT !.attempt = @ + 1]
      BY <1>6, <2>1 DEF CloudWatch!getLogStreamsFails
    <3>3. QED
      BY <1>6, <2>1, <3>1, <3>2 DEF CloudWatch!getLogStreamsFails, CloudWatchInv
  <2>2. CASE ~ (retryable /\ poll.attempt < MaxRetries)
    BY <1>6, <2>2, NothingUnread
       DEF CloudWatch!getLogStreamsFails, CloudWatch!tooManyErrors, CloudWatchInv
  <2>3. QED
    BY <2>1, <2>2
<1>7. ASSUME NEW retryable \in BOOLEAN, CloudWatch!processLogStreamFails(retryable)
      PROVE  CloudWatchInv'
  <2>1. CASE retryable /\ poll.attempt < MaxStreamRetries
    <3>1. Unread' = Unread
      BY <1>7, <2>1 DEF CloudWatch!processLogStreamFails, Unread
    <3>2. poll.pc = "stream" /\ poll' = [poll EXCEPT !.attempt = @ + 1]
      BY <1>7, <2>1 DEF CloudWatch!processLogStreamFails
    <3>3. QED
      BY <1>7, <2>1, <3>1, <3>2 DEF CloudWatch!processLogStreamFails, CloudWatchInv
  <2>2. CASE ~ (retryable /\ poll.attempt < MaxStreamRetries)
    BY <1>7, <2>2, NothingUnread
       DEF CloudWatch!processLogStreamFails, CloudWatch!Succeeded, CloudWatchInv
  <2>3. QED
    BY <2>1, <2>2
<1>8. QED
  BY <1>1, <1>2, <1>3, <1>4, <1>5, <1>6, <1>7 DEF CloudWatch!Next

\* The polls pass over an entry only when they fail or have more entries than the limit,
\* however the interval changes after errors (cloudwatch_handler.go:Start,
\* processLogEvents, processLogStream).
THEOREM EntriesMissedForAReason ==
  ASSUME CloudWatchAssumption
  PROVE  CloudWatch!Spec => []MissedForAReason
<1>1. CloudWatch!Init => CloudWatchInv
  BY DEF CloudWatchAssumption, CloudWatch!Init, CloudWatch!Waiting, CloudWatchInv, Unread
<1>2. CloudWatchInv /\ [CloudWatch!Next]_(CloudWatch!cloudWatchVars) => CloudWatchInv'
  <2>1. CloudWatchInv /\ UNCHANGED CloudWatch!cloudWatchVars => CloudWatchInv'
    BY DEF CloudWatchInv, CloudWatch!Waiting, Unread, CloudWatch!cloudWatchVars
  <2>2. QED
    BY <2>1, CloudWatchInvKept
<1>3. CloudWatchInv => MissedForAReason
  BY DEF CloudWatchAssumption, CloudWatchInv, Unread, CloudWatch!MissedForAReason,
         MissedForAReason
<1>4. QED
  BY <1>1, <1>2, <1>3, PTL DEF CloudWatch!Spec
-----------------------------------------------------------------------------
(* network-flow-aggregator: the DNS cache                                  *)

\* Times are numbers, the ones who ask are pods, and a pod has a name of its own, told
\* apart from the history's "latest".
DnsAssumption ==
  /\ MaxAge \in Nat /\ Skew \in Nat
  /\ "latest" \notin Resolvers
  /\ \A reply \in Replies : reply[1] \in Resolvers

DnsEntry == {e \in [name : {reply[2] : reply \in Replies} \cup {"none"}, seenAt : Int] :
               e.seenAt >= -1}

DnsAnswer == {a \in [pod : Resolvers, name : {reply[2] : reply \in Replies},
                     rcode : {reply[3] : reply \in Replies}, time : Int] : a.time >= 0}

DnsTypes ==
  /\ clock \in Nat /\ skew \in [Resolvers -> Nat] /\ answers \in Seq(DnsAnswer)
  /\ byWorkload \in [Resolvers -> DnsEntry] /\ byIP \in DnsEntry
  /\ recorded \in [Resolvers \cup {"latest"} -> DnsEntry \cup Int]
  /\ recorded["latest"] \in Int
  /\ \A p \in Resolvers : recorded[p] \in DnsEntry

\* The cache has of a pod what was recorded last for it, unless an answer that is later by
\* more than the maximum age pruned it; and of the address what some pod has.
CacheFollows ==
  /\ \A p \in Resolvers :
       \/ byWorkload[p] = recorded[p]
       \/ byWorkload[p] = Dns!Never /\ recorded["latest"] - recorded[p].seenAt > MaxAge
  /\ byIP = Dns!Never \/ \E p \in Resolvers : byIP = recorded[p]

DnsInv == DnsTypes /\ CacheFollows /\ Dns!OwnHostname

\* What is left of the answers are answers.
LEMMA AnswersLeft ==
  ASSUME DnsTypes, NEW i \in DOMAIN answers, answers' = Dns!RemoveAt(answers, i)
  PROVE  answers' \in Seq(DnsAnswer)
<1>1. answers \in Seq(DnsAnswer) /\ i \in 1..Len(answers) /\ Len(answers) \in Nat
  BY DEF DnsTypes
<1>2. /\ SubSeq(answers, 1, i - 1) \in Seq(DnsAnswer)
      /\ SubSeq(answers, i + 1, Len(answers)) \in Seq(DnsAnswer)
  <2>1. \A m, n \in Int : (\A k \in m..n : k \in 1..Len(answers)) =>
                             SubSeq(answers, m, n) \in Seq(DnsAnswer)
    BY <1>1
  <2>2. QED
    BY <1>1, <2>1
<1>3. QED
  BY <1>2 DEF Dns!RemoveAt

\* An answer that is recorded goes to the cache, and what is pruned is older than it by
\* more than the maximum age.
LEMMA RecordFollows ==
  ASSUME DnsAssumption, DnsTypes, CacheFollows, NEW answer \in DnsAnswer,
         NEW entry, entry = [name |-> answer.name, seenAt |-> answer.time],
         byWorkload' = [p \in Resolvers |->
            Dns!pruneLocked(IF p = answer.pod THEN entry ELSE byWorkload[p], answer.time)],
         byIP' = entry,
         recorded' = [recorded EXCEPT ![answer.pod] = entry,
                        !["latest"] = IF answer.time > @ THEN answer.time ELSE @]
  PROVE  /\ byWorkload' \in [Resolvers -> DnsEntry] /\ byIP' \in DnsEntry
         /\ recorded' \in [Resolvers \cup {"latest"} -> DnsEntry \cup Int]
         /\ recorded'["latest"] \in Int
         /\ \A p \in Resolvers : recorded'[p] \in DnsEntry
         /\ CacheFollows'
<1>1. entry \in DnsEntry /\ Dns!Never \in DnsEntry /\ answer.time \in Int /\ answer.pod \in Resolvers
  BY DEF DnsAnswer, DnsEntry, Dns!Never
<1>2. /\ recorded'[answer.pod] = entry
      /\ \A p \in Resolvers : p # answer.pod => recorded'[p] = recorded[p]
      /\ recorded'["latest"] = IF answer.time > recorded["latest"] THEN answer.time
                                                                  ELSE recorded["latest"]
  BY <1>1 DEF DnsAssumption, DnsTypes
<1>3. /\ recorded'["latest"] \in Int /\ recorded["latest"] \in Int
      /\ recorded'["latest"] >= answer.time /\ recorded'["latest"] >= recorded["latest"]
  BY <1>1, <1>2 DEF DnsTypes
<1>4. \A p \in Resolvers : recorded'[p] \in DnsEntry
  BY <1>1, <1>2 DEF DnsTypes
<1>5. recorded' \in [Resolvers \cup {"latest"} -> DnsEntry \cup Int]
  BY <1>1, <1>3 DEF DnsTypes
<1>6. byWorkload' \in [Resolvers -> DnsEntry]
  BY <1>1 DEF DnsTypes, Dns!pruneLocked
<1>7. ASSUME NEW p \in Resolvers
      PROVE  \/ byWorkload'[p] = recorded'[p]
             \/ /\ byWorkload'[p] = Dns!Never
                /\ recorded'["latest"] - recorded'[p].seenAt > MaxAge
  <2>1. CASE p = answer.pod
    <3>1. ~ (answer.time - answer.time > MaxAge) /\ entry # Dns!Never
      BY <1>1 DEF DnsAssumption, Dns!Never, DnsAnswer
    <3>2. ~Dns!expired(entry, answer.time)
      BY <3>1 DEF Dns!expired
    <3>3. byWorkload'[p] = entry
      BY <2>1, <3>2 DEF Dns!pruneLocked
    <3>4. QED
      BY <1>2, <2>1, <3>3
  <2>2. CASE p # answer.pod
    <3>1. recorded'[p] = recorded[p] /\ recorded[p].seenAt \in Int /\ recorded[p] \in DnsEntry
          /\ byWorkload'[p] = Dns!pruneLocked(byWorkload[p], answer.time)
      BY <1>2, <2>2 DEF DnsTypes, DnsEntry
    <3>2. CASE byWorkload[p] = Dns!Never /\ recorded["latest"] - recorded[p].seenAt > MaxAge
      <4>1. recorded'["latest"] - recorded[p].seenAt > MaxAge
        BY <1>3, <3>1, <3>2 DEF DnsAssumption
      <4>2. QED
        BY <3>1, <3>2, <4>1 DEF Dns!pruneLocked
    <3>3. CASE byWorkload[p] = recorded[p]
      <4>1. CASE Dns!expired(byWorkload[p], answer.time) /\ byWorkload[p] # Dns!Never
        <5>1. answer.time - recorded[p].seenAt > MaxAge
          BY <3>3, <4>1 DEF Dns!expired
        <5>2. recorded'["latest"] - recorded[p].seenAt > MaxAge
          BY <1>1, <1>3, <3>1, <5>1 DEF DnsAssumption
        <5>3. QED
          BY <3>1, <4>1, <5>2 DEF Dns!pruneLocked
      <4>2. CASE ~ (Dns!expired(byWorkload[p], answer.time) /\ byWorkload[p] # Dns!Never)
        BY <3>1, <3>3, <4>2 DEF Dns!pruneLocked
      <4>3. QED
        BY <4>1, <4>2
    <3>4. QED
      BY <3>2, <3>3 DEF CacheFollows
  <2>3. QED
    BY <2>1, <2>2
<1>8. CacheFollows'
  BY <1>1, <1>2, <1>7 DEF CacheFollows
<1>9. QED
  BY <1>1, <1>3, <1>4, <1>5, <1>6, <1>8

\* A flow is given the name of its pod, or one that some pod was answered.
LEMMA FlowNamed ==
  ASSUME DnsAssumption, DnsTypes, CacheFollows, NEW p \in Resolvers, Dns!Flow(p)
  PROVE  Dns!OwnHostname'
<1> DEFINE own == recorded[p]
<1>1. /\ flow' = [pod |-> p, name |-> Dns!Lookup(p)]
      /\ UNCHANGED <<clock, byWorkload, byIP, recorded>>
  BY DEF Dns!Flow
<1>2. ~Dns!expired(own, clock) =>
        Dns!Lookup(p) = own.name \/ recorded["latest"] - own.seenAt > MaxAge
  BY DEF CacheFollows, Dns!Lookup
<1>3. Dns!Lookup(p) # "none" =>
        \E q \in Resolvers : recorded[q].name = Dns!Lookup(p) /\ ~Dns!expired(recorded[q], clock)
  <2> SUFFICES ASSUME Dns!Lookup(p) # "none"
               PROVE  \E q \in Resolvers : /\ recorded[q].name = Dns!Lookup(p)
                                           /\ ~Dns!expired(recorded[q], clock)
    OBVIOUS
  <2>1. CASE ~Dns!expired(byWorkload[p], clock)
    BY <2>1 DEF CacheFollows, Dns!Lookup, Dns!expired
  <2>2. CASE Dns!expired(byWorkload[p], clock)
    <3>1. ~Dns!expired(byIP, clock) /\ Dns!Lookup(p) = byIP.name
      BY <2>2 DEF Dns!Lookup
    <3>2. byIP # Dns!Never
      BY <3>1 DEF Dns!expired
    <3>3. QED
      BY <3>1, <3>2 DEF CacheFollows
  <2>3. QED
    BY <2>1, <2>2
<1>4. Dns!OwnHostname' <=>
        (flow' # Dns!NoFlow =>
           /\ ~Dns!expired(recorded[flow'.pod], clock) =>
                \/ flow'.name = recorded[flow'.pod].name
                \/ recorded["latest"] - recorded[flow'.pod].seenAt > MaxAge
           /\ flow'.name # "none" =>
                \E q \in Resolvers : /\ recorded[q].name = flow'.name
                                     /\ ~Dns!expired(recorded[q], clock))
  BY <1>1 DEF Dns!OwnHostname, Dns!expired, Dns!NoFlow, Dns!Never
<1>5. flow'.pod = p /\ flow'.name = Dns!Lookup(p)
  BY <1>1
<1>6. QED
  BY <1>2, <1>3, <1>4, <1>5

\* Every step of the cache keeps the invariant.
LEMMA DnsInvKept ==
  ASSUME DnsAssumption, DnsInv, Dns!Next
  PROVE  DnsInv'
<1>0. DnsTypes /\ CacheFollows
  BY DEF DnsInv
<1>1. ASSUME NEW reply \in Replies, Dns!Answer(reply) PROVE DnsInv'
  <2>1. flow' = Dns!NoFlow /\ UNCHANGED <<clock, skew, byWorkload, byIP, recorded>>
    BY <1>1 DEF Dns!Answer
  <2>2. [pod |-> reply[1], name |-> reply[2], rcode |-> reply[3],
         time |-> clock + skew[reply[1]]] \in DnsAnswer
    <3>1. clock + skew[reply[1]] \in Nat /\ reply[1] \in Resolvers
      BY <1>0 DEF DnsAssumption, DnsTypes
    <3>2. QED
      BY <3>1 DEF DnsAnswer
  <2>3. answers' \in Seq(DnsAnswer)
    BY <1>0, <1>1, <2>2 DEF Dns!Answer, DnsTypes
  <2>4. DnsTypes' /\ CacheFollows'
    BY <1>0, <2>1, <2>3 DEF DnsTypes, CacheFollows, Dns!Never
  <2>5. QED
    BY <2>1, <2>4 DEF DnsInv, Dns!OwnHostname, Dns!NoFlow
<1>2. ASSUME NEW i \in DOMAIN answers, Dns!Drop(i) PROVE DnsInv'
  <2>1. flow' = Dns!NoFlow /\ UNCHANGED <<clock, skew, byWorkload, byIP, recorded>>
    BY <1>2 DEF Dns!Drop
  <2>2. answers' \in Seq(DnsAnswer)
    BY <1>0, <1>2, AnswersLeft DEF Dns!Drop
  <2>3. DnsTypes' /\ CacheFollows'
    BY <1>0, <2>1, <2>2 DEF DnsTypes, CacheFollows, Dns!Never
  <2>4. QED
    BY <2>1, <2>3 DEF DnsInv, Dns!OwnHostname, Dns!NoFlow
<1>3. ASSUME NEW i \in DOMAIN answers, Dns!RecordResponse(i) PROVE DnsInv'
  <2>1. flow' = Dns!NoFlow /\ UNCHANGED <<clock, skew>>
    BY <1>3 DEF Dns!RecordResponse
  <2>2. answers' \in Seq(DnsAnswer)
    BY <1>0, <1>3, AnswersLeft DEF Dns!RecordResponse
  <2>3. answers[i] \in DnsAnswer
    BY <1>0 DEF DnsTypes
  <2>4. CASE Dns!isCacheable(answers[i])
    <3> DEFINE entry == [name |-> answers[i].name, seenAt |-> answers[i].time]
    <3>1. /\ byWorkload' = [p \in Resolvers |->
               Dns!pruneLocked(IF p = answers[i].pod THEN entry ELSE byWorkload[p],
                               answers[i].time)]
          /\ byIP' = entry
          /\ recorded' = [recorded EXCEPT ![answers[i].pod] = entry,
               !["latest"] = IF answers[i].time > @ THEN answers[i].time ELSE @]
      BY <1>3, <2>4 DEF Dns!RecordResponse
    <3> HIDE DEF entry
    <3>2. /\ byWorkload' \in [Resolvers -> DnsEntry] /\ byIP' \in DnsEntry
          /\ recorded' \in [Resolvers \cup {"latest"} -> DnsEntry \cup Int]
          /\ recorded'["latest"] \in Int
          /\ \A p \in Resolvers : recorded'[p] \in DnsEntry
          /\ CacheFollows'
      BY <1>0, <2>3, <3>1, RecordFollows DEF entry
    <3>3. DnsTypes'
      BY <1>0, <2>1, <2>2, <3>2 DEF DnsTypes
    <3>4. QED
      BY <2>1, <3>2, <3>3 DEF DnsInv, Dns!OwnHostname, Dns!NoFlow
  <2>5. CASE ~Dns!isCacheable(answers[i])
    <3>1. UNCHANGED <<byWorkload, byIP, recorded>>
      BY <1>3, <2>5 DEF Dns!RecordResponse
    <3>2. DnsTypes' /\ CacheFollows'
      BY <1>0, <2>1, <2>2, <3>1 DEF DnsTypes, CacheFollows, Dns!Never
    <3>3. QED
      BY <2>1, <3>2 DEF DnsInv, Dns!OwnHostname, Dns!NoFlow
  <2>6. QED
    BY <2>4, <2>5
<1>4. ASSUME NEW p \in Resolvers, Dns!Flow(p) PROVE DnsInv'
  <2>1. Dns!OwnHostname'
    BY <1>0, <1>4, FlowNamed
  <2>2. DnsTypes' /\ CacheFollows'
    BY <1>0, <1>4 DEF Dns!Flow, DnsTypes, CacheFollows, Dns!Never
  <2>3. QED
    BY <2>1, <2>2 DEF DnsInv
<1>5. CASE Dns!Tick
  <2>1. flow' = Dns!NoFlow /\ clock' \in Nat
        /\ UNCHANGED <<skew, answers, byWorkload, byIP, recorded>>
    BY <1>0, <1>5 DEF Dns!Tick, DnsTypes
  <2>2. DnsTypes' /\ CacheFollows'
    BY <1>0, <2>1 DEF DnsTypes, CacheFollows, Dns!Never
  <2>3. QED
    BY <2>1, <2>2 DEF DnsInv, Dns!OwnHostname, Dns!NoFlow
<1>6. QED
  BY <1>1, <1>2, <1>3, <1>4, <1>5 DEF Dns!Next

\* A flow bears the host name that its own pod asked for, for any number of pods, names
\* and answers, in any order and with any skew of the clocks (cache.go:Lookup,
\* RecordResponse).
THEOREM FlowsBearOwnHostname ==
  ASSUME DnsAssumption
  PROVE  Dns!Spec => []OwnHostname
<1>1. Dns!Init => DnsInv
  <2> SUFFICES ASSUME Dns!Init PROVE DnsInv
    OBVIOUS
  <2>1. Dns!Never \in DnsEntry
    BY DEF Dns!Never, DnsEntry
  <2>2. skew \in [Resolvers -> Nat]
    BY DEF Dns!Init, DnsAssumption
  <2>3. DnsTypes
    BY <2>1, <2>2 DEF Dns!Init, DnsTypes, DnsAssumption
  <2>4. CacheFollows /\ Dns!OwnHostname
    BY DEF Dns!Init, DnsAssumption, CacheFollows, Dns!OwnHostname
  <2>5. QED
    BY <2>3, <2>4 DEF DnsInv
<1>2. DnsInv /\ [Dns!Next]_(Dns!dnsVars) => DnsInv'
  <2>1. DnsInv /\ UNCHANGED Dns!dnsVars => DnsInv'
    BY DEF DnsInv, DnsTypes, CacheFollows, Dns!OwnHostname, Dns!expired, Dns!Never, Dns!NoFlow,
           Dns!dnsVars
  <2>2. QED
    BY <2>1, DnsInvKept
<1>3. DnsInv => OwnHostname
  BY DEF DnsInv, OwnHostname
<1>4. QED
  BY <1>1, <1>2, <1>3, PTL DEF Dns!Spec
-----------------------------------------------------------------------------
(* network-flow-aggregator: who is at the ends of a flow                   *)

\* The Service has a pod, the client is none of the servers, there are two addresses for
\* them, an address is not that of a Service, and a client's port is not the target port.
EnrichmentAssumption ==
  /\ Target \in Enrichment!Services /\ Selected[Target] # {}
  /\ Client \notin Enrichment!Servers
  /\ "none" \notin Addrs \cup {NodeAddr} /\ \E a, b \in Addrs : a # b
  /\ Enrichment!Services \cap (Addrs \cup {NodeAddr}) = {}
  /\ Enrichment!TargetPort \notin Ports
  /\ \A u \in Uses : u[1] \in {Client, HostClient} /\ u[2] \in Ports /\ u[3] \in BOOLEAN

Connection == [from : {Client, HostClient}, client : (Addrs \cup {NodeAddr}) \X Ports,
               server : Enrichment!Servers, at : Addrs, direct : BOOLEAN]

Reports == (1..Len(conn)) \X {"client", "reply"}

\* What the informers know was true once: a pod is at an address that it had, and an
\* endpoint is a pod of its Service at such an address.
ClusterInv ==
  /\ ip \in [Enrichment!Pods -> Addrs \cup {"none"}]
  /\ \A p \in Enrichment!Pods : ip[p] # "none" => <<p, ip[p]>> \in held
  /\ \A p \in Enrichment!Pods : podCache[p] # "none" => <<p, podCache[p]>> \in held
  /\ DOMAIN sliceCache = Enrichment!Services
  /\ \A svc \in Enrichment!Services :
       sliceCache[svc] \subseteq held \cap (Selected[svc] \X Addrs)

Sockets == (Addrs \cup {NodeAddr}) \X (Ports \cup {Enrichment!TargetPort})

\* What the peer index has of a socket, a connection of that socket was served by.
TrafficInv ==
  /\ conn \in Seq(Connection)
  /\ sent \subseteq Reports
  /\ peer = [s \in Sockets |-> peer[s]]
  /\ \A s \in Sockets : peer[s] # Enrichment!NoEntry =>
       \E m \in 1..Len(conn) : conn[m].client = s /\ conn[m].server = peer[s].pod

\* The report in work is one of a connection, and what it was resolved to stays excused.
WorkInv ==
  /\ cur = [pc |-> cur.pc, report |-> cur.report, dst |-> cur.dst, backend |-> cur.backend]
  /\ cur.pc \in {"idle", "resolve", "record", "backend", "done"}
  /\ cur.pc # "idle" => cur.report \in Reports
  /\ cur.pc # "done" => cur.backend = "none"
  /\ cur.pc # "idle" /\ cur.report[2] = "reply" /\ cur.dst # Enrichment!Nothing
       => Enrichment!TakenFor(cur.dst, conn[cur.report[1]].client)

EnrichmentInv == ClusterInv /\ TrafficInv /\ WorkInv /\ Enrichment!RightBackend

\* There is a placement of the client and of one server.
LEMMA PlacementExists ==
  ASSUME EnrichmentAssumption
  PROVE  Enrichment!placement \in [Enrichment!Pods -> Addrs \cup {"none"}]
<1>1. PICK s \in Selected[Target] : TRUE
  BY DEF EnrichmentAssumption
<1>2. PICK a \in Addrs, b \in Addrs : a # b
  BY DEF EnrichmentAssumption
<1> DEFINE f == [p \in Enrichment!Pods |-> IF p = Client THEN a ELSE IF p = s THEN b ELSE "none"]
<1>3. s \in Enrichment!Servers /\ s # Client
  BY <1>1 DEF EnrichmentAssumption, Enrichment!Servers
<1>4. /\ f \in [Enrichment!Pods -> Addrs \cup {"none"}]
      /\ f[Client] # "none" /\ f[s] \in Addrs \ {f[Client]}
      /\ \A p \in Enrichment!Pods \ {Client, s} : f[p] = "none"
  BY <1>2, <1>3 DEF EnrichmentAssumption, Enrichment!Pods
<1> HIDE DEF f
<1>5. \E g \in [Enrichment!Pods -> Addrs \cup {"none"}] :
        /\ g[Client] # "none"
        /\ \E t \in Selected[Target] : /\ g[t] \in Addrs \ {g[Client]}
                                       /\ \A p \in Enrichment!Pods \ {Client, t} : g[p] = "none"
  BY <1>1, <1>4
<1>6. QED
  BY <1>5, Zenon DEF Enrichment!placement

\* The endpoints of the cluster are pods of their Service at an address that they have.
LEMMA EndpointsHeld ==
  ASSUME ClusterInv
  PROVE  \A svc \in Enrichment!Services :
           Enrichment!endpoints[svc] \subseteq held \cap (Selected[svc] \X Addrs)
<1> SUFFICES ASSUME NEW svc \in Enrichment!Services, NEW p \in Selected[svc], ip[p] # "none"
             PROVE  <<p, ip[p]>> \in held \cap (Selected[svc] \X Addrs)
  BY DEF Enrichment!endpoints
<1>1. p \in Enrichment!Pods
  BY DEF Enrichment!Pods, Enrichment!Servers
<1>2. QED
  BY <1>1 DEF ClusterInv

\* Only a report of a server names an endpoint as its source, and only one of a client
\* that connects to a pod itself names one as its destination.
LEMMA EndpointSockets ==
  ASSUME EnrichmentAssumption, TrafficInv, NEW r \in Reports
  PROVE  /\ conn[r[1]] \in Connection /\ conn[r[1]].client \in Sockets
         /\ <<conn[r[1]].at, Enrichment!TargetPort>> \in Sockets
         /\ r[2] \in {"client", "reply"} /\ r[1] \in 1..Len(conn)
         /\ r[2] = "client" => Enrichment!LookupEndpoint(Enrichment!srcEndpoint(r)) = {}
         /\ r[2] = "reply" \/ ~conn[r[1]].direct =>
              Enrichment!LookupEndpoint(Enrichment!dstEndpoint(r)) = {}
<1>1. r[1] \in 1..Len(conn) /\ r[2] \in {"client", "reply"}
  BY DEF Reports
<1>2. conn[r[1]] \in Connection
  BY <1>1 DEF TrafficInv
<1>3. /\ conn[r[1]].client \in (Addrs \cup {NodeAddr}) \X Ports /\ conn[r[1]].at \in Addrs
      /\ conn[r[1]].direct \in BOOLEAN
  BY <1>2 DEF Connection
<1>4. conn[r[1]].client[2] # Enrichment!TargetPort
  BY <1>3 DEF EnrichmentAssumption
<1>5. conn[r[1]].client \in Sockets /\ <<conn[r[1]].at, Enrichment!TargetPort>> \in Sockets
  BY <1>3 DEF Sockets
<1>6. r[2] = "client" => Enrichment!LookupEndpoint(Enrichment!srcEndpoint(r)) = {}
  BY <1>4 DEF Enrichment!LookupEndpoint, Enrichment!srcEndpoint
<1>7. r[2] = "reply" \/ ~conn[r[1]].direct =>
        Enrichment!LookupEndpoint(Enrichment!dstEndpoint(r)) = {}
  BY <1>4 DEF Enrichment!LookupEndpoint, Enrichment!dstEndpoint, Enrichment!TargetPort,
              Enrichment!ServicePort
<1>8. QED
  BY <1>1, <1>2, <1>5, <1>6, <1>7

\* What the destination of a reply may be resolved to.
LEMMA ReplyResolved ==
  ASSUME EnrichmentAssumption, ClusterInv, TrafficInv, NEW r \in Reports, r[2] = "reply",
         NEW d \in Enrichment!ResolveDst(Enrichment!dstEndpoint(r)), d # Enrichment!Nothing
  PROVE  Enrichment!TakenFor(d, conn[r[1]].client)
<1> DEFINE socket == conn[r[1]].client
           byIP_ == Enrichment!buildEndpointIPIndex(socket[1])
<1>1. Enrichment!dstEndpoint(r) = socket
  BY DEF Enrichment!dstEndpoint
<1>2. conn[r[1]] \in Connection /\ Enrichment!LookupEndpoint(socket) = {}
  BY <1>1, EndpointSockets
<1>3. socket \in (Addrs \cup {NodeAddr}) \X Ports
  BY <1>2 DEF Connection
<1>4. Enrichment!buildDstIndex(socket) = {}
  BY <1>2, <1>3 DEF Enrichment!buildDstIndex, EnrichmentAssumption
<1>5. \/ d \in {[kind |-> "Service", name |-> svc] : svc \in byIP_}
      \/ /\ socket[2] < Enrichment!linuxDefaultEphemeralPortMin
         /\ d \in UNION {Enrichment!ResolveSrcWorkload(p) :
                          p \in Enrichment!buildPodIPIndex(socket[1])}
      \/ d \in Enrichment!resolveDstFromNodeIP(socket[1])
  BY <1>1, <1>4 DEF Enrichment!ResolveDst
<1>6. CASE d \in {[kind |-> "Service", name |-> svc] : svc \in byIP_}
  <2>1. PICK svc \in byIP_ : d = [kind |-> "Service", name |-> svc]
    BY <1>6
  <2>2. PICK ep \in sliceCache[svc] : ep[2] = socket[1]
    BY <2>1 DEF Enrichment!buildEndpointIPIndex
  <2>3. svc \in Enrichment!Services
    BY <2>1 DEF Enrichment!buildEndpointIPIndex
  <2>4. ep \in held /\ ep \in Selected[svc] \X Addrs
    BY <2>2, <2>3 DEF ClusterInv
  <2>5. ep[1] \in Selected[svc] /\ <<ep[1], socket[1]>> \in held
    BY <2>2, <2>4
  <2>6. QED
    BY <2>1, <2>5 DEF Enrichment!TakenFor
<1>7. CASE d \in Enrichment!resolveDstFromNodeIP(socket[1])
  BY <1>7 DEF Enrichment!resolveDstFromNodeIP, Enrichment!TakenFor
<1>8. CASE /\ socket[2] < Enrichment!linuxDefaultEphemeralPortMin
           /\ d \in UNION {Enrichment!ResolveSrcWorkload(p) :
                            p \in Enrichment!buildPodIPIndex(socket[1])}
  <2>1. PICK p \in Enrichment!buildPodIPIndex(socket[1]) : d \in Enrichment!ResolveSrcWorkload(p)
    BY <1>8
  <2>2. p \in Enrichment!Pods /\ podCache[p] = socket[1] /\ podCache[p] # "none"
    BY <1>3, <2>1 DEF Enrichment!buildPodIPIndex, EnrichmentAssumption
  <2>3. d.name = Enrichment!workloadOf(p)
    BY <2>1, <2>2 DEF Enrichment!ResolveSrcWorkload
  <2>4. <<p, socket[1]>> \in held
    BY <2>2 DEF ClusterInv
  <2>5. \E h \in held : h[2] = socket[1] /\ d.name = Enrichment!workloadOf(h[1])
    BY <2>3, <2>4
  <2>6. QED
    BY <1>8, <2>5 DEF Enrichment!TakenFor
<1>9. QED
  BY <1>5, <1>6, <1>7, <1>8

\* While a report is in work, what happens around it leaves the report's facts alone.
LEMMA WorkFrame ==
  ASSUME WorkInv, TrafficInv, cur' = cur, held \subseteq held', conn' \in Seq(Connection),
         Len(conn) <= Len(conn'), \A i \in 1..Len(conn) : conn'[i] = conn[i]
  PROVE  WorkInv'
<1>1. Len(conn) \in Nat /\ Len(conn') \in Nat
  BY DEF TrafficInv
<1>2. Reports \subseteq Reports'
  BY <1>1 DEF Reports
<1>3. cur.pc # "idle" => cur.report \in Reports'
  BY <1>2 DEF WorkInv
<1>4. cur.pc # "idle" => conn'[cur.report[1]] = conn[cur.report[1]]
  BY DEF WorkInv, Reports
<1>5. ASSUME cur.pc # "idle", cur.report[2] = "reply", cur.dst # Enrichment!Nothing
      PROVE  Enrichment!TakenFor(cur.dst, conn[cur.report[1]].client)'
  BY <1>4, <1>5 DEF WorkInv, Enrichment!TakenFor, Enrichment!workloadOf
<1>6. QED
  BY <1>3, <1>5 DEF WorkInv, Enrichment!Nothing

\* What happens in the cluster and to the caches keeps the invariant.
LEMMA AroundKept ==
  ASSUME EnrichmentAssumption, EnrichmentInv, Enrichment!Around
  PROVE  EnrichmentInv'
<1>0. ClusterInv /\ TrafficInv /\ WorkInv /\ cur.pc # "done"
  BY DEF EnrichmentInv, Enrichment!Around
<1>1. ASSUME NEW p \in Enrichment!Pods, Enrichment!Stop(p) PROVE EnrichmentInv'
  <2>1. ip' = [ip EXCEPT ![p] = "none"] /\ UNCHANGED <<podCache, sliceCache, conn, sent, peer, cur, held>>
    BY <1>1 DEF Enrichment!Stop
  <2>2. ClusterInv'
    BY <1>0, <2>1 DEF ClusterInv
  <2>3. TrafficInv' /\ WorkInv' /\ Enrichment!RightBackend'
    BY <1>0, <2>1 DEF TrafficInv, WorkInv, Enrichment!TakenFor, Reports, Enrichment!RightBackend,
                      Enrichment!NoEntry, Enrichment!Nothing, Sockets
  <2>4. QED
    BY <2>2, <2>3 DEF EnrichmentInv
<1>2. ASSUME NEW p \in Enrichment!Pods, NEW a \in Addrs, Enrichment!Start(p, a)
      PROVE  EnrichmentInv'
  <2>1. /\ ip' = [ip EXCEPT ![p] = a] /\ held' = held \cup {<<p, a>>}
        /\ UNCHANGED <<podCache, sliceCache, conn, sent, peer, cur>>
    BY <1>2 DEF Enrichment!Start
  <2>2. ClusterInv'
    BY <1>0, <2>1 DEF ClusterInv
  <2>3. TrafficInv'
    BY <1>0, <2>1 DEF TrafficInv, Reports, Enrichment!NoEntry, Sockets
  <2>4. WorkInv'
    BY <1>0, <2>1, WorkFrame DEF TrafficInv
  <2>5. QED
    BY <1>0, <2>1, <2>2, <2>3, <2>4 DEF EnrichmentInv, Enrichment!RightBackend
<1>3. ASSUME NEW u \in Uses, NEW s \in Enrichment!Servers, Enrichment!Connect(u[1], u[2], s, u[3])
      PROVE  EnrichmentInv'
  <2> DEFINE c == [from |-> u[1], client |-> <<Enrichment!addrOf(u[1]), u[2]>>,
                   server |-> s, at |-> ip[s], direct |-> u[3]]
  <2>1. /\ conn' = Append(conn, c)
        /\ sent' = sent \cup {<<Len(conn'), "client">>, <<Len(conn'), "reply">>}
        /\ Enrichment!addrOf(u[1]) # "none" /\ ip[s] # "none"
        /\ UNCHANGED <<ip, podCache, sliceCache, peer, cur, held>>
    BY <1>3 DEF Enrichment!Connect
  <2>2. c \in Connection
    <3>1. ip[s] \in Addrs
      BY <1>0, <2>1 DEF ClusterInv, Enrichment!Pods
    <3>2. Enrichment!addrOf(u[1]) \in Addrs \cup {NodeAddr}
      BY <1>0, <2>1 DEF ClusterInv, Enrichment!Pods, Enrichment!addrOf, EnrichmentAssumption
    <3>3. u[1] \in {Client, HostClient} /\ u[2] \in Ports /\ u[3] \in BOOLEAN
      BY DEF EnrichmentAssumption
    <3>4. QED
      BY <3>1, <3>2, <3>3 DEF Connection
  <2> HIDE DEF c
  <2>3. /\ conn' \in Seq(Connection) /\ Len(conn) \in Nat /\ Len(conn') = Len(conn) + 1
        /\ \A i \in 1..Len(conn) : conn'[i] = conn[i]
    BY <1>0, <2>1, <2>2 DEF TrafficInv
  <2>4. ClusterInv'
    BY <1>0, <2>1 DEF ClusterInv
  <2>5. TrafficInv'
    <3>1. Len(conn') \in 1..Len(conn') /\ 1..Len(conn) \subseteq 1..Len(conn')
      BY <2>3
    <3>2. Reports \subseteq Reports' /\ sent' \subseteq Reports'
      BY <1>0, <2>1, <3>1 DEF TrafficInv, Reports
    <3>3. \A t \in Sockets : peer[t] # Enrichment!NoEntry =>
            \E m \in 1..Len(conn') : conn'[m].client = t /\ conn'[m].server = peer[t].pod
      BY <1>0, <2>3, <3>1 DEF TrafficInv
    <3>4. QED
      BY <1>0, <2>1, <2>3, <3>2, <3>3 DEF TrafficInv, Sockets, Enrichment!NoEntry
  <2>6. WorkInv'
    BY <1>0, <2>1, <2>3, WorkFrame
  <2>7. QED
    BY <1>0, <2>1, <2>4, <2>5, <2>6 DEF EnrichmentInv, Enrichment!RightBackend
<1>4. CASE Enrichment!SyncPods
  BY <1>0, <1>4 DEF Enrichment!SyncPods, EnrichmentInv, ClusterInv, TrafficInv, WorkInv, Enrichment!TakenFor,
       Reports, Enrichment!RightBackend, Enrichment!NoEntry, Enrichment!Nothing, Sockets
<1>5. ASSUME NEW svc \in Enrichment!Services, Enrichment!SyncSlices(svc) PROVE EnrichmentInv'
  <2>1. /\ sliceCache' = [sliceCache EXCEPT ![svc] = Enrichment!endpoints[svc]]
        /\ UNCHANGED <<ip, podCache, conn, sent, peer, cur, held>>
    BY <1>5 DEF Enrichment!SyncSlices
  <2>2. ClusterInv'
    BY <1>0, <2>1, EndpointsHeld DEF ClusterInv
  <2>3. TrafficInv' /\ WorkInv' /\ Enrichment!RightBackend'
    BY <1>0, <2>1 DEF TrafficInv, WorkInv, Enrichment!TakenFor, Reports, Enrichment!RightBackend,
                      Enrichment!NoEntry, Enrichment!Nothing, Sockets
  <2>4. QED
    BY <2>2, <2>3 DEF EnrichmentInv
<1>6. ASSUME NEW s \in DOMAIN peer, Enrichment!pruneLocked(s) PROVE EnrichmentInv'
  <2>1. /\ peer' = [peer EXCEPT ![s] = Enrichment!NoEntry]
        /\ UNCHANGED <<ip, podCache, sliceCache, conn, sent, cur, held>>
    BY <1>6 DEF Enrichment!pruneLocked
  <2>2. DOMAIN peer = Sockets /\ peer = [t \in Sockets |-> peer[t]]
    BY <1>0 DEF TrafficInv
  <2>3. peer' = [t \in Sockets |-> peer'[t]]
        /\ \A t \in Sockets : peer'[t] = IF t = s THEN Enrichment!NoEntry ELSE peer[t]
    BY <2>1, <2>2
  <2>4. TrafficInv'
    <3>1. \A t \in Sockets : peer'[t] # Enrichment!NoEntry =>
            \E m \in 1..Len(conn) : conn[m].client = t /\ conn[m].server = peer'[t].pod
      BY <1>0, <2>3 DEF TrafficInv
    <3>2. Sockets' = Sockets /\ Enrichment!NoEntry' = Enrichment!NoEntry /\ Reports' = Reports
      BY <2>1 DEF Sockets, Enrichment!NoEntry, Reports
    <3>3. QED
      BY <1>0, <2>1, <2>3, <3>1, <3>2 DEF TrafficInv
  <2>5. ClusterInv' /\ WorkInv' /\ Enrichment!RightBackend'
    BY <1>0, <2>1 DEF ClusterInv, WorkInv, Enrichment!TakenFor, Reports, Enrichment!RightBackend,
                      Enrichment!Nothing
  <2>6. QED
    BY <2>4, <2>5 DEF EnrichmentInv
<1>7. QED
  BY <1>1, <1>2, <1>3, <1>4, <1>5, <1>6 DEF Enrichment!Around

\* The steps of a report keep the invariant.
LEMMA ReportKept ==
  ASSUME EnrichmentAssumption, EnrichmentInv,
         \/ \E r \in sent : Enrichment!TakeReport(r)
         \/ Enrichment!Resolve
         \/ Enrichment!recordServerPeer
         \/ Enrichment!resolveClientBackend
         \/ Enrichment!Store
  PROVE  EnrichmentInv'
<1>0. ClusterInv /\ TrafficInv /\ WorkInv
  BY DEF EnrichmentInv
<1>1. ASSUME NEW r \in sent, Enrichment!TakeReport(r) PROVE EnrichmentInv'
  <2>1. /\ UNCHANGED <<ip, podCache, sliceCache, conn, peer, held>> /\ sent' \subseteq sent
        /\ cur'.pc \in {"record", "resolve"} /\ cur'.report = r
        /\ cur'.dst = Enrichment!Nothing /\ cur'.backend = "none"
        /\ cur' = [pc |-> cur'.pc, report |-> cur'.report, dst |-> cur'.dst,
                   backend |-> cur'.backend]
    BY <1>1 DEF Enrichment!TakeReport, Enrichment!Idle
  <2>2. r \in Reports /\ Reports' = Reports
    BY <1>0, <2>1 DEF TrafficInv, Reports
  <2>3. ClusterInv' /\ TrafficInv'
    BY <1>0, <2>1, <2>2 DEF ClusterInv, TrafficInv, Sockets, Enrichment!NoEntry
  <2>4. WorkInv' /\ Enrichment!RightBackend'
    BY <2>1, <2>2 DEF WorkInv, Enrichment!RightBackend, Enrichment!Nothing
  <2>5. QED
    BY <2>3, <2>4 DEF EnrichmentInv
<1>2. CASE Enrichment!Resolve
  <2> DEFINE socket == Enrichment!dstEndpoint(cur.report)
  <2>0. PICK known \in Enrichment!ResolveDst(socket) :
          \E d \in IF known = Enrichment!Nothing THEN Enrichment!cachedHostname(socket[1])
                   ELSE {known} : cur' = [cur EXCEPT !.dst = d, !.pc = "record"]
    BY <1>2, Zenon DEF Enrichment!Resolve
  <2>1. PICK d \in IF known = Enrichment!Nothing THEN Enrichment!cachedHostname(socket[1])
                   ELSE {known} : cur' = [cur EXCEPT !.dst = d, !.pc = "record"]
    BY <2>0
  <2>2. cur.pc = "resolve" /\ UNCHANGED <<ip, podCache, sliceCache, conn, sent, peer, held>>
    BY <1>2 DEF Enrichment!Resolve
  <2>3. /\ cur' = [pc |-> "record", report |-> cur.report, dst |-> d, backend |-> cur.backend]
        /\ cur.report \in Reports /\ cur.backend = "none"
    BY <1>0, <2>1, <2>2 DEF WorkInv
  <2>4. cur.report[2] = "reply" /\ d # Enrichment!Nothing
          => Enrichment!TakenFor(d, conn[cur.report[1]].client)
    <3>1. CASE known # Enrichment!Nothing
      BY <1>0, <2>0, <2>1, <2>3, <3>1, ReplyResolved
    <3>2. CASE known = Enrichment!Nothing
      BY <2>1, <3>2 DEF Enrichment!cachedHostname, Enrichment!dstEndpoint, Enrichment!TakenFor
    <3>3. QED
      BY <3>1, <3>2
  <2>5. ClusterInv' /\ TrafficInv'
    BY <1>0, <2>2 DEF ClusterInv, TrafficInv, Reports, Sockets, Enrichment!NoEntry
  <2>6. WorkInv' /\ Enrichment!RightBackend'
    BY <2>2, <2>3, <2>4 DEF WorkInv, Enrichment!TakenFor, Reports, Enrichment!RightBackend,
                            Enrichment!Nothing
  <2>7. QED
    BY <2>5, <2>6 DEF EnrichmentInv
<1>3. CASE Enrichment!recordServerPeer
  <2> DEFINE entries == Enrichment!LookupEndpoint(Enrichment!srcEndpoint(cur.report))
             c == conn[cur.report[1]]
  <2>1. cur.pc = "record" /\ UNCHANGED <<ip, podCache, sliceCache, conn, sent, held>>
    BY <1>3 DEF Enrichment!recordServerPeer
  <2>2. \/ entries = {} /\ peer' = peer
        \/ \E e \in entries :
             peer' = [peer EXCEPT ![Enrichment!dstEndpoint(cur.report)] =
                        [pod |-> Enrichment!reporter(cur.report), service |-> e.service]]
    BY <1>3 DEF Enrichment!recordServerPeer, Enrichment!Put, Enrichment!peerKey
  <2>3. cur.report \in Reports /\ cur.backend = "none"
    BY <1>0, <2>1 DEF WorkInv
  <2>4. /\ cur'.pc \in {"backend", "done"} /\ cur'.backend = "none"
        /\ cur' = [pc |-> cur'.pc, report |-> cur.report, dst |-> cur.dst, backend |-> cur.backend]
    BY <1>0, <1>3, <2>3 DEF Enrichment!recordServerPeer, WorkInv
  <2>5. /\ peer' = [s \in Sockets |-> peer'[s]]
        /\ \A s \in Sockets : peer'[s] # Enrichment!NoEntry =>
             \E m \in 1..Len(conn) : conn[m].client = s /\ conn[m].server = peer'[s].pod
    <3>1. CASE peer' = peer
      BY <1>0, <3>1 DEF TrafficInv
    <3>2. CASE peer' # peer
      <4>1. cur.report[2] = "reply"
        BY <1>0, <2>2, <2>3, <3>2, EndpointSockets
      <4>2. PICK service : peer' = [peer EXCEPT ![c.client] =
                                      [pod |-> c.server, service |-> service]]
        BY <2>2, <3>2, <4>1 DEF Enrichment!dstEndpoint, Enrichment!reporter
      <4>3. c.client \in Sockets /\ cur.report[1] \in 1..Len(conn)
        BY <1>0, <2>3, EndpointSockets
      <4>4. peer = [s \in Sockets |-> peer[s]]
        BY <1>0 DEF TrafficInv
      <4>5. /\ peer' = [s \in Sockets |-> peer'[s]]
            /\ peer'[c.client].pod = c.server
            /\ \A s \in Sockets : s # c.client => peer'[s] = peer[s]
        BY <4>2, <4>3, <4>4
      <4>6. QED
        BY <1>0, <4>3, <4>5 DEF TrafficInv
    <3>3. QED
      BY <3>1, <3>2
  <2>6. TrafficInv'
    <3>1. Sockets' = Sockets /\ Enrichment!NoEntry' = Enrichment!NoEntry /\ Reports' = Reports
      BY <2>1 DEF Sockets, Enrichment!NoEntry, Reports
    <3>2. QED
      BY <1>0, <2>1, <2>5, <3>1 DEF TrafficInv
  <2>7. ClusterInv'
    BY <1>0, <2>1 DEF ClusterInv
  <2>8. WorkInv'
    <3>1. /\ cur'.report = cur.report /\ cur'.dst = cur.dst
          /\ cur' = [pc |-> cur'.pc, report |-> cur'.report, dst |-> cur'.dst,
                     backend |-> cur'.backend]
      BY <2>4
    <3>2. cur.report[2] = "reply" /\ cur.dst # Enrichment!Nothing
            => Enrichment!TakenFor(cur.dst, conn[cur.report[1]].client)
      BY <1>0, <2>1 DEF WorkInv
    <3>3. QED
      BY <2>1, <2>3, <2>4, <3>1, <3>2 DEF WorkInv, Enrichment!TakenFor, Reports, Enrichment!Nothing
  <2>9. Enrichment!RightBackend'
    BY <2>4 DEF Enrichment!RightBackend
  <2>10. QED
    BY <2>6, <2>7, <2>8, <2>9 DEF EnrichmentInv
<1>4. CASE Enrichment!resolveClientBackend
  <2> DEFINE entries == Enrichment!LookupEndpoint(Enrichment!dstEndpoint(cur.report))
             known == peer[Enrichment!srcEndpoint(cur.report)]
             c == conn[cur.report[1]]
  <2>1. cur.pc = "backend" /\ UNCHANGED <<ip, podCache, sliceCache, conn, sent, peer, held>>
    BY <1>4 DEF Enrichment!resolveClientBackend
  <2>2. \E b : cur' = [cur EXCEPT !.pc = "done", !.backend = b]
               /\ b \in {e.pod : e \in entries} \cup {known.pod, "none"}
    <3>1. \/ \E e \in entries : cur' = [cur EXCEPT !.pc = "done", !.backend = e.pod]
          \/ cur' = [cur EXCEPT !.pc = "done",
                       !.backend = IF known.service = cur.dst.name THEN known.pod ELSE "none"]
      BY <1>4, Zenon DEF Enrichment!resolveClientBackend, Enrichment!Lookup, Enrichment!peerKey
    <3>2. CASE \E e \in entries : cur' = [cur EXCEPT !.pc = "done", !.backend = e.pod]
      BY <3>2, Zenon
    <3>3. CASE cur' = [cur EXCEPT !.pc = "done",
                       !.backend = IF known.service = cur.dst.name THEN known.pod ELSE "none"]
      <4> DEFINE k == IF known.service = cur.dst.name THEN known.pod ELSE "none"
      <4>1. k \in {known.pod, "none"}
        BY Zenon
      <4>2. cur' = [cur EXCEPT !.pc = "done", !.backend = k]
        BY <3>3, Zenon
      <4>3. QED
        BY <4>1, <4>2, Zenon
    <3>4. QED
      BY <3>1, <3>2, <3>3, Zenon
  <2>3. PICK b : cur' = [cur EXCEPT !.pc = "done", !.backend = b]
                 /\ b \in {e.pod : e \in entries} \cup {known.pod, "none"}
    BY <2>2
  <2>4. /\ cur' = [pc |-> "done", report |-> cur.report, dst |-> cur.dst, backend |-> b]
        /\ cur.report \in Reports
    BY <1>0, <2>1, <2>3 DEF WorkInv
  <2>5. /\ c \in Connection /\ cur.report[1] \in 1..Len(conn)
        /\ cur.report[2] \in {"client", "reply"}
    BY <1>0, <2>4, EndpointSockets
  <2>6. ASSUME NEW e \in entries
        PROVE  \/ e.pod = c.server
               \/ c.direct /\ Enrichment!Recycled(c.at, c.server)
    <3>1. cur.report[2] = "client" /\ c.direct
      BY <1>0, <2>4, <2>5, EndpointSockets DEF Connection
    <3>2. Enrichment!dstEndpoint(cur.report) = <<c.at, Enrichment!TargetPort>>
      BY <3>1 DEF Enrichment!dstEndpoint
    <3>3. PICK svc \in Enrichment!Services :
            e \in {[service |-> svc, pod |-> ep[1]] : ep \in {x \in sliceCache[svc] : x[2] = c.at}}
      BY <3>2 DEF Enrichment!LookupEndpoint
    <3>4. PICK ep \in sliceCache[svc] : ep[2] = c.at /\ e = [service |-> svc, pod |-> ep[1]]
      BY <3>3
    <3>5. ep \in held /\ e.pod = ep[1]
      BY <1>0, <3>4 DEF ClusterInv
    <3>6. e.pod # c.server => Enrichment!Recycled(c.at, c.server)
      BY <3>4, <3>5 DEF Enrichment!Recycled
    <3>7. QED
      BY <3>1, <3>6
  <2>7. ASSUME known.pod # "none"
        PROVE  \E m \in 1..Len(conn) : conn[m].client = c.client /\ conn[m].server = known.pod
    <3>1. known # Enrichment!NoEntry
      BY <2>7 DEF Enrichment!NoEntry
    <3>2. Enrichment!srcEndpoint(cur.report) \in {c.client, <<c.at, Enrichment!TargetPort>>}
      BY DEF Enrichment!srcEndpoint
    <3>3. c.client \in Sockets /\ <<c.at, Enrichment!TargetPort>> \in Sockets
      BY <1>0, <2>4, EndpointSockets
    <3>4. PICK m \in 1..Len(conn) : /\ conn[m].client = Enrichment!srcEndpoint(cur.report)
                                    /\ conn[m].server = known.pod
      BY <1>0, <3>1, <3>2, <3>3 DEF TrafficInv
    <3>5. conn[m].client[2] # Enrichment!TargetPort
      <4>1. conn[m] \in Connection
        BY <1>0 DEF TrafficInv
      <4>2. conn[m].client \in (Addrs \cup {NodeAddr}) \X Ports
        BY <4>1 DEF Connection
      <4>3. QED
        BY <4>2 DEF EnrichmentAssumption
    <3>6. Enrichment!srcEndpoint(cur.report) = c.client
      BY <3>2, <3>4, <3>5
    <3>7. QED
      BY <3>4, <3>6
  <2>8. b # "none" => \/ b = c.server
                      \/ c.direct /\ Enrichment!Recycled(c.at, c.server)
                      \/ \E m \in 1..Len(conn) : conn[m].client = c.client /\ conn[m].server = b
    BY <2>3, <2>6, <2>7
  <2>9. Enrichment!RightBackend'
    <3>1. cur'.backend = b /\ cur'.report = cur.report
      BY <2>4
    <3>2. DOMAIN conn = 1..Len(conn)
      BY <1>0 DEF TrafficInv
    <3>3. Enrichment!Recycled(c.at, c.server) =>
            \E h \in held' : h[2] = c.at /\ h[1] # c.server
      BY <2>1 DEF Enrichment!Recycled
    <3>4. QED
      BY <2>1, <2>8, <3>1, <3>2, <3>3 DEF Enrichment!RightBackend, Enrichment!Recycled
  <2>10. ClusterInv' /\ TrafficInv'
    BY <1>0, <2>1 DEF ClusterInv, TrafficInv, Reports, Sockets, Enrichment!NoEntry
  <2>11. WorkInv'
    BY <1>0, <2>1, <2>4 DEF WorkInv, Enrichment!TakenFor, Reports, Enrichment!Nothing
  <2>12. QED
    BY <2>9, <2>10, <2>11 DEF EnrichmentInv
<1>5. CASE Enrichment!Store
  BY <1>0, <1>5 DEF Enrichment!Store, Enrichment!Idle, EnrichmentInv, ClusterInv, TrafficInv,
       WorkInv, Reports, Sockets, Enrichment!RightBackend, Enrichment!NoEntry, Enrichment!Nothing
<1>6. QED
  BY <1>1, <1>2, <1>3, <1>4, <1>5

\* The invariant holds of every behaviour of the enrichment.
LEMMA EnrichmentInvHolds ==
  ASSUME EnrichmentAssumption
  PROVE  Enrichment!Spec => []EnrichmentInv
<1>1. Enrichment!Init => EnrichmentInv
  <2> SUFFICES ASSUME Enrichment!Init PROVE EnrichmentInv
    OBVIOUS
  <2>1. ip \in [Enrichment!Pods -> Addrs \cup {"none"}]
    BY PlacementExists DEF Enrichment!Init
  <2>2. \A p \in Enrichment!Pods : ip[p] # "none" => <<p, ip[p]>> \in held
    BY DEF Enrichment!Init
  <2>3. ASSUME NEW svc \in Enrichment!Services, NEW p \in Selected[svc], ip[p] # "none"
        PROVE  <<p, ip[p]>> \in held \cap (Selected[svc] \X Addrs)
    BY <2>1, <2>2, <2>3 DEF Enrichment!Pods, Enrichment!Servers
  <2>4. ClusterInv
    BY <2>1, <2>2, <2>3 DEF Enrichment!Init, Enrichment!endpoints, ClusterInv
  <2>5. TrafficInv
    BY DEF Enrichment!Init, TrafficInv, Sockets
  <2>6. WorkInv /\ Enrichment!RightBackend
    BY DEF Enrichment!Init, Enrichment!Idle, WorkInv, Enrichment!RightBackend
  <2>7. QED
    BY <2>4, <2>5, <2>6 DEF EnrichmentInv
<1>2. EnrichmentInv /\ [Enrichment!Next]_(Enrichment!enrichmentVars) => EnrichmentInv'
  <2>1. EnrichmentInv /\ UNCHANGED Enrichment!enrichmentVars => EnrichmentInv'
    <3> SUFFICES ASSUME EnrichmentInv, UNCHANGED Enrichment!enrichmentVars PROVE EnrichmentInv'
      OBVIOUS
    <3>1. UNCHANGED <<ip, podCache, sliceCache, conn, sent, peer, cur, held>>
      BY DEF Enrichment!enrichmentVars
    <3>2. ClusterInv'
      BY <3>1 DEF EnrichmentInv, ClusterInv
    <3>3. TrafficInv'
      BY <3>1 DEF EnrichmentInv, TrafficInv, Reports, Sockets, Enrichment!NoEntry
    <3>4. WorkInv'
      BY <3>1 DEF EnrichmentInv, WorkInv, Enrichment!TakenFor, Reports, Enrichment!Nothing
    <3>5. Enrichment!RightBackend'
      BY <3>1 DEF EnrichmentInv, Enrichment!RightBackend, Enrichment!Recycled
    <3>6. QED
      BY <3>2, <3>3, <3>4, <3>5 DEF EnrichmentInv
  <2>2. QED
    BY <2>1, AroundKept, ReportKept DEF Enrichment!Next
<1>3. QED
  BY <1>1, <1>2, PTL DEF Enrichment!Spec

\* A backend that is named for a flow served that connection, but for the two cases that
\* the design cannot tell apart, for any Services, pods, addresses and connections, over
\* reuse of addresses and ports and caches that lag (server.go:resolveClientBackend,
\* recordServerPeer).
THEOREM BackendServedTheFlow ==
  ASSUME EnrichmentAssumption
  PROVE  Enrichment!Spec => []RightBackend
<1>1. EnrichmentInv => RightBackend
  BY DEF EnrichmentInv, RightBackend
<1>2. QED
  BY <1>1, EnrichmentInvHolds, PTL

\* A reply makes no edge towards its client, whatever the informers know of the cluster
\* (server.go:enrichEvent, enricher.go:ResolveDst).
THEOREM RepliesMakeNoEdge ==
  ASSUME EnrichmentAssumption
  PROVE  Enrichment!Spec => []NoFalseEdge
<1>1. EnrichmentInv => NoFalseEdge
  BY DEF EnrichmentInv, WorkInv, Enrichment!TakenFor, Enrichment!NoFalseEdge, NoFalseEdge
<1>2. QED
  BY <1>1, EnrichmentInvHolds, PTL
-----------------------------------------------------------------------------
(* trivy: the report of the image scanner                                  *)

\* The name of an image is not the ID of one.
NamesAreNoIDs == \A i, j \in Images : i.name # j.id

IsEntry(e) == e = Entry(e.name, e.sha, e.rec, e.vulns, e.rank)

\* What is kept are entries of the last report, so that it has the details of their
\* vulnerabilities, and nothing is fresh before the first scans have ended.
ScanInv ==
  /\ cluster \subseteq Images
  /\ \A e \in report \cup fresh : IsEntry(e)
  /\ kept \subseteq report
  /\ phase \in {"idle", "scan", "scanNewest", "panicked"}
  /\ phase # "scanNewest" => fresh = {}
  /\ DetailsComplete
  /\ NamesAreNoIDs => NothingForgotten

\* The results of the scans are entries.
LEMMA ConvertedAreEntries ==
  ASSUME NEW rec
  PROVE  \A e \in Converted(rec) : IsEntry(e) /\ e.rec = rec
BY DEF Converted, Entry, IsEntry

\* Every image that was scanned has an entry, with its own ID if it has one, whether or
\* not the scan succeeded.
LEMMA ScannedHasEntry ==
  ASSUME NEW r \in toScan, r.id # NoID
  PROVE  \E e \in Converted(FALSE) : ~e.rec /\ e.sha = r.id
<1>1. CASE reportByRef[r] = "ok"
  <2> DEFINE e == Entry(r.name, r.id, FALSE, Vulnerabilities[r.name], 0)
  <2>1. e \in Converted(FALSE)
    BY <1>1 DEF Converted
  <2>2. ~e.rec /\ e.sha = r.id
    BY DEF Entry
  <2>3. QED
    BY <2>1, <2>2
<1>2. CASE reportByRef[r] # "ok"
  <2> DEFINE e == Entry(r.name, r.id, FALSE, {}, 0)
  <2>1. e \in Converted(FALSE)
    BY <1>2 DEF Converted
  <2>2. ~e.rec /\ e.sha = r.id
    BY DEF Entry
  <2>3. QED
    BY <2>1, <2>2
<1>3. QED
  BY <1>1, <1>2

\* Minimize changes the rank of an entry and no more.
LEMMA RankedKeepsEntries ==
  ASSUME NEW old, NEW new, \A e \in old \cup new : IsEntry(e)
  PROVE  /\ \A e \in Ranked(old, new) :
              IsEntry(e) /\ \E f \in old \cup new : e.vulns = f.vulns
         /\ \A f \in old \cup new : \E e \in Ranked(old, new) : e.vulns = f.vulns
<1> DEFINE ranks == {e.rank : e \in {f \in old : ~f.rec}}
           dense(n) == Cardinality({r \in ranks : r < n})
<1>1. ASSUME NEW f, IsEntry(f), NEW n
      PROVE  IsEntry([f EXCEPT !.rank = n]) /\ [f EXCEPT !.rank = n].vulns = f.vulns
  BY <1>1 DEF IsEntry, Entry
<1>2. Ranked(old, new) =
        {[e EXCEPT !.rank = IF e.rec THEN 0 ELSE dense(e.rank)] : e \in old}
        \cup {[e EXCEPT !.rank = IF e.rec THEN 0 ELSE Cardinality(ranks)] : e \in new}
  BY DEF Ranked
<1> HIDE DEF dense, ranks
<1>3. ASSUME NEW e \in Ranked(old, new)
      PROVE  IsEntry(e) /\ \E f \in old \cup new : e.vulns = f.vulns
  <2>1. \E f \in old \cup new : \E n : e = [f EXCEPT !.rank = n]
    BY <1>2
  <2>2. QED
    BY <1>1, <2>1
<1>4. ASSUME NEW f \in old \cup new
      PROVE  \E e \in Ranked(old, new) : e.vulns = f.vulns
  <2>1. CASE f \in old
    <3>1. [f EXCEPT !.rank = IF f.rec THEN 0 ELSE dense(f.rank)] \in Ranked(old, new)
      BY <1>2, <2>1
    <3>2. QED
      BY <1>1, <3>1
  <2>2. CASE f \in new
    <3>1. [f EXCEPT !.rank = IF f.rec THEN 0 ELSE Cardinality(ranks)]
            \in Ranked(old, new)
      BY <1>2, <2>2
    <3>2. QED
      BY <1>1, <3>1
  <2>3. QED
    BY <2>1, <2>2
<1>5. QED
  BY <1>3, <1>4

\* The details after a run are those that its report refers to.
LEMMA DetailsOfReport ==
  ASSUME NEW old, NEW new, \A e \in old \cup new : IsEntry(e), old \subseteq report,
         DetailsComplete
  PROVE  detailsAfter(old, new) = vulnsOf(Ranked(old, new))
<1>1. vulnsOf(Ranked(old, new)) = vulnsOf(old \cup new)
  BY RankedKeepsEntries DEF vulnsOf
<1>2. vulnsOf(old) \subseteq details
  BY DEF vulnsOf, DetailsComplete
<1>3. vulnsOf(old \cup new) = vulnsOf(old) \cup vulnsOf(new)
  BY DEF vulnsOf
<1>4. QED
  BY <1>1, <1>2, <1>3 DEF detailsAfter

\* What is chosen for a scan are images of the cluster, and an entry that is not kept
\* is one of an image that was chosen.
LEMMA ChosenOrKept ==
  ASSUME NamesAreNoIDs, cluster \subseteq Images,
         NEW chosen \in SUBSET cluster, NEW i \in cluster, i.id # NoID,
         NEW e \in report, ~e.rec, e.sha = i.id
  PROVE  e \in GetKept(cluster, chosen) \/ \E r \in chosen : r.id = i.id
<1>1. uid(i) = e.sha
  BY DEF uid
<1>2. e \in matching(cluster)
  BY <1>1 DEF matching, getImages
<1>3. CASE \E r \in chosen : uid(r) = e.sha
  <2>1. PICK r \in chosen : uid(r) = e.sha
    BY <1>3
  <2>2. r \in Images /\ i \in Images
    OBVIOUS
  <2>3. r.name # i.id
    BY <2>2 DEF NamesAreNoIDs
  <2>4. QED
    BY <2>1, <2>3 DEF uid
<1>4. CASE ~\E r \in chosen : uid(r) = e.sha
  <2>1. e \in getImages(matching(cluster), chosen, FALSE, FALSE)
    BY <1>2, <1>4 DEF getImages
  <2>2. QED
    BY <2>1 DEF GetKept, getImages
<1>5. QED
  BY <1>3, <1>4

\* Every step of a run keeps the invariant.
LEMMA ScanInvKept ==
  ASSUME ScanInv, Next
  PROVE  ScanInv'
<1>1. CASE Start
  <2>1. /\ phase = "idle" /\ fresh = {} /\ listed' = cluster
        /\ UNCHANGED <<cluster, report, details, fresh>>
    BY <1>1 DEF Start, ScanInv
  <2>2. PICK new \in GetUnscannedImagesToScan(cluster, report) :
          \E old \in GetImagesToReScan(cluster, report,
                                            MaxImagesToScan - Cardinality(new)) :
             \/ phase' = "panicked" /\ kept' = kept
             \/ /\ phase' = "scan" /\ kept' = GetKept(cluster, new \cup old)
                /\ toScan' = new \cup old
    BY <1>1 DEF Start, StartScans
  <2>3. PICK old \in GetImagesToReScan(cluster, report,
                                            MaxImagesToScan - Cardinality(new)) :
             \/ phase' = "panicked" /\ kept' = kept
             \/ /\ phase' = "scan" /\ kept' = GetKept(cluster, new \cup old)
                /\ toScan' = new \cup old
    BY <2>2
  <2>4. new \cup old \in SUBSET cluster
    <3>1. new \subseteq cluster
      BY <2>2 DEF GetUnscannedImagesToScan
    <3>2. old \subseteq cluster
      BY <2>3 DEF GetImagesToReScan
    <3>3. QED
      BY <3>1, <3>2
  <2>5. CASE phase' = "panicked" /\ kept' = kept
    BY <2>1, <2>5 DEF ScanInv, IsEntry, Entry, DetailsComplete, vulnsOf,
                      NothingForgotten, Scanning
  <2>6. CASE /\ phase' = "scan" /\ kept' = GetKept(cluster, new \cup old)
             /\ toScan' = new \cup old
    <3>1. kept' \subseteq report
      BY <2>6 DEF GetKept, matching, getImages
    <3>2. ASSUME NamesAreNoIDs, NEW i \in cluster, i.id # NoID, NEW e \in report, ~e.rec, e.sha = i.id
          PROVE  e \in kept' \/ \E r \in toScan' : r.id = i.id
      BY <2>4, <2>6, <3>2, ChosenOrKept DEF ScanInv
    <3>3. NamesAreNoIDs => NothingForgotten'
      BY <2>1, <2>6, <3>2 DEF NothingForgotten
    <3>4. QED
      BY <2>1, <2>6, <3>1, <3>3 DEF ScanInv, IsEntry, Entry, DetailsComplete,
                                    vulnsOf
  <2>7. QED
    BY <2>3, <2>5, <2>6
<1>2. CASE GetNewestVersions
  <2>1. /\ phase = "scan" /\ phase' = "scanNewest" /\ fresh' = Converted(FALSE)
        /\ UNCHANGED <<cluster, report, details, listed>>
    BY <1>2 DEF GetNewestVersions
  <2>2. \E newest : kept' = getImages(kept, newest, TRUE, FALSE)
    BY <1>2 DEF GetNewestVersions
  <2>3. kept' \subseteq kept /\ \A e \in kept : ~e.rec => e \in kept'
    BY <2>2 DEF getImages
  <2>4. \A e \in fresh' : IsEntry(e)
    BY <2>1, ConvertedAreEntries
  <2>5. NamesAreNoIDs => NothingForgotten'
    <3> SUFFICES ASSUME NamesAreNoIDs, NEW i \in listed, i.id # NoID,
                        NEW e \in report, ~e.rec, e.sha = i.id
                 PROVE  \E f \in kept' \cup fresh' : ~f.rec /\ f.sha = i.id
      BY <2>1 DEF NothingForgotten
    <3>1. \/ \E f \in kept : ~f.rec /\ f.sha = i.id
          \/ \E r \in toScan : r.id = i.id
      BY <2>1 DEF ScanInv, NothingForgotten, Scanning
    <3>2. CASE \E r \in toScan : r.id = i.id
      BY <2>1, <3>2, ScannedHasEntry
    <3>3. QED
      BY <2>3, <3>1, <3>2
  <2>6. QED
    BY <2>1, <2>3, <2>4, <2>5 DEF ScanInv, IsEntry, Entry, DetailsComplete,
                                  vulnsOf
<1>3. CASE Minimize
  <2> DEFINE new == fresh \cup Converted(TRUE)
  <2>1. /\ report' = Ranked(kept, new) /\ details' = detailsAfter(kept, new)
        /\ phase' = "idle" /\ kept' = {} /\ fresh' = {} /\ cluster' = cluster
    BY <1>3 DEF Minimize, Reset
  <2>2. (\A e \in kept \cup new : IsEntry(e)) /\ kept \subseteq report /\ DetailsComplete
    BY ConvertedAreEntries DEF ScanInv
  <2> HIDE DEF new
  <2>3. details' = vulnsOf(report')
    BY <2>1, <2>2, DetailsOfReport
  <2>4. DetailsComplete'
    BY <2>3 DEF DetailsComplete, vulnsOf
  <2>5. \A e \in report' : IsEntry(e)
    BY <2>1, <2>2, RankedKeepsEntries
  <2>6. QED
    BY <2>1, <2>4, <2>5 DEF ScanInv, IsEntry, Entry, NothingForgotten, Scanning
<1>4. CASE Fail \/ Panicked
  BY <1>4 DEF Fail, Panicked, Reset, ScanInv, IsEntry, Entry,
       DetailsComplete, vulnsOf, NothingForgotten, Scanning
<1>5. CASE Change
  BY <1>5 DEF Change, ScanInv, IsEntry, Entry, DetailsComplete, vulnsOf,
       NothingForgotten, Scanning
<1>6. ASSUME NEW r \in Refs,
             Launch(r) \/ ScanOk(r) \/ ScanFails(r) \/ RecordError(r)
      PROVE  ScanInv'
  <2>1. UNCHANGED <<cluster, report, details, phase, listed, kept, toScan, fresh>>
    BY <1>6 DEF Launch, ScanOk, ScanFails, RecordError
  <2>2. QED
    BY <2>1 DEF ScanInv, IsEntry, Entry, DetailsComplete, vulnsOf,
                NothingForgotten, Scanning
<1>7. QED
  BY <1>1, <1>2, <1>3, <1>4, <1>5, <1>6 DEF Next

\* The invariant holds of every behaviour of the scanner.
LEMMA ScanInvHolds == Spec => []ScanInv
<1>1. Init => ScanInv
  BY DEF Init, ScanInv, DetailsComplete, vulnsOf, NothingForgotten,
         Scanning
<1>2. ScanInv /\ [Next]_(vars) => ScanInv'
  <2>1. ScanInv /\ UNCHANGED vars => ScanInv'
    BY DEF ScanInv, IsEntry, Entry, DetailsComplete, vulnsOf,
           NothingForgotten, Scanning, vars, scanVars
  <2>2. QED
    BY <2>1, ScanInvKept
<1>3. QED
  BY <1>1, <1>2, PTL DEF Spec

\* What a run takes out of the last report it scans again, for any images with an ID,
\* limits and failing scans (main.go, image.go:getImages, ConvertTrivyResultsToImageReport).
THEOREM NoImageForgotten ==
  ASSUME NamesAreNoIDs
  PROVE  Spec => []NothingForgotten
<1>1. ScanInv => NothingForgotten
  BY DEF ScanInv
<1>2. QED
  BY <1>1, ScanInvHolds, PTL

\* The report has the details of the vulnerabilities that its entries refer to, and no
\* others, after any number of runs (models/report.go:Minimize).
THEOREM ReportHasItsDetails == Spec => []DetailsComplete
<1>1. ScanInv => DetailsComplete
  BY DEF ScanInv
<1>2. QED
  BY <1>1, ScanInvHolds, PTL
-----------------------------------------------------------------------------
(* opa: what is uploaded                                                   *)

\* The item is what the check of a pass finds in one of the objects.
Explains(x, w, objects) ==
  \E o \in objects :
    /\ ResourceOf[o] = Opa!groupResource(w[2])
    /\ \E out \in Outputs[checks[w[1]].name][o] : x = <<checks[w[1]].name, o, out>>

\* What the checks find is what the passes explain.
LEMMA FindingsOfPasses ==
  ASSUME NEW objects, NEW x
  PROVE  x \in Opa!findings(objects) <=> \E w \in Opa!passes(checks) : Explains(x, w, objects)
<1>1. ASSUME x \in Opa!findings(objects)
      PROVE  \E w \in Opa!passes(checks) : Explains(x, w, objects)
  <2>1. PICK c \in Opa!GetOPACustomChecks(checks), o \in objects :
          /\ \E gr \in Opa!getGroupResources(TargetFlags) : ResourceOf[o] = Opa!groupResource(gr)
          /\ \E out \in Outputs[checks[c].name][o] : x = <<checks[c].name, o, out>>
    BY <1>1 DEF Opa!findings
  <2>2. PICK gr \in Opa!getGroupResources(TargetFlags) : ResourceOf[o] = Opa!groupResource(gr)
    BY <2>1
  <2>3. PICK w : w = <<c, gr>>
    OBVIOUS
  <2>4. w \in Opa!passes(checks) /\ w[1] = c /\ w[2] = gr
    BY <2>1, <2>2, <2>3 DEF Opa!passes
  <2>5. QED
    BY <2>1, <2>2, <2>4 DEF Explains
<1>2. ASSUME NEW w \in Opa!passes(checks), Explains(x, w, objects)
      PROVE  x \in Opa!findings(objects)
  <2>1. w[1] \in Opa!GetOPACustomChecks(checks) /\ w[2] \in Opa!getGroupResources(TargetFlags)
    BY DEF Opa!passes
  <2>2. PICK o \in objects :
          /\ ResourceOf[o] = Opa!groupResource(w[2])
          /\ \E out \in Outputs[checks[w[1]].name][o] : x = <<checks[w[1]].name, o, out>>
    BY <1>2 DEF Explains
  <2>3. PICK c : c = checks[w[1]]
    OBVIOUS
  <2> DEFINE A == {checks[n] : n \in Opa!GetOPACustomChecks(checks)}
             B == {p \in objects : \E gr \in Opa!getGroupResources(TargetFlags) :
                                     ResourceOf[p] = Opa!groupResource(gr)}
             F(d, p) == {<<d.name, p, out>> : out \in Outputs[d.name][p]}
  <2>4. c \in A /\ o \in B /\ x \in F(c, o)
    BY <2>1, <2>2, <2>3
  <2>5. Opa!findings(objects) = UNION {F(d, p) : d \in A, p \in B}
    BY DEF Opa!findings
  <2> HIDE DEF A, B, F
  <2>6. QED
    BY <2>4, <2>5
<1>3. QED
  BY <1>1, <1>2

\* A pass gives items that the cluster explains, and all of them if it has no error.
LEMMA PassGivesAll ==
  ASSUME NEW w, NEW seenObjects,
         seenObjects = {o \in opaCluster : ResourceOf[o] = Opa!groupResource(w[2])},
         NEW done,
         done = Opa!processCheckTarget(checks[w[1]], Opa!groupResource(w[2]), checks, seenObjects)
  PROVE  /\ \A x \in done.items : Explains(x, w, opaCluster)
         /\ done.ok => \A x : Explains(x, w, opaCluster) => x \in done.items
<1> DEFINE Item(o) == Opa!ProcessCheckForItem(checks[w[1]], checks, o)
<1>1. \A o : Item(o).items \subseteq {<<checks[w[1]].name, o, out>> : out \in Outputs[checks[w[1]].name][o]}
  BY DEF Opa!ProcessCheckForItem, Opa!processResults
<1>2. \A o : Item(o).ok => Item(o).items = {<<checks[w[1]].name, o, out>> : out \in Outputs[checks[w[1]].name][o]}
  BY DEF Opa!ProcessCheckForItem, Opa!processResults
<1> HIDE DEF Item
<1>3. \/ done.items = {} /\ ~done.ok
      \/ /\ done.items = UNION {Item(o).items : o \in seenObjects}
         /\ \A o \in seenObjects : Item(o).ok
  BY DEF Opa!processCheckTarget, Item
<1>4. ASSUME NEW x \in done.items PROVE Explains(x, w, opaCluster)
  <2>1. PICK o \in seenObjects : x \in Item(o).items
    BY <1>3, <1>4
  <2>2. QED
    BY <1>1, <2>1 DEF Explains
<1>5. ASSUME done.ok, NEW x, Explains(x, w, opaCluster) PROVE x \in done.items
  <2>1. PICK o \in opaCluster : /\ ResourceOf[o] = Opa!groupResource(w[2])
                                /\ \E out \in Outputs[checks[w[1]].name][o] : x = <<checks[w[1]].name, o, out>>
    BY <1>5 DEF Explains
  <2>2. o \in seenObjects
    BY <2>1
  <2>3. x \in Item(o).items
    BY <1>2, <1>3, <1>5, <2>1, <2>2
  <2>4. QED
    BY <1>3, <1>5, <2>2, <2>3
<1>6. QED
  BY <1>4, <1>5

Writing == {"write", "fill", "rename", "completed"}

\* What was found so far is explained by an object of the run.  As long as nothing has failed,
\* it is all that the passes made so far find in the objects that were always there; a plugin
\* that gets to write has made all passes.
ItemsInv ==
  /\ opaFailed \in BOOLEAN
  /\ always \subseteq opaCluster /\ opaCluster \subseteq ever
  /\ opaPc = "fetch" => actionItems = {}
  /\ \A x \in actionItems : \E w \in Opa!passes(checks) : Explains(x, w, ever)
  /\ opaPc = "process" => work \subseteq Opa!passes(checks)
  /\ opaPc = "process" /\ ~opaFailed =>
       \A w \in Opa!passes(checks) \ work : \A x : Explains(x, w, always) => x \in actionItems
  /\ opaPc \in Writing => \A w \in Opa!passes(checks) : \A x : Explains(x, w, always) => x \in actionItems

\* The output is there only when the plugin has completed, and is then what it found.
FilesInv ==
  /\ files = [name \in {"temp", "output"} |-> files[name]]
  /\ opaPc = "rename" => files["temp"].items = actionItems
  /\ files["output"].there => opaPc = "completed" /\ files["output"].items = actionItems
  /\ opaStatus = "Error" => opaPc = "failed"
  /\ told.kind = "report" => opaPc = "completed" /\ told.items = actionItems
  /\ told.kind = "failure" => opaPc = "failed"

\* The cluster changes.
LEMMA ChangeKept ==
  ASSUME ItemsInv, FilesInv, NEW object \in Objects, Opa!Change(object)
  PROVE  ItemsInv' /\ FilesInv'
<1>1. /\ UNCHANGED <<opaPc, checks, work, actionItems, opaFailed, files, opaStatus, told>>
      /\ always' = always \cap opaCluster' /\ ever' = ever \cup opaCluster'
  BY DEF Opa!Change
<1>2. ASSUME NEW w, NEW x
      PROVE  /\ Explains(x, w, ever) => Explains(x, w, ever)'
             /\ Explains(x, w, always)' => Explains(x, w, always)
  BY <1>1 DEF Explains, Opa!groupResource
<1>3. Opa!passes(checks)' = Opa!passes(checks)
  BY <1>1 DEF Opa!passes, Opa!GetOPACustomChecks, Opa!getGroupResources
<1>4. ItemsInv'
  BY <1>1, <1>2, <1>3 DEF ItemsInv, Writing
<1>5. FilesInv'
  BY <1>1 DEF FilesInv
<1>6. QED
  BY <1>4, <1>5

\* The checks are fetched.
LEMMA FetchKept ==
  ASSUME ItemsInv, FilesInv, Opa!getInsightsChecks
  PROVE  ItemsInv' /\ FilesInv'
<1>1. /\ opaPc = "fetch" /\ opaPc' \in {"process", "failed"}
      /\ opaPc' = "process" => work' = Opa!passes(checks')
      /\ UNCHANGED <<opaCluster, actionItems, opaFailed, files, opaStatus, told, always, ever>>
  BY DEF Opa!getInsightsChecks, Opa!pluginUnchanged
<1>2. opaPc' = "process" => work' = Opa!passes(checks)'
  BY <1>1
<1>3. ItemsInv'
  BY <1>1, <1>2 DEF ItemsInv, Writing
<1>4. FilesInv'
  BY <1>1 DEF FilesInv
<1>5. QED
  BY <1>3, <1>4

\* A pass is made.
LEMMA PassKept ==
  ASSUME ItemsInv, FilesInv, Opa!processNext
  PROVE  ItemsInv' /\ FilesInv'
<1>1. /\ opaPc = "process"
      /\ UNCHANGED <<opaPc, checks, files, opaCluster, always, ever, opaStatus, told>>
  BY DEF Opa!processNext, Opa!pluginUnchanged
<1>2. PICK pass \in work :
        /\ work' = work \ {pass}
        /\ LET target == Opa!groupResource(pass[2])
               seenObjects == {object \in opaCluster : ResourceOf[object] = target}
               done == Opa!processCheckTarget(checks[pass[1]], target, checks, seenObjects)
           IN  \/ /\ actionItems' = actionItems \cup done.items
                  /\ opaFailed' = IF done.ok THEN opaFailed ELSE TRUE
               \/ opaFailed' = TRUE /\ actionItems' = actionItems
  BY DEF Opa!processNext
<1>3. PICK seenObjects : seenObjects = {o \in opaCluster : ResourceOf[o] = Opa!groupResource(pass[2])}
  OBVIOUS
<1>4. PICK done : done = Opa!processCheckTarget(checks[pass[1]], Opa!groupResource(pass[2]), checks,
                                                seenObjects)
  OBVIOUS
<1>5. \/ /\ actionItems' = actionItems \cup done.items
         /\ opaFailed' = IF done.ok THEN opaFailed ELSE TRUE
      \/ opaFailed' = TRUE /\ actionItems' = actionItems
  BY <1>2, <1>3, <1>4
<1>6. /\ \A x \in done.items : Explains(x, pass, opaCluster)
      /\ done.ok => \A x : Explains(x, pass, opaCluster) => x \in done.items
  BY <1>3, <1>4, PassGivesAll
<1>7. \A x : /\ Explains(x, pass, opaCluster) => Explains(x, pass, ever)
             /\ Explains(x, pass, always) => Explains(x, pass, opaCluster)
  BY DEF ItemsInv, Explains
<1>8. \A w, x : Explains(x, w, ever)' = Explains(x, w, ever) /\ Explains(x, w, always)' = Explains(x, w, always)
  BY <1>1 DEF Explains, Opa!groupResource
<1>9. Opa!passes(checks)' = Opa!passes(checks)
  BY <1>1 DEF Opa!passes, Opa!GetOPACustomChecks, Opa!getGroupResources
<1>10. pass \in Opa!passes(checks)
  BY <1>1, <1>2 DEF ItemsInv
<1>11. \A x \in actionItems' : \E w \in Opa!passes(checks) : Explains(x, w, ever)
  <2>1. ASSUME NEW x \in actionItems' PROVE \E w \in Opa!passes(checks) : Explains(x, w, ever)
    <3>1. x \in actionItems \/ x \in done.items
      BY <1>5, <2>1
    <3>2. CASE x \in actionItems
      BY <3>2 DEF ItemsInv
    <3>3. CASE x \in done.items
      BY <1>6, <1>7, <1>10, <3>3
    <3>4. QED
      BY <3>1, <3>2, <3>3
  <2>2. QED
    BY <2>1
<1>12. ASSUME ~opaFailed', NEW w \in Opa!passes(checks) \ work', NEW x, Explains(x, w, always)
       PROVE  x \in actionItems'
  <2>1. done.ok /\ ~opaFailed /\ actionItems' = actionItems \cup done.items
    BY <1>5, <1>12 DEF ItemsInv
  <2>2. CASE w = pass
    BY <1>6, <1>7, <1>12, <2>1, <2>2
  <2>3. CASE w # pass
    <3>1. w \in Opa!passes(checks) \ work
      BY <1>2, <1>12, <2>3
    <3>2. QED
      BY <1>1, <1>12, <2>1, <3>1 DEF ItemsInv
  <2>4. QED
    BY <2>2, <2>3
<1>13. opaFailed' \in BOOLEAN
  BY <1>5 DEF ItemsInv
<1>14. ItemsInv'
  BY <1>1, <1>2, <1>8, <1>9, <1>11, <1>12, <1>13 DEF ItemsInv, Writing
<1>15. FilesInv'
  BY <1>1 DEF FilesInv
<1>16. QED
  BY <1>14, <1>15

\* The other steps leave the cluster, the checks and the items as they are.
LEMMA LaterKept ==
  ASSUME ItemsInv, FilesInv,
         Opa!Run \/ Opa!WriteFile \/ Opa!Rename \/ Opa!Kill \/ Opa!ReportStatus \/ Opa!Attempt
           \/ Opa!PostFails \/ UNCHANGED Opa!opaVars
  PROVE  ItemsInv' /\ FilesInv'
<1>1. UNCHANGED <<checks, work, actionItems, opaFailed, opaCluster, always, ever>>
  BY DEF Opa!Run, Opa!WriteFile, Opa!Rename, Opa!Kill, Opa!ReportStatus, Opa!Attempt, Opa!PostFails,
         Opa!opaVars, Opa!pluginUnchanged
<1>2. /\ \A w, x : Explains(x, w, ever)' = Explains(x, w, ever) /\ Explains(x, w, always)' = Explains(x, w, always)
      /\ Opa!passes(checks)' = Opa!passes(checks)
  BY <1>1 DEF Explains, Opa!groupResource, Opa!passes, Opa!GetOPACustomChecks, Opa!getGroupResources
<1>3. \/ opaPc' = opaPc
      \/ opaPc = "process" /\ work = {} /\ ~opaFailed /\ opaPc' = "write"
      \/ opaPc \in {"write", "fill", "rename"} /\ opaPc' \in Writing
      \/ opaPc' \in {"failed", "killed"}
  BY DEF Opa!Run, Opa!WriteFile, Opa!Rename, Opa!Kill, Opa!ReportStatus, Opa!Attempt, Opa!PostFails,
         Opa!opaVars, Writing
<1>4. ItemsInv'
  <2>1. opaPc' \in Writing => \A w \in Opa!passes(checks) : \A x : Explains(x, w, always) => x \in actionItems
    BY <1>3 DEF ItemsInv, Writing
  <2>2. opaPc' \in {"fetch", "process"} => opaPc' = opaPc
    BY <1>3 DEF Writing
  <2>3. QED
    BY <1>1, <1>2, <2>1, <2>2 DEF ItemsInv
<1>5. FilesInv'
  <2>1. CASE Opa!Run
    BY <2>1 DEF Opa!Run, Opa!pluginUnchanged, FilesInv
  <2>2. CASE Opa!WriteFile
    <3>1. /\ opaPc \in {"write", "fill"} /\ UNCHANGED <<opaStatus, told>>
          /\ \/ opaPc' = "failed" /\ files' = files
             \/ opaPc' = "fill" /\ files' = [files EXCEPT !["temp"] = Opa!File({})]
             \/ opaPc' = "rename" /\ files' = [files EXCEPT !["temp"] = Opa!File(actionItems)]
      BY <2>2 DEF Opa!WriteFile, Opa!pluginUnchanged, Opa!outputTempFile
    <3>2. QED
      BY <1>1, <3>1 DEF FilesInv, Opa!File
  <2>3. CASE Opa!Rename
    <3>1. /\ opaPc = "rename" /\ UNCHANGED <<opaStatus, told>>
          /\ \/ opaPc' = "failed" /\ files' = files
             \/ opaPc' = "completed" /\ files' = [files EXCEPT !["output"] = files["temp"]]
      BY <2>3 DEF Opa!Rename, Opa!pluginUnchanged, Opa!outputTempFile
    <3>2. QED
      BY <1>1, <3>1 DEF FilesInv
  <2>4. CASE Opa!Kill
    BY <2>4 DEF Opa!Kill, Opa!pluginUnchanged, Opa!ended, FilesInv
  <2>5. CASE Opa!ReportStatus
    BY <2>5 DEF Opa!ReportStatus, Opa!ended, FilesInv
  <2>6. CASE Opa!Attempt
    BY <2>6 DEF Opa!Attempt, Opa!Failure, Opa!Report, FilesInv
  <2>7. CASE Opa!PostFails \/ UNCHANGED Opa!opaVars
    BY <2>7 DEF Opa!PostFails, Opa!opaVars, FilesInv
  <2>8. QED
    BY <2>1, <2>2, <2>3, <2>4, <2>5, <2>6, <2>7
<1>6. QED
  BY <1>4, <1>5

\* For any checks, libraries, targets, objects and numbers of attempts and errors: what the
\* uploader posts as a report has all that the checks find in the objects that were there
\* throughout, and nothing that no object of the run explains, however the cluster changes
\* between two lists and whichever call fails; and a failure is told of a plugin that failed.
THEOREM UploadsAreWhole == Opa!Spec => []UploadedIsWhole
<1>1. Opa!Init => ItemsInv /\ FilesInv
  <2>1. Opa!Init => ItemsInv
    BY DEF Opa!Init, ItemsInv, Writing
  <2>2. Opa!Init => FilesInv
    BY DEF Opa!Init, FilesInv, Opa!NoFile, Opa!Nothing, Opa!Running
  <2>3. QED
    BY <2>1, <2>2
<1>2. ItemsInv /\ FilesInv /\ [Opa!Next]_Opa!opaVars => ItemsInv' /\ FilesInv'
  BY ChangeKept, FetchKept, PassKept, LaterKept DEF Opa!Next
<1>3. ItemsInv /\ FilesInv => UploadedIsWhole
  <2> SUFFICES ASSUME ItemsInv, FilesInv PROVE UploadedIsWhole
    OBVIOUS
  <2>1. ASSUME told.kind = "report"
        PROVE  Opa!findings(always) \subseteq told.items /\ told.items \subseteq Opa!findings(ever)
    <3>1. opaPc \in Writing /\ told.items = actionItems
      BY <2>1 DEF FilesInv, Writing
    <3>2. ASSUME NEW x \in Opa!findings(always) PROVE x \in actionItems
      BY <3>1, <3>2, FindingsOfPasses DEF ItemsInv
    <3>3. ASSUME NEW x \in actionItems PROVE x \in Opa!findings(ever)
      BY <3>3, FindingsOfPasses DEF ItemsInv
    <3>4. QED
      BY <3>1, <3>2, <3>3
  <2>2. told.kind = "failure" => opaPc = "failed"
    BY DEF FilesInv
  <2>3. QED
    BY <2>1, <2>2 DEF Opa!UploadedIsWhole, UploadedIsWhole
<1>4. QED
  BY <1>1, <1>2, <1>3, PTL DEF Opa!Spec
-----------------------------------------------------------------------------
(* event-watcher: what a message is taken for                              *)

\* A message, as the API server or Kyverno writes it.
Denial(m) ==
  \E k \in Router!BlockingKinds \cup {"other"}, f \in {"failed", "error"}, id \in BOOLEAN,
     t \in SUBSET Router!TextWords : m = Router!Blocked(k, f, id, t)
Warning(m) == \E k \in Router!AuditKinds \cup {"other"}, n \in 1..2 : m = Router!Passed(k, n)

Misled(m) == m.text \cap Router!Misleading(m.kind) # {}

\* The words of a denial are the frame, the text and what these hold.
LEMMA WordsOfDenial ==
  ASSUME NEW k, NEW f, NEW id, NEW t, NEW m, m = Router!Blocked(k, f, id, t), NEW frame,
         frame = Router!Frame(k, f)
  PROVE  /\ m.kind = k /\ m.blocked /\ m.failure = f /\ m.text = t /\ m.failures = 1 /\ m.uid = id
         /\ m.header = frame
         /\ \A w : w \notin {"vpol", "nvpol", "ivpol"} => (Router!contains(m, w) <=> w \in frame \cup t)
         /\ Router!contains(m, "nvpol") <=> (frame \cup t) \cap {"nvpol", "quotedNvpol"} # {}
         /\ Router!contains(m, "ivpol") <=> (frame \cup t) \cap {"ivpol", "quotedIvpol"} # {}
         /\ Router!contains(m, "vpol") <=>
              (frame \cup t) \cap {"vpol", "quotedVpol", "quotedNvpol", "nvpol", "quotedIvpol", "ivpol"} # {}
<1>1. m.words = Router!Holds(frame \cup t)
  BY DEF Router!Blocked
<1>2. /\ DOMAIN Router!Within = {"vpol", "nvpol", "ivpol"}
      /\ Router!Within["nvpol"] = {"quotedNvpol"} /\ Router!Within["ivpol"] = {"quotedIvpol"}
      /\ Router!Within["vpol"] = {"quotedVpol", "quotedNvpol", "nvpol", "quotedIvpol", "ivpol"}
  BY DEF Router!Within
<1>3. m.words = (frame \cup t) \cup {w \in {"vpol", "nvpol", "ivpol"} : (frame \cup t) \cap Router!Within[w] # {}}
  BY <1>1, <1>2 DEF Router!Holds
<1>4. QED
  BY <1>2, <1>3 DEF Router!Blocked, Router!contains

\* A denial whose text does not mislead becomes an event of its kind, and with it the handler
\* finds the policy.
RightEvent(m, e) ==
  /\ e.prefix = Router!HandlerOf(m) /\ m.kind # "other"
  /\ e.object = "objectRef" \/ m.kind = "ClusterPolicy" \/ "resource" \in m.text

\* What the handler of the event's name finds.
RightPolicies(m, policies) ==
  \/ policies = {"violated"} \/ m.failures > 1
  \/ /\ m.failure = "error"
     /\ m.kind \in {"ValidatingPolicy", "NamespacedValidatingPolicy"}
     /\ policies = IF "failed" \in m.text THEN {"garbled"} ELSE {"unknown"}

\* The name of a policy that failed is in the header; after "error" it may be garbled.
LEMMA NameOfPolicy ==
  ASSUME NEW m, NEW f \in {"failed", "error"}, f \in m.header,
         f = "error" => "failed" \notin m.header
  PROVE  /\ Router!PolicyName(m, {"error", "failed"}) = {"violated"}
         /\ Router!PolicyName(m, {"failed"}) =
              IF f = "failed" THEN {"violated"}
              ELSE IF "failed" \in m.text THEN {"garbled"} ELSE {"unknown"}
<1>1. Router!Index(m, {"error", "failed"}) = "header"
  <2>1. {"error", "failed"} \cap m.header # {}
    OBVIOUS
  <2>2. QED
    BY <2>1 DEF Router!Index
<1>2. Router!Index(m, {"failed"}) =
        IF f = "failed" THEN "header" ELSE IF "failed" \in m.text THEN "text" ELSE "nowhere"
  <2>1. {"failed"} \cap m.header # {} <=> f = "failed"
    OBVIOUS
  <2>2. {"failed"} \cap m.text # {} <=> "failed" \in m.text
    OBVIOUS
  <2>3. QED
    BY <2>1, <2>2 DEF Router!Index
<1>3. QED
  BY <1>1, <1>2 DEF Router!PolicyName

\* A ClusterPolicy.
LEMMA ClusterPolicyRouted ==
  ASSUME NEW f \in {"failed", "error"}, NEW id \in BOOLEAN, NEW t \in SUBSET Router!TextWords,
         NEW m, m = Router!Blocked("ClusterPolicy", f, id, t), ~Misled(m)
  PROVE  /\ RightEvent(m, Router!CreateBlockedPolicyViolationEvent(m))
         /\ RightPolicies(m, Router!ExtractPoliciesFromMessage(m))
<1>1. PICK frame : frame = Router!Frame("ClusterPolicy", f)
  OBVIOUS
<1>2. frame = {"kyverno", "webhook", "deniedTheRequest", "blockedDueTo", "resource"}
  BY <1>1 DEF Router!Frame
<1>3. /\ m.kind = "ClusterPolicy" /\ m.blocked /\ m.text = t
      /\ Router!contains(m, "kyverno") /\ Router!contains(m, "blockedDueTo")
      /\ Router!contains(m, "webhook") /\ Router!contains(m, "deniedTheRequest")
      /\ ~Router!contains(m, "notYAML") /\ m.header = frame
  BY <1>1, <1>2, WordsOfDenial DEF Misled, Router!Misleading
<1>4. Router!Index(m, {"blockedDueTo"}) = "header"
  BY <1>2, <1>3 DEF Router!Index
<1>5. QED
  BY <1>3, <1>4 DEF RightEvent, RightPolicies, Router!HandlerOf, Router!CreateBlockedPolicyViolationEvent,
              Router!IsKyvernoPolicyViolation, Router!ExtractPoliciesFromMessage

\* A ValidatingPolicy.
LEMMA ValidatingPolicyRouted ==
  ASSUME NEW f \in {"failed", "error"}, NEW id \in BOOLEAN, NEW t \in SUBSET Router!TextWords,
         NEW m, m = Router!Blocked("ValidatingPolicy", f, id, t), ~Misled(m)
  PROVE  /\ RightEvent(m, Router!CreateBlockedPolicyViolationEvent(m))
         /\ RightPolicies(m, Router!ExtractValidatingPoliciesFromMessage(m))
<1>1. PICK frame : frame = Router!Frame("ValidatingPolicy", f)
  OBVIOUS
<1>2. frame = {"kyverno", "webhook", "deniedTheRequest", "quotedVpol", f}
  BY <1>1 DEF Router!Frame
<1>3. m.kind = "ValidatingPolicy" /\ m.blocked /\ m.text = t /\ m.failure = f /\ m.header = frame
  BY <1>1, WordsOfDenial
<1>4. "blockedDueTo" \notin t /\ "quotedNvpol" \notin t /\ "nvpol" \notin t /\ "quotedIvpol" \notin t
  BY <1>3 DEF Misled, Router!Misleading
<1>5. /\ Router!contains(m, "kyverno") /\ ~Router!contains(m, "blockedDueTo")
      /\ Router!contains(m, "quotedVpol") /\ ~Router!contains(m, "quotedNvpol")
      /\ ~Router!contains(m, "quotedIvpol") /\ ~Router!contains(m, "nvpol")
      /\ Router!contains(m, "deniedTheRequest") /\ Router!contains(m, f) /\ Router!contains(m, "vpol")
      /\ Router!contains(m, "resource") => "resource" \in t
  BY <1>1, <1>2, <1>4, WordsOfDenial
<1>6. f \in m.header /\ (f = "error" => "failed" \notin m.header)
  BY <1>2, <1>3
<1>7. QED
  BY <1>3, <1>5, <1>6, NameOfPolicy DEF RightEvent, RightPolicies, Router!HandlerOf, Router!CreateBlockedPolicyViolationEvent,
    Router!IsKyvernoPolicyViolation, Router!IsValidatingPolicyViolation,
    Router!ExtractValidatingPoliciesFromMessage, Router!extractObjectRefFromMessage

\* A NamespacedValidatingPolicy.
LEMMA NamespacedPolicyRouted ==
  ASSUME NEW f \in {"failed", "error"}, NEW id \in BOOLEAN, NEW t \in SUBSET Router!TextWords,
         NEW m, m = Router!Blocked("NamespacedValidatingPolicy", f, id, t), ~Misled(m)
  PROVE  /\ RightEvent(m, Router!CreateBlockedPolicyViolationEvent(m))
         /\ RightPolicies(m, Router!ExtractNamespacedValidatingPoliciesFromMessage(m))
<1>1. PICK frame : frame = Router!Frame("NamespacedValidatingPolicy", f)
  OBVIOUS
<1>2. frame = {"kyverno", "webhook", "deniedTheRequest", "quotedNvpol", f}
  BY <1>1 DEF Router!Frame
<1>3. m.kind = "NamespacedValidatingPolicy" /\ m.blocked /\ m.text = t /\ m.failure = f /\ m.header = frame
  BY <1>1, WordsOfDenial
<1>4. "blockedDueTo" \notin t
  BY <1>3 DEF Misled, Router!Misleading
<1>5. /\ Router!contains(m, "kyverno") /\ ~Router!contains(m, "blockedDueTo")
      /\ Router!contains(m, "quotedNvpol") /\ Router!contains(m, "nvpol")
      /\ Router!contains(m, "deniedTheRequest") /\ Router!contains(m, f)
      /\ Router!contains(m, "resource") => "resource" \in t
  BY <1>1, <1>2, <1>4, WordsOfDenial
<1>6. f \in m.header /\ (f = "error" => "failed" \notin m.header)
  BY <1>2, <1>3
<1>7. QED
  BY <1>3, <1>5, <1>6, NameOfPolicy DEF RightEvent, RightPolicies, Router!HandlerOf, Router!CreateBlockedPolicyViolationEvent,
    Router!IsKyvernoPolicyViolation, Router!IsValidatingPolicyViolation,
    Router!IsNamespacedValidatingPolicyViolation,
    Router!ExtractNamespacedValidatingPoliciesFromMessage, Router!extractObjectRefFromMessage

\* An ImageValidatingPolicy.
LEMMA ImagePolicyRouted ==
  ASSUME NEW f \in {"failed", "error"}, NEW id \in BOOLEAN, NEW t \in SUBSET Router!TextWords,
         NEW m, m = Router!Blocked("ImageValidatingPolicy", f, id, t), ~Misled(m)
  PROVE  /\ RightEvent(m, Router!CreateBlockedPolicyViolationEvent(m))
         /\ RightPolicies(m, Router!ExtractImageValidatingPoliciesFromMessage(m))
<1>1. PICK frame : frame = Router!Frame("ImageValidatingPolicy", f)
  OBVIOUS
<1>2. frame = {"kyverno", "webhook", "deniedTheRequest", "quotedIvpol", f}
  BY <1>1 DEF Router!Frame
<1>3. m.kind = "ImageValidatingPolicy" /\ m.blocked /\ m.text = t /\ m.failure = f /\ m.header = frame
  BY <1>1, WordsOfDenial
<1>4. "blockedDueTo" \notin t /\ "quotedNvpol" \notin t /\ "nvpol" \notin t
  BY <1>3 DEF Misled, Router!Misleading
<1>5. /\ Router!contains(m, "kyverno") /\ ~Router!contains(m, "blockedDueTo")
      /\ Router!contains(m, "quotedIvpol") /\ Router!contains(m, "ivpol") /\ ~Router!contains(m, "nvpol")
      /\ Router!contains(m, "deniedTheRequest") /\ Router!contains(m, f)
      /\ Router!contains(m, "resource") => "resource" \in t
  BY <1>1, <1>2, <1>4, WordsOfDenial
<1>6. f \in m.header /\ (f = "error" => "failed" \notin m.header)
  BY <1>2, <1>3
<1>7. QED
  BY <1>3, <1>5, <1>6, NameOfPolicy DEF RightEvent, RightPolicies, Router!HandlerOf, Router!CreateBlockedPolicyViolationEvent,
    Router!IsKyvernoPolicyViolation, Router!IsValidatingPolicyViolation,
    Router!IsNamespacedValidatingPolicyViolation, Router!IsImageValidatingPolicyViolation,
    Router!ExtractImageValidatingPoliciesFromMessage, Router!extractObjectRefFromMessage

\* A ValidatingAdmissionPolicy, whose name is found without a panic.
LEMMA AdmissionPolicyRouted ==
  ASSUME NEW f \in {"failed", "error"}, NEW id \in BOOLEAN, NEW t \in SUBSET Router!TextWords,
         NEW m, m = Router!Blocked("ValidatingAdmissionPolicy", f, id, t), ~Misled(m)
  PROVE  /\ RightEvent(m, Router!CreateBlockedPolicyViolationEvent(m))
         /\ Router!ExtractValidatingAdmissionPoliciesFromMessage(m) = {"violated"}
<1>1. PICK frame : frame = Router!Frame("ValidatingAdmissionPolicy", f)
  OBVIOUS
<1>2. frame = {"ValidatingAdmissionPolicy", "withBinding", "deniedRequest"}
  BY <1>1 DEF Router!Frame
<1>3. m.kind = "ValidatingAdmissionPolicy" /\ m.blocked /\ m.text = t
  BY <1>1, WordsOfDenial
<1>4. "kyverno" \notin t
  BY <1>3 DEF Misled, Router!Misleading
<1>5. /\ ~Router!contains(m, "kyverno") /\ Router!contains(m, "ValidatingAdmissionPolicy")
      /\ Router!contains(m, "deniedRequest") /\ Router!contains(m, "withBinding")
      /\ Router!contains(m, "resource") => "resource" \in t
  BY <1>1, <1>2, <1>4, WordsOfDenial
<1>6. QED
  BY <1>3, <1>5 DEF RightEvent, Router!HandlerOf, Router!CreateBlockedPolicyViolationEvent,
    Router!IsKyvernoPolicyViolation, Router!IsValidatingPolicyViolation,
    Router!IsNamespacedValidatingPolicyViolation, Router!IsImageValidatingPolicyViolation,
    Router!IsValidatingAdmissionPolicyViolation,
    Router!ExtractValidatingAdmissionPoliciesFromMessage, Router!extractObjectRefFromMessage

\* Another refusal of the API server.
LEMMA OtherNotRouted ==
  ASSUME NEW f \in {"failed", "error"}, NEW id \in BOOLEAN, NEW t \in SUBSET Router!TextWords,
         NEW m, m = Router!Blocked("other", f, id, t), ~Misled(m)
  PROVE  Router!CreateBlockedPolicyViolationEvent(m) = Router!NoEvent /\ m.kind = "other"
<1>1. PICK frame : frame = Router!Frame("other", f)
  OBVIOUS
<1>2. frame = {}
  BY <1>1 DEF Router!Frame
<1>3. m.kind = "other" /\ m.blocked /\ m.text = t
  BY <1>1, WordsOfDenial
<1>4. "kyverno" \notin t /\ "ValidatingAdmissionPolicy" \notin t
  BY <1>3 DEF Misled, Router!Misleading
<1>5. ~Router!contains(m, "kyverno") /\ ~Router!contains(m, "ValidatingAdmissionPolicy")
  BY <1>1, <1>2, <1>4, WordsOfDenial
<1>6. QED
  BY <1>3, <1>5 DEF Router!CreateBlockedPolicyViolationEvent,
    Router!IsKyvernoPolicyViolation, Router!IsValidatingPolicyViolation,
    Router!IsNamespacedValidatingPolicyViolation, Router!IsImageValidatingPolicyViolation,
    Router!IsValidatingAdmissionPolicyViolation

\* An event is of the kind of its message, unless the text misleads.
EventInv ==
  /\ Denial(message) \/ Warning(message)
  /\ event = Router!NoEvent \/ Misled(message) \/ RightEvent(message, event)

\* What the handlers do with an event of the right kind.
LEMMA HandlersPost ==
  ASSUME EventInv, ~Misled(message), event # Router!NoEvent
  PROVE  LET posted == Router!registerDefaultHandlers(event.prefix)
         IN  /\ posted.handler = Router!HandlerOf(message) /\ posted.object = event.object
             /\ RightPolicies(message, posted.policies)
<1>1. RightEvent(message, event)
  BY DEF EventInv
<1>2. CASE Denial(message)
  <2>1. PICK k \in Router!BlockingKinds \cup {"other"}, f \in {"failed", "error"}, id \in BOOLEAN,
             t \in SUBSET Router!TextWords : message = Router!Blocked(k, f, id, t)
    BY <1>2 DEF Denial
  <2>2. message.kind = k /\ message.blocked
    BY <2>1, WordsOfDenial
  <2>3. CASE k = "ClusterPolicy"
    BY <1>1, <2>1, <2>2, <2>3, ClusterPolicyRouted DEF RightEvent, Router!HandlerOf,
       Router!registerDefaultHandlers, Router!PolicyViolationHandler, Router!SendToInsights
  <2>4. CASE k = "ValidatingPolicy"
    BY <1>1, <2>1, <2>2, <2>4, ValidatingPolicyRouted DEF RightEvent, Router!HandlerOf,
       Router!registerDefaultHandlers, Router!ValidatingPolicyViolationHandler, Router!SendToInsights
  <2>5. CASE k = "NamespacedValidatingPolicy"
    BY <1>1, <2>1, <2>2, <2>5, NamespacedPolicyRouted DEF RightEvent, Router!HandlerOf,
       Router!registerDefaultHandlers, Router!NamespacedValidatingAdmissionPolicyViolationHandler,
       Router!SendToInsights
  <2>6. CASE k = "ImageValidatingPolicy"
    BY <1>1, <2>1, <2>2, <2>6, ImagePolicyRouted DEF RightEvent, Router!HandlerOf,
       Router!registerDefaultHandlers, Router!ImageValidatingPolicyViolationHandler, Router!SendToInsights
  <2>7. CASE k = "ValidatingAdmissionPolicy"
    BY <1>1, <2>1, <2>2, <2>7, AdmissionPolicyRouted DEF RightEvent, RightPolicies, Router!HandlerOf,
       Router!registerDefaultHandlers, Router!ValidatingAdmissionPolicyViolationHandler,
       Router!SendToInsights
  <2>8. CASE k = "other"
    BY <1>1, <2>2, <2>8 DEF RightEvent
  <2>9. QED
    BY <2>1, <2>3, <2>4, <2>5, <2>6, <2>7, <2>8 DEF Router!BlockingKinds
<1>3. CASE Warning(message)
  <2>1. PICK k \in Router!AuditKinds \cup {"other"}, n \in 1..2 : message = Router!Passed(k, n)
    BY <1>3 DEF Warning
  <2>2. message.kind = k /\ ~message.blocked /\ message.failures = n
    BY <2>1 DEF Router!Passed
  <2> USE DEF RightEvent, RightPolicies, Router!HandlerOf, Router!registerDefaultHandlers,
              Router!SendToInsights
  <2>3. CASE k = "ClusterPolicy"
    BY <1>1, <2>2, <2>3 DEF Router!ClusterPolicyAuditHandler,
       Router!ExtractAuditOnlyClusterPoliciesFromMessage
  <2>4. CASE k = "ValidatingPolicy"
    BY <1>1, <2>2, <2>4 DEF Router!ValidatingPolicyAuditHandler,
       Router!ExtractAuditOnlyValidatingPoliciesFromMessage
  <2>5. CASE k = "NamespacedValidatingPolicy"
    BY <1>1, <2>2, <2>5 DEF Router!NamespacedValidatingPolicyAuditHandler,
       Router!ExtractAuditOnlyNamespacedValidatingPoliciesFromMessage
  <2>6. CASE k = "ImageValidatingPolicy"
    BY <1>1, <2>2, <2>6 DEF Router!ImageValidatingPolicyAuditHandler,
       Router!ExtractAuditOnlyImageValidatingPoliciesFromMessage
  <2>7. CASE k = "ValidatingAdmissionPolicy"
    BY <1>1, <2>2, <2>7 DEF Router!AuditOnlyAllowedValidatingAdmissionPolicyHandler,
       Router!ExtractAuditOnlyAllowedValidatingAdmissionPoliciesFromMessage
  <2>8. CASE k = "other"
    BY <1>1, <2>2, <2>8
  <2>9. QED
    BY <2>1, <2>3, <2>4, <2>5, <2>6, <2>7, <2>8 DEF Router!AuditKinds, Router!BlockingKinds
<1>4. QED
  BY <1>2, <1>3 DEF EventInv

\* A log source names the event, or passes the entry over.
LEMMA LogEntryKept ==
  ASSUME EventInv, Router!RoutedByKind, Router!processLogEvent
  PROVE  EventInv' /\ Router!RoutedByKind'
<1>1. UNCHANGED <<message, console>> /\ outcome = Router!Undone /\ event = Router!NoEvent
  BY DEF Router!processLogEvent
<1>2. CASE Misled(message)
  BY <1>1, <1>2 DEF EventInv, Router!RoutedByKind, Misled, Denial, Warning
<1>3. CASE ~Misled(message) /\ Denial(message)
  <2>1. PICK k \in Router!BlockingKinds \cup {"other"}, f \in {"failed", "error"}, id \in BOOLEAN,
             t \in SUBSET Router!TextWords : message = Router!Blocked(k, f, id, t)
    BY <1>3 DEF Denial
  <2>2. message.kind = k /\ message.blocked
    BY <2>1, WordsOfDenial
  <2>3. PICK created : created = Router!CreateBlockedPolicyViolationEvent(message)
    OBVIOUS
  <2>4. CASE k = "other"
    <3>1. created = Router!NoEvent
      BY <1>3, <2>1, <2>3, <2>4, OtherNotRouted
    <3>2. outcome' = Router!Skipped /\ event' = Router!NoEvent
      BY <1>1, <2>2, <2>3, <3>1 DEF Router!processLogEvent, Router!NoEvent
    <3>3. QED
      BY <1>1, <1>3, <2>2, <2>4, <3>2 DEF EventInv, Router!RoutedByKind, Router!Skipped, Router!HandlerOf,
         Denial
  <2>5. CASE k # "other"
    <3>1. RightEvent(message, created)
      BY <1>3, <2>1, <2>3, <2>5, ClusterPolicyRouted, ValidatingPolicyRouted, NamespacedPolicyRouted,
         ImagePolicyRouted, AdmissionPolicyRouted DEF Router!BlockingKinds
    <3>2. created # Router!NoEvent
      BY <2>1, <2>2, <2>5, <3>1 DEF RightEvent, Router!NoEvent, Router!HandlerOf, Router!BlockingKinds
    <3>3. created.prefix = "vap-violation" =>
            Router!ExtractValidatingAdmissionPoliciesFromMessage(message) = {"violated"}
      <4>1. created.prefix = "vap-violation" => k = "ValidatingAdmissionPolicy"
        BY <2>1, <2>2, <2>5, <3>1 DEF RightEvent, Router!HandlerOf, Router!BlockingKinds
      <4>2. QED
        BY <1>3, <2>1, <4>1, AdmissionPolicyRouted
    <3>4. event' = created /\ outcome' = outcome
      BY <2>2, <2>3, <3>2, <3>3 DEF Router!processLogEvent
    <3>5. QED
      BY <1>1, <1>3, <3>1, <3>4 DEF EventInv, Router!RoutedByKind, Denial, RightEvent, Router!HandlerOf
  <2>6. QED
    BY <2>4, <2>5
<1>4. CASE ~Misled(message) /\ Warning(message)
  <2>1. PICK k \in Router!AuditKinds \cup {"other"}, n \in 1..2 : message = Router!Passed(k, n)
    BY <1>4 DEF Warning
  <2>2. message.kind = k /\ ~message.blocked /\ k = "ValidatingAdmissionPolicy"
    BY <2>1 DEF Router!Passed, Router!processLogEvent
  <2>3. Router!CreateBlockedPolicyViolationEvent(message) = Router!NoEvent
    BY <2>2 DEF Router!CreateBlockedPolicyViolationEvent,
      Router!IsKyvernoPolicyViolation, Router!IsValidatingPolicyViolation,
      Router!IsNamespacedValidatingPolicyViolation, Router!IsImageValidatingPolicyViolation,
      Router!IsValidatingAdmissionPolicyViolation
  <2>4. /\ outcome' = outcome
        /\ event' = Router!CreateValidatingAdmissionPolicyViolationAuditOnlyAllowEvent(message)
    BY <2>2, <2>3 DEF Router!processLogEvent, Router!NoEvent
  <2>5. RightEvent(message, event)'
    BY <1>1, <2>2, <2>4 DEF RightEvent, Router!HandlerOf,
      Router!CreateValidatingAdmissionPolicyViolationAuditOnlyAllowEvent
  <2>6. QED
    BY <1>1, <1>4, <2>4, <2>5 DEF EventInv, Router!RoutedByKind, Warning
<1>5. QED
  BY <1>2, <1>3, <1>4 DEF EventInv

\* The source of Kubernetes events names the event, or passes it over.
LEMMA KubernetesEventKept ==
  ASSUME EventInv, Router!RoutedByKind, Router!processKyvernoKubernetesEvents
  PROVE  EventInv' /\ Router!RoutedByKind'
<1>1. /\ UNCHANGED <<message, console>> /\ outcome = Router!Undone /\ event = Router!NoEvent
      /\ ~message.blocked /\ message.kind # "ValidatingAdmissionPolicy"
  BY DEF Router!processKyvernoKubernetesEvents
<1>2. Warning(message)
  BY <1>1, WordsOfDenial DEF EventInv, Denial
<1>3. PICK k \in Router!AuditKinds \cup {"other"}, n \in 1..2 : message = Router!Passed(k, n)
  BY <1>2 DEF Warning
<1>4. message.kind = k
  BY <1>3 DEF Router!Passed
<1>5. Warning(message)'
  BY <1>1, <1>2 DEF Warning
<1>6. CASE k = "other"
  <2>1. outcome' = Router!Skipped /\ event' = Router!NoEvent
    BY <1>1, <1>4, <1>6 DEF Router!processKyvernoKubernetesEvents, Router!auditOnlyPrefix
  <2>2. QED
    BY <1>1, <1>4, <1>5, <1>6, <2>1 DEF EventInv, Router!RoutedByKind, Router!Skipped, Router!HandlerOf
<1>7. CASE k # "other"
  <2>1. k \in {"ClusterPolicy", "ValidatingPolicy", "NamespacedValidatingPolicy", "ImageValidatingPolicy"}
    BY <1>1, <1>3, <1>4, <1>7 DEF Router!AuditKinds, Router!BlockingKinds
  <2>2. Router!auditOnlyPrefix(message) = Router!HandlerOf(message)
    BY <1>1, <1>4, <2>1 DEF Router!auditOnlyPrefix, Router!HandlerOf
  <2>3. outcome' = outcome /\ event' = [prefix |-> Router!HandlerOf(message), object |-> "objectRef"]
    BY <1>1, <1>4, <2>1, <2>2 DEF Router!processKyvernoKubernetesEvents, Router!HandlerOf
  <2>4. RightEvent(message, event)'
    BY <1>1, <1>4, <1>7, <2>3 DEF RightEvent, Router!HandlerOf
  <2>5. QED
    BY <1>1, <1>5, <2>3, <2>4 DEF EventInv, Router!RoutedByKind
<1>8. QED
  BY <1>6, <1>7

\* The handler of the event posts.
LEMMA ProcessKept ==
  ASSUME EventInv, Router!RoutedByKind, Router!ProcessEvent
  PROVE  EventInv' /\ Router!RoutedByKind'
<1>1. UNCHANGED <<message, console, event>> /\ event # Router!NoEvent
  BY DEF Router!ProcessEvent
<1>2. EventInv'
  BY <1>1 DEF EventInv, Denial, Warning, Misled, RightEvent, Router!HandlerOf
<1>3. CASE console \/ Misled(message)
  BY <1>1, <1>2, <1>3 DEF Router!RoutedByKind, Misled
<1>4. CASE ~console /\ ~Misled(message)
  <2>1. PICK posted : posted = Router!registerDefaultHandlers(event.prefix)
    OBVIOUS
  <2>2. outcome' = posted
    BY <1>4, <2>1 DEF Router!ProcessEvent
  <2>3. /\ posted.handler = Router!HandlerOf(message) /\ posted.object = event.object
        /\ RightPolicies(message, posted.policies)
    BY <1>1, <1>4, <2>1, HandlersPost
  <2>4. RightEvent(message, event)
    BY <1>1, <1>4 DEF EventInv
  <2>5. Router!HandlerOf(message)' = Router!HandlerOf(message)
    BY <1>1 DEF Router!HandlerOf
  <2>6. QED
    BY <1>1, <1>2, <2>2, <2>3, <2>4, <2>5 DEF Router!RoutedByKind, RightEvent, RightPolicies
<1>5. QED
  BY <1>2, <1>3, <1>4

\* For texts of any words that the watcher looks for: a violation is posted by the handler of
\* its kind, with the policy that failed and about the object of the request, and another
\* refusal of the API server is not posted, with the exceptions that the property names.
THEOREM ViolationsRoutedByKind == Router!Spec => []RoutedByKind
<1>1. Router!Init => EventInv /\ Router!RoutedByKind
  <2>1. Router!Texts \subseteq SUBSET Router!TextWords
    BY DEF Router!Texts
  <2>2. QED
    BY <2>1 DEF Router!Init, EventInv, Denial, Warning, Router!RoutedByKind
<1>2. EventInv /\ Router!RoutedByKind /\ [Router!Next]_Router!routerVars => EventInv' /\ Router!RoutedByKind'
  <2>1. ASSUME EventInv, Router!RoutedByKind, UNCHANGED Router!routerVars
        PROVE  EventInv' /\ Router!RoutedByKind'
    BY <2>1 DEF Router!routerVars, EventInv, Denial, Warning, Misled, RightEvent, Router!HandlerOf,
       Router!RoutedByKind
  <2>2. QED
    BY <2>1, LogEntryKept, KubernetesEventKept, ProcessKept DEF Router!Next,
       Router!processNewAuditLogEntries
<1>3. Router!RoutedByKind => RoutedByKind
  BY DEF RoutedByKind
<1>4. QED
  BY <1>1, <1>2, <1>3, PTL DEF Router!Spec
-----------------------------------------------------------------------------
(* Sums over finite sets                                                   *)

\* A set of natural numbers has a smallest one.
LEMMA SmallestExists ==
  ASSUME NEW T, T \subseteq Nat, T # {}
  PROVE  \E m \in T : \A y \in T : m <= y
<1>1. PICK R : IsWellFoundedOn(R, Nat) /\ \A x, y \in Nat : <<x, y>> \in R <=> x < y
  <2>1. \A x, y \in Nat : <<x, y>> \in OpToRel(<, Nat) <=> x < y
    BY DEF OpToRel
  <2>2. QED
    BY <2>1, NatLessThanWellFounded, Zenon
<1>2. IsWellFoundedOn(R, Nat) /\ T \subseteq Nat /\ T # {}
  BY <1>1
<1>3. PICK m \in T : \A y \in T : ~ (<<y, m>> \in R)
  BY <1>2, WFMin, Zenon
<1>4. \A y \in T : y \in Nat /\ m \in Nat /\ ~(y < m)
  BY <1>1, <1>2, <1>3
<1>5. QED
  BY <1>4

\* Induction over the natural numbers, for a set of them.
LEMMA SetInduction ==
  ASSUME NEW P \in SUBSET Nat, 0 \in P, \A n \in P : n + 1 \in P
  PROVE  \A n \in Nat : n \in P
<1> SUFFICES ASSUME \E n \in Nat : n \notin P PROVE FALSE
  OBVIOUS
<1> DEFINE T == Nat \ P
<1>1. T \subseteq Nat /\ T # {}
  OBVIOUS
<1> HIDE DEF T
<1>2. PICK m \in T : \A y \in T : m <= y
  BY <1>1, SmallestExists
<1>3. m \in Nat /\ m \notin P
  BY <1>2 DEF T
<1>4. m # 0 /\ m - 1 \in Nat /\ ~(m <= m - 1)
  BY <1>3
<1>5. m - 1 \in P
  BY <1>2, <1>4 DEF T
<1>6. QED
  BY <1>3, <1>4, <1>5

\* How the library's fold adds: it takes out one element after the other.  g is a table of
\* the sums over the sets in D.
Some(s) == CHOOSE x \in s : TRUE
Adds(g, f, D) == g = [s \in D |-> IF s = {} THEN 0 ELSE f[Some(s)] + g[s \ {Some(s)}]]

\* The library's sum is looked up in such a table for the subsets.
LEMMA SumIsChoice ==
  ASSUME NEW f, NEW S
  PROVE  SumFunctionOnSet(f, S) = (CHOOSE g : Adds(g, f, SUBSET S))[S]
  BY DEF SumFunctionOnSet, FoldFunctionOnSet, MapThenFoldSet, Adds, Some

\* Some element of a set is in it.
LEMMA SomeIsIn ==
  ASSUME NEW s, s # {}
  PROVE  Some(s) \in s
  BY DEF Some

\* The subsets of a finite set up to a size.
UpTo(S, n) == {s \in SUBSET S : Cardinality(s) <= n}

\* A set without some element is smaller.
LEMMA SmallerSet ==
  ASSUME NEW S, IsFiniteSet(S), NEW n \in Nat, NEW s \in UpTo(S, n + 1), s # {}
  PROVE  s \ {Some(s)} \in UpTo(S, n)
<1>1. IsFiniteSet(s) /\ Cardinality(s) \in Nat
  BY FS_Subset, FS_CardinalityType DEF UpTo
<1>2. Cardinality(s \ {Some(s)}) = Cardinality(s) - 1
  BY <1>1, SomeIsIn, FS_RemoveElement
<1>3. QED
  BY <1>1, <1>2 DEF UpTo

\* A finite set has such a table.
LEMMA AddsExists ==
  ASSUME NEW f, NEW S, IsFiniteSet(S)
  PROVE  \E g : Adds(g, f, SUBSET S)
<1> DEFINE P == {n \in Nat : \E g : Adds(g, f, UpTo(S, n))}
<1>1. UpTo(S, 0) = {{}}
  <2>1. ASSUME NEW s \in UpTo(S, 0) PROVE s = {}
    <3>1. IsFiniteSet(s) /\ Cardinality(s) \in Nat /\ Cardinality(s) <= 0
      BY FS_Subset, FS_CardinalityType DEF UpTo
    <3>2. QED
      BY <3>1, FS_EmptySet
  <2>2. {} \in UpTo(S, 0)
    BY FS_EmptySet DEF UpTo
  <2>3. QED
    BY <2>1, <2>2
<1>2. 0 \in P
  <2> DEFINE g == [s \in {{}} |-> 0]
  <2>1. g = [s \in {{}} |-> IF s = {} THEN 0 ELSE f[Some(s)] + g[s \ {Some(s)}]]
    OBVIOUS
  <2>2. Adds(g, f, UpTo(S, 0))
    BY <1>1, <2>1 DEF Adds
  <2>3. QED
    BY <2>2
<1>3. ASSUME NEW n \in P PROVE n + 1 \in P
  <2>1. PICK g : Adds(g, f, UpTo(S, n))
    OBVIOUS
  <2> DEFINE h == [s \in UpTo(S, n + 1) |-> IF s = {} THEN 0 ELSE f[Some(s)] + g[s \ {Some(s)}]]
  <2>2. n \in Nat /\ UpTo(S, n) \subseteq UpTo(S, n + 1)
    <3>1. ASSUME NEW s \in UpTo(S, n) PROVE s \in UpTo(S, n + 1)
      <4>1. IsFiniteSet(s) /\ Cardinality(s) \in Nat
        BY FS_Subset, FS_CardinalityType DEF UpTo
      <4>2. QED
        BY <4>1 DEF UpTo
    <3>2. QED
      BY <3>1
  <2>3. ASSUME NEW s \in UpTo(S, n) PROVE h[s] = g[s]
    BY <2>1, <2>2 DEF Adds
  <2>4. ASSUME NEW s \in UpTo(S, n + 1), s # {} PROVE h[s \ {Some(s)}] = g[s \ {Some(s)}]
    BY <2>2, <2>3, <2>4, SmallerSet
  <2>5. \A s \in UpTo(S, n + 1) :
          h[s] = IF s = {} THEN 0 ELSE f[Some(s)] + h[s \ {Some(s)}]
    BY <2>4
  <2>6. h = [s \in UpTo(S, n + 1) |-> h[s]]
    OBVIOUS
  <2> HIDE DEF h
  <2>7. Adds(h, f, UpTo(S, n + 1))
    BY <2>5, <2>6 DEF Adds
  <2>8. QED
    BY <2>2, <2>7
<1> HIDE DEF P
<1>4. Cardinality(S) \in Nat
  BY FS_CardinalityType
<1>5. Cardinality(S) \in P
  <2>1. P \in SUBSET Nat
    BY DEF P
  <2>2. QED
    BY <1>2, <1>3, <1>4, <2>1, SetInduction
<1>6. UpTo(S, Cardinality(S)) = SUBSET S
  BY FS_Subset DEF UpTo
<1>7. QED
  BY <1>5, <1>6 DEF P

\* Tables of functions that agree have the same sum.
LEMMA AddsAgree ==
  ASSUME NEW f, NEW e, NEW S, IsFiniteSet(S), NEW g, NEW h,
         Adds(g, f, SUBSET S), Adds(h, e, SUBSET S), \A x \in S : f[x] = e[x]
  PROVE  g[S] = h[S]
<1> DEFINE P == {n \in Nat : \A s \in SUBSET S : Cardinality(s) = n => g[s] = h[s]}
<1>0. ASSUME NEW s \in SUBSET S
      PROVE  /\ IsFiniteSet(s) /\ Cardinality(s) \in Nat /\ (Cardinality(s) = 0 => s = {})
             /\ s # {} => /\ Some(s) \in S /\ s \ {Some(s)} \in SUBSET S
                          /\ Cardinality(s \ {Some(s)}) = Cardinality(s) - 1
                          /\ g[s] = f[Some(s)] + g[s \ {Some(s)}]
                          /\ h[s] = f[Some(s)] + h[s \ {Some(s)}]
             /\ s = {} => g[s] = 0 /\ h[s] = 0
  <2>1. IsFiniteSet(s) /\ Cardinality(s) \in Nat /\ (Cardinality(s) = 0 => s = {})
    BY FS_Subset, FS_CardinalityType, FS_EmptySet
  <2>2. s # {} => Some(s) \in s
    BY SomeIsIn
  <2>3. s # {} => Cardinality(s \ {Some(s)}) = Cardinality(s) - 1
    BY <2>1, <2>2, FS_RemoveElement
  <2>4. g[s] = IF s = {} THEN 0 ELSE f[Some(s)] + g[s \ {Some(s)}]
    BY DEF Adds
  <2>5. h[s] = IF s = {} THEN 0 ELSE e[Some(s)] + h[s \ {Some(s)}]
    BY DEF Adds
  <2>6. QED
    BY <2>1, <2>2, <2>3, <2>4, <2>5
<1>1. 0 \in P
  BY <1>0
<1>2. ASSUME NEW n \in P PROVE n + 1 \in P
  <2> SUFFICES ASSUME NEW s \in SUBSET S, Cardinality(s) = n + 1 PROVE g[s] = h[s]
    OBVIOUS
  <2>1. n \in Nat /\ n + 1 # 0 /\ s # {}
    <3>1. n \in Nat
      OBVIOUS
    <3>2. n + 1 # 0 /\ Cardinality({}) = 0
      BY <3>1, FS_EmptySet
    <3>3. QED
      BY <3>1, <3>2
  <2>2. Cardinality(s \ {Some(s)}) = n
    BY <1>0, <2>1
  <2>3. g[s \ {Some(s)}] = h[s \ {Some(s)}]
    BY <1>0, <2>1, <2>2
  <2>4. /\ g[s] = f[Some(s)] + g[s \ {Some(s)}]
        /\ h[s] = f[Some(s)] + h[s \ {Some(s)}]
    BY <1>0, <2>1
  <2>5. QED
    BY <2>3, <2>4
<1>3. Cardinality(S) \in Nat
  BY FS_CardinalityType
<1>4. P \in SUBSET Nat
  OBVIOUS
<1> HIDE DEF P
<1>5. Cardinality(S) \in P
  BY <1>1, <1>2, <1>3, <1>4, SetInduction
<1>6. QED
  BY <1>5 DEF P

\* A sum is what the table has.
LEMMA SumIsAdded ==
  ASSUME NEW f, NEW S, IsFiniteSet(S)
  PROVE  \E g : Adds(g, f, SUBSET S) /\ SumFunctionOnSet(f, S) = g[S]
<1> DEFINE g == CHOOSE g : Adds(g, f, SUBSET S)
<1>1. Adds(g, f, SUBSET S)
  BY AddsExists, Zenon
<1>2. QED
  BY <1>1, SumIsChoice, Zenon

\* The sum over no index is 0.
LEMMA SumOfNone ==
  ASSUME NEW f
  PROVE  SumFunctionOnSet(f, {}) = 0
<1>1. PICK g : Adds(g, f, SUBSET {}) /\ SumFunctionOnSet(f, {}) = g[{}]
  BY FS_EmptySet, SumIsAdded
<1>2. g[{}] = 0
  BY <1>1 DEF Adds
<1>3. QED
  BY <1>1, <1>2

\* A sum is some term and the sum of the others.
LEMMA SumUnfolds ==
  ASSUME NEW f, NEW S, IsFiniteSet(S), S # {}
  PROVE  SumFunctionOnSet(f, S) = f[Some(S)] + SumFunctionOnSet(f, S \ {Some(S)})
<1> DEFINE R == S \ {Some(S)}
<1>1. IsFiniteSet(R) /\ R \subseteq S
  BY FS_RemoveElement
<1>2. PICK g : Adds(g, f, SUBSET S) /\ SumFunctionOnSet(f, S) = g[S]
  BY SumIsAdded
<1>3. PICK h : Adds(h, f, SUBSET R) /\ SumFunctionOnSet(f, R) = h[R]
  BY <1>1, SumIsAdded
<1> HIDE DEF R
<1>4. h[R] = g[R]
  <2> DEFINE k == [s \in SUBSET R |-> g[s]]
  <2>1. \A s \in SUBSET R : k[s] = IF s = {} THEN 0 ELSE f[Some(s)] + k[s \ {Some(s)}]
    <3> SUFFICES ASSUME NEW s \in SUBSET R
                 PROVE  k[s] = IF s = {} THEN 0 ELSE f[Some(s)] + k[s \ {Some(s)}]
      OBVIOUS
    <3>1. s \in SUBSET S /\ s \ {Some(s)} \in SUBSET R
      BY <1>1
    <3>2. g[s] = IF s = {} THEN 0 ELSE f[Some(s)] + g[s \ {Some(s)}]
      BY <1>2, <3>1 DEF Adds
    <3>3. QED
      BY <3>1, <3>2
  <2>2. k[R] = g[R] /\ k = [s \in SUBSET R |-> k[s]]
    OBVIOUS
  <2> HIDE DEF k
  <2>3. Adds(k, f, SUBSET R)
    BY <2>1, <2>2 DEF Adds
  <2>4. h[R] = k[R]
    BY <1>1, <1>3, <2>3, AddsAgree
  <2>5. QED
    BY <2>2, <2>4
<1>5. g[S] = f[Some(S)] + g[R]
  <2>1. g[S] = IF S = {} THEN 0 ELSE f[Some(S)] + g[S \ {Some(S)}]
    BY <1>2 DEF Adds
  <2>2. QED
    BY <2>1 DEF R
<1>6. QED
  BY <1>2, <1>3, <1>4, <1>5 DEF R

\* A sum depends on the values at its indices only.
LEMMA SumAgrees ==
  ASSUME NEW f, NEW e, NEW S, IsFiniteSet(S), \A x \in S : f[x] = e[x]
  PROVE  SumFunctionOnSet(f, S) = SumFunctionOnSet(e, S)
<1>1. PICK g : Adds(g, f, SUBSET S) /\ SumFunctionOnSet(f, S) = g[S]
  BY SumIsAdded
<1>2. PICK h : Adds(h, e, SUBSET S) /\ SumFunctionOnSet(e, S) = h[S]
  BY SumIsAdded
<1>3. g[S] = h[S]
  BY <1>1, <1>2, AddsAgree
<1>4. QED
  BY <1>1, <1>2, <1>3

\* A sum of integers is one.
LEMMA SumIsInt ==
  ASSUME NEW f, NEW S, IsFiniteSet(S), \A x \in S : f[x] \in Int
  PROVE  SumFunctionOnSet(f, S) \in Int
<1> DEFINE P == {n \in Nat : \A s \in SUBSET S :
                  Cardinality(s) = n => SumFunctionOnSet(f, s) \in Int}
<1>0. \A s \in SUBSET S : IsFiniteSet(s) /\ Cardinality(s) \in Nat
  BY FS_Subset, FS_CardinalityType
<1>1. 0 \in P
  <2>1. \A s \in SUBSET S : Cardinality(s) = 0 => s = {}
    BY <1>0, FS_EmptySet
  <2>2. QED
    BY <2>1, SumOfNone
<1>2. ASSUME NEW n \in P PROVE n + 1 \in P
  <2> SUFFICES ASSUME NEW s \in SUBSET S, Cardinality(s) = n + 1
               PROVE  SumFunctionOnSet(f, s) \in Int
    OBVIOUS
  <2>1. n \in Nat /\ IsFiniteSet(s) /\ s # {}
    <3>1. n \in Nat /\ n + 1 # 0 /\ Cardinality({}) = 0
      BY FS_EmptySet
    <3>2. QED
      BY <1>0, <3>1
  <2>2. Some(s) \in s /\ s \ {Some(s)} \in SUBSET S
    BY <2>1, SomeIsIn
  <2>3. Cardinality(s \ {Some(s)}) = n
    <3>1. Cardinality(s \ {Some(s)}) = Cardinality(s) - 1
      BY <2>1, <2>2, FS_RemoveElement
    <3>2. QED
      BY <2>1, <3>1
  <2>4. SumFunctionOnSet(f, s \ {Some(s)}) \in Int
    BY <2>2, <2>3
  <2>5. SumFunctionOnSet(f, s) = f[Some(s)] + SumFunctionOnSet(f, s \ {Some(s)})
    BY <2>1, SumUnfolds
  <2>6. QED
    BY <2>2, <2>4, <2>5
<1>3. Cardinality(S) \in Nat
  BY FS_CardinalityType
<1>4. P \in SUBSET Nat
  OBVIOUS
<1> HIDE DEF P
<1>5. Cardinality(S) \in P
  BY <1>1, <1>2, <1>3, <1>4, SetInduction
<1>6. QED
  BY <1>5 DEF P

\* Any term may be taken out of a sum first.
LEMMA SumTakesOut ==
  ASSUME NEW f, NEW S, IsFiniteSet(S), \A x \in S : f[x] \in Int
  PROVE  \A x \in S : SumFunctionOnSet(f, S) = f[x] + SumFunctionOnSet(f, S \ {x})
<1> DEFINE Good(s) == \A x \in s : SumFunctionOnSet(f, s) = f[x] + SumFunctionOnSet(f, s \ {x})
           P == {n \in Nat : \A s \in SUBSET S : Cardinality(s) = n => Good(s)}
<1>0. \A s \in SUBSET S :
        IsFiniteSet(s) /\ Cardinality(s) \in Nat /\ SumFunctionOnSet(f, s) \in Int
  <2>1. \A s \in SUBSET S : IsFiniteSet(s) /\ Cardinality(s) \in Nat
    BY FS_Subset, FS_CardinalityType
  <2>2. ASSUME NEW s \in SUBSET S PROVE SumFunctionOnSet(f, s) \in Int
    BY <2>1, SumIsInt
  <2>3. QED
    BY <2>1, <2>2
<1>1. 0 \in P
  <2>1. \A s \in SUBSET S : Cardinality(s) = 0 => s = {}
    BY <1>0, FS_EmptySet
  <2>2. QED
    BY <2>1
<1>2. ASSUME NEW n \in P PROVE n + 1 \in P
  <2> SUFFICES ASSUME NEW s \in SUBSET S, Cardinality(s) = n + 1, NEW x \in s
               PROVE  SumFunctionOnSet(f, s) = f[x] + SumFunctionOnSet(f, s \ {x})
    OBVIOUS
  <2> DEFINE c == Some(s)
             r == s \ {c}
  <2>1. n \in Nat /\ IsFiniteSet(s) /\ s # {}
    <3>1. n \in Nat /\ n + 1 # 0 /\ Cardinality({}) = 0
      BY FS_EmptySet
    <3>2. QED
      BY <1>0, <3>1
  <2>2. c \in s /\ SumFunctionOnSet(f, s) = f[c] + SumFunctionOnSet(f, r) /\ f[c] \in Int
    BY <2>1, SomeIsIn, SumUnfolds
  <2>3. ASSUME NEW y \in s PROVE s \ {y} \in SUBSET S /\ Cardinality(s \ {y}) = n
    <3>1. Cardinality(s \ {y}) = Cardinality(s) - 1
      BY <2>1, FS_RemoveElement
    <3>2. QED
      BY <2>1, <3>1
  <2>5. CASE x = c
    BY <2>2, <2>5
  <2>6. CASE x # c
    <3> DEFINE b == r \ {x}
    <3>1. x \in r /\ c \in s \ {x} /\ (s \ {x}) \ {c} = b /\ b \in SUBSET S
      BY <2>2, <2>6
    <3>2. SumFunctionOnSet(f, r) = f[x] + SumFunctionOnSet(f, b)
      BY <2>2, <2>3, <3>1
    <3>3. SumFunctionOnSet(f, s \ {x}) = f[c] + SumFunctionOnSet(f, (s \ {x}) \ {c})
      BY <2>3, <3>1
    <3>4. SumFunctionOnSet(f, b) \in Int /\ f[x] \in Int
      BY <1>0, <3>1
    <3>5. SumFunctionOnSet(f, s \ {x}) = f[c] + SumFunctionOnSet(f, b)
      BY <3>1, <3>3
    <3>6. PICK m \in Int, u \in Int, v \in Int :
            m = SumFunctionOnSet(f, b) /\ u = f[x] /\ v = f[c]
      BY <2>2, <3>4
    <3> HIDE DEF b, c, r
    <3>7. SumFunctionOnSet(f, s) = v + (u + m) /\ SumFunctionOnSet(f, s \ {x}) = v + m
      BY <2>2, <3>2, <3>5, <3>6, Zenon
    <3>8. v + (u + m) = u + (v + m)
      OBVIOUS
    <3>9. QED
      BY <3>6, <3>7, <3>8, Zenon
  <2>7. QED
    BY <2>5, <2>6
<1>3. Cardinality(S) \in Nat
  BY FS_CardinalityType
<1>4. P \in SUBSET Nat
  OBVIOUS
<1> HIDE DEF P
<1>5. Cardinality(S) \in P
  BY <1>1, <1>2, <1>3, <1>4, SetInduction
<1>6. QED
  BY <1>5 DEF P

\* Induction over the subsets of a finite set.
LEMMA SubsetInduction ==
  ASSUME NEW S, IsFiniteSet(S), NEW Q \in SUBSET (SUBSET S), {} \in Q,
         \A s \in Q : \A x \in S \ s : s \cup {x} \in Q
  PROVE  S \in Q
<1> DEFINE P == {n \in Nat : \A s \in SUBSET S : Cardinality(s) = n => s \in Q}
<1>0. \A s \in SUBSET S : IsFiniteSet(s) /\ Cardinality(s) \in Nat
  BY FS_Subset, FS_CardinalityType
<1>1. 0 \in P
  BY <1>0, FS_EmptySet
<1>2. ASSUME NEW n \in P PROVE n + 1 \in P
  <2> SUFFICES ASSUME NEW s \in SUBSET S, Cardinality(s) = n + 1 PROVE s \in Q
    OBVIOUS
  <2>1. n \in Nat /\ IsFiniteSet(s) /\ s # {}
    <3>1. n \in Nat /\ n + 1 # 0 /\ Cardinality({}) = 0
      BY FS_EmptySet
    <3>2. QED
      BY <1>0, <3>1
  <2>2. PICK x \in s : TRUE
    BY <2>1
  <2>3. Cardinality(s \ {x}) = Cardinality(s) - 1
    BY <2>1, FS_RemoveElement
  <2>4. s \ {x} \in SUBSET S /\ Cardinality(s \ {x}) = n
    BY <2>1, <2>3
  <2>5. s \ {x} \in Q
    BY <2>4
  <2>6. x \in S \ (s \ {x}) /\ (s \ {x}) \cup {x} = s
    OBVIOUS
  <2>7. QED
    BY <2>5, <2>6
<1>3. Cardinality(S) \in Nat
  BY FS_CardinalityType
<1>4. P \in SUBSET Nat
  OBVIOUS
<1> HIDE DEF P
<1>5. Cardinality(S) \in P
  BY <1>1, <1>2, <1>3, <1>4, SetInduction
<1>6. QED
  BY <1>5 DEF P

\* A further index adds its value.
LEMMA SumWithOneMore ==
  ASSUME NEW f, NEW S, IsFiniteSet(S), NEW x, x \notin S, f[x] \in Int, \A y \in S : f[y] \in Int
  PROVE  SumFunctionOnSet(f, S \cup {x}) = f[x] + SumFunctionOnSet(f, S)
<1>1. IsFiniteSet(S \cup {x}) /\ (S \cup {x}) \ {x} = S /\ x \in S \cup {x}
  BY FS_AddElement
<1>2. \A y \in S \cup {x} : f[y] \in Int
  OBVIOUS
<1>3. SumFunctionOnSet(f, S \cup {x}) = f[x] + SumFunctionOnSet(f, (S \cup {x}) \ {x})
  BY <1>1, <1>2, SumTakesOut
<1>4. QED
  BY <1>1, <1>3

\* Indices with the value 0 add nothing.
LEMMA SumIgnoresZeros ==
  ASSUME NEW f, NEW S, NEW Z, IsFiniteSet(S), IsFiniteSet(Z),
         \A x \in S : f[x] \in Int, \A x \in Z \ S : f[x] = 0
  PROVE  SumFunctionOnSet(f, S \cup Z) = SumFunctionOnSet(f, S)
<1> DEFINE Q == {z \in SUBSET Z : SumFunctionOnSet(f, S \cup z) = SumFunctionOnSet(f, S)}
<1>1. {} \in Q
  BY Zenon
<1>2. ASSUME NEW z \in Q, NEW x \in Z \ z PROVE z \cup {x} \in Q
  <2>1. CASE x \in S
    <3>1. S \cup (z \cup {x}) = S \cup z
      BY <2>1
    <3>2. QED
      BY <3>1
  <2>2. CASE x \notin S
    <3>1. IsFiniteSet(S \cup z) /\ S \cup (z \cup {x}) = (S \cup z) \cup {x} /\ x \notin S \cup z
      <4>1. IsFiniteSet(z)
        BY FS_Subset
      <4>2. QED
        BY <2>2, <4>1, FS_Union
    <3>2. f[x] = 0 /\ \A y \in S \cup z : f[y] \in Int
      <4>1. \A y \in z : y \in S \/ f[y] = 0
        OBVIOUS
      <4>2. QED
        BY <2>2, <4>1
    <3>3. SumFunctionOnSet(f, S \cup (z \cup {x})) = 0 + SumFunctionOnSet(f, S \cup z)
      BY <3>1, <3>2, SumWithOneMore
    <3>4. SumFunctionOnSet(f, S) \in Int
      BY SumIsInt
    <3>5. QED
      BY <3>3, <3>4
  <2>3. QED
    BY <2>1, <2>2
<1> HIDE DEF Q
<1>3. Q \in SUBSET (SUBSET Z)
  BY DEF Q
<1>4. Z \in Q
  BY <1>1, <1>2, <1>3, SubsetInduction
<1>5. QED
  BY <1>4 DEF Q

\* Equal values add up to a multiple.
LEMMA SumOfEqual ==
  ASSUME NEW f, NEW S, IsFiniteSet(S), NEW c \in Int, \A x \in S : f[x] = c
  PROVE  SumFunctionOnSet(f, S) = Cardinality(S) * c
<1> DEFINE Q == {s \in SUBSET S : SumFunctionOnSet(f, s) = Cardinality(s) * c}
<1>1. {} \in Q
  <2>1. 0 * c = 0
    OBVIOUS
  <2>2. QED
    BY <2>1, SumOfNone, FS_EmptySet
<1>2. ASSUME NEW s \in Q, NEW x \in S \ s PROVE s \cup {x} \in Q
  <2>1. IsFiniteSet(s) /\ Cardinality(s) \in Nat
    BY FS_Subset, FS_CardinalityType
  <2>2. Cardinality(s \cup {x}) = Cardinality(s) + 1
    BY <2>1, FS_AddElement
  <2>3. SumFunctionOnSet(f, s \cup {x}) = f[x] + SumFunctionOnSet(f, s)
    BY <2>1, SumWithOneMore
  <2>4. f[x] = c /\ SumFunctionOnSet(f, s) = Cardinality(s) * c
    OBVIOUS
  <2>5. \A n \in Nat : c + n * c = (n + 1) * c
    OBVIOUS
  <2>6. SumFunctionOnSet(f, s \cup {x}) = Cardinality(s \cup {x}) * c
    BY <2>1, <2>2, <2>3, <2>4, <2>5
  <2>7. QED
    BY <2>6
<1> HIDE DEF Q
<1>3. Q \in SUBSET (SUBSET S)
  BY DEF Q
<1>4. S \in Q
  BY <1>1, <1>2, <1>3, SubsetInduction
<1>5. QED
  BY <1>4 DEF Q

\* A sum may be taken over the indices of its indices, where these are one to one.
LEMMA SumReindexed ==
  ASSUME NEW f, NEW e, NEW h, NEW A, NEW B, IsFiniteSet(A), B = {h[a] : a \in A},
         \A a, b \in A : h[a] = h[b] => a = b, \A a \in A : e[a] = f[h[a]] /\ e[a] \in Int
  PROVE  IsFiniteSet(B) /\ SumFunctionOnSet(f, B) = SumFunctionOnSet(e, A)
<1> DEFINE im(s) == {h[a] : a \in s}
           Q == {s \in SUBSET A : /\ IsFiniteSet(im(s))
                                  /\ SumFunctionOnSet(f, im(s)) = SumFunctionOnSet(e, s)}
<1>1. {} \in Q
  <2>1. im({}) = {}
    OBVIOUS
  <2>2. QED
    BY <2>1, SumOfNone, FS_EmptySet
<1>2. ASSUME NEW s \in Q, NEW x \in A \ s PROVE s \cup {x} \in Q
  <2>1. im(s \cup {x}) = im(s) \cup {h[x]} /\ h[x] \notin im(s)
    <3>1. im(s \cup {x}) = im(s) \cup {h[x]}
      OBVIOUS
    <3>2. h[x] \notin im(s)
      OBVIOUS
    <3>3. QED
      BY <3>1, <3>2
  <2>2. IsFiniteSet(im(s)) /\ IsFiniteSet(s)
    BY FS_Subset
  <2>3. (\A y \in im(s) : f[y] \in Int) /\ f[h[x]] \in Int
    OBVIOUS
  <2>4. (\A y \in s : e[y] \in Int) /\ e[x] = f[h[x]]
    OBVIOUS
  <2>5. SumFunctionOnSet(e, s \cup {x}) = e[x] + SumFunctionOnSet(e, s)
    BY <2>2, <2>3, <2>4, SumWithOneMore
  <2>6. SumFunctionOnSet(f, im(s)) = SumFunctionOnSet(e, s)
    OBVIOUS
  <2> HIDE DEF im
  <2>7. /\ IsFiniteSet(im(s) \cup {h[x]})
        /\ SumFunctionOnSet(f, im(s) \cup {h[x]}) = f[h[x]] + SumFunctionOnSet(f, im(s))
    BY <2>1, <2>2, <2>3, SumWithOneMore, FS_AddElement
  <2>8. QED
    BY <2>1, <2>4, <2>5, <2>6, <2>7
<1>3. Q \in SUBSET (SUBSET A)
  OBVIOUS
<1> HIDE DEF Q
<1>4. A \in Q
  BY <1>1, <1>2, <1>3, SubsetInduction
<1>5. QED
  BY <1>4 DEF Q

\* A finite set of names has a longest one.
LEMMA LongestExists ==
  ASSUME NEW S, IsFiniteSet(S), S # {}, NEW f, \A x \in S : f[x] \in Nat
  PROVE  \E w \in S : \A v \in S : f[w] >= f[v]
<1> DEFINE Q == {s \in SUBSET S : s = {} \/ \E w \in s : \A v \in s : f[w] >= f[v]}
<1>1. {} \in Q
  OBVIOUS
<1>2. ASSUME NEW s \in Q, NEW x \in S \ s PROVE s \cup {x} \in Q
  <2>1. CASE s = {}
    <3>1. f[x] >= f[x] /\ s \cup {x} = {x} /\ {x} \in SUBSET S
      BY <2>1
    <3>2. \A v \in {x} : f[x] >= f[v]
      BY <3>1
    <3>3. QED
      BY <3>1, <3>2
  <2>2. CASE s # {}
    <3>1. PICK w \in s : \A v \in s : f[w] >= f[v]
      BY <2>2
    <3>2. CASE f[w] >= f[x]
      <4>1. \A v \in s \cup {x} : f[w] >= f[v]
        BY <3>1, <3>2
      <4>2. QED
        BY <4>1
    <3>3. CASE ~(f[w] >= f[x])
      <4>1. \A v \in s \cup {x} : f[x] >= f[v]
        BY <3>1, <3>3
      <4>2. QED
        BY <4>1
    <3>4. QED
      BY <3>2, <3>3
  <2>3. QED
    BY <2>1, <2>2
<1>3. Q \in SUBSET (SUBSET S)
  OBVIOUS
<1> HIDE DEF Q
<1>4. S \in Q
  BY <1>1, <1>2, <1>3, SubsetInduction
<1>5. QED
  BY <1>4 DEF Q

\* The image of a finite set is finite.
LEMMA FiniteImage ==
  ASSUME NEW A, IsFiniteSet(A), NEW k
  PROVE  IsFiniteSet({k[a] : a \in A})
<1> DEFINE B == {k[a] : a \in A}
           m == [a \in A |-> k[a]]
<1>1. m \in Surjection(A, B)
  BY DEF Surjection
<1>2. QED
  BY <1>1, FS_Surjection
-----------------------------------------------------------------------------
(* prometheus                                                              *)

\* The names of the containers of a pod spec.
ContainerNames(c) == c \in Seq(STRING) /\ c # <<>> /\ IsInjective(c)

\* What Kubernetes and Prometheus guarantee: a pod spec has containers and their names differ,
\* so do the names of the claims of a namespace; a pod belongs to one workload and is none; of
\* what is measured each value is a number.
MetricsAssumption ==
  /\ IsFiniteSet(Workloads) /\ NameLength \in [Workloads -> Nat]
  /\ OwnerOf \in [MeasuredPods -> Workloads] /\ MeasuredPods \cap Workloads = {}
  /\ \A spec \in Templates : ContainerNames(spec)
  /\ ClaimsOf \in [MeasuredPods -> Seq(STRING)]
  /\ ContainersOf \in [MeasuredPods -> Seq(STRING)]
  /\ \A k \in 1..Len(Metrics!Queries) :
       /\ DOMAIN Measured[Metrics!Queries[k]] \subseteq MeasuredPods
       /\ \A p \in DOMAIN Measured[Metrics!Queries[k]] : Measured[Metrics!Queries[k]][p] \in Nat
  /\ Claims \in Seq([namespace : STRING, name : STRING, capacity : Nat])
  /\ \A i, j \in 1..Len(Claims) :
       Claims[i].namespace = Claims[j].namespace /\ Claims[i].name = Claims[j].name => i = j

\* The instance's sums are the ones of the library.
LEMMA SumFunctionHere ==
  ASSUME NEW f
  PROVE  Metrics!SumFunction(f) = SumFunctionOnSet(f, DOMAIN f)
  BY DEF Metrics!SumFunction, Metrics!SumFunctionOnSet, Metrics!FoldFunctionOnSet,
         Metrics!MapThenFoldSet, SumFunctionOnSet, FoldFunctionOnSet, MapThenFoldSet

\* Metrics of pods, which are split over containers.
SplitMetrics == Metrics!PodMetrics \cup {"storageCapacity"}

\* What a unit of the split counts in the report.
reportedUnit(metric) == IF metric = "gpu" THEN 100 ELSE 1

\* Quotient and remainder.
LEMMA DivisionAddsUp ==
  ASSUME NEW a \in Int, NEW d \in Int, d > 0
  PROVE  a \div d \in Int /\ a % d \in Int /\ a = d * (a \div d) + (a % d)
<1>1. a \div d \in Int /\ a % d \in Int
  OBVIOUS
<1>2. a = d * (a \div d) + (a % d)
  BY SMTT(30)
<1>3. QED
  BY <1>1, <1>2

\* What whole units and a rest are reported as: fractions of a unit are in the rest only.
LEMMA UnitsReported ==
  ASSUME NEW metric \in SplitMetrics, NEW q \in Int, NEW r \in Int
  PROVE  /\ Metrics!converted(metric, q * Metrics!unit(metric) + r)
              = q * reportedUnit(metric) + Metrics!converted(metric, r)
         /\ Metrics!converted(metric, r) \in Int
         /\ Metrics!unit(metric) \in {1, 10, 100} /\ reportedUnit(metric) \in {1, 100}
<1>1. CASE metric \in {"networkTransmit", "networkReceive"}
  <2>1. (q * 10 + r) \div 10 = q * 1 + (r \div 10) /\ r \div 10 \in Int
    OBVIOUS
  <2>2. Metrics!unit(metric) = 10 /\ reportedUnit(metric) = 1
    BY <1>1 DEF Metrics!unit, reportedUnit
  <2>3. \A x \in Int : Metrics!converted(metric, x) = x \div 10
    BY <1>1 DEF Metrics!converted
  <2>4. QED
    BY <2>1, <2>2, <2>3
<1>2. CASE metric \in {"gpu", "storageCapacity"}
  <2>1. Metrics!unit(metric) = reportedUnit(metric) /\ reportedUnit(metric) \in {1, 100}
    BY <1>2 DEF Metrics!unit, reportedUnit
  <2>2. \A x \in Int : Metrics!converted(metric, x) = x
    BY <1>2 DEF Metrics!converted
  <2>3. q * reportedUnit(metric) + r \in Int
    BY <2>1
  <2>4. QED
    BY <2>1, <2>2, <2>3
<1>3. QED
  BY <1>1, <1>2 DEF SplitMetrics, Metrics!PodMetrics

\* The values that n containers are reported with.
Shares(e, n, metric, v) ==
  \A i \in 1..n :
    e[i] = Metrics!converted(metric, Metrics!split(v, n, Metrics!unit(metric))[i])

\* The parts of a split are reported as numbers that add up to what the whole would be.
LEMMA PartsAddUp ==
  ASSUME NEW metric \in SplitMetrics, NEW v \in Int, NEW n \in Nat \ {0}, NEW e,
         Shares(e, n, metric, v)
  PROVE  /\ \A i \in 1..n : e[i] \in Int
         /\ SumFunctionOnSet(e, 1..n) = Metrics!converted(metric, v)
<1> DEFINE u == Metrics!unit(metric)
           w == reportedUnit(metric)
           q == v \div (n * u)
           r == v % (n * u)
<1>1. u \in Int /\ u > 0 /\ w \in Int /\ Metrics!converted(metric, 0) = 0
  <2>1. u \in {1, 10, 100} /\ w \in {1, 100}
    BY UnitsReported
  <2>2. Metrics!converted(metric, 0) = 0
    BY DEF Metrics!converted, SplitMetrics, Metrics!PodMetrics
  <2>3. QED
    BY <2>1, <2>2
<1> HIDE DEF u, w
<1>2. n * u \in Int /\ n * u > 0
  BY <1>1
<1>3. q \in Int /\ r \in Int /\ v = (n * u) * q + r
  BY <1>2, DivisionAddsUp
<1>4. /\ e[1] = Metrics!converted(metric, q * u + r)
      /\ \A i \in 2..n : e[i] = Metrics!converted(metric, q * u)
  <2>1. \A i \in 1..n : e[i] = Metrics!converted(metric, IF i = 1 THEN q * u + r ELSE q * u)
    BY DEF Shares, Metrics!split, u
  <2>2. 1 \in 1..n /\ \A i \in 2..n : i \in 1..n /\ i # 1
    OBVIOUS
  <2>3. QED
    BY <2>1, <2>2
<1> HIDE DEF q, r
<1>5. e[1] = q * w + Metrics!converted(metric, r) /\ Metrics!converted(metric, r) \in Int
  <2>1. /\ Metrics!converted(metric, q * u + r) = q * w + Metrics!converted(metric, r)
        /\ Metrics!converted(metric, r) \in Int
    BY <1>3, UnitsReported, Zenon DEF u, w
  <2>2. QED
    BY <1>4, <2>1
<1>6. \A i \in 2..n : e[i] = q * w
  <2>1. Metrics!converted(metric, q * u + 0) = q * w + Metrics!converted(metric, 0)
    <3>1. 0 \in Int
      OBVIOUS
    <3>2. QED
      BY <1>3, <3>1, UnitsReported, Zenon DEF u, w
  <2>2. q * u + 0 = q * u /\ q * w + 0 = q * w
    BY <1>1, <1>3
  <2>3. QED
    BY <1>1, <1>4, <2>1, <2>2
<1>7. Metrics!converted(metric, v) = (n * q) * w + Metrics!converted(metric, r)
  <2>1. n * q \in Int /\ v = (n * q) * u + r
    BY <1>1, <1>3
  <2>2. Metrics!converted(metric, (n * q) * u + r)
          = (n * q) * w + Metrics!converted(metric, r)
    BY <1>3, <2>1, UnitsReported, Zenon DEF u, w
  <2>3. QED
    BY <2>1, <2>2
<1>8. q * w \in Int
  BY <1>1, <1>3
<1>9. \A i \in 1..n : e[i] \in Int
  <2>1. \A i \in 1..n : i = 1 \/ i \in 2..n
    OBVIOUS
  <2>2. QED
    BY <1>5, <1>6, <1>8, <2>1
<1>10. SumFunctionOnSet(e, 1..n) = e[1] + SumFunctionOnSet(e, 2..n)
  <2>1. IsFiniteSet(1..n) /\ 1 \in 1..n /\ (1..n) \ {1} = 2..n
    <3>1. 1 \in 1..n /\ (1..n) \ {1} = 2..n
      OBVIOUS
    <3>2. QED
      BY <3>1, FS_Interval
  <2>2. SumFunctionOnSet(e, 1..n) = e[1] + SumFunctionOnSet(e, (1..n) \ {1})
    BY <1>9, <2>1, SumTakesOut
  <2>3. QED
    BY <2>1, <2>2
<1>11. SumFunctionOnSet(e, 2..n) = (n - 1) * (q * w)
  <2>1. IsFiniteSet(2..n) /\ Cardinality(2..n) = n - 1
    BY FS_Interval
  <2>2. SumFunctionOnSet(e, 2..n) = Cardinality(2..n) * (q * w)
    BY <1>6, <1>8, <2>1, SumOfEqual
  <2>3. QED
    BY <2>1, <2>2
<1>12. \A a, b, c \in Int : (a + b) + (n - 1) * a = n * a + b
  OBVIOUS
<1>13. n * (q * w) = (n * q) * w
  BY <1>1, <1>3
<1>14. QED
  BY <1>5, <1>7, <1>8, <1>9, <1>10, <1>11, <1>12, <1>13

\* The i-th record is for the i-th container and has its part of the value.
PartsOf(h, c, metric, v) ==
  \A i \in 1..Len(c) :
    /\ h[i].container = c[i]
    /\ h[i].value =
         Metrics!converted(metric, Metrics!split(v, Len(c), Metrics!unit(metric))[i])

\* Records that add nothing.
ZeroValued(Z) == IsFiniteSet(Z) /\ \A s \in Z : s.value = 0

\* A set of such records.
MadeOf(T, h, c, Z) == \A s : s \in T <=> s \in Z \/ \E i \in 1..Len(c) : s = h[i]

\* The records of a pod's containers, which differ in their container, add up to the whole;
\* further records with the value 0 change nothing.
LEMMA RecordsAddUp ==
  ASSUME NEW metric \in SplitMetrics, NEW v \in Int, NEW c, NEW h, NEW Z, NEW T,
         ContainerNames(c), PartsOf(h, c, metric, v), ZeroValued(Z), MadeOf(T, h, c, Z)
  PROVE  Metrics!total(T) = Metrics!converted(metric, v)
<1> USE DEF ContainerNames, PartsOf, ZeroValued
<1> DEFINE n == Len(c)
           S == {h[i] : i \in 1..n}
           f == [s \in S \cup Z |-> s.value]
           e == [i \in 1..n |-> f[h[i]]]
<1>1. n \in Nat \ {0} /\ DOMAIN c = 1..n
  BY EmptySeq, LenProperties
<1>2. Shares(e, n, metric, v)
  BY DEF Shares
<1>3. \A s \in Z : f[s] = 0
  OBVIOUS
<1>4. Metrics!total(S \cup Z) = SumFunctionOnSet(f, S \cup Z)
  BY SumFunctionHere DEF Metrics!total
<1>5. \A i \in 1..n : e[i] = f[h[i]]
  OBVIOUS
<1>6. \A i, j \in 1..n : h[i] = h[j] => i = j
  BY <1>1 DEF IsInjective
<1> HIDE DEF f, n, e
<1>7. (\A i \in 1..n : e[i] \in Int) /\ SumFunctionOnSet(e, 1..n) = Metrics!converted(metric, v)
  BY <1>1, <1>2, PartsAddUp
<1>8. IsFiniteSet(S) /\ SumFunctionOnSet(f, S) = SumFunctionOnSet(e, 1..n)
  <2>1. IsFiniteSet(1..n)
    BY <1>1, FS_Interval
  <2>2. \A i \in 1..n : f[h[i]] \in Int
    BY <1>5, <1>7
  <2> DEFINE D == 1..n
  <2>3. S = {h[i] : i \in D} /\ IsFiniteSet(D)
    BY <2>1
  <2>4. \A i, j \in D : h[i] = h[j] => i = j
    BY <1>6
  <2>5. \A i \in D : e[i] = f[h[i]] /\ e[i] \in Int
    BY <1>5, <1>7
  <2> HIDE DEF D, S
  <2>6. IsFiniteSet(S) /\ SumFunctionOnSet(f, S) = SumFunctionOnSet(e, D)
    BY <2>3, <2>4, <2>5, SumReindexed
  <2>7. QED
    BY <2>6 DEF D
<1>9. \A s \in S : f[s] \in Int
  BY <1>5, <1>7
<1> HIDE DEF S
<1>10. SumFunctionOnSet(f, S \cup Z) = SumFunctionOnSet(f, S)
  BY <1>3, <1>8, <1>9, SumIgnoresZeros
<1>11. Metrics!total(S \cup Z) = Metrics!converted(metric, v)
  BY <1>4, <1>7, <1>8, <1>10
<1>12. T = S \cup Z
  BY DEF MadeOf, S, n
<1>13. QED
  BY <1>11, <1>12

\* A claim that PVCByName finds has the name; it finds one where there is one.
LEMMA ClaimFound ==
  ASSUME MetricsAssumption, storage = Claims, NEW name
  PROVE  /\ Metrics!PVCByName(name) \in 0..Len(Claims)
         /\ Metrics!PVCByName(name) # 0 => Claims[Metrics!PVCByName(name)].name = name
         /\ \A i \in 1..Len(Claims) : Claims[i].name = name => Metrics!PVCByName(name) # 0
<1> DEFINE named == {i \in 1..Len(Claims) : Claims[i].name = name}
<1>1. Len(Claims) \in Nat
  BY LenProperties DEF MetricsAssumption
<1>2. CASE named = {}
  BY <1>1, <1>2 DEF Metrics!PVCByName
<1>3. CASE named # {}
  <2>1. \E x \in named : \A y \in named : x <= y
    <3>1. named \subseteq Nat /\ named # {}
      BY <1>1, <1>3
    <3> HIDE DEF named
    <3>2. QED
      BY <3>1, SmallestExists
  <2>2. Metrics!Min(named) \in named
    BY <2>1 DEF Metrics!Min
  <2>3. Metrics!PVCByName(name) = Metrics!Min(named)
    BY <1>3 DEF Metrics!PVCByName
  <2>4. PICK m \in named : Metrics!PVCByName(name) = m
    BY <2>2, <2>3
  <2>5. m \in 1..Len(Claims) /\ m # 0 /\ Claims[m].name = name
    BY <1>1
  <2> HIDE DEF named
  <2>6. QED
    BY <1>1, <2>4, <2>5
<1>4. QED
  BY <1>2, <1>3

\* What is added for a pod is what its claims have.
LEMMA CapacityIsOwn ==
  ASSUME MetricsAssumption, storage = Claims, NEW p \in MeasuredPods, Metrics!unambiguous(p)
  PROVE  /\ Metrics!totalCapacity(p) = Metrics!ownCapacity(p)
         /\ Metrics!totalCapacity(p) \in Int
         /\ (\A i \in 1..Len(ClaimsOf[p]) : Metrics!PVCByName(ClaimsOf[p][i]) = 0)
              => Metrics!ownCapacity(p) = 0
<1> DEFINE n == Len(ClaimsOf[p])
           h == [i \in 1..n |-> Metrics!PVCByName(ClaimsOf[p][i])]
           f == [i \in 1..n |-> IF h[i] = 0 THEN 0 ELSE Claims[h[i]].capacity]
           A == {i \in 1..n : h[i] # 0}
           own == Metrics!ownClaims(p)
           g == [k \in own |-> Claims[k].capacity]
<1>1. n \in Nat /\ DOMAIN ClaimsOf[p] = 1..n /\ Len(Claims) \in Nat
  BY LenProperties DEF MetricsAssumption
<1>2. \A i \in 1..n :
        /\ h[i] \in 0..Len(Claims)
        /\ h[i] # 0 => Claims[h[i]].name = ClaimsOf[p][i]
        /\ \A k \in 1..Len(Claims) : Claims[k].name = ClaimsOf[p][i] => h[i] # 0
  BY ClaimFound
<1>3. \A k \in 1..Len(Claims) : Claims[k].capacity \in Nat
  <2>1. \A k \in 1..Len(Claims) :
          Claims[k] \in [namespace : STRING, name : STRING, capacity : Nat]
    BY ElementOfSeq, Zenon DEF MetricsAssumption
  <2>2. QED
    BY <2>1
<1>4. Metrics!totalCapacity(p) = SumFunctionOnSet(f, 1..n)
  <2>1. Metrics!totalCapacity(p) = Metrics!SumFunction(f)
    BY DEF Metrics!totalCapacity
  <2>2. QED
    BY <2>1, SumFunctionHere
<1>5. Metrics!ownCapacity(p) = SumFunctionOnSet(g, own)
  BY SumFunctionHere DEF Metrics!ownCapacity
<1> HIDE DEF h, n
<1>6. \A i \in 1..n : f[i] \in Int /\ (i \notin A => f[i] = 0)
  BY <1>1, <1>2, <1>3
<1>7. ASSUME NEW i \in A, NEW j \in A, h[i] = h[j] PROVE i = j
  <2>1. i \in DOMAIN ClaimsOf[p] /\ j \in DOMAIN ClaimsOf[p]
    BY <1>1
  <2>2. ClaimsOf[p][i] = ClaimsOf[p][j]
    BY <1>2, <1>7
  <2>3. QED
    BY <2>1, <2>2, Zenon DEF Metrics!unambiguous, Metrics!IsInjective
<1>8. own = {h[i] : i \in A}
  <2>1. ASSUME NEW i \in A PROVE h[i] \in own
    BY <1>1, <1>2 DEF Metrics!unambiguous, Metrics!ownClaims
  <2>2. ASSUME NEW k \in own PROVE \E i \in A : h[i] = k
    <3>1. PICK j \in 1..n : ClaimsOf[p][j] = Claims[k].name
      BY DEF Metrics!ownClaims, n
    <3>2. k \in 1..Len(Claims) /\ Claims[k].namespace = Metrics!NamespaceOfPod(p)
      BY DEF Metrics!ownClaims
    <3>3. j \in A /\ h[j] \in 1..Len(Claims) /\ Claims[h[j]].name = Claims[k].name
      BY <1>1, <1>2, <3>1, <3>2
    <3>4. Claims[h[j]].namespace = Metrics!NamespaceOfPod(p)
      BY <3>1, <3>3 DEF Metrics!unambiguous, n
    <3>5. h[j] = k
      BY <3>2, <3>3, <3>4 DEF MetricsAssumption
    <3>6. QED
      BY <3>3, <3>5
  <2>3. QED
    BY <2>1, <2>2
<1>9. \A i \in A : g[h[i]] = f[i]
  BY <1>8
<1>10. IsFiniteSet(1..n) /\ IsFiniteSet(A)
  <2>1. A \subseteq 1..n
    OBVIOUS
  <2> HIDE DEF A
  <2>2. 1 \in Int /\ n \in Int
    BY <1>1
  <2>3. IsFiniteSet(1..n)
    BY <2>2, FS_Interval, Zenon
  <2>4. QED
    BY <2>1, <2>3, FS_Subset
<1>11. A \cup (1..n) = 1..n
  OBVIOUS
<1> HIDE DEF f, g, own, A
<1>12. SumFunctionOnSet(f, A \cup (1..n)) = SumFunctionOnSet(f, A)
  <2>1. (\A i \in A : f[i] \in Int) /\ (\A i \in (1..n) \ A : f[i] = 0)
    BY <1>6, <1>11
  <2>2. QED
    BY <1>10, <2>1, SumIgnoresZeros
<1>13. SumFunctionOnSet(g, own) = SumFunctionOnSet(f, A)
  <2>1. \A i \in A : f[i] = g[h[i]] /\ f[i] \in Int
    BY <1>6, <1>9, <1>11
  <2>2. QED
    BY <1>7, <1>8, <1>10, <2>1, SumReindexed
<1>14. SumFunctionOnSet(f, 1..n) \in Int
  BY <1>6, <1>10, SumIsInt
<1>15. ASSUME \A i \in 1..n : h[i] = 0 PROVE Metrics!ownCapacity(p) = 0
  <2>1. own = {}
    BY <1>8, <1>15 DEF A
  <2>2. QED
    BY <1>5, <2>1, SumOfNone
<1>16. (\A i \in 1..Len(ClaimsOf[p]) : Metrics!PVCByName(ClaimsOf[p][i]) = 0)
         => Metrics!ownCapacity(p) = 0
  BY <1>15 DEF h, n
<1>17. QED
  BY <1>4, <1>5, <1>11, <1>12, <1>13, <1>14, <1>16

\* The request or limit that a container's statistic has.
fieldIn(metric, s) ==
  Metrics!converted(metric, Metrics!fieldOf(Metrics!containerSeries(metric), s.pod, s.container))

\* The samples of containers that ask for a GPU which nobody measured.
zeroGPU ==
  {Metrics!Sample(a.pod, a.container, "gpu", 0) :
     a \in {s \in Metrics!containerSeries("gpuRequest") \cup Metrics!containerSeries("gpuLimit") :
              /\ s.value > 0
              /\ \A g \in Metrics!podSeries("gpu") :
                   <<g.pod, g.container>> # <<s.pod, s.container>>}}

\* All samples that statistics are made of.
samples ==
  Metrics!containerSeries("memory") \cup Metrics!containerSeries("cpu")
  \cup Metrics!podSeries("gpu") \cup zeroGPU \cup Metrics!podSeries("networkTransmit")
  \cup Metrics!podSeries("networkReceive") \cup Metrics!storageSeries

\* The four kinds of statistics.
LEMMA StatisticsParts ==
  Metrics!CalculateStatistics =
    {Metrics!Statistic(s, fieldIn("memoryRequest", s), fieldIn("memoryLimit", s)) :
         s \in Metrics!containerSeries("memory")}
    \cup {Metrics!Statistic(s, fieldIn("cpuRequest", s), fieldIn("cpuLimit", s)) :
         s \in Metrics!containerSeries("cpu")}
    \cup {Metrics!Statistic(s, fieldIn("gpuRequest", s), fieldIn("gpuLimit", s)) :
         s \in Metrics!podSeries("gpu") \cup zeroGPU}
    \cup {Metrics!Statistic(s, 0, 0) :
         s \in Metrics!podSeries("networkTransmit") \cup Metrics!podSeries("networkReceive")
               \cup Metrics!storageSeries}
  BY DEF Metrics!CalculateStatistics, fieldIn, zeroGPU

\* A sample has the metric of its series.
LEMMA SeriesMetric ==
  /\ \A metric : \A t \in Metrics!containerSeries(metric) : t.metric = metric
  /\ \A metric : \A t \in Metrics!podSeries(metric) : t.metric = metric
  /\ \A t \in Metrics!storageSeries : t.metric = "storageCapacity"
  /\ \A t \in zeroGPU : t.metric = "gpu"
<1>1. \A metric : \A t \in Metrics!containerSeries(metric) : t.metric = metric
  BY DEF Metrics!containerSeries, Metrics!Sample
<1>2. \A metric, values : \A t \in Metrics!adjustMetricsForMultiContainerPods(metric, values) :
        t.metric = metric
  BY DEF Metrics!adjustMetricsForMultiContainerPods, Metrics!Sample
<1>3. \A metric : \A t \in Metrics!podSeries(metric) : t.metric = metric
  BY <1>2 DEF Metrics!podSeries
<1>4. \A t \in Metrics!storageSeries : t.metric = "storageCapacity"
  BY <1>2 DEF Metrics!storageSeries
<1>5. \A t \in zeroGPU : t.metric = "gpu"
  BY DEF zeroGPU, Metrics!Sample
<1>6. QED
  BY <1>1, <1>3, <1>4, <1>5

\* Which samples the statistics of each metric are made of.
LEMMA StatisticsByMetric ==
  ASSUME statistics = Metrics!CalculateStatistics
  PROVE  /\ \A s : s \in statistics /\ s.metric = "memory" <=>
              \E t \in Metrics!containerSeries("memory") :
                s = Metrics!Statistic(t, fieldIn("memoryRequest", t), fieldIn("memoryLimit", t))
         /\ \A s : s \in statistics /\ s.metric = "cpu" <=>
              \E t \in Metrics!containerSeries("cpu") :
                s = Metrics!Statistic(t, fieldIn("cpuRequest", t), fieldIn("cpuLimit", t))
         /\ \A s : s \in statistics /\ s.metric = "gpu" <=>
              \E t \in Metrics!podSeries("gpu") \cup zeroGPU :
                s = Metrics!Statistic(t, fieldIn("gpuRequest", t), fieldIn("gpuLimit", t))
         /\ \A metric \in {"networkTransmit", "networkReceive"} :
              \A s : s \in statistics /\ s.metric = metric <=>
                \E t \in Metrics!podSeries(metric) : s = Metrics!Statistic(t, 0, 0)
         /\ \A s : s \in statistics /\ s.metric = "storageCapacity" <=>
              \E t \in Metrics!storageSeries : s = Metrics!Statistic(t, 0, 0)
         /\ \A s \in statistics :
              /\ s.controller = Metrics!getController(s.pod)
              /\ \E t \in samples : t.pod = s.pod
<1> DEFINE memory(t) ==
             Metrics!Statistic(t, fieldIn("memoryRequest", t), fieldIn("memoryLimit", t))
           cpu(t) == Metrics!Statistic(t, fieldIn("cpuRequest", t), fieldIn("cpuLimit", t))
           gpu(t) == Metrics!Statistic(t, fieldIn("gpuRequest", t), fieldIn("gpuLimit", t))
           plain(t) == Metrics!Statistic(t, 0, 0)
<1>1. \A t, a, b : /\ Metrics!Statistic(t, a, b).metric = t.metric
                   /\ Metrics!Statistic(t, a, b).pod = t.pod
                   /\ Metrics!Statistic(t, a, b).controller = Metrics!getController(t.pod)
  BY DEF Metrics!Statistic
<1>2. \A t : /\ memory(t).metric = t.metric /\ cpu(t).metric = t.metric
             /\ gpu(t).metric = t.metric /\ plain(t).metric = t.metric
  BY <1>1
<1>3. \A t : /\ memory(t).pod = t.pod /\ cpu(t).pod = t.pod
             /\ gpu(t).pod = t.pod /\ plain(t).pod = t.pod
  BY <1>1
<1>4. \A t : /\ memory(t).controller = Metrics!getController(t.pod)
             /\ cpu(t).controller = Metrics!getController(t.pod)
             /\ gpu(t).controller = Metrics!getController(t.pod)
             /\ plain(t).controller = Metrics!getController(t.pod)
  BY <1>1
<1>5. \A s : s \in statistics <=>
        \/ \E t \in Metrics!containerSeries("memory") : s = memory(t)
        \/ \E t \in Metrics!containerSeries("cpu") : s = cpu(t)
        \/ \E t \in Metrics!podSeries("gpu") \cup zeroGPU : s = gpu(t)
        \/ \E t \in Metrics!podSeries("networkTransmit") : s = plain(t)
        \/ \E t \in Metrics!podSeries("networkReceive") : s = plain(t)
        \/ \E t \in Metrics!storageSeries : s = plain(t)
  BY StatisticsParts
<1> HIDE DEF memory, cpu, gpu, plain
<1>6. \A s : s \in statistics /\ s.metric = "memory" <=>
        \E t \in Metrics!containerSeries("memory") : s = memory(t)
  BY <1>2, <1>5, SeriesMetric
<1>7. \A s : s \in statistics /\ s.metric = "cpu" <=>
        \E t \in Metrics!containerSeries("cpu") : s = cpu(t)
  BY <1>2, <1>5, SeriesMetric
<1>8. \A s : s \in statistics /\ s.metric = "gpu" <=>
        \E t \in Metrics!podSeries("gpu") \cup zeroGPU : s = gpu(t)
  BY <1>2, <1>5, SeriesMetric
<1>9. ASSUME NEW metric \in {"networkTransmit", "networkReceive"}
      PROVE  \A s : s \in statistics /\ s.metric = metric <=>
               \E t \in Metrics!podSeries(metric) : s = plain(t)
  BY <1>2, <1>5, SeriesMetric
<1>10. \A s : s \in statistics /\ s.metric = "storageCapacity" <=>
         \E t \in Metrics!storageSeries : s = plain(t)
  BY <1>2, <1>5, SeriesMetric
<1>11. \A s \in statistics :
         /\ s.controller = Metrics!getController(s.pod)
         /\ \E t \in samples : t.pod = s.pod
  <2> SUFFICES ASSUME NEW s \in statistics
               PROVE  /\ s.controller = Metrics!getController(s.pod)
                      /\ \E t \in samples : t.pod = s.pod
    OBVIOUS
  <2>1. PICK t \in samples : s = memory(t) \/ s = cpu(t) \/ s = gpu(t) \/ s = plain(t)
    BY <1>5 DEF samples
  <2>2. s.pod = t.pod
    BY <1>3, <2>1
  <2>3. s.controller = Metrics!getController(t.pod)
    BY <1>4, <2>1
  <2>4. QED
    BY <2>2, <2>3
<1>12. QED
  BY <1>6, <1>7, <1>8, <1>9, <1>10, <1>11 DEF memory, cpu, gpu, plain

\* What was listed is what the cluster had then, and the report is computed from that and from
\* what was found; a query that had to find something has found it.
MetricsInv ==
  /\ stage \in {"query", "claims", "workloads", "nodes", "write", "done", "failed"}
  /\ query \in Nat \ {0} /\ (stage = "query" => query <= Len(Metrics!Queries))
  /\ stage \in {"claims", "workloads", "nodes", "write", "done"} => query > Len(Metrics!Queries)
  /\ live \subseteq MeasuredPods /\ exists \subseteq Workloads
  /\ template \in [Workloads -> Templates]
  /\ found \subseteq {Metrics!Queries[k] : k \in 1..Len(Metrics!Queries)}
  /\ stage # "failed" /\ ~config.skipCAdvisor =>
       (query > 1 => "memory" \in found) /\ (query > 2 => "cpu" \in found)
  /\ stage \in {"workloads", "nodes", "write", "done"} => storage = Claims
  /\ stage \in {"nodes", "write", "done"} =>
       listing = [pods |-> live, workloads |-> exists, template |-> template]
  /\ stage = "done" => statistics = Metrics!CalculateStatistics

\* The queries, of which the first two are for memory and CPU.
LEMMA QueryNames ==
  /\ Len(Metrics!Queries) = 11
  /\ \A k \in 1..11 : Metrics!Queries[k] \in
       Metrics!CAdvisor \cup Metrics!KSM \cup Metrics!GPU \cup Metrics!PodMetrics
  /\ Metrics!Queries[1] = "memory" /\ Metrics!Queries[2] = "cpu"
  BY DEF Metrics!Queries, Metrics!CAdvisor, Metrics!KSM, Metrics!GPU, Metrics!PodMetrics

\* What was measured of a metric that was found is measured of pods, and a number.
LEMMA MeasuredOfFound ==
  ASSUME MetricsAssumption, MetricsInv, NEW metric \in found
  PROVE  /\ DOMAIN Measured[metric] \subseteq MeasuredPods
         /\ \A p \in DOMAIN Measured[metric] : Measured[metric][p] \in Nat
<1>1. PICK k \in 1..Len(Metrics!Queries) : metric = Metrics!Queries[k]
  BY DEF MetricsInv
<1>2. QED
  BY <1>1 DEF MetricsAssumption

\* The containers among which the metrics of a listed pod are split.
LEMMA ContainersOfLive ==
  ASSUME MetricsAssumption, MetricsInv, NEW p \in live
  PROVE  p \in MeasuredPods /\ ContainerNames(template[OwnerOf[p]])
  BY DEF MetricsAssumption, MetricsInv

\* The samples that are split: one for each container of the spec of each listed pod.
LEMMA SplitSamples ==
  ASSUME MetricsInv, stage = "done", NEW metric, NEW values
  PROVE  \A t : t \in Metrics!adjustMetricsForMultiContainerPods(metric, values) <=>
           \E p \in DOMAIN values \cap live : \E i \in 1..Len(template[OwnerOf[p]]) :
             t = Metrics!Sample(p, template[OwnerOf[p]][i], metric,
                   Metrics!split(values[p], Len(template[OwnerOf[p]]), Metrics!unit(metric))[i])
<1>1. listing.pods = live /\ listing.template = template
  BY DEF MetricsInv
<1>2. QED
  BY <1>1 DEF Metrics!adjustMetricsForMultiContainerPods

\* Network use.
LEMMA NetworkAddsUp ==
  ASSUME MetricsAssumption, MetricsInv, stage = "done", NEW p \in live,
         NEW metric \in {"networkTransmit", "networkReceive"} \cap found,
         p \in DOMAIN Measured[metric]
  PROVE  Metrics!total(Metrics!statisticsOf(p, metric))
           = Metrics!converted(metric, Measured[metric][p])
<1> DEFINE c == template[OwnerOf[p]]
           parts == Metrics!split(Measured[metric][p], Len(c), Metrics!unit(metric))
           t(i) == Metrics!Sample(p, c[i], metric, parts[i])
           h == [i \in 1..Len(c) |-> Metrics!Statistic(t(i), 0, 0)]
<1>1. Metrics!podSeries(metric)
        = Metrics!adjustMetricsForMultiContainerPods(metric, Measured[metric])
  BY DEF Metrics!podSeries
<1>2. \A x \in Metrics!podSeries(metric) :
        x.pod = p => \E i \in 1..Len(c) : x = t(i)
  BY <1>1, SplitSamples DEF Metrics!Sample
<1>3. \A i \in 1..Len(c) : t(i) \in Metrics!podSeries(metric)
  BY <1>1, SplitSamples
<1>4. MadeOf(Metrics!statisticsOf(p, metric), h, c, {})
  <2>1. statistics = Metrics!CalculateStatistics
    BY DEF MetricsInv
  <2>2. \A s : s \in statistics /\ s.metric = metric <=>
          \E x \in Metrics!podSeries(metric) : s = Metrics!Statistic(x, 0, 0)
    BY <2>1, StatisticsByMetric
  <2>3. \A x : Metrics!Statistic(x, 0, 0).pod = x.pod
    BY DEF Metrics!Statistic
  <2>4. \A i \in 1..Len(c) : t(i).pod = p
    BY DEF Metrics!Sample
  <2>5. \A i \in 1..Len(c) : h[i] = Metrics!Statistic(t(i), 0, 0)
    OBVIOUS
  <2> HIDE DEF c, t, h
  <2>6. \A s : s \in Metrics!statisticsOf(p, metric) <=>
          \E i \in 1..Len(c) : s = Metrics!Statistic(t(i), 0, 0)
    BY <1>2, <1>3, <2>2, <2>3, <2>4 DEF Metrics!statisticsOf
  <2>7. QED
    BY <2>5, <2>6 DEF MadeOf
<1>5. PartsOf(h, c, metric, Measured[metric][p])
  BY DEF PartsOf, Metrics!Statistic, Metrics!Sample
<1>6. Measured[metric][p] \in Int /\ metric \in SplitMetrics
  BY MeasuredOfFound DEF SplitMetrics, Metrics!PodMetrics
<1>7. ContainerNames(c) /\ ZeroValued({})
  BY ContainersOfLive, FS_EmptySet DEF ZeroValued
<1> HIDE DEF c, h
<1>8. QED
  BY <1>4, <1>5, <1>6, <1>7, RecordsAddUp

\* GPU use: the statistics of containers that only ask for a GPU have the value 0.
LEMMA GPUAddsUp ==
  ASSUME MetricsAssumption, MetricsInv, stage = "done", NEW p \in live, "gpu" \in found,
         p \in DOMAIN Measured["gpu"]
  PROVE  Metrics!total(Metrics!statisticsOf(p, "gpu"))
           = Metrics!converted("gpu", Measured["gpu"][p])
<1> DEFINE c == template[OwnerOf[p]]
           parts == Metrics!split(Measured["gpu"][p], Len(c), Metrics!unit("gpu"))
           t(i) == Metrics!Sample(p, c[i], "gpu", parts[i])
           r(x) == Metrics!Statistic(x, fieldIn("gpuRequest", x), fieldIn("gpuLimit", x))
           h == [i \in 1..Len(c) |-> r(t(i))]
           Z == {r(x) : x \in {y \in zeroGPU : y.pod = p}}
<1>1. Metrics!podSeries("gpu")
        = Metrics!adjustMetricsForMultiContainerPods("gpu", Measured["gpu"])
  BY DEF Metrics!podSeries
<1>2. \A x \in Metrics!podSeries("gpu") :
        x.pod = p => \E i \in 1..Len(c) : x = t(i)
  BY <1>1, SplitSamples DEF Metrics!Sample
<1>3. \A i \in 1..Len(c) : t(i) \in Metrics!podSeries("gpu")
  BY <1>1, SplitSamples
<1>4. MadeOf(Metrics!statisticsOf(p, "gpu"), h, c, Z)
  <2>1. statistics = Metrics!CalculateStatistics
    BY DEF MetricsInv
  <2>2. \A s : s \in statistics /\ s.metric = "gpu" <=>
          \E x \in Metrics!podSeries("gpu") \cup zeroGPU : s = r(x)
    BY <2>1, StatisticsByMetric
  <2>3. \A x : r(x).pod = x.pod
    BY DEF Metrics!Statistic
  <2>4. \A i \in 1..Len(c) : t(i).pod = p
    BY DEF Metrics!Sample
  <2>5. \A i \in 1..Len(c) : h[i] = r(t(i))
    OBVIOUS
  <2>6. \A s : s \in Z <=> \E x \in zeroGPU : x.pod = p /\ s = r(x)
    OBVIOUS
  <2> HIDE DEF c, t, h, r, Z
  <2>7. \A s : s \in Metrics!statisticsOf(p, "gpu") <=>
          s \in Z \/ \E i \in 1..Len(c) : s = r(t(i))
    BY <1>2, <1>3, <2>2, <2>3, <2>4, <2>6 DEF Metrics!statisticsOf
  <2>8. QED
    BY <2>5, <2>7 DEF MadeOf
<1>5. PartsOf(h, c, "gpu", Measured["gpu"][p])
  BY DEF PartsOf, Metrics!Statistic, Metrics!Sample
<1>6. Measured["gpu"][p] \in Int /\ "gpu" \in SplitMetrics
  BY MeasuredOfFound DEF SplitMetrics, Metrics!PodMetrics
<1>7. ContainerNames(c)
  BY ContainersOfLive
<1>8. ZeroValued(Z)
  <2> DEFINE n == Len(ContainersOf[p])
             z(i) == Metrics!Sample(p, ContainersOf[p][i], "gpu", 0)
             k == [i \in 1..n |-> r(z(i))]
  <2>1. n \in Nat
    BY ContainersOfLive, LenProperties DEF MetricsAssumption
  <2>2. IsFiniteSet({k[i] : i \in 1..n})
    <3>1. IsFiniteSet(1..n)
      BY <2>1, FS_Interval
    <3>2. QED
      BY <3>1, FiniteImage
  <2>3. \A a \in Metrics!containerSeries("gpuRequest") \cup Metrics!containerSeries("gpuLimit") :
          a.pod = p => \E i \in 1..n : a.container = ContainersOf[p][i]
    BY DEF Metrics!containerSeries, Metrics!Sample
  <2>4. ASSUME NEW x \in zeroGPU, x.pod = p PROVE \E i \in 1..n : x = z(i)
    <3>1. PICK a \in Metrics!containerSeries("gpuRequest")
                       \cup Metrics!containerSeries("gpuLimit") :
            x = Metrics!Sample(a.pod, a.container, "gpu", 0)
      BY DEF zeroGPU
    <3>2. a.pod = p
      BY <2>4, <3>1 DEF Metrics!Sample
    <3>3. QED
      BY <2>3, <3>1, <3>2
  <2>5. Z \subseteq {k[i] : i \in 1..n}
    <3>1. \A i \in 1..n : k[i] = r(z(i))
      OBVIOUS
    <3>2. \A s \in Z : \E x \in zeroGPU : x.pod = p /\ s = r(x)
      OBVIOUS
    <3> HIDE DEF r, z, k, n, Z
    <3>3. QED
      BY <2>4, <3>1, <3>2
  <2>6. \A s \in Z : s.value = 0
    BY DEF zeroGPU, Metrics!Statistic, Metrics!Sample, Metrics!converted
  <2>7. QED
    BY <2>2, <2>5, <2>6, FS_Subset DEF ZeroValued
<1> HIDE DEF c, h, Z
<1>9. QED
  BY <1>4, <1>5, <1>6, <1>7, <1>8, RecordsAddUp

\* Storage.
LEMMA StorageAddsUp ==
  ASSUME MetricsAssumption, MetricsInv, stage = "done", NEW p \in live, Metrics!unambiguous(p)
  PROVE  Metrics!total(Metrics!statisticsOf(p, "storageCapacity")) = Metrics!ownCapacity(p)
<1> DEFINE metric == "storageCapacity"
           v == Metrics!totalCapacity(p)
           c == template[OwnerOf[p]]
           parts == Metrics!split(v, Len(c), Metrics!unit(metric))
           t(i) == Metrics!Sample(p, c[i], metric, parts[i])
           h == [i \in 1..Len(c) |-> Metrics!Statistic(t(i), 0, 0)]
           mounted == \E i \in 1..Len(ClaimsOf[p]) : Metrics!PVCByName(ClaimsOf[p][i]) # 0
<1>1. /\ storage = Claims /\ listing.pods = live /\ statistics = Metrics!CalculateStatistics
      /\ p \in MeasuredPods /\ ContainerNames(c)
  BY ContainersOfLive DEF MetricsInv
<1>2. /\ v = Metrics!ownCapacity(p) /\ v \in Int
      /\ ~mounted => Metrics!ownCapacity(p) = 0
  BY <1>1, CapacityIsOwn
<1>3. /\ p \in DOMAIN Metrics!ManufactureMetrics <=> mounted
      /\ mounted => Metrics!ManufactureMetrics[p] = v
  BY <1>1 DEF Metrics!ManufactureMetrics
<1>4. \A s : s \in statistics /\ s.metric = metric <=>
        \E x \in Metrics!storageSeries : s = Metrics!Statistic(x, 0, 0)
  BY <1>1, StatisticsByMetric
<1>5. \A x : Metrics!Statistic(x, 0, 0).pod = x.pod
  BY DEF Metrics!Statistic
<1>6. \A x : x \in Metrics!storageSeries <=>
        x \in Metrics!adjustMetricsForMultiContainerPods(metric, Metrics!ManufactureMetrics)
  BY DEF Metrics!storageSeries
<1>7. CASE ~mounted
  <2>1. \A x \in Metrics!storageSeries : x.pod # p
    BY <1>3, <1>6, <1>7, SplitSamples DEF Metrics!Sample
  <2>2. Metrics!statisticsOf(p, metric) = {}
    BY <1>4, <1>5, <2>1 DEF Metrics!statisticsOf
  <2>3. Metrics!total({}) = 0
    <3>1. DOMAIN [s \in {} |-> s.value] = {}
      OBVIOUS
    <3>2. QED
      BY <3>1, SumFunctionHere, SumOfNone DEF Metrics!total
  <2>4. QED
    BY <1>2, <1>7, <2>2, <2>3
<1>8. CASE mounted
  <2>1. \A x \in Metrics!storageSeries : x.pod = p => \E i \in 1..Len(c) : x = t(i)
    BY <1>3, <1>6, <1>8, SplitSamples DEF Metrics!Sample
  <2>2. \A i \in 1..Len(c) : t(i) \in Metrics!storageSeries
    BY <1>3, <1>6, <1>8, SplitSamples
  <2>3. MadeOf(Metrics!statisticsOf(p, metric), h, c, {})
    <3>1. \A i \in 1..Len(c) : t(i).pod = p
      BY DEF Metrics!Sample
    <3>2. \A i \in 1..Len(c) : h[i] = Metrics!Statistic(t(i), 0, 0)
      OBVIOUS
    <3> HIDE DEF c, t, h
    <3>3. \A s : s \in Metrics!statisticsOf(p, metric) <=>
            \E i \in 1..Len(c) : s = Metrics!Statistic(t(i), 0, 0)
      BY <1>4, <1>5, <2>1, <2>2, <3>1 DEF Metrics!statisticsOf
    <3>4. QED
      BY <3>2, <3>3 DEF MadeOf
  <2>4. PartsOf(h, c, metric, v)
    BY DEF PartsOf, Metrics!Statistic, Metrics!Sample
  <2>5. ZeroValued({}) /\ metric \in SplitMetrics /\ Metrics!converted(metric, v) = v
    BY <1>2, FS_EmptySet DEF ZeroValued, SplitMetrics, Metrics!converted
  <2> HIDE DEF c, h, v, metric
  <2>6. Metrics!total(Metrics!statisticsOf(p, metric)) = Metrics!converted(metric, v)
    BY <1>1, <1>2, <2>3, <2>4, <2>5, RecordsAddUp
  <2>7. QED
    BY <1>2, <2>5, <2>6 DEF metric
<1>9. QED
  BY <1>7, <1>8

\* Every sample is of one of the pods.
LEMMA SamplesOfPods ==
  ASSUME MetricsAssumption, MetricsInv, stage = "done", NEW t \in samples
  PROVE  t.pod \in MeasuredPods
<1>1. ASSUME NEW metric, NEW x \in Metrics!containerSeries(metric) PROVE x.pod \in MeasuredPods
  <2>1. metric \in found /\ x.pod \in DOMAIN Measured[metric]
    BY <1>1 DEF Metrics!containerSeries, Metrics!Sample
  <2>2. QED
    BY <2>1, MeasuredOfFound
<1>2. ASSUME NEW metric, NEW values,
             NEW x \in Metrics!adjustMetricsForMultiContainerPods(metric, values)
      PROVE  x.pod \in MeasuredPods
  <2>1. x.pod \in live
    BY <1>2, SplitSamples DEF Metrics!Sample
  <2>2. QED
    BY <2>1 DEF MetricsInv
<1>3. ASSUME NEW metric, NEW x \in Metrics!podSeries(metric) PROVE x.pod \in MeasuredPods
  BY <1>2, <1>3 DEF Metrics!podSeries
<1>4. ASSUME NEW x \in Metrics!storageSeries PROVE x.pod \in MeasuredPods
  BY <1>2, <1>4 DEF Metrics!storageSeries
<1>5. ASSUME NEW x \in zeroGPU PROVE x.pod \in MeasuredPods
  <2>1. PICK a \in Metrics!containerSeries("gpuRequest")
                     \cup Metrics!containerSeries("gpuLimit") :
          x = Metrics!Sample(a.pod, a.container, "gpu", 0)
    BY <1>5 DEF zeroGPU
  <2>2. QED
    BY <1>1, <2>1 DEF Metrics!Sample
<1>6. QED
  BY <1>1, <1>3, <1>4, <1>5 DEF samples

\* A pod that is live is given to its workload, and no pod to one of another namespace.
LEMMA ControllerIsRight ==
  ASSUME MetricsAssumption, MetricsInv, stage = "done", NEW p \in MeasuredPods
  PROVE  /\ p \in live => Metrics!getController(p) = OwnerOf[p]
         /\ Metrics!getController(p) \in Workloads =>
              NamespaceOf[Metrics!getController(p)] = Metrics!NamespaceOfPod(p)
<1> DEFINE candidates == {w \in listing.workloads : NamespaceOf[w] = Metrics!NamespaceOfPod(p)
                                                    /\ w \in Prefixes[p]}
<1>1. listing.pods = live /\ listing.workloads = exists /\ exists \subseteq Workloads
  BY DEF MetricsInv
<1>2. CASE p \in live
  BY <1>1, <1>2 DEF Metrics!getController, Metrics!NamespaceOfPod
<1>3. CASE p \notin live /\ candidates = {}
  BY <1>1, <1>3 DEF Metrics!getController, MetricsAssumption
<1>4. CASE p \notin live /\ candidates # {}
  <2>1. IsFiniteSet(candidates) /\ \A w \in candidates : NameLength[w] \in Nat
    <3>1. candidates \subseteq Workloads
      BY <1>1
    <3>2. QED
      BY <3>1, FS_Subset DEF MetricsAssumption
  <2>2. \E w \in candidates : \A v \in candidates : NameLength[w] >= NameLength[v]
    BY <1>4, <2>1, LongestExists
  <2>3. Metrics!getController(p) =
          CHOOSE w \in candidates : \A v \in candidates : NameLength[w] >= NameLength[v]
    BY <1>1, <1>4 DEF Metrics!getController
  <2>4. Metrics!getController(p) \in candidates
    BY <2>2, <2>3
  <2>5. QED
    BY <1>4, <2>4
<1>5. QED
  BY <1>2, <1>3, <1>4

\* Memory and CPU: one statistic for each container, with what was measured.
LEMMA UseAsMeasured ==
  ASSUME MetricsAssumption, MetricsInv, stage = "done",
         NEW metric \in Metrics!CAdvisor \cap found, NEW p \in DOMAIN Measured[metric]
  PROVE  /\ {s.container : s \in Metrics!statisticsOf(p, metric)}
              = Metrics!Range(ContainersOf[p])
         /\ \A s \in Metrics!statisticsOf(p, metric) :
              s.value = Metrics!converted(metric, Measured[metric][p])
<1> DEFINE t(i) == Metrics!Sample(p, ContainersOf[p][i], metric, Measured[metric][p])
           n == Len(ContainersOf[p])
<1>1. statistics = Metrics!CalculateStatistics
  BY DEF MetricsInv
<1>2. /\ \A x \in Metrics!containerSeries(metric) : x.pod = p => \E i \in 1..n : x = t(i)
      /\ \A i \in 1..n : t(i) \in Metrics!containerSeries(metric) /\ t(i).pod = p
  BY DEF Metrics!containerSeries, Metrics!Sample
<1>3. \A x, a, b : /\ Metrics!Statistic(x, a, b).pod = x.pod
                   /\ Metrics!Statistic(x, a, b).container = x.container
                   /\ Metrics!Statistic(x, a, b).value = Metrics!converted(x.metric, x.value)
  BY DEF Metrics!Statistic
<1>4. \A i \in 1..n : /\ t(i).container = ContainersOf[p][i] /\ t(i).metric = metric
                      /\ t(i).value = Measured[metric][p]
  BY DEF Metrics!Sample
<1>5. \A s \in Metrics!statisticsOf(p, metric) :
        \E i \in 1..n : \E a, b : s = Metrics!Statistic(t(i), a, b)
  <2>1. \A s \in Metrics!statisticsOf(p, metric) :
          /\ s.pod = p
          /\ \E x \in Metrics!containerSeries(metric) : \E a, b : s = Metrics!Statistic(x, a, b)
    BY <1>1, StatisticsByMetric DEF Metrics!statisticsOf, Metrics!CAdvisor
  <2> HIDE DEF t, n
  <2>2. QED
    BY <1>2, <1>3, <2>1
<1>6. \A i \in 1..n : \E a, b : Metrics!Statistic(t(i), a, b) \in Metrics!statisticsOf(p, metric)
  <2> HIDE DEF t, n
  <2> SUFFICES ASSUME NEW i \in 1..n
               PROVE  \E a, b : Metrics!Statistic(t(i), a, b) \in Metrics!statisticsOf(p, metric)
    OBVIOUS
  <2>1. t(i) \in Metrics!containerSeries(metric) /\ t(i).pod = p
    BY <1>2
  <2>2. \E a, b : /\ Metrics!Statistic(t(i), a, b) \in statistics
                  /\ Metrics!Statistic(t(i), a, b).metric = metric
    BY <1>1, <2>1, StatisticsByMetric DEF Metrics!CAdvisor
  <2>3. QED
    BY <1>3, <2>1, <2>2 DEF Metrics!statisticsOf
<1>7. DOMAIN ContainersOf[p] = 1..n
  BY MeasuredOfFound, LenProperties DEF MetricsAssumption
<1>8. \A i \in 1..n :
        ContainersOf[p][i] \in {s.container : s \in Metrics!statisticsOf(p, metric)}
  <2> HIDE DEF n, t
  <2>1. \A i \in 1..n :
          \E s \in Metrics!statisticsOf(p, metric) : s.container = ContainersOf[p][i]
    BY <1>3, <1>4, <1>6
  <2>2. QED
    BY <2>1
<1>9. \A s \in Metrics!statisticsOf(p, metric) :
        /\ \E i \in 1..n : s.container = ContainersOf[p][i]
        /\ s.value = Metrics!converted(metric, Measured[metric][p])
  <2> HIDE DEF n, t
  <2>1. QED
    BY <1>3, <1>4, <1>5
<1> HIDE DEF n
<1>10. QED
  BY <1>7, <1>8, <1>9 DEF Metrics!Range

\* When the run is done, all of it adds up.
LEMMA MetricsInvImplies ==
  ASSUME MetricsAssumption, MetricsInv
  PROVE  ReportAddsUp
<1> SUFFICES ASSUME stage = "done" PROVE ReportAddsUp
  BY DEF ReportAddsUp, Metrics!ReportAddsUp
<1>1. statistics = Metrics!CalculateStatistics
  BY DEF MetricsInv
<1>2. ASSUME NEW p \in live, NEW metric \in Metrics!PodMetrics \cap found,
             p \in DOMAIN Measured[metric]
      PROVE  Metrics!total(Metrics!statisticsOf(p, metric))
               = Metrics!converted(metric, Measured[metric][p])
  <2>1. CASE metric = "gpu"
    BY <1>2, <2>1, GPUAddsUp
  <2>2. CASE metric # "gpu"
    <3>1. metric \in {"networkTransmit", "networkReceive"} \cap found
      BY <2>2 DEF Metrics!PodMetrics
    <3>2. QED
      BY <1>2, <3>1, NetworkAddsUp
  <2>3. QED
    BY <2>1, <2>2
<1>3. \A p \in live : Metrics!unambiguous(p) =>
        Metrics!total(Metrics!statisticsOf(p, "storageCapacity")) = Metrics!ownCapacity(p)
  BY StorageAddsUp
<1>4. ASSUME NEW s \in statistics
      PROVE  /\ s.pod \in MeasuredPods /\ s.controller = Metrics!getController(s.pod)
  BY <1>1, StatisticsByMetric, SamplesOfPods
<1>5. ASSUME NEW p \in live, NEW s \in statistics, s.pod = p PROVE s.controller = OwnerOf[p]
  BY <1>4, <1>5, ControllerIsRight
<1>6. ASSUME NEW s \in statistics, s.controller \in Workloads
      PROVE  NamespaceOf[s.controller] = Metrics!NamespaceOfPod(s.pod)
  BY <1>4, <1>6, ControllerIsRight
<1>7. Metrics!CAdvisor \subseteq found \/ config.skipCAdvisor
  BY QueryNames DEF MetricsInv, Metrics!CAdvisor
<1>8. \A metric \in Metrics!CAdvisor \cap found : \A p \in DOMAIN Measured[metric] :
        /\ {s.container : s \in Metrics!statisticsOf(p, metric)} = Metrics!Range(ContainersOf[p])
        /\ \A s \in Metrics!statisticsOf(p, metric) :
             s.value = Metrics!converted(metric, Measured[metric][p])
  BY UseAsMeasured
<1>9. QED
  BY <1>2, <1>3, <1>5, <1>6, <1>7, <1>8 DEF ReportAddsUp, Metrics!ReportAddsUp

\* The report is computed from what was found and listed.
LEMMA StatisticsKept ==
  ASSUME UNCHANGED <<found, storage, listing>>
  PROVE  Metrics!CalculateStatistics' = Metrics!CalculateStatistics
  BY DEF Metrics!CalculateStatistics, Metrics!containerSeries, Metrics!podSeries,
         Metrics!storageSeries, Metrics!adjustMetricsForMultiContainerPods,
         Metrics!ManufactureMetrics, Metrics!totalCapacity, Metrics!PVCByName,
         Metrics!Statistic, Metrics!getController

\* The invariant holds at the start.
LEMMA MetricsInvInit ==
  ASSUME MetricsAssumption, Metrics!Init
  PROVE  MetricsInv
  BY QueryNames DEF Metrics!Init, MetricsInv

\* Every step of the run and of the cluster keeps it.
LEMMA MetricsInvKept ==
  ASSUME MetricsAssumption, MetricsInv, [Metrics!Next]_(Metrics!metricsVars)
  PROVE  MetricsInv'
<1> USE DEF Metrics!clusterUnchanged, Metrics!runUnchanged, Metrics!listable
<1>1. ASSUME NEW p \in MeasuredPods, Metrics!Delete(p) PROVE MetricsInv'
  BY <1>1 DEF Metrics!Delete, MetricsInv
<1>2. ASSUME NEW w \in Workloads, Metrics!DeleteWorkload(w) PROVE MetricsInv'
  BY <1>2 DEF Metrics!DeleteWorkload, MetricsInv
<1>3. ASSUME NEW w \in Workloads, Metrics!Rollout(w) PROVE MetricsInv'
  BY <1>3 DEF Metrics!Rollout, MetricsInv
<1>4. ASSUME Metrics!Query PROVE MetricsInv'
  <2>1. /\ stage = "query" /\ query \in 1..11 /\ query' = query + 1
        /\ found' \in {found, found \cup {Metrics!Queries[query]}}
        /\ stage' \in {"query", "claims", "failed"}
        /\ stage' = "query" => query # 11
        /\ stage' = "claims" => query = 11
        /\ UNCHANGED <<storage, listing, statistics, config, exists, live, template>>
    BY <1>4, QueryNames DEF Metrics!Query, Metrics!Advance, MetricsInv
  <2>2. ASSUME stage' # "failed", ~config.skipCAdvisor,
               Metrics!Queries[query] \in Metrics!CAdvisor
        PROVE  Metrics!Queries[query] \in found'
    BY <1>4, <2>2 DEF Metrics!Query, Metrics!Advance, Metrics!required
  <2>3. stage' # "failed" /\ ~config'.skipCAdvisor =>
          (query' > 1 => "memory" \in found') /\ (query' > 2 => "cpu" \in found')
    BY <2>1, <2>2, QueryNames DEF MetricsInv, Metrics!CAdvisor
  <2>4. found' \subseteq {Metrics!Queries[k] : k \in 1..Len(Metrics!Queries)}
    BY <2>1, QueryNames DEF MetricsInv
  <2>5. QED
    BY <2>1, <2>3, <2>4, QueryNames DEF MetricsInv
<1>5. ASSUME Metrics!Fail PROVE MetricsInv'
  BY <1>5 DEF Metrics!Fail, MetricsInv
<1>6. ASSUME Metrics!ListClaims PROVE MetricsInv'
  BY <1>6 DEF Metrics!ListClaims, MetricsInv
<1>7. ASSUME Metrics!ListWorkloads PROVE MetricsInv'
  BY <1>7 DEF Metrics!ListWorkloads, MetricsInv
<1>8. ASSUME Metrics!GetNodesMetrics PROVE MetricsInv'
  BY <1>8 DEF Metrics!GetNodesMetrics, MetricsInv
<1>9. ASSUME Metrics!Write PROVE MetricsInv'
  BY <1>9, StatisticsKept DEF Metrics!Write, MetricsInv
<1>10. ASSUME UNCHANGED Metrics!metricsVars PROVE MetricsInv'
  BY <1>10, StatisticsKept DEF Metrics!metricsVars, MetricsInv
<1>11. QED
  BY <1>1, <1>2, <1>3, <1>4, <1>5, <1>6, <1>7, <1>8, <1>9, <1>10 DEF Metrics!Next

\* For every cluster, every set of measured values and claims, whatever queries fail and
\* however the cluster changes before it is listed: the statistics of a pod that is still
\* there add up to what was measured of it and to the capacity of its claims, they are given
\* to its workload, and no pod is given to a workload of another namespace.
THEOREM ReportsAddUp ==
  ASSUME MetricsAssumption
  PROVE  Metrics!Spec => []ReportAddsUp
<1>1. Metrics!Init => MetricsInv
  BY MetricsInvInit
<1>2. MetricsInv /\ [Metrics!Next]_(Metrics!metricsVars) => MetricsInv'
  BY MetricsInvKept
<1>3. MetricsInv => ReportAddsUp
  BY MetricsInvImplies
<1>4. QED
  BY <1>1, <1>2, <1>3, PTL DEF Metrics!Spec
=============================================================================
