-------------------------- MODULE CloudWatchSource --------------------------
(***************************************************************************)
(* How the event-watcher reads the audit log from CloudWatch               *)
(* (event-watcher, pkg/producers/cloudwatch_handler.go), for one stream.   *)
(* It keeps no position in the stream: every poll asks for the entries of  *)
(* the last minutes, up to a limit and without a second page, and what has *)
(* been reported before is skipped later.  A poll takes no time.           *)
(***************************************************************************)
EXTENDS Integers, Sequences, FiniteSets

CONSTANTS
  PollInterval,   \* in ticks
  Window,         \* how far back a poll asks, in ticks
  BatchSize,
  MaxConsecutiveErrors,
  MaxRetries,     \* attempts to list the streams
  MaxStreamRetries,
  Delays,         \* how late CloudWatch may have an entry
  MaxEntries,     \* bound: entries of the log
  MaxTime         \* bound: the clock

VARIABLES
  time,
  filtered,       \* a FilterPattern is configured
  log,            \* the time of each entry that CloudWatch has
  due,            \* when the ticker fires
  interval,       \* its interval
  consecutiveErrors,
  poll,           \* what the poll does, and its attempt
  seen,           \* entries that were read
  \* history
  excused         \* entries that a failed poll or the limit passed over

cloudWatchVars ==
  <<time, filtered, log, due, interval, consecutiveErrors, poll, seen, excused>>

Waiting == [pc |-> "wait", attempt |-> 0]
-----------------------------------------------------------------------------
\* Mutant: a poll asks for what is newer than the poll before it.
inWindowSincePoll == {i \in DOMAIN log : log[i] >= time - PollInterval}

\* The entries of the window that a poll asks for.
inWindow == {i \in DOMAIN log : log[i] >= time - Window}

\* GetLogEvents returns the last entries of the window, FilterLogEvents the first ones.
returned ==
  LET rank(i) == Cardinality({j \in inWindow : log[j] < log[i] \/ (log[j] = log[i] /\ j < i)})
  IN  {i \in inWindow : IF filtered THEN rank(i) < BatchSize
                                   ELSE rank(i) >= Cardinality(inWindow) - BatchSize}

\* The API server logs a request, and CloudWatch has the entry at once or later.
Log(delay) ==
  /\ Len(log) < MaxEntries /\ time >= delay /\ poll = Waiting
  /\ log' = Append(log, time - delay)
  /\ UNCHANGED <<time, filtered, due, interval, consecutiveErrors, poll, seen, excused>>

Tick ==
  /\ poll = Waiting /\ time < due /\ time < MaxTime
  /\ time' = time + 1
  /\ UNCHANGED <<filtered, log, due, interval, consecutiveErrors, poll, seen, excused>>

\* The ticker fires, and processLogEvents begins.
Fire ==
  /\ poll = Waiting /\ time = due
  /\ due' = time + interval
  /\ poll' = [pc |-> "streams", attempt |-> 1]
  /\ UNCHANGED <<time, filtered, log, interval, consecutiveErrors, seen, excused>>

getLogStreams ==
  /\ poll.pc = "streams"
  /\ poll' = [pc |-> "stream", attempt |-> 1]
  /\ UNCHANGED <<time, filtered, log, due, interval, consecutiveErrors, seen, excused>>

\* The interval after too many errors.
tooManyErrors == 2 * PollInterval

\* A list of the streams fails: again, or the poll ends with an error.  Too many of these
\* in a row restart the ticker with a longer interval, and forget the errors.
getLogStreamsFails(retryable) ==
  /\ poll.pc = "streams"
  /\ IF retryable /\ poll.attempt < MaxRetries
       THEN /\ poll' = [poll EXCEPT !.attempt = @ + 1]
            /\ UNCHANGED <<due, interval, consecutiveErrors, excused>>
       ELSE /\ poll' = Waiting
            /\ excused' = excused \cup inWindow
            /\ IF consecutiveErrors + 1 >= MaxConsecutiveErrors
                 THEN /\ consecutiveErrors' = 0
                      /\ interval' = tooManyErrors
                      /\ due' = time + interval'
                 ELSE /\ consecutiveErrors' = consecutiveErrors + 1
                      /\ UNCHANGED <<due, interval>>
  /\ UNCHANGED <<time, filtered, log, seen>>

\* The poll ends without an error; an error before it restarts the ticker as configured.
Succeeded ==
  /\ poll' = Waiting
  /\ consecutiveErrors' = 0
  /\ IF consecutiveErrors > 0
       THEN interval' = PollInterval /\ due' = time + PollInterval
       ELSE UNCHANGED <<due, interval>>

processLogStream ==
  /\ poll.pc = "stream"
  /\ seen' = seen \cup returned
  /\ excused' = excused \cup (inWindow \ returned)
  /\ Succeeded
  /\ UNCHANGED <<time, filtered, log>>

\* A stream that cannot be read is logged and left out: the poll is a success.
processLogStreamFails(retryable) ==
  /\ poll.pc = "stream"
  /\ IF retryable /\ poll.attempt < MaxStreamRetries
       THEN /\ poll' = [poll EXCEPT !.attempt = @ + 1]
            /\ UNCHANGED <<due, interval, consecutiveErrors, excused>>
       ELSE /\ excused' = excused \cup inWindow
            /\ Succeeded
  /\ UNCHANGED <<time, filtered, log, seen>>
-----------------------------------------------------------------------------
Init ==
  /\ time = 0 /\ log = <<>> /\ due = PollInterval /\ interval = PollInterval
  /\ filtered \in BOOLEAN /\ consecutiveErrors = 0 /\ poll = Waiting
  /\ seen = {} /\ excused = {}

Next ==
  \/ \E d \in Delays : Log(d)
  \/ Tick
  \/ Fire
  \/ getLogStreams
  \/ processLogStream
  \/ \E retryable \in BOOLEAN : getLogStreamsFails(retryable) \/ processLogStreamFails(retryable)

Spec == Init /\ [][Next]_cloudWatchVars
-----------------------------------------------------------------------------
\* An entry that no later poll will ask for has been read, unless a poll that should have
\* returned it failed in spite of its retries or had more entries than the limit
\* (cloudwatch_handler.go:Start, processLogStream).  In particular the interval, longer
\* after errors and not always restored, never passes over an entry by itself.
MissedForAReason ==
  \A i \in DOMAIN log : log[i] < time - Window => i \in seen \cup excused
=============================================================================
