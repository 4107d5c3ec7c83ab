------------------------- MODULE DeltaTrackerProofs -------------------------
(***************************************************************************)
(* Proofs about DeltaTracker.                                              *)
(***************************************************************************)
EXTENDS DeltaTracker, TLAPS

\* The table against the snapshot: rows that were observed are in the table
\* with the counter they showed, marks say which those are, and a key that is
\* not in the table has no counts.
TableInv ==
  /\ poll = "idle" => rows = {} /\ tracked = snapshot
  /\ \A c \in snapshot \ rows : c \in tracked /\ last[c] = shot[c]
  /\ \A c \in tracked : poll = "observing" => (seen[c] <=> c \in snapshot \ rows)
  /\ \A c \in Conns \ tracked : last[c] = 0 /\ emitted[c] = 0

\* The books of one key: what was reported, what the table still owes and what
\* the snapshots showed.
Balanced(c) ==
  /\ emitted[c] <= last[c]
  /\ c \in rows => last[c] <= shot[c]
  /\ c \in snapshot => reported[c] + shot[c] = shown[c] + emitted[c]
  /\ c \notin snapshot => reported[c] + last[c] = shown[c] + emitted[c]
  /\ c \in live /\ c \in snapshot => shown[c] = past[c] + shot[c] /\ shot[c] <= counter[c]
  /\ c \in live /\ c \notin snapshot => shown[c] = past[c]

BooksInv == \A c \in Conns : ~reused[c] => Balanced(c)

\* The inductive invariant.
TrackerInv == TypeOK /\ TableInv /\ BooksInv

USE MaxBytesAssumption

\* With an empty table and no traffic every book is balanced.
LEMMA InitEstablishes == Init => TrackerInv
  BY DEF Init, TrackerInv, TypeOK, BytesTypeOK, SetsTypeOK, TableInv, BooksInv, Balanced

\* BeginPoll clears the marks and takes a snapshot; no byte is reported.
LEMMA BeginPollPreserves == TrackerInv /\ BeginPoll => TrackerInv'
<1> SUFFICES ASSUME TrackerInv, BeginPoll PROVE TrackerInv'
  OBVIOUS
<1>1. TypeOK'
  BY DEF TrackerInv, TypeOK, BytesTypeOK, SetsTypeOK, BeginPoll, trackerVars, kernelVars
<1>2. TableInv'
  BY DEF TrackerInv, TypeOK, SetsTypeOK, TableInv, BeginPoll, kernelVars
<1>3. BooksInv'
  <2> SUFFICES ASSUME NEW c \in Conns, ~reused[c] PROVE Balanced(c)'
    BY DEF BeginPoll, BooksInv
  <2>1. Balanced(c) /\ TableInv
    BY DEF TrackerInv, BooksInv
  <2>2. CASE c \in live
    BY <2>1, <2>2 DEF TrackerInv, TypeOK, BytesTypeOK, SetsTypeOK, TableInv, Balanced, BeginPoll, kernelVars
  <2>3. CASE c \notin live
    BY <2>1, <2>3 DEF TrackerInv, TypeOK, BytesTypeOK, SetsTypeOK, TableInv, Balanced, BeginPoll, kernelVars
  <2> QED
    BY <2>2, <2>3
<1> QED
  BY <1>1, <1>2, <1>3 DEF TrackerInv

\* The first row of a key sets its baseline, which is not reported yet.
LEMMA ObserveNewPreserves ==
  ASSUME TrackerInv, NEW d \in Conns, ObserveNew(d) PROVE TrackerInv'
<1>1. TypeOK'
  BY DEF TrackerInv, TypeOK, BytesTypeOK, SetsTypeOK, ObserveNew, kernelVars, historyVars
<1>2. TableInv'
  BY DEF TrackerInv, TypeOK, BytesTypeOK, SetsTypeOK, TableInv, ObserveNew
<1>3. BooksInv'
  <2> SUFFICES ASSUME NEW c \in Conns, ~reused[c] PROVE Balanced(c)'
    BY DEF ObserveNew, BooksInv, historyVars
  <2>1. Balanced(c) /\ TableInv
    BY DEF TrackerInv, BooksInv
  <2>2. CASE c = d
    BY <2>1, <2>2 DEF TrackerInv, TypeOK, BytesTypeOK, SetsTypeOK, TableInv, Balanced,
                      ObserveNew, kernelVars, historyVars
  <2>3. CASE c # d
    BY <2>1, <2>3 DEF TrackerInv, TypeOK, BytesTypeOK, SetsTypeOK, Balanced,
                      ObserveNew, kernelVars, historyVars
  <2> QED
    BY <2>2, <2>3
<1> QED
  BY <1>1, <1>2, <1>3 DEF TrackerInv

\* A later row reports the increment over the last one.
LEMMA ObserveKnownPreserves ==
  ASSUME TrackerInv, NEW d \in Conns, ObserveKnown(d) PROVE TrackerInv'
<1>1. TypeOK'
  BY DEF TrackerInv, TypeOK, BytesTypeOK, SetsTypeOK, ObserveKnown, DiffCumulative, kernelVars
<1>2. TableInv'
  BY DEF TrackerInv, TypeOK, BytesTypeOK, SetsTypeOK, TableInv, ObserveKnown
<1>3. BooksInv'
  <2> SUFFICES ASSUME NEW c \in Conns, ~reused[c] PROVE Balanced(c)'
    BY DEF ObserveKnown, BooksInv
  <2>1. Balanced(c) /\ TableInv
    BY DEF TrackerInv, BooksInv
  <2>2. CASE c = d
    BY <2>1, <2>2 DEF TrackerInv, TypeOK, BytesTypeOK, SetsTypeOK, Balanced,
                      ObserveKnown, DiffCumulative, kernelVars
  <2>3. CASE c # d
    BY <2>1, <2>3 DEF TrackerInv, TypeOK, BytesTypeOK, SetsTypeOK, Balanced,
                      ObserveKnown, kernelVars
  <2> QED
    BY <2>2, <2>3
<1> QED
  BY <1>1, <1>2, <1>3 DEF TrackerInv

\* The closing flush reports what is left of a key and forgets it.
LEMMA EndPollPreserves == TrackerInv /\ EndPoll => TrackerInv'
<1> SUFFICES ASSUME TrackerInv, EndPoll PROVE TrackerInv'
  OBVIOUS
<1>1. TypeOK'
  BY DEF TrackerInv, TypeOK, BytesTypeOK, SetsTypeOK, EndPoll, RemainingBytes, kernelVars
<1>2. TableInv'
  BY DEF TrackerInv, TypeOK, BytesTypeOK, SetsTypeOK, TableInv, EndPoll
<1>3. BooksInv'
  <2> SUFFICES ASSUME NEW c \in Conns, ~reused[c] PROVE Balanced(c)'
    BY DEF EndPoll, BooksInv
  <2>1. Balanced(c) /\ TableInv
    BY DEF TrackerInv, BooksInv
  <2>2. CASE c \in tracked /\ ~seen[c]
    BY <2>1, <2>2 DEF TrackerInv, TypeOK, BytesTypeOK, SetsTypeOK, TableInv, Balanced,
                      EndPoll, RemainingBytes, kernelVars
  <2>3. CASE ~(c \in tracked /\ ~seen[c])
    BY <2>1, <2>3 DEF TrackerInv, TypeOK, BytesTypeOK, SetsTypeOK, Balanced, EndPoll, kernelVars
  <2> QED
    BY <2>2, <2>3
<1> QED
  BY <1>1, <1>2, <1>3 DEF TrackerInv

\* The kernel's steps leave the tracker alone; a key opened again while the
\* table may know it is marked as reused.
LEMMA KernelPreserves ==
  ASSUME TrackerInv, NEW d \in Conns, Open(d) \/ Transfer(d) \/ Close(d)
  PROVE  TrackerInv'
<1>1. TypeOK'
  <2>1. BytesTypeOK'
    BY DEF TrackerInv, TypeOK, BytesTypeOK, Open, Transfer, Close,
           trackerVars, pollVars, historyVars
  <2>2. reused' \in [Conns -> BOOLEAN]
    BY DEF TrackerInv, TypeOK, SetsTypeOK, Open, Transfer, Close, historyVars
  <2>3. SetsTypeOK'
    BY <2>2 DEF TrackerInv, TypeOK, SetsTypeOK, Open, Transfer, Close, trackerVars, pollVars
  <2> QED
    BY <2>1, <2>3 DEF TypeOK
<1>2. TableInv'
  BY DEF TrackerInv, TableInv, Open, Transfer, Close, trackerVars, pollVars
<1>3. BooksInv'
  <2> SUFFICES ASSUME NEW c \in Conns, ~reused'[c] PROVE Balanced(c)'
    BY DEF BooksInv
  <2>1. ~reused[c]
    BY DEF TrackerInv, TypeOK, SetsTypeOK, Open, Transfer, Close, historyVars
  <2>2. Balanced(c)
    BY <2>1 DEF TrackerInv, BooksInv
  <2>3. CASE Open(d)
    BY <2>2, <2>3 DEF TrackerInv, TypeOK, BytesTypeOK, SetsTypeOK, Balanced, Open,
                      trackerVars, pollVars
  <2>4. CASE Transfer(d)
    BY <2>2, <2>4 DEF TrackerInv, TypeOK, BytesTypeOK, SetsTypeOK, Balanced, Transfer,
                      trackerVars, pollVars
  <2>5. CASE Close(d)
    BY <2>2, <2>5 DEF TrackerInv, TypeOK, BytesTypeOK, SetsTypeOK, Balanced, Close,
                      trackerVars, pollVars, historyVars
  <2> QED
    BY <2>3, <2>4, <2>5
<1> QED
  BY <1>1, <1>2, <1>3 DEF TrackerInv

\* Every step preserves the invariant.
LEMMA NextPreserves == TrackerInv /\ [Next]_vars => TrackerInv'
<1> SUFFICES ASSUME TrackerInv, [Next]_vars PROVE TrackerInv'
  OBVIOUS
<1>1. CASE BeginPoll
  BY <1>1, BeginPollPreserves
<1>2. CASE EndPoll
  BY <1>2, EndPollPreserves
<1>3. ASSUME NEW c \in Conns, Observe(c) PROVE TrackerInv'
  BY <1>3, ObserveNewPreserves, ObserveKnownPreserves DEF Observe
<1>4. ASSUME NEW c \in Conns, Open(c) \/ Transfer(c) \/ Close(c) PROVE TrackerInv'
  BY <1>4, KernelPreserves
<1>5. CASE UNCHANGED vars
  BY <1>5 DEF TrackerInv, TypeOK, BytesTypeOK, SetsTypeOK, TableInv, BooksInv, Balanced,
              vars, trackerVars, pollVars, kernelVars, historyVars
<1> QED
  BY <1>1, <1>2, <1>3, <1>4, <1>5 DEF Next

\* The books of every key that was not reused are balanced in every state.
THEOREM TrackerInvariant == Spec => []TrackerInv
  BY InitEstablishes, NextPreserves, PTL DEF Spec

\* No subtraction of Observe or EndPoll goes below zero, for any number of
\* connections and any traffic.
THEOREM TypeCorrect == Spec => []TypeOK
<1>1. TrackerInv => TypeOK
  BY DEF TrackerInv
<1> QED
  BY <1>1, TrackerInvariant, PTL

\* EndPoll leaves exactly the connections of the latest snapshot in the table.
THEOREM TableBounded == Spec => []TableIsLastSnapshot
<1>1. TrackerInv => TableIsLastSnapshot
  BY DEF TrackerInv, TableInv, TableIsLastSnapshot
<1> QED
  BY <1>1, TrackerInvariant, PTL

\* Baseline, increments and closing flush report every byte a snapshot showed
\* exactly once, unless the key was opened again between two snapshots.
THEOREM EveryByteOnce == Spec => []ShownIsReportedOnce
<1>1. TrackerInv => ShownIsReportedOnce
  <2> SUFFICES ASSUME TrackerInv, poll = "idle", NEW c \in Conns, ~reused[c]
               PROVE  reported[c] + RemainingBytes(emitted[c], last[c]) = shown[c]
    BY DEF ShownIsReportedOnce
  <2>1. Balanced(c)
    BY DEF TrackerInv, BooksInv
  <2>2. c \in snapshot => last[c] = shot[c]
    BY DEF TrackerInv, TableInv
  <2> DEFINE r == reported[c]  e == emitted[c]  l == last[c]  s == shot[c]  w == shown[c]
  <2>3. /\ r \in Nat /\ e \in Nat /\ l \in Nat /\ s \in Nat /\ w \in Nat
        /\ e <= l
        /\ c \in snapshot => r + s = w + e /\ l = s
        /\ c \notin snapshot => r + l = w + e
    BY <2>1, <2>2 DEF TrackerInv, TypeOK, BytesTypeOK, Balanced
  <2> HIDE DEF r, e, l, s, w
  <2>4. r + RemainingBytes(e, l) = w
    BY <2>3 DEF RemainingBytes
  <2> QED
    BY <2>4 DEF r, e, l, w
<1> QED
  BY <1>1, TrackerInvariant, PTL
=============================================================================
