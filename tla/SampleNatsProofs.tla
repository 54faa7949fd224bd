--------------------------- MODULE SampleNatsProofs ---------------------------
(***************************************************************************)
(* Proofs about the traffic analyser, for rings of any capacity, any       *)
(* lengths and gaps, and any number of samples. What an analysis computes  *)
(* by folding the window is proved from an invariant of the analysis, one  *)
(* sample at a time.                                                       *)
(***************************************************************************)
EXTENDS SampleNats, SequenceTheorems, SetSums, TLAPS

-----------------------------------------------------------------------------
(***************************************************************************)
(* The ring                                                                *)
(***************************************************************************)

C == UE_HISTORY_CAPACITY

\* The slot k places after slot s.
After(s, k) == (s + k) % C

LEMMA SlotAfter ==
  ASSUME NEW s \in 0 .. C - 1, NEW k \in 0 .. C
  PROVE  After(s, k) = IF s + k < C THEN s + k ELSE s + k - C
<1>1. C \in Nat \ {0}
  BY NatsAssumption DEF C
<1> HIDE DEF C
<1> QED BY <1>1, SMT DEF After

RingTypes ==
  /\ history \in [0 .. C - 1 -> Samples \cup {NoSample}]
  /\ count \in 0 .. C /\ head \in 0 .. C - 1
  /\ clock \in Nat
  /\ seen \in Seq(Samples)

\* Until the ring is full, the slots are filled from the first on.
FilledInOrder == count < C => head = count

RingInv == RingTypes /\ WindowIsSuffix /\ FilledInOrder

LEMMA RingInit ==
  ASSUME Init PROVE RingInv
<1>1. C \in Nat \ {0}
  BY NatsAssumption DEF C
<1>2. RingTypes
  BY <1>1 DEF Init, RingTypes, C
<1> QED BY <1>1, <1>2 DEF Init, RingInv, WindowIsSuffix, FilledInOrder, C

\* Where the analyses look for sample i.
LEMMA SampleAtIs ==
  ASSUME RingTypes, NEW i \in 0 .. C - 1
  PROVE  /\ count < C => SampleAt(i) = history[i]
         /\ count = C => SampleAt(i) = history[After(head, i)]
<1>1. C \in Nat \ {0} /\ 0 \in 0 .. C - 1 /\ i \in 0 .. C
  BY NatsAssumption DEF C
<1>2. After(0, i) = i
  BY <1>1, SlotAfter
<1> QED BY <1>1, <1>2 DEF SampleAt, After, C, RingTypes

LEMMA RingKept ==
  ASSUME RingInv, NEW s \in Samples, AddSample(s), seen' = Append(seen, s), clock' \in Nat
  PROVE  RingInv'
<1> DEFINE n == Len(seen)
<1>c. C \in Nat \ {0}
  BY NatsAssumption DEF C
<1>t. /\ history \in [0 .. C - 1 -> Samples \cup {NoSample}] /\ count \in 0 .. C /\ head \in 0 .. C - 1
      /\ n \in Nat /\ count = IF n < C THEN n ELSE C
      /\ count < C => head = count
  BY DEF RingInv, RingTypes, WindowIsSuffix, FilledInOrder, C
<1>s. /\ seen' \in Seq(Samples) /\ Len(seen') = n + 1 /\ seen'[n + 1] = s
      /\ \A k \in 1 .. n : seen'[k] = seen[k]
  BY AppendProperties DEF RingInv, RingTypes
<1>a. /\ n \in Nat /\ count = (IF n < C THEN n ELSE C) /\ count \in Nat
      /\ head \in Nat /\ head < C /\ (n < C => head = n)
  BY <1>t, <1>c
<1> HIDE DEF n
<1>1. /\ history' = [history EXCEPT ![head] = s]
      /\ head' = After(head, 1)
      /\ count' = IF count < C THEN count + 1 ELSE count
  BY DEF AddSample, After, C
<1>2. head' = IF head + 1 < C THEN head + 1 ELSE 0
  <2>1. 1 \in 0 .. C
    BY <1>c
  <2> QED BY <2>1, <1>1, <1>t, <1>c, SlotAfter
<1>3. RingTypes'
  BY <1>1, <1>2, <1>s, <1>t, <1>c DEF RingTypes, C
<1>4. FilledInOrder'
  BY <1>1, <1>2, <1>t, <1>c DEF FilledInOrder, C
<1>5. count' = IF n + 1 < C THEN n + 1 ELSE C
  BY <1>1, <1>t, <1>c
<1>6. ASSUME NEW i \in 0 .. count' - 1 PROVE SampleAt(i)' = seen'[n + 1 - count' + 1 + i]
  <2>i. i \in 0 .. C - 1
    BY <1>5, <1>t, <1>c
  <2>a. /\ count' < C => SampleAt(i)' = history'[i]
        /\ count' = C => SampleAt(i)' = history'[After(head', i)]
    <3>1. /\ 0 \in 0 .. C - 1 /\ i \in 0 .. C
      BY <2>i, <1>c
    <3>2. After(0, i) = i
      BY <3>1, <2>i, <1>c, SlotAfter
    <3>3. (0 + i) % C = i /\ After(head', i) = (head' + i) % C
      BY <3>2 DEF After
    <3> QED BY <3>3, <1>c, <1>5, <1>t DEF SampleAt, C
  \* The ring is not full before.
  <2>1. CASE count < C
    <3>1. /\ n < C /\ count = n /\ head = n /\ count' = n + 1
      BY <2>1, <1>t, <1>5, <1>c
    <3>2. SampleAt(i)' = history'[i]
      <4>1. CASE count' < C
        BY <4>1, <2>a
      <4>2. CASE count' = C
        <5>0. head + 1 = C
          BY <4>2, <3>1
        <5>1. head' = 0
          BY <5>0, <1>2, <1>c
        <5>2. After(head', i) = i
          <6>1. 0 \in 0 .. C - 1 /\ i \in 0 .. C
            BY <2>i, <1>c
          <6> QED BY <5>1, <6>1, <2>i, <1>c, SlotAfter
        <5> QED BY <4>2, <5>2, <2>a
      <4> QED BY <4>1, <4>2, <3>1, <1>c, <1>t
    <3>3. n + 1 - count' + 1 + i = i + 1
      BY <3>1, <1>t, <2>i
    <3>4. CASE i = n
      BY <3>4, <3>1, <3>2, <3>3, <1>1, <1>s, <1>t
    <3>5. CASE i < n
      <4>1. i \in 0 .. count - 1 /\ i # head /\ i + 1 \in 1 .. n /\ Oldest + i = i + 1
        BY <3>1, <3>5, <2>i, <1>t DEF Oldest, n
      <4>2. SampleAt(i) = seen[Oldest + i]
        BY <4>1 DEF RingInv, WindowIsSuffix
      <4>3. SampleAt(i) = history[i]
        BY <2>1, <2>i, SampleAtIs DEF RingInv
      <4>4. history'[i] = history[i]
        BY <4>1, <2>i, <1>1, <1>t
      <4>5. seen'[i + 1] = seen[i + 1]
        BY <4>1, <1>s
      <4> QED BY <4>1, <4>2, <4>3, <4>4, <4>5, <3>2, <3>3
    <3>6. i = n \/ i < n
      BY <3>1, <1>a
    <3> QED BY <3>4, <3>5, <3>6
  \* The ring is full: the oldest sample gives way.
  <2>2. CASE count = C
    <3>1. count' = C /\ n >= C /\ n + 1 - count' + 1 + i = n - C + 2 + i
      BY <2>2, <1>1, <1>a, <1>c, <2>i
    <3>2. SampleAt(i)' = history'[After(head', i)]
      BY <3>1, <2>a
    <3>3. /\ After(head', i) = IF head' + i < C THEN head' + i ELSE head' + i - C
          /\ head' \in 0 .. C - 1
      <4>1. head' \in 0 .. C - 1 /\ i \in 0 .. C
        BY <1>2, <1>t, <1>c, <2>i
      <4> QED BY <4>1, SlotAfter
    <3>4. CASE i = C - 1
      <4>1. After(head', i) = head
        BY <3>3, <3>4, <1>2, <1>t, <1>c
      <4>2. n + 1 - count' + 1 + i = n + 1
        BY <3>1, <3>4, <1>t, <1>c
      <4> QED BY <4>1, <4>2, <3>2, <1>1, <1>s, <1>t
    <3>5. CASE i < C - 1
      <4>1. i + 1 \in 0 .. C - 1 /\ i + 1 \in 0 .. C /\ i + 1 \in 0 .. count - 1
        BY <3>5, <2>2, <2>i, <1>c
      <4>2. After(head, i + 1) = IF head + (i + 1) < C THEN head + (i + 1) ELSE head + (i + 1) - C
        BY <4>1, <1>t, SlotAfter
      <4>3. After(head', i) = After(head, i + 1) /\ After(head', i) # head
            /\ After(head', i) \in 0 .. C - 1
        BY <3>3, <3>5, <4>2, <1>2, <1>t, <1>c, <2>i
      <4>4. SampleAt(i + 1) = history[After(head, i + 1)]
        BY <4>1, <2>2, SampleAtIs DEF RingInv
      <4>5. SampleAt(i + 1) = seen[Oldest + (i + 1)]
        BY <4>1 DEF RingInv, WindowIsSuffix
      <4>6. Oldest + (i + 1) = n - C + 2 + i /\ n - C + 2 + i \in 1 .. n
        BY <3>1, <3>5, <2>2, <2>i, <1>t, <1>c DEF Oldest, n
      <4> QED BY <3>1, <3>2, <4>3, <4>4, <4>5, <4>6, <1>1, <1>s, <1>t
    <3>6. i = C - 1 \/ i < C - 1
      BY <2>i, <1>c
    <3> QED BY <3>4, <3>5, <3>6
  <2> QED BY <2>1, <2>2, <1>t
<1>7. WindowIsSuffix'
  <2>1. Oldest' = n + 1 - count' + 1
    BY <1>s, <1>a, <1>5, <1>c DEF Oldest
  <2> QED BY <2>1, <1>5, <1>6, <1>s DEF WindowIsSuffix, C, n
<1> QED BY <1>3, <1>4, <1>7 DEF RingInv

\* The steps that leave the ring alone.
LEMMA RingLeft ==
  ASSUME RingInv, UNCHANGED <<ring, clock, seen>> PROVE RingInv'
BY DEF RingInv, RingTypes, WindowIsSuffix, FilledInOrder, SampleAt, Oldest, ring

LEMMA RingStep ==
  ASSUME RingInv, [Next]_vars PROVE RingInv'
<1>1. ASSUME NEW gap \in Gaps, NEW qos \in {0, 2}, NEW len \in FrameLens, HandleSample(gap, qos, len)
      PROVE  RingInv'
  <2> DEFINE s == [timestamp |-> clock + gap, qos |-> qos, frame_len |-> len]
  <2>1. clock + gap \in Nat /\ s \in Samples
    BY NatsAssumption DEF RingInv, RingTypes, Samples
  <2>2. AddSample(s) /\ seen' = Append(seen, s) /\ clock' = clock + gap
    BY <1>1 DEF HandleSample
  <2> HIDE DEF s
  <2> QED BY <2>1, <2>2, RingKept
<1>2. CASE Subscribe \/ OpenSocket \/ FillAddress \/ OpenRawLog \/ OpenAnalysisLog
  BY <1>2, RingLeft DEF Subscribe, OpenSocket, FillAddress, OpenRawLog, OpenAnalysisLog, MainStep
<1>3. CASE LogRaw \/ LogAnalysis \/ SendStartBsr
  BY <1>3, RingLeft DEF LogRaw, LogAnalysis, SendStartBsr
<1>4. CASE UNCHANGED vars
  BY <1>4, RingLeft DEF vars
<1> QED BY <1>1, <1>2, <1>3, <1>4 DEF Next

\* However often the ring goes round, the analyses see the last samples, oldest first.
THEOREM NatsWindow == Spec => []WindowIsSuffix
<1>1. Init => RingInv
  BY RingInit
<1>2. RingInv /\ [Next]_vars => RingInv'
  BY RingStep
<1>3. RingInv => WindowIsSuffix
  BY DEF RingInv
<1> QED BY <1>1, <1>2, <1>3, PTL DEF Spec

-----------------------------------------------------------------------------
(***************************************************************************)
(* The logs and the commands                                               *)
(***************************************************************************)

\* main() opens the channel, then the logs, one after the other; each may stay closed.
OpenedInOrder ==
  /\ control_sock => main \notin {"subscribe", "socket"}
  /\ main = "address" => control_sock
  /\ control_addr <=> control_sock /\ main # "address"
  /\ raw_log => main \in {"analysis_log", "sleep"}
  /\ analysis_log => main = "sleep"

RowTypes ==
  /\ handler \in {"idle", "raw", "analysis", "send"}
  /\ raw_rows \in Seq(Nat) /\ analysis_rows \in Seq(Nat)
  /\ \E S : commands \in Seq(S)

\* A sample has its row in the raw log first, then in the other, then its command.
RowsAhead ==
  /\ raw_rows # <<>> => raw_log
  /\ analysis_rows # <<>> => analysis_log
  /\ Finished(raw_rows, {"idle", "analysis", "send"})
  /\ Finished(analysis_rows, {"idle", "send"})
  /\ control_sock =>
       /\ Len(raw_rows) <= Len(commands) + IF raw_log /\ handler \in {"analysis", "send"} THEN 1 ELSE 0
       /\ Len(analysis_rows) <= Len(commands) + IF analysis_log /\ handler = "send" THEN 1 ELSE 0
  /\ raw_log => Len(analysis_rows) <= Len(raw_rows) + IF handler = "analysis" THEN 0 ELSE 1

LogsInv == OpenedInOrder /\ RowTypes /\ RowsAhead

LEMMA LogsInit ==
  ASSUME Init PROVE LogsInv
<1>1. <<>> \in Seq(Nat)
  OBVIOUS
<1> QED BY <1>1 DEF Init, LogsInv, OpenedInOrder, RowTypes, RowsAhead, Finished, UpTo

\* A row more of the newest sample.
LEMMA RowAdded ==
  ASSUME NEW rows1 \in Seq(Nat), NEW k \in Nat,
         UpTo(rows1, IF rows1 = <<>> THEN k ELSE k - 1)
  PROVE  /\ Append(rows1, k) \in Seq(Nat) /\ Len(Append(rows1, k)) = Len(rows1) + 1
         /\ Append(rows1, k) # <<>> /\ UpTo(Append(rows1, k), k)
<1>1. /\ Append(rows1, k) \in Seq(Nat) /\ Len(Append(rows1, k)) = Len(rows1) + 1
      /\ Append(rows1, k)[Len(rows1) + 1] = k
      /\ \A i \in 1 .. Len(rows1) : Append(rows1, k)[i] = rows1[i]
  BY AppendProperties
<1>2. Len(rows1) \in Nat /\ DOMAIN rows1 = 1 .. Len(rows1)
  OBVIOUS
<1>3. ASSUME NEW i \in 1 .. Len(rows1) + 1
      PROVE  Append(rows1, k)[i] = k - (Len(rows1) + 1) + i
  <2>1. CASE i = Len(rows1) + 1
    BY <2>1, <1>1, <1>2
  <2>2. CASE i # Len(rows1) + 1
    <3>1. i \in 1 .. Len(rows1) /\ rows1 # <<>>
      BY <2>2, <1>2
    <3>2. rows1[i] = k - 1 - Len(rows1) + i
      BY <3>1, <1>2 DEF UpTo
    <3> QED BY <3>1, <3>2, <1>1, <1>2
  <2> QED BY <2>1, <2>2
<1>4. DOMAIN Append(rows1, k) = 1 .. Len(rows1) + 1
  BY <1>1
<1> QED BY <1>1, <1>2, <1>3, <1>4 DEF UpTo

LEMMA LogsKept ==
  ASSUME RingInv, LogsInv, [Next]_vars PROVE LogsInv'
<1> USE DEF LogsInv
<1>t. /\ handler \in {"idle", "raw", "analysis", "send"}
      /\ raw_rows \in Seq(Nat) /\ analysis_rows \in Seq(Nat)
      /\ Len(raw_rows) \in Nat /\ Len(analysis_rows) \in Nat /\ Len(seen) \in Nat
  BY DEF RowTypes, RingInv, RingTypes
<1>c. Len(commands) \in Nat
  <2> PICK S : commands \in Seq(S)
    BY DEF RowTypes
  <2> QED OBVIOUS
\* The steps of main(): they leave the rows alone, and what they open has none yet.
<1> DEFINE RowsLeft ==
             /\ UNCHANGED <<handler, seen, raw_rows, analysis_rows, commands>>
             /\ control_sock' = control_sock \/ (raw_rows = <<>> /\ analysis_rows = <<>>)
             /\ raw_log' = raw_log \/ (raw_rows = <<>> /\ analysis_rows = <<>>)
             /\ analysis_log' = analysis_log \/ analysis_rows = <<>>
<1>1. ASSUME RowsLeft, OpenedInOrder'
      PROVE  LogsInv'
  <2>1. RowTypes'
    BY <1>1 DEF RowTypes
  <2>2. RowsAhead'
    <3>1. (raw_rows # <<>> => raw_log)' /\ (analysis_rows # <<>> => analysis_log)'
      BY <1>1 DEF RowsAhead
    <3>2. /\ Finished(raw_rows, {"idle", "analysis", "send"})'
          /\ Finished(analysis_rows, {"idle", "send"})'
      BY <1>1 DEF RowsAhead, Finished, UpTo
    <3> QED BY <3>1, <3>2, <1>1, <1>t, <1>c DEF RowsAhead
  <2> QED BY <2>1, <2>2, <1>1
<1>2. CASE Subscribe
  <2>1. OpenedInOrder'
    BY <1>2 DEF Subscribe, MainStep, OpenedInOrder, channel, logs
  <2>2. RowsLeft
    BY <1>2 DEF Subscribe, MainStep, rows, channel, logs
  <2> QED BY <1>1, <2>1, <2>2
<1>3. CASE OpenSocket
  <2>1. raw_rows = <<>> /\ analysis_rows = <<>>
    BY <1>3 DEF OpenSocket, MainStep, OpenedInOrder, RowsAhead
  <2>2. OpenedInOrder'
    BY <1>3 DEF OpenSocket, MainStep, OpenedInOrder, logs
  <2>3. RowsLeft
    BY <1>3, <2>1 DEF OpenSocket, MainStep, rows, logs
  <2> QED BY <1>1, <2>2, <2>3
<1>4. CASE FillAddress
  <2>1. OpenedInOrder'
    BY <1>4 DEF FillAddress, MainStep, OpenedInOrder, logs
  <2>2. RowsLeft
    BY <1>4 DEF FillAddress, MainStep, rows, logs
  <2> QED BY <1>1, <2>1, <2>2
<1>5. CASE OpenRawLog
  <2>1. raw_rows = <<>> /\ analysis_rows = <<>>
    BY <1>5 DEF OpenRawLog, MainStep, OpenedInOrder, RowsAhead
  <2>2. OpenedInOrder'
    BY <1>5 DEF OpenRawLog, MainStep, OpenedInOrder, channel
  <2>3. RowsLeft
    BY <1>5, <2>1 DEF OpenRawLog, MainStep, rows, channel
  <2> QED BY <1>1, <2>2, <2>3
<1>6. CASE OpenAnalysisLog
  <2>1. analysis_rows = <<>>
    BY <1>6 DEF OpenAnalysisLog, MainStep, OpenedInOrder, RowsAhead
  <2>2. OpenedInOrder'
    BY <1>6 DEF OpenAnalysisLog, MainStep, OpenedInOrder, channel
  <2>3. RowsLeft
    BY <1>6, <2>1 DEF OpenAnalysisLog, MainStep, rows, channel
  <2> QED BY <1>1, <2>2, <2>3
<1> HIDE DEF RowsLeft
\* The steps of the handler.
<1>o. ASSUME NEW from, NEW to, HandlerStep(from, to)
      PROVE  /\ OpenedInOrder' /\ control_sock' = control_sock
             /\ raw_log' = raw_log /\ analysis_log' = analysis_log
  BY <1>o DEF HandlerStep, OpenedInOrder, channel, logs
<1>7. ASSUME NEW gap \in Gaps, NEW qos \in {0, 2}, NEW len \in FrameLens, HandleSample(gap, qos, len)
      PROVE  LogsInv'
  <2> PICK s : seen' = Append(seen, s) /\ s \in Samples
    <3>1. clock + gap \in Nat
      BY NatsAssumption DEF RingInv, RingTypes
    <3> QED BY <3>1, <1>7 DEF HandleSample, Samples
  <2>1. Len(seen') = Len(seen) + 1
    BY AppendProperties DEF RingInv, RingTypes
  <2>2. /\ handler = "idle" /\ handler' = "raw"
        /\ raw_rows' = raw_rows /\ analysis_rows' = analysis_rows /\ commands' = commands
        /\ OpenedInOrder' /\ control_sock' = control_sock
        /\ raw_log' = raw_log /\ analysis_log' = analysis_log
    BY <1>7, <1>o DEF HandleSample, HandlerStep, rows
  <2>3. /\ UpTo(raw_rows, Len(seen)) /\ UpTo(analysis_rows, Len(seen))
    BY <2>2 DEF RowsAhead, Finished
  <2>4. /\ Finished(raw_rows, {"idle", "analysis", "send"})'
        /\ Finished(analysis_rows, {"idle", "send"})'
    BY <2>1, <2>2, <2>3, <1>t DEF Finished, UpTo
  <2>5. RowTypes'
    BY <2>2 DEF RowTypes
  <2> QED BY <2>2, <2>4, <2>5, <1>t, <1>c DEF RowsAhead
<1>8. CASE LogRaw
  <2>1. /\ handler = "raw" /\ handler' = "analysis" /\ seen' = seen
        /\ raw_rows' = (IF raw_log THEN Append(raw_rows, Len(seen)) ELSE raw_rows)
        /\ analysis_rows' = analysis_rows /\ commands' = commands
        /\ OpenedInOrder' /\ control_sock' = control_sock
        /\ raw_log' = raw_log /\ analysis_log' = analysis_log
    BY <1>8, <1>o DEF LogRaw, HandlerStep
  <2>2. UpTo(raw_rows, IF raw_rows = <<>> THEN Len(seen) ELSE Len(seen) - 1)
    BY <2>1 DEF RowsAhead, Finished
  <2>3. CASE raw_log
    <3>1. /\ raw_rows' \in Seq(Nat) /\ Len(raw_rows') = Len(raw_rows) + 1
          /\ UpTo(raw_rows', Len(seen))
      BY <2>1, <2>2, <2>3, <1>t, RowAdded
    <3>2. RowTypes'
      BY <3>1, <2>1 DEF RowTypes
    <3>3. /\ Finished(raw_rows, {"idle", "analysis", "send"})'
          /\ Finished(analysis_rows, {"idle", "send"})'
      BY <3>1, <2>1 DEF RowsAhead, Finished
    <3> QED BY <3>1, <3>2, <3>3, <2>1, <2>3, <1>t, <1>c DEF RowsAhead
  <2>4. CASE ~raw_log
    <3>1. raw_rows = <<>> /\ raw_rows' = <<>>
      BY <2>1, <2>4 DEF RowsAhead
    <3>2. RowsAhead'
      BY <3>1, <2>1, <1>t, <1>c DEF RowsAhead, Finished, UpTo
    <3> QED BY <3>1, <3>2, <2>1, <1>t DEF RowTypes
  <2> QED BY <2>3, <2>4
<1>9. CASE LogAnalysis
  <2>1. /\ handler = "analysis" /\ handler' = "send" /\ seen' = seen
        /\ analysis_rows' = (IF analysis_log THEN Append(analysis_rows, Len(seen)) ELSE analysis_rows)
        /\ raw_rows' = raw_rows /\ commands' = commands
        /\ OpenedInOrder' /\ control_sock' = control_sock
        /\ raw_log' = raw_log /\ analysis_log' = analysis_log
    BY <1>9, <1>o DEF LogAnalysis, HandlerStep
  <2>2. /\ UpTo(analysis_rows, IF analysis_rows = <<>> THEN Len(seen) ELSE Len(seen) - 1)
        /\ Finished(raw_rows, {"idle", "analysis", "send"})'
    BY <2>1 DEF RowsAhead, Finished
  <2>3. CASE analysis_log
    <3>1. /\ analysis_rows' \in Seq(Nat) /\ Len(analysis_rows') = Len(analysis_rows) + 1
          /\ UpTo(analysis_rows', Len(seen))
      BY <2>1, <2>2, <2>3, <1>t, RowAdded
    <3>2. RowTypes'
      BY <3>1, <2>1 DEF RowTypes
    <3>3. Finished(analysis_rows, {"idle", "send"})'
      BY <3>1, <2>1 DEF Finished
    <3> QED BY <3>1, <3>2, <3>3, <2>1, <2>2, <2>3, <1>t, <1>c DEF RowsAhead
  <2>4. CASE ~analysis_log
    <3>1. analysis_rows = <<>> /\ analysis_rows' = <<>>
      BY <2>1, <2>4 DEF RowsAhead
    <3>2. RowsAhead'
      BY <3>1, <2>1, <2>2, <1>t, <1>c DEF RowsAhead, Finished, UpTo
    <3> QED BY <3>1, <3>2, <2>1, <1>t DEF RowTypes
  <2> QED BY <2>3, <2>4
<1>10. CASE SendStartBsr
  <2>1. /\ handler = "send" /\ handler' = "idle" /\ seen' = seen
        /\ raw_rows' = raw_rows /\ analysis_rows' = analysis_rows
        /\ OpenedInOrder' /\ control_sock' = control_sock
        /\ raw_log' = raw_log /\ analysis_log' = analysis_log
    BY <1>10, <1>o DEF SendStartBsr, HandlerStep, rows
  <2>2. /\ Finished(raw_rows, {"idle", "analysis", "send"})'
        /\ Finished(analysis_rows, {"idle", "send"})'
    BY <2>1 DEF RowsAhead, Finished
  <2>3. /\ \E S : commands' \in Seq(S)
        /\ Len(commands') = IF control_sock /\ control_addr THEN Len(commands) + 1 ELSE Len(commands)
    <3> PICK S : commands \in Seq(S)
      BY DEF RowTypes
    <3> DEFINE x == [sample |-> Len(seen), bsr_value |-> bsr]
    <3>1. commands' = IF control_sock /\ control_addr THEN Append(commands, x) ELSE commands
      BY <1>10 DEF SendStartBsr
    <3>2. x \in S \cup {x}
      OBVIOUS
    <3> HIDE DEF x
    <3>3. commands \in Seq(S \cup {x})
      BY SeqMonotonic
    <3>4. Append(commands, x) \in Seq(S \cup {x}) /\ Len(Append(commands, x)) = Len(commands) + 1
      BY <3>2, <3>3, AppendProperties
    <3> QED BY <3>1, <3>3, <3>4
  <2>4. (raw_log \/ analysis_log) /\ control_sock => control_addr
    BY DEF OpenedInOrder
  <2> QED BY <2>1, <2>2, <2>3, <2>4, <1>t, <1>c DEF RowTypes, RowsAhead
<1>11. CASE UNCHANGED vars
  BY <1>11 DEF vars, channel, logs, rows, OpenedInOrder, RowTypes, RowsAhead, Finished, UpTo
<1> QED BY <1>2, <1>3, <1>4, <1>5, <1>6, <1>7, <1>8, <1>9, <1>10, <1>11 DEF Next

\* Each log misses no row once it has begun; with a socket no sample has a row but no
\* command; with the raw log open the analysis log is ahead of it by one row at most.
THEOREM NatsLogs == Spec => []LogsFollowCommands
<1>1. Init => RingInv /\ LogsInv
  BY RingInit, LogsInit
<1>2. RingInv /\ LogsInv /\ [Next]_vars => (RingInv /\ LogsInv)'
  BY RingStep, LogsKept
<1>3. RingInv /\ LogsInv => LogsFollowCommands
  <2> SUFFICES ASSUME RingInv, LogsInv PROVE LogsFollowCommands
    OBVIOUS
  <2>1. Len(raw_rows) \in Nat /\ Len(analysis_rows) \in Nat /\ Len(commands) \in Nat
    <3> PICK S : commands \in Seq(S)
      BY DEF LogsInv, RowTypes
    <3> QED BY DEF LogsInv, RowTypes
  <2> QED BY <2>1 DEF LogsInv, RowsAhead, LogsFollowCommands
<1> QED BY <1>1, <1>2, <1>3, PTL DEF Spec

-----------------------------------------------------------------------------
(***************************************************************************)
(* Folds over a window                                                     *)
(***************************************************************************)

\* What holds at the first of an interval of numbers, and with each for the next, holds
\* for all.
LEMMA UpFrom ==
  ASSUME NEW a \in Nat, NEW n \in Nat, NEW T, a \in T,
         \A m \in a .. n : m \in T /\ m < n => m + 1 \in T
  PROVE  a .. n \subseteq T
<1> DEFINE bad == {m \in a .. n : m \notin T}
<1> SUFFICES ASSUME bad # {} PROVE FALSE
  OBVIOUS
<1>1. PICK m \in bad : \A k \in bad : m <= k
  <2>1. bad \in SUBSET Nat
    OBVIOUS
  <2> HIDE DEF bad
  <2> QED BY <2>1, LeastElement
<1>2. m \in a .. n /\ m \notin T /\ m # a
  OBVIOUS
<1>3. m - 1 \in a .. n /\ m - 1 < n /\ m - 1 \notin bad
  <2>1. m - 1 \in a .. n /\ m - 1 < n
    BY <1>2
  <2> HIDE DEF bad
  <2> QED BY <1>1, <1>2, <2>1
<1>4. (m - 1) + 1 = m /\ m - 1 \in T
  BY <1>2, <1>3
<1> QED BY <1>2, <1>3, <1>4

\* The greatest member of a set of numbers, and of an interval.
LEMMA MaxIn ==
  ASSUME NEW n \in Nat, NEW s \in SUBSET (1 .. n), s # {}
  PROVE  Max(s) \in s /\ \A k \in s : k <= Max(s)
<1> DEFINE T == {n - k : k \in s}
<1>1. T \in SUBSET Nat /\ T # {}
  <2>1. \A k \in s : k \in Nat /\ k <= n
    OBVIOUS
  <2>2. \A k \in s : n - k \in Nat
    BY <2>1
  <2> QED BY <2>2
<1>2. PICK t \in T : \A u \in T : t <= u
  <2> HIDE DEF T
  <2> QED BY <1>1, LeastElement
<1>3. PICK k \in s : t = n - k
  BY <1>2
<1>4. ASSUME NEW y \in s PROVE k >= y
  <2>1. n - y \in T
    OBVIOUS
  <2>2. t <= n - y
    <3> HIDE DEF T
    <3> QED BY <1>2, <2>1
  <2> QED BY <1>3, <2>2
<1>5. \E x \in s : \A y \in s : x >= y
  BY <1>4
<1>6. Max(s) \in s /\ \A y \in s : Max(s) >= y
  BY <1>5 DEF Max
<1> QED BY <1>6

LEMMA MaxOfInterval ==
  ASSUME NEW n \in Nat, NEW m \in 1 .. n
  PROVE  Max(1 .. m) = m /\ (1 .. m) \ {m} = 1 .. (m - 1)
<1>1. m \in Nat /\ (1 .. m) \in SUBSET (1 .. m) /\ 1 .. m # {} /\ m \in 1 .. m
  OBVIOUS
<1>2. Max(1 .. m) \in 1 .. m /\ \A k \in 1 .. m : k <= Max(1 .. m)
  BY <1>1, MaxIn
<1> QED BY <1>1, <1>2

\* g is the table of a fold of F, one element of w after the other, over the sets of its
\* places, as FoldLeft has it.
FoldTable(g, F, base, w, S) ==
  g = [s \in S |-> IF s = {} THEN base ELSE F[<<g[s \ {Max(s)}], w[Max(s)]>>]]

\* There is one.
LEMMA FoldTableExists ==
  ASSUME NEW n \in Nat, NEW w, NEW F, NEW base
  PROVE  \E g : FoldTable(g, F, base, w, SUBSET (1 .. n))
<1> DEFINE S == 1 .. n
           Upto(m) == {s \in SUBSET S : Cardinality(s) <= m}
           good == {m \in Nat : \E g : FoldTable(g, F, base, w, Upto(m))}
<1>1. /\ \A s \in SUBSET S : IsFiniteSet(s) /\ Cardinality(s) \in Nat
      /\ Cardinality(S) = n
  <2>1. IsFiniteSet(S) /\ Cardinality(S) = n
    BY FS_Interval
  <2> QED BY <2>1, FS_Subset, FS_CardinalityType
<1>2. ASSUME NEW s \in SUBSET S, s # {}
      PROVE  s \ {Max(s)} \in SUBSET S /\ Cardinality(s \ {Max(s)}) = Cardinality(s) - 1
  BY <1>1, <1>2, MaxIn, FS_RemoveElement
<1>3. 0 \in good
  <2> DEFINE z == [s \in Upto(0) |-> base]
  <2>1. \A s \in Upto(0) : s = {}
    BY <1>1, FS_EmptySet
  <2>2. FoldTable(z, F, base, w, Upto(0))
    BY <2>1 DEF FoldTable
  <2> QED BY <2>2
<1>4. ASSUME NEW m \in Nat, m \in good PROVE m + 1 \in good
  <2>1. PICK g : FoldTable(g, F, base, w, Upto(m))
    BY <1>4
  <2> DEFINE h == [s \in Upto(m + 1) |-> IF s = {} THEN base
                                         ELSE F[<<g[s \ {Max(s)}], w[Max(s)]>>]]
  <2>2. ASSUME NEW s \in Upto(m + 1), s # {}
        PROVE  h[s \ {Max(s)}] = g[s \ {Max(s)}]
    <3>1. s \in SUBSET S /\ Cardinality(s) <= m + 1
      OBVIOUS
    <3>2. s \ {Max(s)} \in Upto(m) /\ s \ {Max(s)} \in Upto(m + 1)
      <4>1. s \ {Max(s)} \in SUBSET S /\ Cardinality(s \ {Max(s)}) = Cardinality(s) - 1
        BY <1>2, <2>2, <3>1
      <4>2. Cardinality(s) \in Nat
        BY <1>1, <3>1
      <4>3. Cardinality(s \ {Max(s)}) <= m /\ Cardinality(s \ {Max(s)}) <= m + 1
        BY <3>1, <4>1, <4>2
      <4> QED BY <4>1, <4>3
    <3>3. \A t \in Upto(m) : g[t] = IF t = {} THEN base ELSE F[<<g[t \ {Max(t)}], w[Max(t)]>>]
      BY <2>1 DEF FoldTable
    <3> QED BY <3>2, <3>3
  <2>3. \A s \in Upto(m + 1) :
          (IF s = {} THEN base ELSE F[<<g[s \ {Max(s)}], w[Max(s)]>>])
          = (IF s = {} THEN base ELSE F[<<h[s \ {Max(s)}], w[Max(s)]>>])
    BY <2>2
  <2>4. FoldTable(h, F, base, w, Upto(m + 1))
    BY <2>3 DEF FoldTable
  <2>5. \E g1 : FoldTable(g1, F, base, w, Upto(m + 1))
    <3> HIDE DEF h, Upto
    <3> QED BY <2>4
  <2>6. m + 1 \in Nat
    OBVIOUS
  <2> HIDE DEF h, Upto
  <2> QED BY <2>5, <2>6
<1>5. n \in good
  <2>1. \A m \in 0 .. n : m \in good /\ m < n => m + 1 \in good
    <3> HIDE DEF good
    <3> QED BY <1>4
  <2> HIDE DEF good
  <2>2. 0 .. n \subseteq good
    BY <1>3, <2>1, UpFrom
  <2> QED BY <2>2
<1>6. Upto(n) = SUBSET S
  <2>1. ASSUME NEW s \in SUBSET S PROVE Cardinality(s) <= n
    BY <1>1, FS_Subset
  <2> QED BY <2>1
<1> QED
  BY <1>5, <1>6

\* F takes values in X and elements in Y.
Returns(F, X, Y) == \A x \in X, y \in Y : F[<<x, y>>] \in X

\* A has the intermediate results of the fold, values in X.
FoldSteps(A, F, base, w, n, X, end) ==
  /\ A \in [0 .. n -> X] /\ A[0] = base /\ A[n] = end
  /\ \A m \in 1 .. n : A[m] = F[<<A[m - 1], w[m]>>]

\* A fold of F stays among the values F returns, and takes the elements in their order.
LEMMA FoldTableSteps ==
  ASSUME NEW X, NEW Y, NEW F, Returns(F, X, Y), NEW base \in X,
         NEW n \in Nat, NEW w \in [1 .. n -> Y],
         NEW g, FoldTable(g, F, base, w, SUBSET (1 .. n))
  PROVE  /\ \A s \in SUBSET (1 .. n) : g[s] \in X
         /\ \E A : FoldSteps(A, F, base, w, n, X, g[1 .. n])
<1>1. \A s \in SUBSET (1 .. n) :
        g[s] = IF s = {} THEN base ELSE F[<<g[s \ {Max(s)}], w[Max(s)]>>]
  BY DEF FoldTable
<1> DEFINE good == {m \in Nat : \A s \in SUBSET (1 .. m) : s \subseteq 1 .. n => g[s] \in X}
<1>2. 0 \in good
  <2>1. ASSUME NEW s \in SUBSET (1 .. 0), s \subseteq 1 .. n PROVE g[s] \in X
    <3>1. s = {}
      OBVIOUS
    <3> QED BY <3>1, <1>1, <2>1
  <2> QED BY <2>1
<1>3. ASSUME NEW m \in 0 .. n, m \in good, m < n PROVE m + 1 \in good
  <2>1. ASSUME NEW s \in SUBSET (1 .. (m + 1)), s \subseteq 1 .. n, s # {} PROVE g[s] \in X
    <3>1. m + 1 \in Nat
      OBVIOUS
    <3>2. Max(s) \in s /\ \A k \in s : k <= Max(s)
      BY <2>1, <3>1, MaxIn
    <3>3. ASSUME NEW k \in s \ {Max(s)} PROVE k \in 1 .. m
      <4>1. k \in s /\ k # Max(s) /\ k <= Max(s) /\ Max(s) \in 1 .. (m + 1) /\ k \in 1 .. (m + 1)
        BY <3>2, <3>3
      <4> QED BY <4>1
    <3>4. s \ {Max(s)} \in SUBSET (1 .. m) /\ s \ {Max(s)} \subseteq 1 .. n
      BY <2>1, <3>3
    <3>5. g[s \ {Max(s)}] \in X /\ w[Max(s)] \in Y
      BY <1>3, <2>1, <3>2, <3>4
    <3>6. s \in SUBSET (1 .. n)
      BY <2>1
    <3>7. g[s] = F[<<g[s \ {Max(s)}], w[Max(s)]>>]
      BY <1>1, <2>1, <3>6
    <3> QED BY <3>5, <3>7 DEF Returns
  <2>2. g[{}] \in X
    BY <1>1
  <2>3. \A s \in SUBSET (1 .. (m + 1)) : s \subseteq 1 .. n => g[s] \in X
    BY <2>1, <2>2
  <2>4. m + 1 \in Nat
    OBVIOUS
  <2> QED BY <2>3, <2>4
<1>4. n \in good
  <2> HIDE DEF good
  <2>1. \A m \in 0 .. n : m \in good /\ m < n => m + 1 \in good
    BY <1>3
  <2>2. 0 .. n \subseteq good
    BY <1>2, <2>1, UpFrom
  <2> QED BY <2>2
<1>5. \A s \in SUBSET (1 .. n) : g[s] \in X
  BY <1>4
<1> DEFINE A == [m \in 0 .. n |-> g[1 .. m]]
<1>6. A \in [0 .. n -> X]
  <2>1. ASSUME NEW m \in 0 .. n PROVE 1 .. m \in SUBSET (1 .. n)
    <3>1. \A k \in 1 .. m : k \in 1 .. n
      OBVIOUS
    <3> QED BY <3>1
  <2> QED BY <1>5, <2>1
<1>7. A[0] = base /\ A[n] = g[1 .. n]
  <2>1. 1 .. 0 = {} /\ 0 \in 0 .. n /\ n \in 0 .. n
    OBVIOUS
  <2> QED BY <1>1, <2>1
<1>8. ASSUME NEW m \in 1 .. n PROVE A[m] = F[<<A[m - 1], w[m]>>]
  <2>1. m \in 0 .. n /\ m - 1 \in 0 .. n
    OBVIOUS
  <2>2. 1 .. m \in SUBSET (1 .. n) /\ 1 .. m # {}
    <3>1. m \in 1 .. m /\ \A k \in 1 .. m : k \in 1 .. n
      OBVIOUS
    <3> QED BY <3>1
  <2>3. Max(1 .. m) = m /\ (1 .. m) \ {m} = 1 .. (m - 1)
    BY MaxOfInterval
  <2>4. g[1 .. m] = F[<<g[1 .. (m - 1)], w[m]>>]
    BY <1>1, <2>2, <2>3
  <2> QED BY <2>1, <2>4
<1> HIDE DEF A
<1>9. FoldSteps(A, F, base, w, n, X, g[1 .. n])
  BY <1>6, <1>7, <1>8 DEF FoldSteps
<1> QED
  BY <1>5, <1>9

-----------------------------------------------------------------------------
(***************************************************************************)
(* The two analyses, one sample at a time                                  *)
(***************************************************************************)

Analysis ==
  [normal : Seq(Int), last_qos0_time : Int, in_burst : BOOLEAN, burst_start_time : Int,
   burst_end_time : Int, burst_message_count : Nat, max_len : Nat]

LEMMA EmptyTyped == Empty \in Analysis
BY DEF Empty, Analysis, NoTime

\* What the next sample does to a part of the result.
LEMMA AnalyzeSampleIs ==
  ASSUME NEW a \in Analysis, NEW s \in Samples
  PROVE  LET r == AnalyzeSample(a, s)
         IN  /\ r \in Analysis
             /\ r.max_len = Larger(a.max_len, s.frame_len)
             /\ s.qos = 0 =>
                  /\ r.normal = IF a.last_qos0_time # NoTime /\ ~a.in_burst
                                THEN Append(a.normal, s.timestamp - a.last_qos0_time)
                                ELSE a.normal
                  /\ r.last_qos0_time = s.timestamp
                  /\ ~r.in_burst
                  /\ r.burst_start_time = a.burst_start_time
                  /\ r.burst_end_time = a.burst_end_time
                  /\ r.burst_message_count = a.burst_message_count
             /\ s.qos = 2 =>
                  /\ r.normal = a.normal
                  /\ r.last_qos0_time = a.last_qos0_time
                  /\ r.in_burst
                  /\ r.burst_start_time = IF a.in_burst THEN a.burst_start_time ELSE s.timestamp
                  /\ r.burst_end_time = s.timestamp
                  /\ r.burst_message_count = a.burst_message_count + 1
<1>1. s.timestamp \in Nat /\ s.qos \in {0, 2} /\ s.frame_len \in Nat
  BY NatsAssumption DEF Samples
<1>2. /\ a.normal \in Seq(Int) /\ a.last_qos0_time \in Int /\ a.in_burst \in BOOLEAN
      /\ a.burst_start_time \in Int /\ a.burst_end_time \in Int
      /\ a.burst_message_count \in Nat /\ a.max_len \in Nat
  BY DEF Analysis
<1> DEFINE time == s.timestamp
           len == Larger(a.max_len, s.frame_len)
           b == [a EXCEPT !.max_len = len]
           list == IF a.last_qos0_time # NoTime /\ ~a.in_burst
                   THEN Append(a.normal, time - a.last_qos0_time) ELSE a.normal
           start == IF a.in_burst THEN a.burst_start_time ELSE time
           sum == a.burst_message_count + 1
<1>3. time \in Int /\ len \in Nat /\ start \in Int /\ sum \in Nat
  BY <1>1, <1>2 DEF Larger
<1>4. list \in Seq(Int)
  <2>1. time - a.last_qos0_time \in Int
    BY <1>1, <1>2
  <2>2. Append(a.normal, time - a.last_qos0_time) \in Seq(Int)
    BY <1>2, <2>1, AppendProperties
  <2> QED BY <1>2, <2>2
<1>5. /\ s.qos = 0 => AnalyzeSample(a, s) =
                        [b EXCEPT !.normal = list, !.last_qos0_time = time, !.in_burst = FALSE]
      /\ s.qos = 2 => AnalyzeSample(a, s) =
                        [b EXCEPT !.in_burst = TRUE, !.burst_start_time = start,
                                  !.burst_end_time = time, !.burst_message_count = sum]
  <2>1. /\ b.normal = a.normal /\ b.burst_start_time = a.burst_start_time
        /\ b.burst_message_count = a.burst_message_count
    BY DEF Analysis
  <2> QED BY <2>1 DEF AnalyzeSample
<1>6. /\ b \in Analysis /\ b.max_len = len /\ b.normal = a.normal
      /\ b.last_qos0_time = a.last_qos0_time /\ b.in_burst = a.in_burst
      /\ b.burst_start_time = a.burst_start_time /\ b.burst_end_time = a.burst_end_time
      /\ b.burst_message_count = a.burst_message_count
  BY <1>3 DEF Analysis
<1> HIDE DEF b, time, len, list, start, sum
<1>7. CASE s.qos = 0
  <2> DEFINE r == [b EXCEPT !.normal = list, !.last_qos0_time = time, !.in_burst = FALSE]
  <2>0. r \in Analysis
    BY <1>3, <1>4, <1>6 DEF Analysis
  <2>1. /\ r.max_len = len /\ r.normal = list
        /\ r.last_qos0_time = time /\ r.in_burst = FALSE
        /\ r.burst_start_time = b.burst_start_time /\ r.burst_end_time = b.burst_end_time
        /\ r.burst_message_count = b.burst_message_count
    BY <1>6 DEF Analysis
  <2>2. AnalyzeSample(a, s) = r
    BY <1>5, <1>7
  <2> HIDE DEF r
  <2> QED BY <1>6, <1>7, <2>0, <2>1, <2>2 DEF time, len, list
<1>8. CASE s.qos = 2
  <2> DEFINE r == [b EXCEPT !.in_burst = TRUE, !.burst_start_time = start,
                            !.burst_end_time = time, !.burst_message_count = sum]
  <2>0. r \in Analysis
    BY <1>3, <1>6 DEF Analysis
  <2>1. /\ r.max_len = len /\ r.normal = b.normal
        /\ r.last_qos0_time = b.last_qos0_time /\ r.in_burst = TRUE
        /\ r.burst_start_time = start /\ r.burst_end_time = time
        /\ r.burst_message_count = sum
    BY <1>6 DEF Analysis
  <2>2. AnalyzeSample(a, s) = r
    BY <1>5, <1>8
  <2> HIDE DEF r
  <2> QED BY <1>6, <1>8, <2>0, <2>1, <2>2 DEF time, len, start, sum
<1> QED BY <1>1, <1>7, <1>8

LEMMA AnalyzeSteps ==
  ASSUME NEW n \in Nat, NEW w \in [1 .. n -> Samples]
  PROVE  \E A \in [0 .. n -> Analysis] :
           /\ A[0] = Empty /\ A[n] = Analyze(w)
           /\ \A m \in 1 .. n : A[m] = AnalyzeSample(A[m - 1], w[m])
<1> DEFINE Pairs == Analysis \X Samples
           Step(D) == [p \in D |-> AnalyzeSample(p[1], p[2])]
           P(g) == g = [s \in SUBSET (1 .. n) |->
                          IF s = {} THEN Empty
                          ELSE AnalyzeSample(g[s \ {Max(s)}], w[Max(s)])]
<1>1. ASSUME NEW D, Pairs \subseteq D
      PROVE  \A a \in Analysis, s \in Samples : /\ Step(D)[<<a, s>>] = AnalyzeSample(a, s)
                                             /\ Step(D)[<<a, s>>] \in Analysis
  <2>1. ASSUME NEW a \in Analysis, NEW s \in Samples
        PROVE  Step(D)[<<a, s>>] = AnalyzeSample(a, s) /\ AnalyzeSample(a, s) \in Analysis
    BY <1>1, AnalyzeSampleIs
  <2> QED BY <2>1
<1>2. Analyze(w) = (CHOOSE g : P(g))[1 .. n]
  <2>1. DOMAIN w = 1 .. n
    OBVIOUS
  <2> QED BY <2>1 DEF Analyze, FoldLeft, MapThenFoldSet
<1>3. \E g : P(g)
  <2> DEFINE F == Step(Pairs)
  <2>0. /\ \A a \in Analysis, s \in Samples : F[<<a, s>>] = AnalyzeSample(a, s)
        /\ Returns(F, Analysis, Samples)
    BY <1>1 DEF Returns
  <2> HIDE DEF F
  <2>1. PICK g : FoldTable(g, F, Empty, w, SUBSET (1 .. n))
    BY FoldTableExists
  <2>2. \A s \in SUBSET (1 .. n) : g[s] \in Analysis
    BY <2>0, <2>1, EmptyTyped, FoldTableSteps
  <2>3. ASSUME NEW s \in SUBSET (1 .. n), s # {}
        PROVE  F[<<g[s \ {Max(s)}], w[Max(s)]>>] = AnalyzeSample(g[s \ {Max(s)}], w[Max(s)])
    <3>1. Max(s) \in 1 .. n /\ s \ {Max(s)} \in SUBSET (1 .. n)
      BY <2>3, MaxIn
    <3> QED BY <2>0, <2>2, <3>1
  <2>4. P(g)
    BY <2>1, <2>3 DEF FoldTable
  <2> QED BY <2>4
<1>4. PICK g : P(g) /\ Analyze(w) = g[1 .. n]
  <2> HIDE DEF P
  <2> QED BY <1>2, <1>3
<1> DEFINE D == Pairs \cup {<<g[s \ {Max(s)}], w[Max(s)]>> : s \in SUBSET (1 .. n)}
           F == Step(D)
<1>5. /\ \A a \in Analysis, s \in Samples : F[<<a, s>>] = AnalyzeSample(a, s)
      /\ Returns(F, Analysis, Samples)
  <2>1. Pairs \subseteq D
    OBVIOUS
  <2> HIDE DEF D, Step, Pairs
  <2> QED BY <1>1, <2>1 DEF Returns
<1>6. FoldTable(g, F, Empty, w, SUBSET (1 .. n))
  <2>1. ASSUME NEW s \in SUBSET (1 .. n)
        PROVE  F[<<g[s \ {Max(s)}], w[Max(s)]>>] = AnalyzeSample(g[s \ {Max(s)}], w[Max(s)])
    OBVIOUS
  <2> HIDE DEF F
  <2> QED BY <1>4, <2>1 DEF FoldTable
<1> HIDE DEF F
<1>7. PICK A : FoldSteps(A, F, Empty, w, n, Analysis, g[1 .. n])
  BY <1>5, <1>6, EmptyTyped, FoldTableSteps
<1>8. ASSUME NEW m \in 1 .. n PROVE A[m] = AnalyzeSample(A[m - 1], w[m])
  <2>1. A[m - 1] \in Analysis /\ w[m] \in Samples
    BY <1>7 DEF FoldSteps
  <2> QED BY <1>5, <1>7, <2>1 DEF FoldSteps
<1> QED
  BY <1>4, <1>7, <1>8 DEF FoldSteps

Jitter == [normal : Seq(Int), burst : Seq(Int), last_qos0_time : Int, in_burst : BOOLEAN]

LEMMA EmptyJitterTyped == EmptyJitter \in Jitter
BY DEF EmptyJitter, Jitter, NoTime

LEMMA JitterSampleIs ==
  ASSUME NEW a \in Jitter, NEW s \in Samples
  PROVE  LET r == JitterSample(a, s)
             first == a.last_qos0_time = NoTime
             interval == s.timestamp - a.last_qos0_time
         IN  /\ r \in Jitter
             /\ s.qos = 2 => /\ r.normal = a.normal /\ r.burst = a.burst
                             /\ r.last_qos0_time = a.last_qos0_time /\ r.in_burst
             /\ s.qos = 0 =>
                  /\ r.last_qos0_time = s.timestamp
                  /\ r.in_burst <=> a.in_burst /\ first
                  /\ r.normal = IF first \/ a.in_burst THEN a.normal ELSE Append(a.normal, interval)
                  /\ r.burst = IF ~first /\ a.in_burst THEN Append(a.burst, interval) ELSE a.burst
<1> DEFINE time == s.timestamp
           first == a.last_qos0_time = NoTime
           interval == time - a.last_qos0_time
           normal == Append(a.normal, interval)
           burst == Append(a.burst, interval)
           r == JitterSample(a, s)
<1>1. time \in Int /\ s.qos \in {0, 2}
  BY DEF Samples
<1>2. /\ a.normal \in Seq(Int) /\ a.burst \in Seq(Int) /\ a.last_qos0_time \in Int
      /\ a.in_burst \in BOOLEAN
  BY DEF Jitter
<1>3. normal \in Seq(Int) /\ burst \in Seq(Int)
  <2>1. interval \in Int
    BY <1>1, <1>2
  <2> HIDE DEF interval
  <2> QED BY <1>2, <2>1, AppendProperties
<1>4. /\ s.qos = 2 => r = [a EXCEPT !.in_burst = TRUE]
      /\ s.qos = 0 /\ first => r = [a EXCEPT !.last_qos0_time = time]
      /\ s.qos = 0 /\ ~first /\ a.in_burst =>
           r = [a EXCEPT !.burst = burst, !.in_burst = FALSE, !.last_qos0_time = time]
      /\ s.qos = 0 /\ ~first /\ ~a.in_burst =>
           r = [a EXCEPT !.normal = normal, !.last_qos0_time = time]
  BY <1>1, <1>2 DEF JitterSample
<1> HIDE DEF time, normal, burst, r
<1>5. CASE s.qos = 2
  <2>1. r = [a EXCEPT !.in_burst = TRUE]
    BY <1>4, <1>5
  <2>2. /\ r \in Jitter /\ r.normal = a.normal /\ r.burst = a.burst
        /\ r.last_qos0_time = a.last_qos0_time /\ r.in_burst = TRUE
    BY <2>1, <1>1 DEF Jitter
  <2> QED BY <1>5, <2>2 DEF r
<1>6. CASE s.qos = 0 /\ first
  <2>1. r = [a EXCEPT !.last_qos0_time = time]
    BY <1>4, <1>6
  <2>2. /\ r \in Jitter /\ r.normal = a.normal /\ r.burst = a.burst
        /\ r.last_qos0_time = time /\ r.in_burst = a.in_burst
    BY <2>1, <1>1 DEF Jitter
  <2> QED BY <1>6, <2>2 DEF r, time
<1>7. CASE s.qos = 0 /\ ~first /\ a.in_burst
  <2>1. r = [a EXCEPT !.burst = burst, !.in_burst = FALSE, !.last_qos0_time = time]
    BY <1>4, <1>7
  <2>2. /\ r \in Jitter /\ r.normal = a.normal /\ r.burst = burst
        /\ r.last_qos0_time = time /\ r.in_burst = FALSE
    BY <2>1, <1>1, <1>3 DEF Jitter
  <2> QED BY <1>7, <2>2 DEF r, time, burst
<1>8. CASE s.qos = 0 /\ ~first /\ ~a.in_burst
  <2>1. r = [a EXCEPT !.normal = normal, !.last_qos0_time = time]
    BY <1>4, <1>8
  <2>2. /\ r \in Jitter /\ r.normal = normal /\ r.burst = a.burst
        /\ r.last_qos0_time = time /\ r.in_burst = a.in_burst
    BY <2>1, <1>1, <1>3 DEF Jitter
  <2> QED BY <1>8, <2>2 DEF r, time, normal
<1> QED BY <1>1, <1>5, <1>6, <1>7, <1>8

LEMMA JitterSteps ==
  ASSUME NEW n \in Nat, NEW w \in [1 .. n -> Samples]
  PROVE  \E A \in [0 .. n -> Jitter] :
           /\ A[0] = EmptyJitter /\ A[n] = AnalyzeJitter(w)
           /\ \A m \in 1 .. n : A[m] = JitterSample(A[m - 1], w[m])
<1> DEFINE Pairs == Jitter \X Samples
           Step(D) == [p \in D |-> JitterSample(p[1], p[2])]
           P(g) == g = [s \in SUBSET (1 .. n) |->
                          IF s = {} THEN EmptyJitter
                          ELSE JitterSample(g[s \ {Max(s)}], w[Max(s)])]
<1>1. ASSUME NEW D, Pairs \subseteq D
      PROVE  \A a \in Jitter, s \in Samples : /\ Step(D)[<<a, s>>] = JitterSample(a, s)
                                             /\ Step(D)[<<a, s>>] \in Jitter
  <2>1. ASSUME NEW a \in Jitter, NEW s \in Samples
        PROVE  Step(D)[<<a, s>>] = JitterSample(a, s) /\ JitterSample(a, s) \in Jitter
    BY <1>1, JitterSampleIs
  <2> QED BY <2>1
<1>2. AnalyzeJitter(w) = (CHOOSE g : P(g))[1 .. n]
  <2>1. DOMAIN w = 1 .. n
    OBVIOUS
  <2> QED BY <2>1 DEF AnalyzeJitter, FoldLeft, MapThenFoldSet
<1>3. \E g : P(g)
  <2> DEFINE F == Step(Pairs)
  <2>0. /\ \A a \in Jitter, s \in Samples : F[<<a, s>>] = JitterSample(a, s)
        /\ Returns(F, Jitter, Samples)
    BY <1>1 DEF Returns
  <2> HIDE DEF F
  <2>1. PICK g : FoldTable(g, F, EmptyJitter, w, SUBSET (1 .. n))
    BY FoldTableExists
  <2>2. \A s \in SUBSET (1 .. n) : g[s] \in Jitter
    BY <2>0, <2>1, EmptyJitterTyped, FoldTableSteps
  <2>3. ASSUME NEW s \in SUBSET (1 .. n), s # {}
        PROVE  F[<<g[s \ {Max(s)}], w[Max(s)]>>] = JitterSample(g[s \ {Max(s)}], w[Max(s)])
    <3>1. Max(s) \in 1 .. n /\ s \ {Max(s)} \in SUBSET (1 .. n)
      BY <2>3, MaxIn
    <3> QED BY <2>0, <2>2, <3>1
  <2>4. P(g)
    BY <2>1, <2>3 DEF FoldTable
  <2> QED BY <2>4
<1>4. PICK g : P(g) /\ AnalyzeJitter(w) = g[1 .. n]
  <2> HIDE DEF P
  <2> QED BY <1>2, <1>3
<1> DEFINE D == Pairs \cup {<<g[s \ {Max(s)}], w[Max(s)]>> : s \in SUBSET (1 .. n)}
           F == Step(D)
<1>5. /\ \A a \in Jitter, s \in Samples : F[<<a, s>>] = JitterSample(a, s)
      /\ Returns(F, Jitter, Samples)
  <2>1. Pairs \subseteq D
    OBVIOUS
  <2> HIDE DEF D, Step, Pairs
  <2> QED BY <1>1, <2>1 DEF Returns
<1>6. FoldTable(g, F, EmptyJitter, w, SUBSET (1 .. n))
  <2>1. ASSUME NEW s \in SUBSET (1 .. n)
        PROVE  F[<<g[s \ {Max(s)}], w[Max(s)]>>] = JitterSample(g[s \ {Max(s)}], w[Max(s)])
    OBVIOUS
  <2> HIDE DEF F
  <2> QED BY <1>4, <2>1 DEF FoldTable
<1> HIDE DEF F
<1>7. PICK A : FoldSteps(A, F, EmptyJitter, w, n, Jitter, g[1 .. n])
  BY <1>5, <1>6, EmptyJitterTyped, FoldTableSteps
<1>8. ASSUME NEW m \in 1 .. n PROVE A[m] = JitterSample(A[m - 1], w[m])
  <2>1. A[m - 1] \in Jitter /\ w[m] \in Samples
    BY <1>7 DEF FoldSteps
  <2> QED BY <1>5, <1>7, <2>1 DEF FoldSteps
<1> QED
  BY <1>4, <1>7, <1>8 DEF FoldSteps

-----------------------------------------------------------------------------
(***************************************************************************)
(* The window in all that was seen                                         *)
(***************************************************************************)

LEMMA WindowIs ==
  ASSUME RingInv
  PROVE  /\ Oldest \in Nat \ {0} /\ Len(seen) \in Nat /\ count \in Nat
         /\ Oldest - 1 \in Nat /\ Oldest - 1 + count = Len(seen)
         /\ Window \in [1 .. count -> Samples]
         /\ \A i \in 1 .. count : Window[i] = seen[Oldest - 1 + i]
         /\ \A k \in Oldest .. Len(seen) : seen[k] \in Samples
<1>1. C \in Nat \ {0} /\ seen \in Seq(Samples) /\ Len(seen) \in Nat
  BY NatsAssumption DEF C, RingInv, RingTypes
<1>2. count = IF Len(seen) < C THEN Len(seen) ELSE C
  BY DEF RingInv, WindowIsSuffix, C
<1>3. /\ Oldest \in Nat \ {0} /\ count \in Nat /\ Oldest - 1 \in Nat
      /\ Oldest - 1 + count = Len(seen)
  BY <1>1, <1>2 DEF Oldest
<1>4. \A k \in Oldest .. Len(seen) : seen[k] \in Samples
  BY <1>1, <1>3
<1>5. ASSUME NEW i \in 1 .. count
      PROVE  Window[i] = seen[Oldest - 1 + i] /\ Window[i] \in Samples
  <2>1. i - 1 \in 0 .. count - 1 /\ Oldest + (i - 1) = Oldest - 1 + i
    BY <1>3
  <2>2. SampleAt(i - 1) = seen[Oldest + (i - 1)]
    BY <2>1 DEF RingInv, WindowIsSuffix
  <2>3. Oldest - 1 + i \in Oldest .. Len(seen)
    BY <1>3
  <2> QED BY <1>4, <2>1, <2>2, <2>3 DEF Window
<1>6. Window \in [1 .. count -> Samples]
  BY <1>5 DEF Window
<1> QED
  BY <1>1, <1>3, <1>4, <1>5, <1>6

\* The results of an analysis when it has gone as far as sample m.
LEMMA AnalysisOf ==
  ASSUME RingInv
  PROVE  \E A \in [Oldest - 1 .. Len(seen) -> Analysis] :
           /\ A[Oldest - 1] = Empty /\ A[Len(seen)] = Analyze(Window)
           /\ \A m \in Oldest .. Len(seen) : A[m] = AnalyzeSample(A[m - 1], seen[m])
<1> DEFINE o == Oldest - 1
           n == Len(seen)
<1>1. /\ o \in Nat /\ n \in Nat /\ count \in Nat /\ o + count = n /\ Oldest = o + 1
      /\ Window \in [1 .. count -> Samples]
      /\ \A i \in 1 .. count : Window[i] = seen[o + i]
  BY WindowIs
<1>2. PICK B \in [0 .. count -> Analysis] :
        /\ B[0] = Empty /\ B[count] = Analyze(Window)
        /\ \A i \in 1 .. count : B[i] = AnalyzeSample(B[i - 1], Window[i])
  BY <1>1, AnalyzeSteps
<1> HIDE DEF o, n
<1> DEFINE A == [m \in o .. n |-> B[m - o]]
<1>3. A \in [o .. n -> Analysis]
  BY <1>1, <1>2
<1>4. A[o] = Empty /\ A[n] = Analyze(Window)
  <2>1. o \in o .. n /\ n \in o .. n /\ o - o = 0 /\ n - o = count
    BY <1>1
  <2> QED BY <1>2, <2>1
<1>5. ASSUME NEW m \in o + 1 .. n PROVE A[m] = AnalyzeSample(A[m - 1], seen[m])
  <2>1. /\ m - o \in 1 .. count /\ m \in o .. n /\ m - 1 \in o .. n
        /\ (m - 1) - o = (m - o) - 1 /\ o + (m - o) = m
    BY <1>1
  <2> QED BY <1>1, <1>2, <2>1
<1> HIDE DEF A
<1> QED
  BY <1>1, <1>3, <1>4, <1>5 DEF o, n

LEMMA JitterOf ==
  ASSUME RingInv
  PROVE  \E A \in [Oldest - 1 .. Len(seen) -> Jitter] :
           /\ A[Oldest - 1] = EmptyJitter /\ A[Len(seen)] = AnalyzeJitter(Window)
           /\ \A m \in Oldest .. Len(seen) : A[m] = JitterSample(A[m - 1], seen[m])
<1> DEFINE o == Oldest - 1
           n == Len(seen)
<1>1. /\ o \in Nat /\ n \in Nat /\ count \in Nat /\ o + count = n /\ Oldest = o + 1
      /\ Window \in [1 .. count -> Samples]
      /\ \A i \in 1 .. count : Window[i] = seen[o + i]
  BY WindowIs
<1>2. PICK B \in [0 .. count -> Jitter] :
        /\ B[0] = EmptyJitter /\ B[count] = AnalyzeJitter(Window)
        /\ \A i \in 1 .. count : B[i] = JitterSample(B[i - 1], Window[i])
  BY <1>1, JitterSteps
<1> HIDE DEF o, n
<1> DEFINE A == [m \in o .. n |-> B[m - o]]
<1>3. A \in [o .. n -> Jitter]
  BY <1>1, <1>2
<1>4. A[o] = EmptyJitter /\ A[n] = AnalyzeJitter(Window)
  <2>1. o \in o .. n /\ n \in o .. n /\ o - o = 0 /\ n - o = count
    BY <1>1
  <2> QED BY <1>2, <2>1
<1>5. ASSUME NEW m \in o + 1 .. n PROVE A[m] = JitterSample(A[m - 1], seen[m])
  <2>1. /\ m - o \in 1 .. count /\ m \in o .. n /\ m - 1 \in o .. n
        /\ (m - 1) - o = (m - o) - 1 /\ o + (m - o) = m
    BY <1>1
  <2> QED BY <1>1, <1>2, <2>1
<1> HIDE DEF A
<1> QED
  BY <1>1, <1>3, <1>4, <1>5 DEF o, n

-----------------------------------------------------------------------------
(***************************************************************************)
(* Lists of what belongs to a set of numbers                               *)
(***************************************************************************)

Until(S, m) == {k \in S : k <= m}

LEMMA UntilMore ==
  ASSUME NEW S, NEW m \in Int, \A k \in S : k \in Int
  PROVE  /\ m \in S => Until(S, m) = Until(S, m - 1) \cup {m}
         /\ m \notin S => Until(S, m) = Until(S, m - 1)
<1>1. ASSUME NEW k \in S PROVE k <= m <=> k <= m - 1 \/ k = m
  <2>1. k \in Int
    OBVIOUS
  <2> QED BY <2>1
<1> QED BY <1>1 DEF Until

LEMMA ListsMore ==
  ASSUME NEW q \in Seq(Int), NEW S, IsFiniteSet(S), NEW v, Lists(q, S, v),
         NEW k \in Int, \A j \in S : j \in Int /\ j < k, NEW x \in Int, v[k] = x
  PROVE  Lists(Append(q, x), S \cup {k}, v)
<1>1. k \notin S /\ k <= k
  <2>1. ~(k < k) /\ k <= k
    OBVIOUS
  <2> QED BY <2>1
<1>2. /\ Cardinality(S) \in Nat /\ IsFiniteSet(S \cup {k})
      /\ Cardinality(S \cup {k}) = Cardinality(S) + 1 /\ Len(q) = Cardinality(S)
  BY <1>1, FS_AddElement, FS_CardinalityType DEF Lists
<1>3. /\ Len(Append(q, x)) = Len(q) + 1 /\ Append(q, x)[Len(q) + 1] = x
      /\ \A i \in 1 .. Len(q) : Append(q, x)[i] = q[i]
  BY AppendProperties
<1>4. Append(q, x)[Rank(k, S \cup {k})] = v[k]
  <2>1. {j \in S \cup {k} : j <= k} = S \cup {k}
    OBVIOUS
  <2> QED BY <1>2, <1>3, <2>1 DEF Rank
<1>5. ASSUME NEW j \in S PROVE Append(q, x)[Rank(j, S \cup {k})] = v[j]
  <2> DEFINE P == {i \in S : i <= j}
  <2>1. {i \in S \cup {k} : i <= j} = P
    <3>1. j \in Int /\ j < k
      OBVIOUS
    <3>2. ~(k <= j)
      BY <3>1
    <3> QED BY <3>2
  <2>2. P \subseteq S /\ j \in P
    <3>1. j <= j
      OBVIOUS
    <3> QED BY <3>1
  <2> HIDE DEF P
  <2>3. IsFiniteSet(P) /\ Cardinality(P) \in Nat /\ Cardinality(P) <= Cardinality(S)
    BY <2>2, FS_Subset, FS_CardinalityType
  <2>4. Cardinality(P) # 0
    BY <2>2, <2>3, FS_EmptySet
  <2>5. Cardinality(P) \in 1 .. Len(q)
    BY <1>2, <2>3, <2>4
  <2>6. q[Cardinality(P)] = v[j]
    BY DEF Lists, Rank, P
  <2> QED BY <1>3, <2>1, <2>5, <2>6 DEF Rank
<1> QED
  BY <1>2, <1>3, <1>4, <1>5 DEF Lists

LEMMA ListsNone ==
  ASSUME NEW v PROVE Lists(<<>>, {}, v)
BY FS_EmptySet DEF Lists

-----------------------------------------------------------------------------
(***************************************************************************)
(* The first analysis                                                      *)
(***************************************************************************)

Ends == {k \in Zeros : k - 1 \in Zeros}
Intervals == [k \in Ends |-> seen[k].timestamp - seen[k - 1].timestamp]

\* What the analysis knows when it has gone as far as sample m.
TimesOk(a, m) ==
  /\ a.in_burst <=> m \in Twos
  /\ m \in Zeros => a.last_qos0_time = seen[m].timestamp
  /\ m = Oldest - 1 => a.last_qos0_time = NoTime

NormalOk(a, m) == Lists(a.normal, Until(Ends, m), Intervals)

BurstOk(a, m) ==
  /\ a.burst_message_count = Cardinality(Until(Twos, m))
  /\ Until(Twos, m) = {} <=> a.burst_end_time = NoTime
  /\ \A last \in Until(Twos, m) :
       (\A j \in Until(Twos, m) : j <= last) =>
         /\ a.burst_end_time = seen[last].timestamp
         /\ \E k \in Twos : /\ k - 1 \notin Twos /\ k .. last \subseteq Twos
                            /\ a.burst_start_time = seen[k].timestamp

MaxOk(a, m) == \A k \in Oldest .. m : a.max_len >= seen[k].frame_len

AnalysisOk(a, m) == TimesOk(a, m) /\ NormalOk(a, m) /\ BurstOk(a, m) /\ MaxOk(a, m)

\* The samples in the window, by quality of service.
LEMMA ZerosAndTwos ==
  ASSUME RingInv
  PROVE  /\ \A m \in Oldest .. Len(seen) :
              /\ seen[m] \in Samples /\ m \in Nat
              /\ seen[m].timestamp \in Nat /\ seen[m].frame_len \in Nat
              /\ m \in Zeros <=> seen[m].qos = 0
              /\ m \in Twos <=> seen[m].qos = 2
              /\ m \in Zeros <=> m \notin Twos
         /\ Oldest - 1 \notin Zeros /\ Oldest - 1 \notin Twos
         /\ Zeros \subseteq Oldest .. Len(seen) /\ Twos \subseteq Oldest .. Len(seen)
         /\ Ends \subseteq Zeros
         /\ \A S \in SUBSET (Oldest .. Len(seen)) : IsFiniteSet(S) /\ \A m : IsFiniteSet(Until(S, m))
<1>1. /\ Oldest \in Nat \ {0} /\ Len(seen) \in Nat
      /\ \A k \in Oldest .. Len(seen) : seen[k] \in Samples
  BY WindowIs
<1>2. IsFiniteSet(Oldest .. Len(seen))
  BY <1>1, FS_Interval
<1>3. ASSUME NEW S \in SUBSET (Oldest .. Len(seen)), NEW m
      PROVE  IsFiniteSet(S) /\ IsFiniteSet(Until(S, m))
  BY <1>2, FS_Subset DEF Until
<1>4. ASSUME NEW m \in Oldest .. Len(seen)
      PROVE  /\ seen[m] \in Samples /\ m \in Nat
             /\ seen[m].timestamp \in Nat /\ seen[m].frame_len \in Nat
             /\ m \in Zeros <=> seen[m].qos = 0
             /\ m \in Twos <=> seen[m].qos = 2
             /\ m \in Zeros <=> m \notin Twos
  <2>1. seen[m] \in Samples /\ m \in Nat
    BY <1>1
  <2>2. /\ seen[m].timestamp \in Nat /\ seen[m].frame_len \in Nat
        /\ seen[m].qos = 0 \/ seen[m].qos = 2
    BY <2>1, NatsAssumption DEF Samples
  <2> QED BY <2>1, <2>2 DEF Zeros, Twos
<1>5. Oldest - 1 \notin Oldest .. Len(seen)
  BY <1>1
<1> QED BY <1>3, <1>4, <1>5 DEF Zeros, Twos, Ends

LEMMA AnalysisStart ==
  ASSUME RingInv PROVE AnalysisOk(Empty, Oldest - 1)
<1>1. \A S \in SUBSET (Oldest .. Len(seen)) : Until(S, Oldest - 1) = {}
  <2>1. \A k \in Oldest .. Len(seen) : ~(k <= Oldest - 1)
    BY WindowIs
  <2> QED BY <2>1 DEF Until
<1>2. Until(Ends, Oldest - 1) = {} /\ Until(Twos, Oldest - 1) = {}
  BY <1>1, ZerosAndTwos
<1>3. /\ Empty.normal = <<>> /\ Empty.in_burst = FALSE /\ Empty.last_qos0_time = NoTime
      /\ Empty.burst_message_count = 0 /\ Empty.burst_end_time = NoTime
  BY DEF Empty
<1>4. TimesOk(Empty, Oldest - 1)
  BY <1>3, ZerosAndTwos DEF TimesOk
<1>5. NormalOk(Empty, Oldest - 1)
  BY <1>2, <1>3, ListsNone DEF NormalOk
<1>6. BurstOk(Empty, Oldest - 1)
  BY <1>2, <1>3, FS_EmptySet DEF BurstOk
<1>7. MaxOk(Empty, Oldest - 1)
  <2>1. Oldest .. Oldest - 1 = {}
    BY WindowIs
  <2> QED BY <2>1 DEF MaxOk
<1> QED BY <1>4, <1>5, <1>6, <1>7 DEF AnalysisOk

LEMMA AnalysisStep ==
  ASSUME RingInv, NEW m \in Oldest .. Len(seen), NEW a \in Analysis, AnalysisOk(a, m - 1)
  PROVE  AnalysisOk(AnalyzeSample(a, seen[m]), m)
<1> DEFINE s == seen[m]
           r == AnalyzeSample(a, s)
<1>1. /\ s \in Samples /\ m \in Nat /\ s.timestamp \in Nat /\ s.frame_len \in Nat
      /\ m \in Zeros <=> s.qos = 0
      /\ m \in Twos <=> s.qos = 2
      /\ m \in Zeros <=> m \notin Twos
      /\ m # Oldest - 1 /\ Oldest \in Nat \ {0} /\ Len(seen) \in Nat
      /\ m - 1 \in Oldest .. Len(seen) \/ m - 1 = Oldest - 1
  BY ZerosAndTwos, WindowIs
<1>2. /\ r \in Analysis /\ r.in_burst \in BOOLEAN
      /\ r.max_len = Larger(a.max_len, s.frame_len)
      /\ s.qos = 0 =>
           /\ r.normal = IF a.last_qos0_time # NoTime /\ ~a.in_burst
                         THEN Append(a.normal, s.timestamp - a.last_qos0_time)
                         ELSE a.normal
           /\ r.last_qos0_time = s.timestamp
           /\ ~r.in_burst
           /\ r.burst_start_time = a.burst_start_time
           /\ r.burst_end_time = a.burst_end_time
           /\ r.burst_message_count = a.burst_message_count
      /\ s.qos = 2 =>
           /\ r.normal = a.normal
           /\ r.last_qos0_time = a.last_qos0_time
           /\ r.in_burst
           /\ r.burst_start_time = IF a.in_burst THEN a.burst_start_time ELSE s.timestamp
           /\ r.burst_end_time = s.timestamp
           /\ r.burst_message_count = a.burst_message_count + 1
  <2>1. r \in Analysis => r.in_burst \in BOOLEAN
    BY DEF Analysis
  <2> QED BY <1>1, <2>1, AnalyzeSampleIs
<1>3. /\ Until(Ends, m - 1) \subseteq Ends
      /\ IsFiniteSet(Until(Ends, m - 1)) /\ IsFiniteSet(Until(Twos, m - 1))
      /\ m \in Ends => Until(Ends, m) = Until(Ends, m - 1) \cup {m}
      /\ m \notin Ends => Until(Ends, m) = Until(Ends, m - 1)
      /\ m \in Twos => Until(Twos, m) = Until(Twos, m - 1) \cup {m}
      /\ m \notin Twos => Until(Twos, m) = Until(Twos, m - 1)
  <2>1. /\ Ends \subseteq Oldest .. Len(seen) /\ Twos \subseteq Oldest .. Len(seen)
        /\ \A S \in SUBSET (Oldest .. Len(seen)) : \A k : IsFiniteSet(Until(S, k))
    BY ZerosAndTwos
  <2>2. (\A k \in Ends : k \in Int) /\ (\A k \in Twos : k \in Int) /\ m \in Int
    BY <1>1, <2>1
  <2>3. Until(Ends, m - 1) \subseteq Ends
    BY DEF Until
  <2> QED BY <2>1, <2>2, <2>3, UntilMore
<1>4. /\ TimesOk(a, m - 1) /\ NormalOk(a, m - 1) /\ BurstOk(a, m - 1) /\ MaxOk(a, m - 1)
  BY DEF AnalysisOk
<1>5. /\ a.normal \in Seq(Int) /\ a.last_qos0_time \in Int /\ a.in_burst \in BOOLEAN
      /\ a.burst_message_count \in Nat /\ a.max_len \in Nat
  BY DEF Analysis
<1> HIDE DEF r, s
<1>6. TimesOk(r, m)
  BY <1>1, <1>2 DEF TimesOk, s
\* The intervals.
<1>7. NormalOk(r, m)
  <2>1. m \in Ends <=> m \in Zeros /\ m - 1 \in Zeros
    BY DEF Ends
  <2>2. CASE m \in Ends
    <3> DEFINE x == s.timestamp - a.last_qos0_time
    <3>1. m - 1 \notin Twos /\ m - 1 \in Oldest .. Len(seen)
      BY <2>1, <2>2, ZerosAndTwos
    <3>2. ~a.in_burst /\ a.last_qos0_time = seen[m - 1].timestamp /\ seen[m - 1].timestamp \in Nat
      BY <1>4, <1>5, <2>1, <2>2, <3>1, ZerosAndTwos DEF TimesOk
    <3>3. a.last_qos0_time # NoTime
      BY <3>2 DEF NoTime
    <3>4. r.normal = Append(a.normal, x)
      BY <1>1, <1>2, <2>1, <2>2, <3>2, <3>3
    <3>5. x \in Int /\ Intervals[m] = x
      BY <1>1, <1>5, <2>2, <3>2 DEF Intervals, s
    <3>6. \A j \in Until(Ends, m - 1) : j \in Int /\ j < m
      <4>1. \A j \in Ends : j \in Int
        BY ZerosAndTwos
      <4>2. \A j \in Until(Ends, m - 1) : j \in Int /\ j <= m - 1
        BY <4>1 DEF Until
      <4> QED BY <1>1, <4>2
    <3> HIDE DEF x
    <3>7. Lists(Append(a.normal, x), Until(Ends, m - 1) \cup {m}, Intervals)
      <4>1. /\ a.normal \in Seq(Int) /\ IsFiniteSet(Until(Ends, m - 1)) /\ m \in Int
            /\ Lists(a.normal, Until(Ends, m - 1), Intervals)
        BY <1>1, <1>3, <1>4, <1>5 DEF NormalOk
      <4> QED BY <3>5, <3>6, <4>1, ListsMore
    <3> QED BY <1>3, <2>2, <3>4, <3>7 DEF NormalOk
  <2>3. CASE m \notin Ends
    <3>1. r.normal = a.normal
      <4>1. CASE s.qos = 2
        BY <1>2, <4>1
      <4>2. CASE s.qos = 0
        <5>1. m - 1 \notin Zeros
          BY <1>1, <2>1, <2>3, <4>2
        <5>2. m - 1 \in Twos \/ m - 1 = Oldest - 1
          BY <1>1, <5>1, ZerosAndTwos
        <5>3. a.in_burst \/ a.last_qos0_time = NoTime
          BY <1>4, <5>2 DEF TimesOk
        <5> QED BY <1>2, <4>2, <5>3
      <4> QED BY <1>1, <4>1, <4>2
    <3> QED BY <1>3, <1>4, <2>3, <3>1 DEF NormalOk
  <2> QED BY <2>2, <2>3
\* The bursts.
<1>8. BurstOk(r, m)
  <2>1. CASE m \notin Twos
    <3>1. s.qos = 0 /\ Until(Twos, m) = Until(Twos, m - 1)
      BY <1>1, <1>3, <2>1
    <3>2. /\ r.burst_start_time = a.burst_start_time /\ r.burst_end_time = a.burst_end_time
          /\ r.burst_message_count = a.burst_message_count
      BY <1>2, <3>1
    <3> QED BY <1>4, <3>1, <3>2 DEF BurstOk
  <2>2. CASE m \in Twos
    <3>1. /\ s.qos = 2 /\ Until(Twos, m) = Until(Twos, m - 1) \cup {m}
          /\ m \in Until(Twos, m)
      BY <1>1, <1>3, <2>2
    <3>2. /\ r.burst_start_time = IF a.in_burst THEN a.burst_start_time ELSE s.timestamp
          /\ r.burst_end_time = s.timestamp
          /\ r.burst_message_count = a.burst_message_count + 1
      BY <1>2, <3>1
    <3>3. r.burst_message_count = Cardinality(Until(Twos, m))
      <4>1. m \notin Until(Twos, m - 1)
        BY <1>1 DEF Until
      <4>2. Cardinality(Until(Twos, m)) = Cardinality(Until(Twos, m - 1)) + 1
        BY <1>3, <3>1, <4>1, FS_AddElement
      <4> QED BY <1>4, <3>2, <4>2 DEF BurstOk
    <3>4. Until(Twos, m) # {} /\ r.burst_end_time # NoTime
      BY <1>1, <3>1, <3>2 DEF NoTime
    <3>5. ASSUME NEW last \in Until(Twos, m), \A j \in Until(Twos, m) : j <= last
          PROVE  last = m
      <4>1. \A j \in Twos : j \in Int
        BY ZerosAndTwos
      <4>2. last \in Int /\ last <= m
        BY <4>1 DEF Until
      <4>3. m <= last
        BY <3>1, <3>5
      <4> QED BY <1>1, <4>2, <4>3
    <3>6. \E k \in Twos : /\ k - 1 \notin Twos /\ k .. m \subseteq Twos
                          /\ r.burst_start_time = seen[k].timestamp
      <4>1. CASE a.in_burst
        <5>1. m - 1 \in Twos
          BY <1>4, <4>1 DEF TimesOk
        <5>2. m - 1 \in Until(Twos, m - 1) /\ \A j \in Until(Twos, m - 1) : j <= m - 1
          BY <1>1, <5>1 DEF Until
        <5>3. PICK k \in Twos : /\ k - 1 \notin Twos /\ k .. (m - 1) \subseteq Twos
                                /\ a.burst_start_time = seen[k].timestamp
          BY <1>4, <5>2 DEF BurstOk
        <5>4. k .. m \subseteq Twos
          <6>1. k \in Int
            BY ZerosAndTwos
          <6>2. \A j \in k .. m : j \in k .. (m - 1) \/ j = m
            BY <1>1, <6>1
          <6> QED BY <2>2, <5>3, <6>2
        <5> QED BY <3>2, <4>1, <5>3, <5>4
      <4>2. CASE ~a.in_burst
        <5>1. m - 1 \notin Twos
          BY <1>4, <4>2 DEF TimesOk
        <5>2. m .. m \subseteq Twos
          BY <1>1, <2>2
        <5> QED BY <2>2, <3>2, <4>2, <5>1, <5>2 DEF s
      <4> QED BY <4>1, <4>2
    <3>7. \A last \in Until(Twos, m) :
            (\A j \in Until(Twos, m) : j <= last) =>
              /\ r.burst_end_time = seen[last].timestamp
              /\ \E k \in Twos : /\ k - 1 \notin Twos /\ k .. last \subseteq Twos
                                 /\ r.burst_start_time = seen[k].timestamp
      BY <3>2, <3>5, <3>6 DEF s
    <3> QED BY <3>3, <3>4, <3>7 DEF BurstOk
  <2> QED BY <2>1, <2>2
<1>9. MaxOk(r, m)
  <2>1. ASSUME NEW k \in Oldest .. m PROVE r.max_len >= seen[k].frame_len
    <3>1. r.max_len >= a.max_len /\ r.max_len >= s.frame_len /\ r.max_len \in Nat
      BY <1>1, <1>2, <1>5 DEF Larger
    <3>2. k \in Oldest .. (m - 1) \/ k = m
      BY <1>1
    <3>3. seen[k].frame_len \in Nat
      BY <1>1, ZerosAndTwos
    <3>4. k \in Oldest .. (m - 1) => a.max_len >= seen[k].frame_len
      BY <1>4 DEF MaxOk
    <3> QED BY <1>5, <3>1, <3>2, <3>3, <3>4 DEF s
  <2> QED BY <2>1 DEF MaxOk
<1> QED
  BY <1>6, <1>7, <1>8, <1>9 DEF AnalysisOk, r, s

\* What the first analysis of the window returns.
LEMMA AnalysisResult ==
  ASSUME RingInv
  PROVE  Analyze(Window) \in Analysis /\ AnalysisOk(Analyze(Window), Len(seen))
<1>1. PICK A \in [Oldest - 1 .. Len(seen) -> Analysis] :
        /\ A[Oldest - 1] = Empty /\ A[Len(seen)] = Analyze(Window)
        /\ \A m \in Oldest .. Len(seen) : A[m] = AnalyzeSample(A[m - 1], seen[m])
  BY AnalysisOf
<1>2. Oldest - 1 \in Nat /\ Len(seen) \in Nat /\ Oldest - 1 <= Len(seen) /\ Oldest \in Nat
  BY WindowIs
<1> DEFINE good == {m \in Oldest - 1 .. Len(seen) : AnalysisOk(A[m], m)}
<1>3. Oldest - 1 \in good
  BY <1>1, <1>2, AnalysisStart
<1>4. ASSUME NEW m \in Oldest - 1 .. Len(seen), m \in good, m < Len(seen) PROVE m + 1 \in good
  <2>1. /\ m + 1 \in Oldest .. Len(seen) /\ (m + 1) - 1 = m /\ A[m] \in Analysis
        /\ m + 1 \in Oldest - 1 .. Len(seen)
    BY <1>2, <1>4
  <2>2. AnalysisOk(A[(m + 1) - 1], (m + 1) - 1)
    BY <1>4, <2>1
  <2>3. A[m + 1] = AnalyzeSample(A[m], seen[m + 1])
    BY <1>1, <2>1
  <2>4. AnalysisOk(A[m + 1], m + 1)
    BY <2>1, <2>2, <2>3, AnalysisStep
  <2> QED BY <2>1, <2>4
<1>5. Len(seen) \in good
  <2> HIDE DEF good
  <2>1. Oldest - 1 .. Len(seen) \subseteq good
    BY <1>2, <1>3, <1>4, UpFrom
  <2> QED BY <1>2, <2>1
<1>6. Len(seen) \in Oldest - 1 .. Len(seen)
  BY <1>2
<1> QED
  BY <1>1, <1>5, <1>6

\* The first analysis counts the intervals between neighbours of QoS 0.
LEMMA NormalIntervals ==
  ASSUME RingInv PROVE NormalIntervalsOfHistory
<1>1. Lists(Analyze(Window).normal, Until(Ends, Len(seen)), Intervals)
  BY AnalysisResult DEF AnalysisOk, NormalOk
<1>2. Until(Ends, Len(seen)) = Ends
  BY ZerosAndTwos, WindowIs DEF Until
<1> QED BY <1>1, <1>2 DEF NormalIntervalsOfHistory, Ends, Intervals

\* The burst it reports is the last run of QoS 2 in the window.
LEMMA LastBurst ==
  ASSUME RingInv PROVE LastBurstOfHistory
<1>1. BurstOk(Analyze(Window), Len(seen))
  BY AnalysisResult DEF AnalysisOk
<1>2. Until(Twos, Len(seen)) = Twos
  BY ZerosAndTwos, WindowIs DEF Until
<1> QED BY <1>1, <1>2 DEF BurstOk, LastBurstOfHistory

\* What the first analysis says of intervals and bursts is true of the samples in the
\* window, whatever the ring has forgotten.
THEOREM NatsAnalysis == Spec => []AnalysisOfHistory
<1>1. RingInv => AnalysisOfHistory
  BY NormalIntervals, LastBurst DEF AnalysisOfHistory
<1>2. Init => RingInv
  BY RingInit
<1>3. RingInv /\ [Next]_vars => RingInv'
  BY RingStep
<1> QED BY <1>1, <1>2, <1>3, PTL DEF Spec

-----------------------------------------------------------------------------
(***************************************************************************)
(* The second analysis                                                     *)
(***************************************************************************)

\* z is the last publication of QoS 0 up to m.
LastZero(m, z) == z \in Zeros /\ z <= m /\ \A y \in Zeros : y <= m => y <= z

\* Those that end an interval, and what the analysis takes for a part of a burst.
LaterZeros == {k \in Zeros : \E z \in Zeros : z < k}
Second(k)  == \A z \in Zeros : z < k => z = ZeroBefore(k)
Late       == {k \in LaterZeros : k - 1 \notin Zeros \/ (Second(k) /\ Oldest \notin Zeros)}
Prompt     == LaterZeros \ Late
Distances  == [k \in LaterZeros |-> seen[k].timestamp - seen[ZeroBefore(k)].timestamp]

\* What the analysis knows when it has gone as far as sample m. When the window begins
\* with QoS 2, the first publication of QoS 0 does not end the burst.
StateOk(a, m) ==
  /\ (\A y \in Zeros : ~(y <= m)) => /\ a.last_qos0_time = NoTime
                                     /\ a.in_burst <=> m # Oldest - 1
  /\ \A z : LastZero(m, z) =>
       /\ a.last_qos0_time = seen[z].timestamp
       /\ a.in_burst <=> z # m \/ (Oldest \notin Zeros /\ \A y \in Zeros : y <= m => y = z)

JitterOk(a, m) ==
  /\ StateOk(a, m)
  /\ Lists(a.burst, Until(Late, m), Distances)
  /\ Lists(a.normal, Until(Prompt, m), Distances)

\* There is a last one, and it is the one before the next.
LEMMA LastZeroIs ==
  ASSUME RingInv, NEW m \in Int, NEW y \in Zeros, y <= m
  PROVE  \E z : LastZero(m, z)
<1> DEFINE S == Until(Zeros, m)
<1>1. Zeros \subseteq Oldest .. Len(seen) /\ Oldest \in Nat \ {0} /\ Len(seen) \in Nat
  BY ZerosAndTwos, WindowIs
<1>2. S \in SUBSET (1 .. Len(seen)) /\ S # {}
  <2>1. y \in S /\ S \subseteq Zeros
    BY DEF Until
  <2>2. \A k \in Oldest .. Len(seen) : k \in 1 .. Len(seen)
    BY <1>1
  <2> QED BY <1>1, <2>1, <2>2
<1>3. Max(S) \in S /\ \A k \in S : k <= Max(S)
  <2> HIDE DEF S
  <2> QED BY <1>1, <1>2, MaxIn
<1>4. LastZero(m, Max(S))
  BY <1>3 DEF LastZero, Until
<1> QED BY <1>4

LEMMA ZeroBeforeIs ==
  ASSUME RingInv, NEW m \in Int, NEW z, LastZero(m - 1, z)
  PROVE  /\ ZeroBefore(m) = z /\ z < m
         /\ \A y \in Zeros : y < m <=> y <= m - 1
<1>1. \A y \in Zeros : y \in Int
  BY ZerosAndTwos, WindowIs
<1>2. \A y \in Zeros : y < m <=> y <= m - 1
  BY <1>1
<1>3. z \in Zeros /\ z < m /\ \A y \in Zeros : y < m => y <= z
  BY <1>2 DEF LastZero
<1>4. ASSUME NEW x \in Zeros, x < m, \A y \in Zeros : y < m => y <= x
      PROVE  x = z
  <2>1. x <= z /\ z <= x
    BY <1>3, <1>4
  <2> QED BY <1>1, <1>3, <2>1
<1> QED BY <1>2, <1>3, <1>4 DEF ZeroBefore

LEMMA JitterStart ==
  ASSUME RingInv PROVE JitterOk(EmptyJitter, Oldest - 1)
<1>1. \A k \in Oldest .. Len(seen) : ~(k <= Oldest - 1)
  BY WindowIs
<1>2. Zeros \subseteq Oldest .. Len(seen) /\ Late \subseteq Zeros /\ Prompt \subseteq Zeros
  BY ZerosAndTwos DEF Late, Prompt, LaterZeros
<1>3. Until(Late, Oldest - 1) = {} /\ Until(Prompt, Oldest - 1) = {}
  BY <1>1, <1>2 DEF Until
<1>4. /\ EmptyJitter.normal = <<>> /\ EmptyJitter.burst = <<>>
      /\ EmptyJitter.last_qos0_time = NoTime /\ EmptyJitter.in_burst = FALSE
  BY DEF EmptyJitter
<1>5. StateOk(EmptyJitter, Oldest - 1)
  BY <1>1, <1>2, <1>4 DEF StateOk, LastZero
<1> QED BY <1>3, <1>4, <1>5, ListsNone DEF JitterOk

LEMMA JitterStep ==
  ASSUME RingInv, NEW m \in Oldest .. Len(seen), NEW a \in Jitter, JitterOk(a, m - 1)
  PROVE  JitterOk(JitterSample(a, seen[m]), m)
<1> DEFINE s == seen[m]
           r == JitterSample(a, s)
           first == a.last_qos0_time = NoTime
           interval == s.timestamp - a.last_qos0_time
<1>1. /\ s \in Samples /\ m \in Nat /\ s.timestamp \in Nat
      /\ m \in Zeros <=> s.qos = 0
      /\ m \in Twos <=> s.qos = 2
      /\ m \in Zeros <=> m \notin Twos
      /\ m # Oldest - 1 /\ Oldest \in Nat \ {0} /\ Len(seen) \in Nat
      /\ m = Oldest \/ m - 1 \in Oldest .. Len(seen)
  BY ZerosAndTwos, WindowIs
<1>2. /\ r \in Jitter
      /\ s.qos = 2 => /\ r.normal = a.normal /\ r.burst = a.burst
                      /\ r.last_qos0_time = a.last_qos0_time /\ r.in_burst
      /\ s.qos = 0 =>
           /\ r.last_qos0_time = s.timestamp
           /\ r.in_burst <=> a.in_burst /\ first
           /\ r.normal = IF first \/ a.in_burst THEN a.normal ELSE Append(a.normal, interval)
           /\ r.burst = IF ~first /\ a.in_burst THEN Append(a.burst, interval) ELSE a.burst
  BY <1>1, JitterSampleIs
<1>3. /\ \A y \in Zeros : y \in Int /\ y \in Oldest .. Len(seen) /\ seen[y].timestamp \in Nat
      /\ Late \subseteq Zeros /\ Prompt \subseteq Zeros
      /\ \A S \in SUBSET (Oldest .. Len(seen)) : \A k : IsFiniteSet(Until(S, k))
  <2>1. Late \subseteq Zeros /\ Prompt \subseteq Zeros
    BY DEF Late, Prompt, LaterZeros
  <2>2. ASSUME NEW y \in Zeros
        PROVE  y \in Int /\ y \in Oldest .. Len(seen) /\ seen[y].timestamp \in Nat
    <3>1. y \in Oldest .. Len(seen)
      BY ZerosAndTwos
    <3> QED BY <3>1, ZerosAndTwos
  <2>3. \A S \in SUBSET (Oldest .. Len(seen)) : \A k : IsFiniteSet(Until(S, k))
    BY ZerosAndTwos
  <2> QED BY <2>1, <2>2, <2>3
<1>4. ASSUME NEW S, S \subseteq Zeros
      PROVE  /\ IsFiniteSet(Until(S, m - 1))
             /\ \A j \in Until(S, m - 1) : j \in Int /\ j < m
             /\ m \in S => Until(S, m) = Until(S, m - 1) \cup {m}
             /\ m \notin S => Until(S, m) = Until(S, m - 1)
  <2>1. \A j \in S : j \in Int /\ j \in Oldest .. Len(seen)
    BY <1>3, <1>4
  <2>2. \A j \in Until(S, m - 1) : j \in Int /\ j < m
    BY <1>1, <2>1 DEF Until
  <2>3. IsFiniteSet(Until(S, m - 1))
    BY <1>3, <2>1
  <2> QED BY <1>1, <2>1, <2>2, <2>3, UntilMore
<1>5. /\ StateOk(a, m - 1)
      /\ Lists(a.burst, Until(Late, m - 1), Distances)
      /\ Lists(a.normal, Until(Prompt, m - 1), Distances)
      /\ a.normal \in Seq(Int) /\ a.burst \in Seq(Int)
      /\ a.in_burst \in BOOLEAN /\ a.last_qos0_time \in Int
  BY DEF JitterOk, Jitter
<1>6. \A y \in Zeros : (y <= m <=> y <= m - 1 \/ y = m) /\ (y < m <=> y <= m - 1)
  <2>1. ASSUME NEW y \in Zeros PROVE (y <= m <=> y <= m - 1 \/ y = m) /\ (y < m <=> y <= m - 1)
    BY <1>1, <1>3
  <2> QED BY <2>1
<1> HIDE DEF r, s
\* A publication of QoS 2.
<1>7. CASE m \notin Zeros
  <2>1. /\ r.normal = a.normal /\ r.burst = a.burst
        /\ r.last_qos0_time = a.last_qos0_time /\ r.in_burst
    BY <1>1, <1>2, <1>7
  <2>2. /\ Until(Late, m) = Until(Late, m - 1)
        /\ Until(Prompt, m) = Until(Prompt, m - 1)
    BY <1>3, <1>4, <1>7
  <2>3. \A y \in Zeros : y <= m <=> y <= m - 1
    BY <1>6, <1>7
  <2>4. \A z : LastZero(m, z) => LastZero(m - 1, z) /\ z # m
    BY <2>3, <1>7 DEF LastZero
  <2>5. StateOk(r, m)
    BY <1>1, <1>5, <2>1, <2>3, <2>4 DEF StateOk
  <2> QED BY <1>5, <2>1, <2>2, <2>5 DEF JitterOk, r, s
\* The first one of QoS 0.
<1>8. CASE m \in Zeros /\ \A y \in Zeros : ~(y <= m - 1)
  <2>1. first /\ (a.in_burst <=> m - 1 # Oldest - 1)
    BY <1>5, <1>8 DEF StateOk
  <2>2. /\ r.normal = a.normal /\ r.burst = a.burst
        /\ r.last_qos0_time = s.timestamp /\ (r.in_burst <=> m # Oldest)
    BY <1>1, <1>2, <1>8, <2>1
  <2>3. m \notin LaterZeros
    BY <1>6, <1>8 DEF LaterZeros
  <2>4. /\ Until(Late, m) = Until(Late, m - 1)
        /\ Until(Prompt, m) = Until(Prompt, m - 1)
    BY <1>3, <1>4, <2>3 DEF Late, Prompt
  <2>5. m <= m /\ \A y \in Zeros : y <= m => y = m
    BY <1>1, <1>6, <1>8
  <2>6. \A z : LastZero(m, z) => z = m
    BY <2>5 DEF LastZero
  <2>7. Oldest \notin Zeros <=> m # Oldest
    <3>1. Oldest <= m
      BY <1>1
    <3> QED BY <1>8, <2>5, <3>1
  <2>8. StateOk(r, m)
    BY <1>8, <2>2, <2>5, <2>6, <2>7 DEF StateOk, s
  <2> QED BY <1>5, <2>2, <2>4, <2>8 DEF JitterOk, r, s
\* One more of QoS 0.
<1>9. ASSUME m \in Zeros, NEW y0 \in Zeros, y0 <= m - 1
      PROVE  JitterOk(r, m)
  <2>1. PICK z : LastZero(m - 1, z)
    <3>1. m - 1 \in Int
      BY <1>1
    <3> QED BY <1>9, <3>1, LastZeroIs
  <2>2. z \in Zeros /\ ZeroBefore(m) = z /\ z < m /\ z <= m - 1
    <3>1. m \in Int
      BY <1>1
    <3> QED BY <2>1, <3>1, ZeroBeforeIs DEF LastZero
  <2>3. /\ a.last_qos0_time = seen[z].timestamp
        /\ a.in_burst <=> z # m - 1 \/ (Oldest \notin Zeros /\ \A y \in Zeros : y <= m - 1 => y = z)
    BY <1>5, <2>1 DEF StateOk
  <2>4. ~first
    BY <1>3, <2>2, <2>3 DEF NoTime
  <2>5. m \in LaterZeros
    BY <1>9, <2>2 DEF LaterZeros
  <2>6. interval \in Int /\ Distances[m] = interval
    BY <1>1, <1>5, <2>2, <2>3, <2>5 DEF Distances, s
  <2>7. m \in Late <=> a.in_burst
    <3>1. m - 1 \notin Zeros <=> z # m - 1
      <4>1. m - 1 \in Zeros => m - 1 <= z
        BY <1>1, <2>1 DEF LastZero
      <4>2. z \in Int
        BY <1>3, <2>2
      <4> QED BY <1>1, <2>2, <4>1, <4>2
    <3>2. Second(m) <=> \A y \in Zeros : y <= m - 1 => y = z
      BY <1>6, <2>2 DEF Second
    <3> QED BY <2>3, <2>5, <3>1, <3>2 DEF Late
  <2>8. m \in Prompt <=> ~a.in_burst
    BY <2>5, <2>7 DEF Prompt
  <2>9. s.qos = 0 /\ r.last_qos0_time = s.timestamp /\ ~r.in_burst
    BY <1>1, <1>2, <1>9, <2>4
  <2>10. StateOk(r, m)
    <3>1. m <= m /\ z <= m
      BY <1>1, <1>6, <2>2
    <3>2. \A x : LastZero(m, x) => x = m
      <4>1. ASSUME NEW x, LastZero(m, x) PROVE x = m
        <5>1. x \in Zeros /\ x <= m /\ m <= x
          BY <1>9, <3>1, <4>1 DEF LastZero
        <5> QED BY <1>1, <1>3, <5>1
      <4> QED BY <4>1
    <3>3. z # m
      BY <1>1, <1>3, <2>2
    <3> QED BY <1>9, <2>2, <2>9, <3>1, <3>2, <3>3 DEF StateOk, s
  <2> HIDE DEF interval, first
  <2>11. CASE a.in_burst
    <3>1. r.normal = a.normal /\ r.burst = Append(a.burst, interval)
      BY <1>2, <2>4, <2>9, <2>11
    <3>2. /\ Until(Prompt, m) = Until(Prompt, m - 1)
          /\ Until(Late, m) = Until(Late, m - 1) \cup {m}
          /\ IsFiniteSet(Until(Late, m - 1))
          /\ \A j \in Until(Late, m - 1) : j \in Int /\ j < m
      BY <1>3, <1>4, <2>7, <2>8, <2>11
    <3>3. m \in Int
      BY <1>1
    <3>4. Lists(Append(a.burst, interval), Until(Late, m - 1) \cup {m}, Distances)
      <4>1. a.burst \in Seq(Int) /\ Lists(a.burst, Until(Late, m - 1), Distances)
        BY <1>5
      <4> QED BY <2>6, <3>2, <3>3, <4>1, ListsMore
    <3> QED BY <1>5, <2>10, <3>1, <3>2, <3>4 DEF JitterOk
  <2>12. CASE ~a.in_burst
    <3>1. r.burst = a.burst /\ r.normal = Append(a.normal, interval)
      BY <1>2, <2>4, <2>9, <2>12
    <3>2. /\ Until(Late, m) = Until(Late, m - 1)
          /\ Until(Prompt, m) = Until(Prompt, m - 1) \cup {m}
          /\ IsFiniteSet(Until(Prompt, m - 1))
          /\ \A j \in Until(Prompt, m - 1) : j \in Int /\ j < m
      BY <1>3, <1>4, <2>7, <2>8, <2>12
    <3>3. m \in Int
      BY <1>1
    <3>4. Lists(Append(a.normal, interval), Until(Prompt, m - 1) \cup {m}, Distances)
      <4>1. a.normal \in Seq(Int) /\ Lists(a.normal, Until(Prompt, m - 1), Distances)
        BY <1>5
      <4> QED BY <2>6, <3>2, <3>3, <4>1, ListsMore
    <3> QED BY <1>5, <2>10, <3>1, <3>2, <3>4 DEF JitterOk
  <2> QED BY <2>11, <2>12
<1> QED
  BY <1>7, <1>8, <1>9 DEF r, s

LEMMA JitterResult ==
  ASSUME RingInv
  PROVE  JitterOk(AnalyzeJitter(Window), Len(seen))
<1>1. PICK A \in [Oldest - 1 .. Len(seen) -> Jitter] :
        /\ A[Oldest - 1] = EmptyJitter /\ A[Len(seen)] = AnalyzeJitter(Window)
        /\ \A m \in Oldest .. Len(seen) : A[m] = JitterSample(A[m - 1], seen[m])
  BY JitterOf
<1>2. Oldest - 1 \in Nat /\ Len(seen) \in Nat /\ Oldest - 1 <= Len(seen) /\ Oldest \in Nat
  BY WindowIs
<1> DEFINE good == {m \in Oldest - 1 .. Len(seen) : JitterOk(A[m], m)}
<1>3. Oldest - 1 \in good
  BY <1>1, <1>2, JitterStart
<1>4. ASSUME NEW m \in Oldest - 1 .. Len(seen), m \in good, m < Len(seen) PROVE m + 1 \in good
  <2>1. /\ m + 1 \in Oldest .. Len(seen) /\ (m + 1) - 1 = m /\ A[m] \in Jitter
        /\ m + 1 \in Oldest - 1 .. Len(seen)
    BY <1>2, <1>4
  <2>2. JitterOk(A[(m + 1) - 1], (m + 1) - 1)
    BY <1>4, <2>1
  <2>3. A[m + 1] = JitterSample(A[m], seen[m + 1])
    BY <1>1, <2>1
  <2>4. JitterOk(A[m + 1], m + 1)
    BY <2>1, <2>2, <2>3, JitterStep
  <2> QED BY <2>1, <2>4
<1>5. Len(seen) \in good
  <2> HIDE DEF good
  <2>1. Oldest - 1 .. Len(seen) \subseteq good
    BY <1>2, <1>3, <1>4, UpFrom
  <2> QED BY <1>2, <2>1
<1> QED
  BY <1>1, <1>5

\* The second analysis counts each interval once, and misjudges the first one only.
THEOREM NatsJitter == Spec => []JitterMisjudgesFirstOnly
<1>1. RingInv => JitterMisjudgesFirstOnly
  <2> SUFFICES ASSUME RingInv PROVE JitterMisjudgesFirstOnly
    OBVIOUS
  <2>1. JitterOk(AnalyzeJitter(Window), Len(seen))
    BY JitterResult
  <2>2. Until(Late, Len(seen)) = Late /\ Until(Prompt, Len(seen)) = Prompt
    <3>1. \A k \in Zeros : k <= Len(seen)
      BY ZerosAndTwos, WindowIs
    <3> QED BY <3>1 DEF Until, Late, Prompt, LaterZeros
  <2>3. Lists(AnalyzeJitter(Window).burst, Late, Distances)
    BY <2>1, <2>2 DEF JitterOk
  <2>4. Lists(AnalyzeJitter(Window).normal, LaterZeros \ Late, Distances)
    BY <2>1, <2>2 DEF JitterOk, Prompt
  <2> QED BY <2>3, <2>4 DEF JitterMisjudgesFirstOnly, LaterZeros, Late, Second, Distances
<1>2. Init => RingInv
  BY RingInit
<1>3. RingInv /\ [Next]_vars => RingInv'
  BY RingStep
<1> QED BY <1>1, <1>2, <1>3, PTL DEF Spec

-----------------------------------------------------------------------------
(***************************************************************************)
(* The commands                                                            *)
(***************************************************************************)

Command == [sample : Nat, bsr_value : Nat]

\* A command for sample k with this size suits what was in the window then.
LargeEnough(k, size) ==
  \A j \in Larger(1, k - UE_HISTORY_CAPACITY + 1) .. k : 2 * size + 1 >= 3 * seen[j].frame_len

\* While the handler holds it, the size is that of the window.
SizeInHand == IF handler = "idle" THEN bsr = 0 ELSE bsr = BsrSize(Window)

InOrderFrom(c, k) == \A i \in 1 .. Len(c) : c[i].sample = k - Len(c) + i

CommandsOk ==
  /\ commands \in Seq(Command)
  /\ commands # <<>> => control_sock /\ control_addr
  /\ InOrderFrom(commands, IF handler = "idle" \/ commands = <<>> THEN Len(seen) ELSE Len(seen) - 1)
  /\ \A i \in 1 .. Len(commands) : LargeEnough(commands[i].sample, commands[i].bsr_value)

CommandsInv == SizeInHand /\ CommandsOk

LEMMA BsrSizeIs ==
  ASSUME RingInv
  PROVE  BsrSize(Window) \in Nat /\ LargeEnough(Len(seen), BsrSize(Window))
<1> DEFINE max == Analyze(Window).max_len
           size == (max * 3) \div 2
<1>1. max \in Nat /\ \A k \in Oldest .. Len(seen) : max >= seen[k].frame_len
  BY AnalysisResult DEF Analysis, AnalysisOk, MaxOk
<1>2. BsrSize(Window) = size
  BY DEF BsrSize
<1> HIDE DEF max
<1>3. size \in Nat /\ 2 * size + 1 >= 3 * max
  BY <1>1
<1>4. Larger(1, Len(seen) - UE_HISTORY_CAPACITY + 1) = Oldest
  <2>1. Len(seen) \in Nat /\ UE_HISTORY_CAPACITY \in Nat \ {0}
    BY NatsAssumption, WindowIs
  <2>2. count = IF Len(seen) < UE_HISTORY_CAPACITY THEN Len(seen) ELSE UE_HISTORY_CAPACITY
    BY DEF RingInv, WindowIsSuffix
  <2>3. CASE Len(seen) < UE_HISTORY_CAPACITY
    <3>1. Oldest = 1 /\ ~(1 < Len(seen) - UE_HISTORY_CAPACITY + 1)
      BY <2>1, <2>2, <2>3 DEF Oldest
    <3> QED BY <2>1, <3>1 DEF Larger
  <2>4. CASE ~(Len(seen) < UE_HISTORY_CAPACITY)
    <3>1. /\ Oldest = Len(seen) - UE_HISTORY_CAPACITY + 1
          /\ Len(seen) - UE_HISTORY_CAPACITY + 1 >= 1
      BY <2>1, <2>2, <2>4 DEF Oldest
    <3> QED BY <2>1, <3>1 DEF Larger
  <2> QED BY <2>3, <2>4
<1> HIDE DEF size
<1>5. ASSUME NEW k \in Oldest .. Len(seen) PROVE 2 * size + 1 >= 3 * seen[k].frame_len
  <2>1. seen[k].frame_len \in Nat /\ max >= seen[k].frame_len
    BY <1>1, ZerosAndTwos
  <2> QED BY <1>1, <1>3, <2>1
<1> QED
  BY <1>2, <1>3, <1>4, <1>5 DEF LargeEnough

LEMMA UpToIs ==
  ASSUME NEW c \in Seq(Command), NEW k
  PROVE  /\ UpTo([i \in DOMAIN c |-> c[i].sample], k) <=> InOrderFrom(c, k)
         /\ DOMAIN c = 1 .. Len(c)
<1> DEFINE t == [i \in DOMAIN c |-> c[i].sample]
<1>1. DOMAIN c = 1 .. Len(c) /\ Len(c) \in Nat /\ \A i \in 1 .. Len(c) : c[i] \in Command
  OBVIOUS
<1>2. t \in Seq(Nat) /\ Len(t) = Len(c) /\ DOMAIN t = DOMAIN c
  BY <1>1 DEF Command
<1>3. \A i \in 1 .. Len(c) : t[i] = c[i].sample
  BY <1>1
<1> HIDE DEF t
<1>4. UpTo(t, k) <=> InOrderFrom(c, k)
  BY <1>1, <1>2, <1>3 DEF UpTo, InOrderFrom
<1> QED BY <1>1, <1>4 DEF t

LEMMA CommandsInit ==
  ASSUME Init PROVE CommandsInv
<1>1. <<>> \in Seq(Command) /\ Len(<<>>) = 0
  OBVIOUS
<1> QED BY <1>1 DEF Init, CommandsInv, CommandsOk, SizeInHand, InOrderFrom

LEMMA CommandsKept ==
  ASSUME RingInv, LogsInv, CommandsInv, [Next]_vars PROVE CommandsInv'
<1> USE DEF CommandsInv
<1>t. /\ commands \in Seq(Command) /\ Len(commands) \in Nat
      /\ Len(seen) \in Nat /\ seen \in Seq(Samples)
      /\ \A i \in 1 .. Len(commands) : commands[i] \in Command
  BY DEF CommandsOk, RingInv, RingTypes
\* Neither the ring nor the commands change, and what is open of the channel stays open.
<1>1. ASSUME UNCHANGED <<ring, seen, commands>>, SizeInHand',
             control_sock => control_sock', control_addr => control_addr',
             handler' = "idle" <=> handler = "idle"
      PROVE  CommandsInv'
  BY <1>1 DEF CommandsOk, InOrderFrom, LargeEnough
<1>2. ASSUME UNCHANGED ring PROVE Window' = Window
  BY <1>2 DEF ring, Window, SampleAt
<1>3. ASSUME NEW from, NEW to, MainStep(from, to),
             control_sock => control_sock', control_addr => control_addr'
      PROVE  CommandsInv'
  <2>1. SizeInHand'
    BY <1>2, <1>3 DEF MainStep, SizeInHand
  <2> QED BY <1>1, <1>3, <2>1 DEF MainStep
<1>4. CASE Subscribe \/ OpenSocket \/ FillAddress \/ OpenRawLog \/ OpenAnalysisLog
  <2>1. ~control_sock \/ ~OpenSocket
    BY DEF LogsInv, OpenedInOrder, OpenSocket, MainStep
  <2> QED BY <1>3, <1>4, <2>1
       DEF Subscribe, OpenSocket, FillAddress, OpenRawLog, OpenAnalysisLog, channel
<1>5. CASE LogRaw \/ LogAnalysis
  <2>1. /\ UNCHANGED <<ring, seen, commands, bsr, control_sock, control_addr>>
        /\ handler # "idle" /\ handler' # "idle"
    BY <1>5 DEF LogRaw, LogAnalysis, HandlerStep, channel
  <2>2. SizeInHand'
    BY <1>2, <2>1 DEF SizeInHand
  <2> QED BY <1>1, <2>1, <2>2
<1>6. ASSUME NEW gap \in Gaps, NEW qos \in {0, 2}, NEW len \in FrameLens, HandleSample(gap, qos, len)
      PROVE  CommandsInv'
  <2>1. PICK s \in Samples : seen' = Append(seen, s)
    <3>1. clock + gap \in Nat
      BY NatsAssumption DEF RingInv, RingTypes
    <3> QED BY <3>1, <1>6 DEF HandleSample, Samples
  <2>2. /\ handler = "idle" /\ handler' = "raw" /\ commands' = commands
        /\ control_sock' = control_sock /\ control_addr' = control_addr
        /\ bsr' = BsrSize(Window')
    BY <1>6 DEF HandleSample, HandlerStep, channel
  <2>3. Len(seen') = Len(seen) + 1 /\ \A j \in 1 .. Len(seen) : seen'[j] = seen[j]
    BY <1>t, <2>1, AppendProperties
  <2>4. InOrderFrom(commands, Len(seen))
    BY <2>2 DEF CommandsOk
  <2>5. ASSUME NEW i \in 1 .. Len(commands)
        PROVE  LargeEnough(commands[i].sample, commands[i].bsr_value)'
    <3> DEFINE k == commands[i].sample
               first == Larger(1, k - UE_HISTORY_CAPACITY + 1)
    <3>1. k <= Len(seen) /\ k \in Int /\ UE_HISTORY_CAPACITY \in Nat
      BY <1>t, <2>4, NatsAssumption DEF InOrderFrom
    <3>2. first \in Int /\ first >= 1
      BY <3>1 DEF Larger
    <3>3. commands'[i] = commands[i]
      BY <2>2
    <3> HIDE DEF k, first
    <3>4. \A j \in first .. k : j \in 1 .. Len(seen)
      BY <1>t, <3>1, <3>2
    <3>5. \A j \in first .. k : 2 * commands[i].bsr_value + 1 >= 3 * seen[j].frame_len
      BY DEF CommandsOk, LargeEnough, k, first
    <3> QED BY <2>3, <3>3, <3>4, <3>5 DEF LargeEnough, k, first
  <2>6. InOrderFrom(commands, Len(seen') - 1)
    <3>1. Len(seen') - 1 = Len(seen)
      BY <1>t, <2>3
    <3> QED BY <2>4, <3>1
  <2>7. CommandsOk'
    <3>1. commands = <<>> => InOrderFrom(commands, Len(seen'))
      BY DEF InOrderFrom
    <3> QED BY <2>2, <2>5, <2>6, <3>1 DEF CommandsOk
  <2> QED BY <2>2, <2>7 DEF SizeInHand
<1>7. CASE SendStartBsr
  <2> DEFINE x == [sample |-> Len(seen), bsr_value |-> bsr]
  <2>1. /\ handler = "send" /\ handler' = "idle" /\ bsr' = 0 /\ UNCHANGED <<ring, seen>>
        /\ control_sock' = control_sock /\ control_addr' = control_addr
        /\ commands' = IF control_sock /\ control_addr THEN Append(commands, x) ELSE commands
    BY <1>7 DEF SendStartBsr, HandlerStep, channel
  <2>2. bsr \in Nat /\ LargeEnough(Len(seen), bsr)
    BY <2>1, BsrSizeIs DEF SizeInHand
  <2>3. x \in Command /\ x.sample = Len(seen) /\ x.bsr_value = bsr
    BY <1>t, <2>2 DEF Command
  <2> HIDE DEF x
  <2>4. \A k, size : LargeEnough(k, size)' <=> LargeEnough(k, size)
    BY <2>1 DEF LargeEnough
  <2>5. CASE control_sock /\ control_addr
    <3> DEFINE c == Append(commands, x)
    <3>1. /\ c \in Seq(Command) /\ Len(c) = Len(commands) + 1 /\ c[Len(commands) + 1] = x
          /\ \A i \in 1 .. Len(commands) : c[i] = commands[i]
      BY <1>t, <2>3, AppendProperties
    <3>2. commands' = c
      BY <2>1, <2>5
    <3>3. commands # <<>> => InOrderFrom(commands, Len(seen) - 1)
      BY <2>1 DEF CommandsOk
    <3> HIDE DEF c
    <3>4. ASSUME NEW i \in 1 .. Len(c)
          PROVE  /\ c[i].sample = Len(seen) - Len(c) + i
                 /\ LargeEnough(c[i].sample, c[i].bsr_value)
      <4>1. CASE i = Len(commands) + 1
        BY <1>t, <2>2, <2>3, <3>1, <4>1
      <4>2. CASE i \in 1 .. Len(commands)
        <5>1. commands # <<>>
          BY <4>2
        <5>2. c[i] = commands[i] /\ commands[i].sample = Len(seen) - 1 - Len(commands) + i
          BY <3>1, <3>3, <4>2, <5>1 DEF InOrderFrom
        <5>3. Len(seen) - 1 - Len(commands) + i = Len(seen) - Len(c) + i
          BY <1>t, <3>1
        <5>4. LargeEnough(commands[i].sample, commands[i].bsr_value)
          BY <4>2 DEF CommandsOk
        <5> QED BY <5>2, <5>3, <5>4
      <4> QED BY <1>t, <3>1, <4>1, <4>2
    <3>5. InOrderFrom(commands', Len(seen'))
      BY <2>1, <3>2, <3>4 DEF InOrderFrom
    <3>6. \A i \in 1 .. Len(commands') : LargeEnough(commands[i].sample, commands[i].bsr_value)'
      BY <2>4, <3>2, <3>4
    <3> QED BY <2>1, <2>5, <3>1, <3>2, <3>5, <3>6 DEF CommandsOk, SizeInHand
  <2>6. CASE ~(control_sock /\ control_addr)
    <3>1. commands = <<>> /\ commands' = <<>>
      BY <2>1, <2>6 DEF CommandsOk
    <3>2. CommandsOk'
      BY <2>1, <3>1, <1>t DEF CommandsOk, InOrderFrom
    <3> QED BY <2>1, <3>2 DEF SizeInHand
  <2> QED BY <2>5, <2>6
<1>8. CASE UNCHANGED vars
  <2>1. SizeInHand'
    BY <1>2, <1>8 DEF vars, SizeInHand
  <2> QED BY <1>1, <1>8, <2>1 DEF vars, channel
<1> QED BY <1>4, <1>5, <1>6, <1>7, <1>8 DEF Next

StartUpTypes ==
  /\ main \in Steps
  /\ control_sock \in BOOLEAN /\ control_addr \in BOOLEAN
  /\ raw_log \in BOOLEAN /\ analysis_log \in BOOLEAN

LEMMA StartUpKept ==
  ASSUME StartUpTypes, [Next]_vars PROVE StartUpTypes'
BY DEF StartUpTypes, Next, vars, channel, logs, MainStep, HandlerStep, Steps, Subscribe, OpenSocket,
       FillAddress, OpenRawLog, OpenAnalysisLog, HandleSample, LogRaw, LogAnalysis, SendStartBsr

LEMMA NatsInvariants == Spec => [](RingInv /\ LogsInv /\ CommandsInv /\ StartUpTypes)
<1>1. Init => RingInv /\ LogsInv /\ CommandsInv /\ StartUpTypes
  BY RingInit, LogsInit, CommandsInit DEF Init, StartUpTypes, Steps
<1>2. RingInv /\ LogsInv /\ CommandsInv /\ StartUpTypes /\ [Next]_vars => (RingInv /\ LogsInv /\ CommandsInv /\ StartUpTypes)'
  BY RingStep, LogsKept, CommandsKept, StartUpKept
<1> QED BY <1>1, <1>2, PTL DEF Spec

\* Once a command was sent to the proxy every sample has its own, in order, and for a
\* buffer that suits the largest PDU in the window.
THEOREM NatsCommands == Spec => []CommandsFollowSamples
<1>1. RingInv /\ LogsInv /\ CommandsInv /\ StartUpTypes => CommandsFollowSamples
  <2> SUFFICES ASSUME CommandsInv PROVE CommandsFollowSamples
    OBVIOUS
  <2>1. commands \in Seq(Command)
    BY DEF CommandsInv, CommandsOk
  <2> QED BY <2>1, UpToIs DEF CommandsInv, CommandsOk, CommandsFollowSamples, LargeEnough
<1> QED BY <1>1, NatsInvariants, PTL

\* The state has its types, the indices of the ring among them.
THEOREM NatsTypes == Spec => []NatsTypeOK
<1>1. RingInv /\ LogsInv /\ CommandsInv /\ StartUpTypes => NatsTypeOK
  <2> SUFFICES ASSUME RingInv, LogsInv, CommandsInv, StartUpTypes PROVE NatsTypeOK
    OBVIOUS
  <2>1. bsr \in Nat
    BY BsrSizeIs DEF CommandsInv, SizeInHand
  <2> QED BY <2>1
       DEF RingInv, RingTypes, C, LogsInv, RowTypes, StartUpTypes, CommandsInv, CommandsOk,
           Command, NatsTypeOK, Steps
<1> QED BY <1>1, NatsInvariants, PTL
=============================================================================
