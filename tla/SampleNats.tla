------------------------------ MODULE SampleNats -----------------------------
(***************************************************************************)
(* The traffic analyser (u-tokyo/sample_nats.c): the thread of the NATS    *)
(* library hands it the samples of a UE, which it keeps in a ring; after   *)
(* each sample it runs two analyses of the whole ring, writes a row in     *)
(* each of two logs and sends the proxy a command for a buffer status      *)
(* report. The main thread opens the control socket and the logs only      *)
(* after it has subscribed; what it cannot open stays closed and it goes   *)
(* on. The module follows one RNTI: the table has a ring for each, and     *)
(* nothing else relates them. It ends where the code does, at sendto and   *)
(* fprintf, whose results are ignored: commands go by UDP to another host, *)
(* where they may get lost, be late or come twice. Times are in ticks.     *)
(***************************************************************************)
EXTENDS Integers, Sequences, FiniteSets, SequencesExt

CONSTANTS
  UE_HISTORY_CAPACITY,
  FrameLens,     \* lengths of MAC PDUs to consider
  Gaps,          \* times between messages to consider
  MaxSamples,    \* bound: samples of the UE
  MaxEarly       \* bound: samples that come before main() is done

ASSUME NatsAssumption ==
  /\ UE_HISTORY_CAPACITY \in Nat \ {0}
  /\ FrameLens \subseteq Nat /\ Gaps \subseteq Nat /\ MaxSamples \in Nat /\ MaxEarly \in Nat

\* An MQTT publication found in a PDU: its time, its quality of service, the length of
\* the PDU. The topic is left out.
Samples == [timestamp : Nat, qos : {0, 2}, frame_len : FrameLens]
NoSample == [timestamp |-> 0, qos |-> 0, frame_len |-> 0]   \* memory from calloc

VARIABLES
  history, count, head,    \* ue_state_t
  clock,                   \* now_seconds() at the start of the message in hand
  main,                    \* the next step of main()
  control_sock,            \* is the socket open?
  control_addr,            \* is the address filled?
  raw_log, analysis_log,   \* are the logs open?
  handler,                 \* the next step of handle_message
  bsr,                     \* result.bsr_size, while the handler holds it
  seen,                    \* all samples
  raw_rows, analysis_rows, \* the samples whose row was handed to fprintf
  commands                 \* what was handed to sendto with the address of the proxy,
                           \* with the sample it is about

ring    == <<history, count, head>>
channel == <<control_sock, control_addr>>
logs    == <<raw_log, analysis_log>>
rows    == <<raw_rows, analysis_rows>>
vars == <<ring, clock, main, channel, logs, handler, bsr, seen, rows, commands>>

Init ==
  /\ history = [i \in 0 .. UE_HISTORY_CAPACITY - 1 |-> NoSample]
  /\ count = 0 /\ head = 0
  /\ clock = 0
  /\ main = "subscribe"
  /\ control_sock = FALSE /\ control_addr = FALSE
  /\ raw_log = FALSE /\ analysis_log = FALSE
  /\ handler = "idle" /\ bsr = 0
  /\ seen = <<>> /\ raw_rows = <<>> /\ analysis_rows = <<>> /\ commands = <<>>

-----------------------------------------------------------------------------
(* main *)

MainStep(from, to) ==
  /\ main = from /\ main' = to
  /\ UNCHANGED <<ring, clock, handler, bsr, seen, rows, commands>>

Subscribe == MainStep("subscribe", "socket") /\ UNCHANGED <<channel, logs>>

\* mutant: the address is never filled
OpenSocketOnly ==
  /\ MainStep("socket", "raw_log")
  /\ control_sock' \in BOOLEAN
  /\ UNCHANGED <<control_addr, logs>>

\* control_channel_init: the socket is known before the address is filled; without a
\* socket the address is left as it is.
OpenSocket ==
  /\ control_sock' \in BOOLEAN
  /\ MainStep("socket", IF control_sock' THEN "address" ELSE "raw_log")
  /\ UNCHANGED <<control_addr, logs>>

FillAddress ==
  /\ MainStep("address", "raw_log")
  /\ control_addr' = TRUE
  /\ UNCHANGED <<control_sock, logs>>

\* csv_log_init, which does not take ue_table_mutex. Each fopen may fail, whatever
\* becomes of the other.
OpenRawLog ==
  /\ MainStep("raw_log", "analysis_log")
  /\ raw_log' \in BOOLEAN
  /\ UNCHANGED <<channel, analysis_log>>

OpenAnalysisLog ==
  /\ MainStep("analysis_log", "sleep")
  /\ analysis_log' \in BOOLEAN
  /\ UNCHANGED <<channel, raw_log>>

-----------------------------------------------------------------------------
(* ue_add_sample, ue_sample_at *)

\* mutant: head does not wrap
AddSampleNoWrap(s) ==
  /\ history' = [history EXCEPT ![head] = s]
  /\ head' = head + 1
  /\ count' = IF count < UE_HISTORY_CAPACITY THEN count + 1 ELSE count

AddSample(s) ==
  /\ history' = [history EXCEPT ![head] = s]
  /\ head' = (head + 1) % UE_HISTORY_CAPACITY
  /\ count' = IF count < UE_HISTORY_CAPACITY THEN count + 1 ELSE count

\* mutant: the window always starts with the first slot
SampleAtFirst(i) == history[i % UE_HISTORY_CAPACITY]

SampleAt(i) ==
  LET start == IF count < UE_HISTORY_CAPACITY THEN 0 ELSE head
  IN  history[(start + i) % UE_HISTORY_CAPACITY]

\* The samples the analyses go through, oldest first.
Window == [i \in 1 .. count |-> SampleAt(i - 1)]

-----------------------------------------------------------------------------
(* analyze_ue_traffic *)

Larger(a, b) == IF a > b THEN a ELSE b

NoTime == -1

Empty == [normal |-> <<>>, last_qos0_time |-> NoTime, in_burst |-> FALSE,
          burst_start_time |-> NoTime, burst_end_time |-> NoTime,
          burst_message_count |-> 0, max_len |-> 0]

\* mutant: intervals that span a burst count as normal
AnalyzeSampleAnyInterval(a, s) ==
  IF s.qos = 0
  THEN [a EXCEPT !.normal = IF a.last_qos0_time # NoTime
                            THEN Append(@, s.timestamp - a.last_qos0_time) ELSE @,
                 !.last_qos0_time = s.timestamp,
                 !.in_burst = FALSE]
  ELSE [a EXCEPT !.in_burst = TRUE]

\* mutant: the publication of QoS 0 that ends a burst overwrites its end
AnalyzeSampleLateEnd(a, s) ==
  IF s.qos = 0
  THEN [a EXCEPT !.burst_end_time = IF a.in_burst THEN s.timestamp ELSE @,
                 !.in_burst = FALSE]
  ELSE [a EXCEPT !.in_burst = TRUE,
                 !.burst_start_time = IF a.in_burst THEN @ ELSE s.timestamp,
                 !.burst_end_time = s.timestamp,
                 !.burst_message_count = @ + 1]

AnalyzeSample(a, s) ==
  LET b == [a EXCEPT !.max_len = Larger(@, s.frame_len)]
  IN  IF s.qos = 0
      THEN [b EXCEPT !.normal = IF a.last_qos0_time # NoTime /\ ~a.in_burst
                                THEN Append(@, s.timestamp - a.last_qos0_time) ELSE @,
                     !.last_qos0_time = s.timestamp,
                     !.in_burst = FALSE]
      ELSE [b EXCEPT !.in_burst = TRUE,
                     !.burst_start_time = IF a.in_burst THEN @ ELSE s.timestamp,
                     !.burst_end_time = s.timestamp,
                     !.burst_message_count = @ + 1]

Analyze(w) == FoldLeft(AnalyzeSample, Empty, w)

\* mutant: only the newest sample counts
BsrSizeOfLast(w) == (Last(w).frame_len * 3) \div 2

\* bsr_size, as the integer that is sent
BsrSize(w) == (Analyze(w).max_len * 3) \div 2

-----------------------------------------------------------------------------
(* analyze_ue_traffic_jitter, up to the two lists of intervals *)

EmptyJitter == [normal |-> <<>>, burst |-> <<>>, last_qos0_time |-> NoTime, in_burst |-> FALSE]

\* mutant: the first publication of QoS 0 ends a burst too
JitterSampleFirstEnds(a, s) ==
  LET interval == s.timestamp - a.last_qos0_time
      b        == [a EXCEPT !.last_qos0_time = s.timestamp, !.in_burst = FALSE]
  IN  CASE s.qos = 2 -> [a EXCEPT !.in_burst = TRUE]
        [] s.qos = 0 /\ a.last_qos0_time = NoTime -> b
        [] s.qos = 0 /\ a.last_qos0_time # NoTime /\ a.in_burst ->
             [b EXCEPT !.burst = Append(@, interval)]
        [] OTHER -> [b EXCEPT !.normal = Append(@, interval)]

JitterSample(a, s) ==
  LET interval == s.timestamp - a.last_qos0_time
  IN  CASE s.qos = 2 -> [a EXCEPT !.in_burst = TRUE]
        [] s.qos = 0 /\ a.last_qos0_time = NoTime -> [a EXCEPT !.last_qos0_time = s.timestamp]
        [] s.qos = 0 /\ a.last_qos0_time # NoTime /\ a.in_burst ->
             [a EXCEPT !.burst = Append(@, interval), !.in_burst = FALSE,
                       !.last_qos0_time = s.timestamp]
        [] OTHER -> [a EXCEPT !.normal = Append(@, interval), !.last_qos0_time = s.timestamp]

AnalyzeJitter(w) == FoldLeft(JitterSample, EmptyJitter, w)

-----------------------------------------------------------------------------
(* handle_message, for each publication found in a PDU of the message *)

HandlerStep(from, to) ==
  /\ handler = from /\ handler' = to
  /\ UNCHANGED <<main, channel, logs>>

\* The time is read once for all PDUs of a message: gap 0 is the next PDU of the same
\* message. The sample is added and analysed under ue_table_mutex.
HandleSample(gap, qos, len) ==
  LET s == [timestamp |-> clock + gap, qos |-> qos, frame_len |-> len]
  IN  /\ main # "subscribe"
      /\ Len(seen) < IF main = "sleep" THEN MaxSamples ELSE MaxEarly
      /\ HandlerStep("idle", "raw")
      /\ clock' = clock + gap
      /\ AddSample(s)
      /\ seen' = Append(seen, s)
      /\ bsr' = BsrSize(Window')
      /\ UNCHANGED <<rows, commands>>

\* csv_log_raw_sample
LogRaw ==
  /\ HandlerStep("raw", "analysis")
  /\ raw_rows' = IF raw_log THEN Append(raw_rows, Len(seen)) ELSE raw_rows
  /\ UNCHANGED <<ring, clock, bsr, seen, analysis_rows, commands>>

\* csv_log_analysis
LogAnalysis ==
  /\ HandlerStep("analysis", "send")
  /\ analysis_rows' = IF analysis_log THEN Append(analysis_rows, Len(seen)) ELSE analysis_rows
  /\ UNCHANGED <<ring, clock, bsr, seen, raw_rows, commands>>

\* send_start_bsr: without a socket nothing is sent, and while the address is not filled
\* it is not sent to the proxy.
SendStartBsr ==
  /\ HandlerStep("send", "idle")
  /\ commands' = IF control_sock /\ control_addr
                 THEN Append(commands, [sample |-> Len(seen), bsr_value |-> bsr])
                 ELSE commands
  /\ bsr' = 0
  /\ UNCHANGED <<ring, clock, seen, rows>>

-----------------------------------------------------------------------------
Next ==
  \/ Subscribe \/ OpenSocket \/ FillAddress \/ OpenRawLog \/ OpenAnalysisLog
  \/ \E gap \in Gaps, qos \in {0, 2}, len \in FrameLens : HandleSample(gap, qos, len)
  \/ LogRaw \/ LogAnalysis \/ SendStartBsr

Spec == Init /\ [][Next]_vars

-----------------------------------------------------------------------------
Steps == {"subscribe", "socket", "address", "raw_log", "analysis_log", "sleep"}

NatsTypeOK ==
  /\ history \in [0 .. UE_HISTORY_CAPACITY - 1 -> Samples \cup {NoSample}]
  /\ count \in 0 .. UE_HISTORY_CAPACITY /\ head \in 0 .. UE_HISTORY_CAPACITY - 1
  /\ clock \in Nat /\ main \in Steps
  /\ control_sock \in BOOLEAN /\ control_addr \in BOOLEAN
  /\ raw_log \in BOOLEAN /\ analysis_log \in BOOLEAN
  /\ handler \in {"idle", "raw", "analysis", "send"} /\ bsr \in Nat
  /\ seen \in Seq(Samples)
  /\ raw_rows \in Seq(Nat) /\ analysis_rows \in Seq(Nat)
  /\ commands \in Seq([sample : Nat, bsr_value : Nat])

\* The oldest sample still in the window, in all that was seen.
Oldest == Len(seen) - count + 1

\* The window is the last samples, in order, as many as fit: however often the ring
\* goes round, what an analysis sees of an earlier use of the RNTI ends with it.
WindowIsSuffix ==
  /\ count = IF Len(seen) < UE_HISTORY_CAPACITY THEN Len(seen) ELSE UE_HISTORY_CAPACITY
  /\ \A i \in 0 .. count - 1 : SampleAt(i) = seen[Oldest + i]

Zeros == {k \in Oldest .. Len(seen) : seen[k].qos = 0}
Twos  == {k \in Oldest .. Len(seen) : seen[k].qos = 2}

\* q lists v[k] for the k in S, in their order.
Rank(k, S) == Cardinality({j \in S : j <= k})
Lists(q, S, v) == Len(q) = Cardinality(S) /\ \A k \in S : q[Rank(k, S)] = v[k]

\* The first analysis counts as normal exactly the intervals between two publications
\* of QoS 0 with nothing in between. Whether an interval counts does not depend on what
\* the ring has forgotten.
NormalIntervalsOfHistory ==
  LET ends == {k \in Zeros : k - 1 \in Zeros}
  IN  Lists(Analyze(Window).normal, ends,
            [k \in ends |-> seen[k].timestamp - seen[k - 1].timestamp])

\* The burst it reports is the last run of QoS 2; of a run longer than the window it
\* gives the start of what is left. The number of messages is that of all runs.
LastBurstOfHistory ==
  LET a == Analyze(Window)
  IN  /\ a.burst_message_count = Cardinality(Twos)
      /\ Twos = {} <=> a.burst_end_time = NoTime
      /\ \A last \in Twos :
           (\A j \in Twos : j <= last) =>
             /\ a.burst_end_time = seen[last].timestamp
             /\ \E k \in Twos : /\ k - 1 \notin Twos /\ k .. last \subseteq Twos
                                /\ a.burst_start_time = seen[k].timestamp

\* The first analysis depends on what the ring has forgotten only as a burst longer
\* than the window does: its intervals and its burst are those of the samples seen.
AnalysisOfHistory == NormalIntervalsOfHistory /\ LastBurstOfHistory

\* The publication of QoS 0 before k
ZeroBefore(k) == CHOOSE z \in Zeros : z < k /\ \A y \in Zeros : y < k => y <= z

\* The second analysis counts each interval between publications of QoS 0 once, and as
\* part of a burst if QoS 2 came in between; but when the window begins with QoS 2, the
\* first interval counts as part of a burst whatever it is: what was normal stops being
\* so when an older sample is forgotten.
JitterMisjudgesFirstOnly ==
  LET a    == AnalyzeJitter(Window)
      ends == {k \in Zeros : \E z \in Zeros : z < k}
      first(k) == \A z \in Zeros : z < k => z = ZeroBefore(k)
      late == {k \in ends : k - 1 \notin Zeros \/ (first(k) /\ Oldest \notin Zeros)}
      intervals == [k \in ends |-> seen[k].timestamp - seen[ZeroBefore(k)].timestamp]
  IN  Lists(a.burst, late, intervals) /\ Lists(a.normal, ends \ late, intervals)

\* Is a sequence of samples contiguous, up to a given one?
UpTo(samples, k) == \A i \in DOMAIN samples : samples[i] = k - Len(samples) + i

\* Once a command was sent to the proxy, every later sample gets its own, in order: the
\* samples without one came before the end of the start-up, or the socket did not open
\* and no sample has one. Each command is for a buffer that holds the largest PDU in
\* the window one and a half times, so that the next one makes up for one that gets
\* lost on its way.
CommandsFollowSamples ==
  /\ UpTo([i \in DOMAIN commands |-> commands[i].sample],
          IF handler = "idle" \/ commands = <<>> THEN Len(seen) ELSE Len(seen) - 1)
  /\ \A i \in DOMAIN commands :
       LET k == commands[i].sample
       IN  \A j \in Larger(1, k - UE_HISTORY_CAPACITY + 1) .. k :
             2 * commands[i].bsr_value + 1 >= 3 * seen[j].frame_len

Finished(samples, at) ==
  UpTo(samples, IF handler \in at \/ samples = <<>> THEN Len(seen) ELSE Len(seen) - 1)

\* Each log misses no row once it has begun. With a socket, no sample has a row but no
\* command, though socket and logs are opened while samples are handled. With the raw
\* log open, the analysis has at most one row that the raw log misses, and it may have
\* one, because they are opened without the mutex that protects them. Each of the three
\* may stay closed, and nothing relates it to the others then.
LogsFollowCommands ==
  /\ Finished(raw_rows, {"idle", "analysis", "send"})
  /\ Finished(analysis_rows, {"idle", "send"})
  /\ handler = "idle" /\ control_sock =>
       Len(commands) >= Len(raw_rows) /\ Len(commands) >= Len(analysis_rows)
  /\ handler = "idle" /\ raw_log => Len(analysis_rows) <= Len(raw_rows) + 1
=============================================================================
