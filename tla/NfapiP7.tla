------------------------------- MODULE NfapiP7 -------------------------------
(***************************************************************************)
(* The slot messages of nFAPI (P7) from one end to the other: the sender   *)
(* cuts a message in datagrams that carry eight bits of its number, UDP    *)
(* loses, reorders and duplicates them, and the receiver puts the messages *)
(* together again. A datagram stays on its way for MaxDelay ticks at most, *)
(* and the sender sends one message per tick at most: so says the radio's  *)
(* schedule of slots.                                                      *)
(***************************************************************************)
EXTENDS Integers, Sequences, FiniteSets

CONSTANTS
  Sides,      \* the receivers to consider: "pnf", "vnf"
  SeqMod,     \* sequence numbers, 256 in the code
  MaxSeg,     \* segments of a message, 128 in the code
  Lengths,    \* numbers of segments to consider
  Delta,      \* age at which a message is given up, 10 ms in the code
  Sec,        \* ticks in a second
  Field,      \* values of the field of a time stamp that holds a fraction of a second
  Secs,       \* values of the field that holds the seconds, 4096 in the code
  MaxDelay,   \* how long a datagram may be on its way
  MaxMsgs,    \* bound: messages sent
  MaxTime,    \* bound: the clock
  MaxDup      \* bound: datagrams UDP duplicates

ASSUME P7Assumption ==
  /\ Sides \subseteq {"pnf", "vnf"}
  /\ SeqMod \in Nat \ {0} /\ MaxSeg \in 1 .. 128 /\ Delta \in Nat /\ MaxDelay \in Nat
  /\ Delta + MaxDelay < SeqMod
  /\ Sec \in Nat \ {0} /\ Field \in Nat /\ Field >= Sec /\ Secs \in Nat
  /\ Lengths \subseteq 1 .. MaxSeg
  /\ MaxMsgs \in Nat /\ MaxDup \in Nat /\ MaxTime \in Nat
  /\ MaxTime < Sec * Secs

\* num_segments_expected before the last segment is seen
Unknown == 255

\* What a datagram holds. That it is one of "of" segments only the sender and the
\* properties know: the header says whether more follow.
Segments == {p \in [msg : 0 .. MaxMsgs - 1, seg : 0 .. MaxSeg - 1, of : 1 .. MaxSeg] :
               p.seg < p.of}
More(p)  == p.seg + 1 < p.of

\* mutant: the mask of the sequence number is a value short
SeqOfShort(p) == p.msg % (SeqMod - 1)

SeqOf(p) == p.msg % SeqMod

Hole    == [msg |-> -1, seg |-> 0, of |-> 0]   \* a slot of a message never written
Nothing == [parts |-> <<>>, span |-> 0, twice |-> FALSE]

VARIABLES
  side,          \* who receives
  now,
  sent, idle,    \* messages sent (sequence_number); is none sent in this tick yet?
  net,           \* datagrams on their way
  dups,
  queue,         \* reassembly_queue
  handed,        \* what the last datagram received let the receiver hand up, if anything
  heard,         \* when the receiver last had an occasion to look for old messages
  tracks,        \* for each message on its way, what has arrived of it, and when
  due            \* the segment that completed a message in time, if the last one did

txvars == <<sent, idle>>
ghosts == <<heard, tracks, due>>
vars == <<side, now, txvars, net, dups, queue, handed, ghosts>>

Untracked == [got |-> {}, first |-> 0, clean |-> FALSE]

Init ==
  /\ side \in Sides
  /\ now \in 0 .. Sec - 1
  /\ sent = 0 /\ idle = TRUE
  /\ net = {} /\ dups = 0
  /\ queue = {} /\ handed = Nothing
  /\ heard = 0 /\ due = Hole
  /\ tracks = [m \in 0 .. MaxMsgs - 1 |-> Untracked]

-----------------------------------------------------------------------------
(* The sender: pnf_nr_send_p7_message, vnf_nr_send_p7_msg *)

SendMessage(n) ==
  /\ idle /\ sent < MaxMsgs
  /\ idle' = FALSE /\ sent' = sent + 1
  /\ net' = net \cup {[part |-> [msg |-> sent, seg |-> i, of |-> n], at |-> now]
                         : i \in 0 .. n - 1}
  /\ handed' = Nothing /\ due' = Hole
  /\ UNCHANGED <<side, now, dups, queue, heard, tracks>>

-----------------------------------------------------------------------------
(* UDP *)

\* Time passes: what should have arrived and did not is lost.
Tick ==
  /\ now < MaxTime
  /\ now' = now + 1
  /\ net' = {d \in net : now < d.at + MaxDelay}
  /\ tracks' = [m \in DOMAIN tracks |->
                  IF \E d \in net' : d.part.msg = m THEN tracks[m] ELSE Untracked]
  /\ idle' = TRUE
  /\ handed' = Nothing /\ due' = Hole
  /\ UNCHANGED <<side, sent, dups, queue, heard>>

-----------------------------------------------------------------------------
(* Time stamps *)

\* TIME2TIMEHR: seconds and microseconds in two fields of one word
TimeHr(t) == ((t \div Sec) % Secs) * Field + (t % Sec)

\* The age of a message is a difference of two of these words.
Elapsed(t, t0) == (TimeHr(t) - TimeHr(t0)) % (Field * Secs)

-----------------------------------------------------------------------------
(* The receiver: pnf_nr_reassemble_nfapi_p7_message, vnf_nr_reassemble_p7_message *)

NewMessage(p) ==
  [seq |-> SeqOf(p), expected |-> IF More(p) THEN Unknown ELSE p.seg + 1, received |-> 1,
   t0 |-> now, segs |-> [[i \in 0 .. MaxSeg - 1 |-> Hole] EXCEPT ![p.seg] = p],
   twice |-> FALSE]

\* mutant: the last segment does not say how many there are
AddToUncounted(e, p) ==
  [e EXCEPT !.segs[p.seg] = p, !.received = @ + 1, !.twice = @ \/ e.segs[p.seg] = p]

AddTo(e, p) ==
  [e EXCEPT !.segs[p.seg] = p, !.received = @ + 1,
            !.expected = IF More(p) THEN @ ELSE p.seg + 1,
            !.twice = @ \/ e.segs[p.seg] = p]

\* reassembly_queue_add_segment: only the sequence number is looked at
AddSegment(p) ==
  IF \E e \in queue : e.seq = SeqOf(p)
  THEN AddTo(CHOOSE e \in queue : e.seq = SeqOf(p), p)
  ELSE NewMessage(p)

\* reassembly_queue_remove_old_msgs
RemoveOld(msgs) == {e \in msgs : Elapsed(now, e.t0) <= Delta}

\* The segments 0 to num_segments_expected - 1, whatever is in their slots.
Assembled(e) == [parts |-> [i \in 1 .. e.expected |-> e.segs[i - 1]],
                 span |-> now - e.t0, twice |-> e.twice]

\* mutant: only datagrams of segmented messages make the PNF look for old messages
ReceiveWholeOnly(p) ==
  /\ handed' = [parts |-> <<p>>, span |-> 0, twice |-> FALSE]
  /\ queue' = queue
  /\ heard' = IF side = "pnf" THEN now ELSE heard

\* A message of one segment goes up at once; the PNF still looks for old messages.
ReceiveWhole(p) ==
  /\ handed' = [parts |-> <<p>>, span |-> 0, twice |-> FALSE]
  /\ queue' = IF side = "pnf" THEN RemoveOld(queue) ELSE queue
  /\ heard' = IF side = "pnf" THEN now ELSE heard

\* mutant: a copy of the message found is put in the queue
ReceiveSegmentCopies(p) ==
  LET e == AddSegment(p)
  IN  /\ \/ /\ e.received = e.expected
            /\ handed' = Assembled(e)
            /\ queue' = RemoveOld(queue)
         \/ /\ e.received # e.expected
            /\ handed' = Nothing
            /\ queue' = RemoveOld(queue \cup {e})
      /\ heard' = now

ReceiveSegment(p) ==
  LET e      == AddSegment(p)
      others == {o \in queue : o.seq # e.seq}
  IN  /\ \/ /\ e.received = e.expected
            /\ handed' = Assembled(e)
            /\ queue' = RemoveOld(others)
         \/ /\ e.received # e.expected
            /\ handed' = Nothing
            /\ queue' = RemoveOld(others \cup {e})
      /\ heard' = now

\* What the properties remember of a message: which of its segments arrived, since when,
\* and whether another message was in its place in the queue or a segment came twice.
Track(p) ==
  LET t == tracks[p.msg]
  IN  IF t.got = {}
      THEN [got |-> {p.seg}, first |-> now, clean |-> \A e \in queue : e.seq # SeqOf(p)]
      ELSE [t EXCEPT !.got = @ \cup {p.seg}, !.clean = @ /\ p.seg \notin t.got]

\* All of a message arrived within Delta, and within one second of the clock.
InTime(t, p) == /\ t.clean /\ t.got = 0 .. p.of - 1
                /\ now - t.first <= Delta /\ now \div Sec = t.first \div Sec

\* A datagram that is duplicated arrives, and stays on its way.
Receive(d) ==
  LET p == d.part
  IN  /\ IF p.seg = 0 /\ ~More(p) THEN ReceiveWhole(p) ELSE ReceiveSegment(p)
      /\ \/ net' = net \ {d} /\ dups' = dups
         \/ net' = net /\ dups < MaxDup /\ dups' = dups + 1
      /\ tracks' = [tracks EXCEPT ![p.msg] = Track(p)]
      /\ due' = IF InTime(Track(p), p) THEN p ELSE Hole
      /\ UNCHANGED <<side, now, txvars>>

-----------------------------------------------------------------------------
Next ==
  \/ \E n \in Lengths : SendMessage(n)
  \/ \E d \in net : Receive(d)
  \/ Tick

Spec == Init /\ [][Next]_vars

-----------------------------------------------------------------------------
Parts == Segments \cup {Hole}

P7TypeOK ==
  /\ side \in Sides /\ now \in 0 .. MaxTime \cup 0 .. Sec - 1
  /\ sent \in 0 .. MaxMsgs /\ idle \in BOOLEAN /\ dups \in 0 .. MaxDup
  /\ \A d \in net : d.part \in Segments /\ d.at \in 0 .. now
  /\ \A e \in queue : /\ e.seq \in 0 .. SeqMod - 1 /\ e.expected \in 1 .. MaxSeg \cup {Unknown}
                      /\ e.received \in Nat /\ e.t0 \in 0 .. now /\ e.twice \in BOOLEAN
                      /\ e.segs \in [0 .. MaxSeg - 1 -> Parts]
  /\ \A e, f \in queue : e.seq = f.seq => e = f
  /\ handed.span \in 0 .. now /\ handed.twice \in BOOLEAN
  /\ heard \in 0 .. now /\ due \in Parts

\* No message the receiver has an occasion to give up survives it, whatever the fields
\* of the time stamps do: a datagram can join a message older than Delta only if nothing
\* (at the VNF: no datagram of a message of several segments) arrived since it was too old.
NoStaleMessageSurvives == \A e \in queue : heard <= e.t0 + Delta

OneMessage(parts) == \A i \in DOMAIN parts : /\ parts[i].msg = parts[1].msg
                                             /\ parts[i].seg = i - 1
                                             /\ parts[i].of = Len(parts)

\* The numbers are reused after SeqMod messages, and only the number tells two messages
\* apart; yet what is put together within Delta, without a datagram counted twice, is a
\* message that was sent, and all of it.
WholeMessages ==
  handed # Nothing /\ ~handed.twice /\ handed.span <= Delta => OneMessage(handed.parts)

\* A message of which all arrives within Delta, in whatever order, goes up with the last
\* of it: unless the clock begins a new second in between, which makes the difference of
\* two time stamps jump by Field - Sec, or a datagram came twice, or an older message
\* with the same number was still in the queue.
InTimeIsHanded ==
  due # Hole => handed # Nothing /\ OneMessage(handed.parts) /\ handed.parts[1].msg = due.msg
=============================================================================
