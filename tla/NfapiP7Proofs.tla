----------------------------- MODULE NfapiP7Proofs -----------------------------
(***************************************************************************)
(* Proofs about the slot messages of nFAPI, for any range of the sequence  *)
(* number, any length of the messages and of the second, and any delay     *)
(* that is less than a round of the sequence numbers.                      *)
(***************************************************************************)
EXTENDS NfapiP7, FiniteSetTheorems, TLAPS

-----------------------------------------------------------------------------
(***************************************************************************)
(* Numbers                                                                 *)
(***************************************************************************)

\* Only these facts of division are used.
LEMMA Division ==
  ASSUME NEW N \in Nat \ {0}, NEW c \in Nat
  PROVE  c = (c \div N) * N + (c % N) /\ c % N \in 0 .. N - 1 /\ c \div N \in Nat
BY SMT

LEMMA Products ==
  ASSUME NEW a \in Nat, NEW m \in Nat, NEW n \in Nat, m <= n
  PROVE  a * m <= a * n /\ a * n \in Nat /\ (a > 0 => a * n >= n)
BY SMT

LEMMA Quotients ==
  ASSUME NEW N \in Nat \ {0}, NEW a \in Nat, NEW b \in 0 .. a
  PROVE  /\ b \div N <= a \div N /\ a \div N <= (a + 1) \div N
         /\ b \div N \in Int /\ a \div N \in Int /\ (a + 1) \div N \in Int
BY SMT

\* Two numbers with the same remainder that are closer than the divisor are equal.
LEMMA SameRemainder ==
  ASSUME NEW N \in Nat \ {0}, NEW a \in Nat, NEW b \in Nat, a % N = b % N, a - b < N, b - a < N
  PROVE  a = b
<1> DEFINE p == a \div N
           q == b \div N
           r == a % N
<1>0. a = p * N + (a % N) /\ b = q * N + (b % N) /\ p \in Nat /\ q \in Nat /\ a % N \in 0 .. N - 1
  BY Division
<1>1. a = p * N + r /\ b = q * N + r /\ p \in Nat /\ q \in Nat /\ r \in Int
  BY <1>0
<1> HIDE DEF p, q, r
<1>2. a - b = (p - q) * N /\ b - a = (q - p) * N
  BY <1>1, SMT
<1>3. CASE p > q
  <2>1. (p - q) * N >= N
    BY <1>1, <1>3, Products
  <2> QED BY <2>1, <1>2
<1>4. CASE q > p
  <2>1. (q - p) * N >= N
    BY <1>1, <1>4, Products
  <2> QED BY <2>1, <1>2
<1> QED BY <1>1, <1>3, <1>4

Moment == 0 .. Sec * Secs - 1

\* While the seconds do not wrap, the difference of two time stamps is no less than the
\* time between them.
LEMMA ElapsedAtLeast ==
  ASSUME NEW t \in Moment, NEW t0 \in Moment, t0 <= t
  PROVE  /\ Elapsed(t, t0) \in Int /\ Elapsed(t, t0) >= t - t0
         /\ (t \div Sec = t0 \div Sec => Elapsed(t, t0) = t - t0)
<1> DEFINE a == t \div Sec
           b == t0 \div Sec
           r == t % Sec
           s == t0 % Sec
<1>c. Sec \in Nat \ {0} /\ Secs \in Nat /\ Field \in Nat /\ Field >= Sec /\ Sec * Secs \in Nat
      /\ t \in Nat /\ t0 \in Nat /\ t < Sec * Secs
  <2>1. Sec \in Nat \ {0} /\ Secs \in Nat /\ Field \in Nat /\ Field >= Sec
    BY P7Assumption
  <2>2. Sec * Secs \in Nat
    BY <2>1, SMT
  <2> QED BY <2>1, <2>2 DEF Moment
<1>1. /\ t = a * Sec + r /\ r \in 0 .. Sec - 1 /\ a \in Nat
      /\ t0 = b * Sec + s /\ s \in 0 .. Sec - 1 /\ b \in Nat
  BY <1>c, Division
<1> HIDE DEF a, b, r, s
<1>2. a < Secs /\ b < Secs
  <2>1. ASSUME NEW x \in Nat, x * Sec < Sec * Secs PROVE x < Secs
    <3> SUFFICES ASSUME x >= Secs PROVE FALSE
      BY <1>c
    <3>1. Sec * Secs <= Sec * x
      BY <1>c, Products
    <3>2. Sec * x = x * Sec
      BY <1>c, SMT
    <3> QED BY <2>1, <3>1, <3>2, <1>c
  <2>2. a * Sec <= t /\ b * Sec <= t0 /\ a * Sec \in Nat /\ b * Sec \in Nat
    BY <1>1, <1>c, SMT
  <2> QED BY <2>1, <2>2, <1>1, <1>c
<1>3. b <= a
  <2> SUFFICES ASSUME b > a PROVE FALSE
    BY <1>1
  <2>1. b * Sec - a * Sec = (b - a) * Sec /\ a * Sec \in Nat /\ b * Sec \in Nat
    BY <1>1, <1>c, SMT
  <2>2. (b - a) * Sec >= Sec
    BY <1>1, <1>c, Products
  <2> QED BY <2>1, <2>2, <1>1, <1>c
<1>4. a % Secs = a /\ b % Secs = b
  BY <1>1, <1>2, <1>c, SMT
<1>5. TimeHr(t) = a * Field + r /\ TimeHr(t0) = b * Field + s
  BY <1>4 DEF TimeHr, a, b, r, s
<1> DEFINE D == TimeHr(t) - TimeHr(t0)
<1>6. D = (a - b) * Field + (r - s) /\ t - t0 = (a - b) * Sec + (r - s)
  BY <1>1, <1>5, <1>c, SMT
<1>7. /\ (a - b) * Sec <= (a - b) * Field /\ (a - b) * Field \in Nat /\ (a - b) * Sec \in Nat
      /\ (a - b) * Field <= (Secs - 1) * Field
  <2>1. a - b \in Nat /\ Secs - 1 \in Nat /\ a - b <= Secs - 1
    BY <1>1, <1>2, <1>3, <1>c
  <2>2. Field * (a - b) <= Field * (Secs - 1)
    BY <2>1, <1>c, Products
  <2>3. Field * (a - b) = (a - b) * Field /\ Field * (Secs - 1) = (Secs - 1) * Field
    BY <2>1, <1>c, SMT
  <2>4. (a - b) * Sec <= (a - b) * Field /\ (a - b) * Field \in Nat
    BY <2>1, <1>c, Products
  <2>5. (a - b) * Sec \in Nat
    BY <2>1, <1>c, SMT
  <2> QED BY <2>2, <2>3, <2>4, <2>5
<1>8. D \in Int /\ D >= t - t0 /\ D >= 0 /\ D < Field * Secs
  <2>1. D >= t - t0 /\ D \in Int
    BY <1>1, <1>6, <1>7, <1>c
  <2>2. (Secs - 1) * Field = Field * Secs - Field /\ Field * Secs \in Nat
    BY <1>c, SMT
  <2>3. r - s < Field
    BY <1>1, <1>c
  <2> QED BY <2>1, <2>2, <2>3, <1>1, <1>6, <1>7, <1>c
<1>9. Elapsed(t, t0) = D
  <2>1. Elapsed(t, t0) = D % (Field * Secs)
    BY DEF Elapsed
  <2>2. Field * Secs \in Nat \ {0}
    BY <1>8, <1>c, SMT
  <2> HIDE DEF D
  <2> DEFINE M == Field * Secs
  <2>3. M \in Nat \ {0} /\ D \in Int /\ D >= 0 /\ D < M
    BY <2>2, <1>8
  <2> HIDE DEF M
  <2>4. D % M = D
    BY <2>3, SMT
  <2> QED BY <2>1, <2>4 DEF M
<1>10. a = b => D = t - t0
  <2> SUFFICES ASSUME a = b PROVE D = t - t0
    OBVIOUS
  <2>1. (a - b) * Field = 0 /\ (a - b) * Sec = 0
    BY <1>1, <1>c, SMT
  <2> QED BY <2>1, <1>6, <1>1
<1> QED BY <1>8, <1>9, <1>10 DEF a, b

-----------------------------------------------------------------------------
(***************************************************************************)
(* Types, and which messages are in the queue after a datagram             *)
(***************************************************************************)

Entries == [seq : 0 .. SeqMod - 1, expected : 1 .. MaxSeg \cup {Unknown}, received : Nat,
            t0 : Nat, segs : [0 .. MaxSeg - 1 -> Parts], twice : BOOLEAN]

TypesInv == P7TypeOK /\ queue \subseteq Entries

LEMMA Bounds ==
  /\ SeqMod \in Nat \ {0} /\ MaxSeg \in Nat /\ MaxSeg >= 1 /\ MaxSeg <= 128
  /\ Delta \in Nat /\ MaxDelay \in Nat /\ Delta + MaxDelay < SeqMod
  /\ MaxMsgs \in Nat /\ MaxDup \in Nat /\ MaxTime \in Nat /\ Lengths \subseteq 1 .. MaxSeg
  /\ Sec \in Nat \ {0}
BY P7Assumption

LEMMA Moments ==
  ASSUME P7TypeOK
  PROVE  now \in Nat /\ now \in Moment
<1>1. Sec \in Nat \ {0} /\ Secs \in Nat /\ MaxTime \in Nat /\ MaxTime < Sec * Secs
  BY P7Assumption
<1>2. now \in 0 .. MaxTime \cup 0 .. Sec - 1
  BY DEF P7TypeOK
<1>3. Secs > 0
  <2> SUFFICES ASSUME Secs = 0 PROVE FALSE
    BY <1>1
  <2>1. Sec * Secs = 0
    BY <1>1, SMT
  <2> QED BY <2>1, <1>1
<1>4. Sec * Secs >= Sec /\ Sec * Secs \in Nat
  BY <1>1, <1>3, SMT
<1> QED BY <1>1, <1>2, <1>4 DEF Moment

LEMMA SegmentTypes ==
  ASSUME NEW p \in Segments
  PROVE  /\ p.msg \in 0 .. MaxMsgs - 1 /\ p.seg \in 0 .. MaxSeg - 1 /\ p.of \in 1 .. MaxSeg
         /\ p.seg < p.of /\ p # Hole /\ p \in Parts
         /\ SeqOf(p) \in 0 .. SeqMod - 1
         /\ (More(p) <=> p.seg + 1 < p.of) /\ (~More(p) => p.seg + 1 = p.of)
<1>1. /\ p.msg \in 0 .. MaxMsgs - 1 /\ p.seg \in 0 .. MaxSeg - 1 /\ p.of \in 1 .. MaxSeg
      /\ p.seg < p.of /\ p \in Parts
  BY DEF Segments, Parts
<1>2. p # Hole
  BY <1>1, Bounds DEF Hole
<1>3. p.msg % SeqMod \in 0 .. SeqMod - 1
  <2>1. p.msg \in Nat
    BY <1>1, Bounds
  <2> QED BY <2>1, Bounds, Division
<1> QED BY <1>1, <1>2, <1>3, Bounds DEF SeqOf, More

LEMMA Added ==
  ASSUME TypesInv, NEW p \in Segments
  PROVE  /\ AddSegment(p) \in Entries /\ AddSegment(p).seq = SeqOf(p)
         /\ AddSegment(p).t0 \in 0 .. now
         /\ \/ (\A e \in queue : e.seq # SeqOf(p)) /\ AddSegment(p) = NewMessage(p)
            \/ \E e \in queue : e.seq = SeqOf(p) /\ AddSegment(p) = AddTo(e, p)
<1>1. now \in Nat
  BY Moments DEF TypesInv
<1>2. /\ p.seg + 1 \in 1 .. MaxSeg /\ p \in Parts /\ p.seg \in 0 .. MaxSeg - 1
      /\ SeqOf(p) \in 0 .. SeqMod - 1
  BY SegmentTypes, Bounds
<1>3. NewMessage(p) \in Entries /\ NewMessage(p).seq = SeqOf(p) /\ NewMessage(p).t0 = now
  <2>1. [i \in 0 .. MaxSeg - 1 |-> Hole] \in [0 .. MaxSeg - 1 -> Parts]
    BY DEF Parts
  <2>2. [[i \in 0 .. MaxSeg - 1 |-> Hole] EXCEPT ![p.seg] = p] \in [0 .. MaxSeg - 1 -> Parts]
    BY <2>1, <1>2
  <2> HIDE DEF Hole
  <2> QED BY <2>2, <1>1, <1>2 DEF NewMessage, Entries
<1>4. ASSUME NEW e \in queue, e.seq = SeqOf(p)
      PROVE  AddTo(e, p) \in Entries /\ AddTo(e, p).seq = SeqOf(p) /\ AddTo(e, p).t0 = e.t0
  <2>1. e \in Entries
    BY DEF TypesInv
  <2> DEFINE b  == e.twice \/ e.segs[p.seg] = p
             f1 == [e EXCEPT !.segs[p.seg] = p]
             f2 == [f1 EXCEPT !.received = @ + 1]
             f3 == [f2 EXCEPT !.expected = IF More(p) THEN @ ELSE p.seg + 1]
             f4 == [f3 EXCEPT !.twice = b]
  <2>2. b \in BOOLEAN
    OBVIOUS
  <2>3. f1 \in Entries /\ f1.seq = e.seq /\ f1.t0 = e.t0
    BY <2>1, <1>2 DEF Entries
  <2> HIDE DEF b, f1
  <2>4. f2 \in Entries /\ f2.seq = e.seq /\ f2.t0 = e.t0
    BY <2>3 DEF Entries
  <2> HIDE DEF f2
  <2>5. f3 \in Entries /\ f3.seq = e.seq /\ f3.t0 = e.t0
    BY <2>4, <1>2 DEF Entries
  <2> HIDE DEF f3
  <2>6. f4 \in Entries /\ f4.seq = e.seq /\ f4.t0 = e.t0
    BY <2>2, <2>5 DEF Entries
  <2>7. AddTo(e, p) = f4
    BY <2>1 DEF AddTo, Entries, f1, f2, f3, b
  <2> QED BY <2>6, <2>7, <1>4
<1>5. CASE \E e \in queue : e.seq = SeqOf(p)
  <2> DEFINE f == CHOOSE e \in queue : e.seq = SeqOf(p)
  <2>1. f \in queue /\ f.seq = SeqOf(p) /\ AddSegment(p) = AddTo(f, p)
    BY <1>5 DEF AddSegment
  <2>2. f.t0 \in 0 .. now
    BY <2>1 DEF TypesInv, P7TypeOK
  <2> HIDE DEF f
  <2> QED BY <2>1, <2>2, <1>4
<1>6. CASE ~\E e \in queue : e.seq = SeqOf(p)
  <2>1. AddSegment(p) = NewMessage(p)
    BY <1>6 DEF AddSegment
  <2> QED BY <2>1, <1>6, <1>3, <1>1
<1> QED BY <1>5, <1>6

Single(p) == p.seg = 0 /\ ~More(p)

\* After a datagram, the queue holds messages it held before, and what the datagram made
\* of one; and nothing old, if the receiver looked for that.
LEMMA QueueAfter ==
  ASSUME TypesInv, NEW d \in net, Receive(d)
  PROVE  /\ d.part \in Segments
         /\ \A e \in queue' : \/ e \in queue /\ (Single(d.part) \/ e.seq # SeqOf(d.part))
                              \/ e = AddSegment(d.part) /\ ~Single(d.part)
         /\ \/ heard' = now /\ \A e \in queue' : Elapsed(now, e.t0) <= Delta
            \/ heard' = heard /\ queue' = queue
         /\ now' = now /\ sent' = sent /\ idle' = idle /\ net' \subseteq net
<1>0. d.part \in Segments
  BY DEF TypesInv, P7TypeOK
<1>1. now' = now /\ sent' = sent /\ idle' = idle /\ net' \subseteq net
  BY DEF Receive, txvars
<1>2. CASE Single(d.part)
  <2>1. ReceiveWhole(d.part)
    BY <1>2 DEF Receive, Single
  <2>2. CASE side = "pnf"
    BY <2>1, <2>2, <1>0, <1>1, <1>2 DEF ReceiveWhole, RemoveOld, Single
  <2>3. CASE side # "pnf"
    <3>1. queue' = queue /\ heard' = heard
      BY <2>1, <2>3 DEF ReceiveWhole
    <3> QED BY <3>1, <1>0, <1>1, <1>2 DEF Single
  <2> QED BY <2>2, <2>3
<1>3. CASE ~Single(d.part)
  <2>1. ReceiveSegment(d.part)
    BY <1>3 DEF Receive, Single
  <2>2. AddSegment(d.part).seq = SeqOf(d.part)
    BY <1>0, Added
  <2> QED BY <2>1, <2>2, <1>0, <1>1, <1>3 DEF ReceiveSegment, RemoveOld
<1> QED BY <1>2, <1>3

LEMMA InitialTypes ==
  ASSUME Init
  PROVE  TypesInv
<1>1. now \in 0 .. Sec - 1 /\ Sec \in Nat \ {0}
  BY Bounds DEF Init
<1>2. sent \in 0 .. MaxMsgs /\ dups \in 0 .. MaxDup
  BY Bounds DEF Init
<1> QED BY <1>1, <1>2 DEF Init, TypesInv, P7TypeOK, Nothing, Parts

\* What a step must do to the messages in the queue for them to keep their type.
LEMMA QueueTypes ==
  ASSUME TypesInv, NEW d \in net, Receive(d)
  PROVE  /\ queue' \subseteq Entries
         /\ \A e \in queue' : e.t0 \in 0 .. now
         /\ \A e, f \in queue' : e.seq = f.seq => e = f
<1> DEFINE p == d.part
           a == AddSegment(p)
<1>1. p \in Segments
  BY QueueAfter
<1>2. a \in Entries /\ a.seq = SeqOf(p) /\ a.t0 \in 0 .. now
  BY <1>1, Added
<1>3. \A e \in queue' : (e \in queue /\ (Single(p) \/ e.seq # SeqOf(p))) \/ (e = a /\ ~Single(p))
  BY QueueAfter
<1>4. queue \subseteq Entries /\ (\A e \in queue : e.t0 \in 0 .. now)
      /\ \A e, f \in queue : e.seq = f.seq => e = f
  BY DEF TypesInv, P7TypeOK
<1> HIDE DEF a
<1> QED BY <1>2, <1>3, <1>4

LEMMA Handed ==
  ASSUME TypesInv, NEW d \in net, Receive(d)
  PROVE  \/ Single(d.part) /\ handed' = [parts |-> <<d.part>>, span |-> 0, twice |-> FALSE]
         \/ /\ ~Single(d.part) /\ handed' = Nothing
            /\ AddSegment(d.part).received # AddSegment(d.part).expected
         \/ /\ ~Single(d.part) /\ handed' = Assembled(AddSegment(d.part))
            /\ AddSegment(d.part).received = AddSegment(d.part).expected
BY DEF Receive, ReceiveWhole, ReceiveSegment, Single

LEMMA TypesStep ==
  ASSUME TypesInv, [Next]_vars
  PROVE  TypesInv'
<1>1. now \in Nat
  BY Moments DEF TypesInv
<1>2. CASE UNCHANGED vars
  BY <1>2 DEF TypesInv, P7TypeOK, vars, txvars, ghosts
<1>3. ASSUME NEW n \in Lengths, SendMessage(n)
      PROVE  TypesInv'
  <2>1. UNCHANGED <<side, now, dups, queue, heard>> /\ idle' = FALSE /\ sent' = sent + 1
        /\ sent < MaxMsgs /\ handed' = Nothing /\ due' = Hole
    BY <1>3 DEF SendMessage
  <2>2. sent' \in 0 .. MaxMsgs
    BY <2>1, Bounds DEF TypesInv, P7TypeOK
  <2>3. n \in 1 .. MaxSeg
    BY Bounds
  <2>4. \A i \in 0 .. n - 1 : [msg |-> sent, seg |-> i, of |-> n] \in Segments
    BY <2>1, <2>3, Bounds DEF Segments, TypesInv, P7TypeOK
  <2>5. \A d \in net' : d.part \in Segments /\ d.at \in 0 .. now
    <3> SUFFICES ASSUME NEW d \in net' PROVE d.part \in Segments /\ d.at \in 0 .. now
      OBVIOUS
    <3>1. CASE d \in net
      BY <3>1 DEF TypesInv, P7TypeOK
    <3>2. CASE d \notin net
      <4>1. PICK i \in 0 .. n - 1 : d = [part |-> [msg |-> sent, seg |-> i, of |-> n], at |-> now]
        BY <1>3, <3>2 DEF SendMessage
      <4> QED BY <4>1, <2>4, <1>1
    <3> QED BY <3>1, <3>2
  <2>6. handed'.span \in 0 .. now /\ handed'.twice \in BOOLEAN /\ due' \in Parts
    BY <2>1, <1>1 DEF Nothing, Parts
  <2> QED BY <2>1, <2>2, <2>5, <2>6 DEF TypesInv, P7TypeOK
<1>4. CASE Tick
  <2>1. UNCHANGED <<side, sent, dups, queue, heard>> /\ idle' = TRUE /\ now' = now + 1
        /\ now < MaxTime /\ handed' = Nothing /\ due' = Hole /\ net' \subseteq net
    BY <1>4 DEF Tick
  <2>2. now' \in 0 .. MaxTime /\ \A x \in 0 .. now : x \in 0 .. now'
    BY <2>1, <1>1, Bounds
  <2>3. handed'.span \in 0 .. now' /\ handed'.twice \in BOOLEAN /\ due' \in Parts
    BY <2>1, <1>1 DEF Nothing, Parts
  <2>4. \A e \in queue' : /\ e.seq \in 0 .. SeqMod - 1 /\ e.expected \in 1 .. MaxSeg \cup {Unknown}
                          /\ e.received \in Nat /\ e.t0 \in 0 .. now' /\ e.twice \in BOOLEAN
                          /\ e.segs \in [0 .. MaxSeg - 1 -> Parts]
    BY <2>1, <2>2 DEF TypesInv, P7TypeOK
  <2>5. heard' \in 0 .. now' /\ \A d \in net' : d.part \in Segments /\ d.at \in 0 .. now'
    BY <2>1, <2>2 DEF TypesInv, P7TypeOK
  <2> QED BY <2>1, <2>2, <2>3, <2>4, <2>5 DEF TypesInv, P7TypeOK
<1>5. ASSUME NEW d \in net, Receive(d)
      PROVE  TypesInv'
  <2>1. UNCHANGED <<side, now, sent, idle>> /\ net' \subseteq net /\ d.part \in Segments
    BY <1>5, QueueAfter DEF Receive, txvars
  <2>2. /\ queue' \subseteq Entries /\ \A e \in queue' : e.t0 \in 0 .. now
        /\ \A e, f \in queue' : e.seq = f.seq => e = f
    BY <1>5, QueueTypes
  <2>3. heard' \in 0 .. now
    <3>1. heard' = now \/ heard' = heard
      BY <1>5, QueueAfter
    <3> QED BY <3>1, <1>1 DEF TypesInv, P7TypeOK
  <2>4. dups' \in 0 .. MaxDup
    <3>1. \/ net' = net \ {d} /\ dups' = dups
          \/ net' = net /\ dups < MaxDup /\ dups' = dups + 1
      BY <1>5, Zenon DEF Receive
    <3> QED BY <3>1, Bounds DEF TypesInv, P7TypeOK
  <2>5. due' \in Parts
    BY <1>5, <2>1 DEF Receive, Parts
  <2>6. handed'.span \in 0 .. now /\ handed'.twice \in BOOLEAN
    <3> DEFINE a == AddSegment(d.part)
    <3>1. a \in Entries /\ a.t0 \in 0 .. now
      BY <2>1, Added
    <3>2. Assembled(a).span = now - a.t0 /\ Assembled(a).twice = a.twice
      BY DEF Assembled
    <3>3. Nothing.span = 0 /\ Nothing.twice \in BOOLEAN
      BY DEF Nothing
    <3>4. \/ handed' = [parts |-> <<d.part>>, span |-> 0, twice |-> FALSE]
          \/ handed' = Nothing \/ handed' = Assembled(a)
      BY <1>5, Handed
    <3> HIDE DEF a
    <3>5. a.twice \in BOOLEAN /\ now - a.t0 \in 0 .. now
      BY <3>1, <1>1 DEF Entries
    <3>6. CASE handed' = Assembled(a)
      BY <3>2, <3>5, <3>6
    <3>7. CASE handed' = Nothing
      BY <3>3, <3>7, <1>1
    <3>8. CASE handed' = [parts |-> <<d.part>>, span |-> 0, twice |-> FALSE]
      BY <3>8, <1>1
    <3> QED BY <3>4, <3>6, <3>7, <3>8
  <2>7. \A e \in queue' : /\ e.seq \in 0 .. SeqMod - 1 /\ e.expected \in 1 .. MaxSeg \cup {Unknown}
                          /\ e.received \in Nat /\ e.twice \in BOOLEAN
                          /\ e.segs \in [0 .. MaxSeg - 1 -> Parts]
    BY <2>2 DEF Entries
  <2>8. \A x \in net' : x.part \in Segments /\ x.at \in 0 .. now
    BY <2>1 DEF TypesInv, P7TypeOK
  <2> QED BY <2>1, <2>2, <2>3, <2>4, <2>5, <2>6, <2>7, <2>8 DEF TypesInv, P7TypeOK
<1> QED BY <1>2, <1>3, <1>4, <1>5 DEF Next

LEMMA TypesAlways == Spec => []TypesInv
<1>1. Init => TypesInv
  BY InitialTypes
<1>2. TypesInv /\ [Next]_vars => TypesInv'
  BY TypesStep
<1> QED BY <1>1, <1>2, PTL DEF Spec

\* The queue never holds two messages with the same number, and what is handed up was
\* begun no later than now, for any sizes: reassembly_queue_add_segment looks the number
\* up before it makes a new message.
THEOREM P7Types == Spec => []P7TypeOK
<1>1. TypesInv => P7TypeOK
  BY DEF TypesInv
<1> QED BY <1>1, TypesAlways, PTL

-----------------------------------------------------------------------------
(***************************************************************************)
(* Old messages                                                            *)
(***************************************************************************)

LEMMA StaleStep ==
  ASSUME TypesInv, NoStaleMessageSurvives, [Next]_vars
  PROVE  NoStaleMessageSurvives'
<1>1. now \in Nat /\ now \in Moment /\ Delta \in Nat
  BY Moments, Bounds DEF TypesInv
<1>2. CASE heard' = heard /\ queue' = queue
  BY <1>2 DEF NoStaleMessageSurvives
<1>3. ASSUME NEW d \in net, Receive(d)
      PROVE  NoStaleMessageSurvives'
  <2>1. CASE heard' = now /\ \A e \in queue' : Elapsed(now, e.t0) <= Delta
    <3> SUFFICES ASSUME NEW e \in queue' PROVE now <= e.t0 + Delta
      BY <2>1 DEF NoStaleMessageSurvives
    <3>1. e.t0 \in 0 .. now
      BY <1>3, QueueTypes
    <3>2. e.t0 \in Moment /\ e.t0 <= now /\ e.t0 \in Nat
      <4>1. Sec * Secs \in Int
        BY P7Assumption, SMT
      <4> QED BY <3>1, <4>1, <1>1 DEF Moment
    <3>3. /\ Elapsed(now, e.t0) \in Int /\ Elapsed(now, e.t0) >= now - e.t0
          /\ Elapsed(now, e.t0) <= Delta
      BY <2>1, <3>2, <1>1, ElapsedAtLeast
    <3> QED BY <1>1, <3>2, <3>3
  <2> QED BY <2>1, <1>2, <1>3, QueueAfter
<1> QED BY <1>2, <1>3 DEF Next, SendMessage, Tick, vars, ghosts

\* Whenever the receiver has had an occasion to look, no message older than Delta is in
\* the queue, although the difference of two time stamps is not the time between them:
\* while the seconds do not wrap it is never less, so reassembly_queue_remove_old_msgs
\* errs by giving up a message too early, and never by keeping one.
THEOREM P7NoStale == Spec => []NoStaleMessageSurvives
<1>1. Init => NoStaleMessageSurvives
  BY DEF Init, NoStaleMessageSurvives
<1>2. TypesInv /\ NoStaleMessageSurvives /\ [Next]_vars => NoStaleMessageSurvives'
  BY StaleStep
<1> QED BY <1>1, <1>2, TypesAlways, PTL DEF Spec

-----------------------------------------------------------------------------
(***************************************************************************)
(* Whole messages                                                          *)
(***************************************************************************)

\* The messages that can have been sent by the end of this tick.
Batch == IF idle THEN sent + 1 ELSE sent

Filled(e) == {i \in 0 .. MaxSeg - 1 : e.segs[i] # Hole}

\* One message per tick at most was sent since a datagram on its way.
DatagramOk(d) == /\ d.at <= now /\ now <= d.at + MaxDelay
                 /\ d.part.msg < sent /\ Batch - 1 - d.part.msg <= now - d.at

\* A segment in the queue is in its place, and was on its way when the message began.
SlotsOk(e) ==
  \A i \in Filled(e) : /\ e.segs[i].seg = i /\ e.segs[i].msg < sent
                       /\ SeqOf(e.segs[i]) = e.seq
                       /\ Batch - 1 - e.segs[i].msg <= now - e.t0 + MaxDelay

Fresh(e) == now - e.t0 <= Delta

\* While a message is young, the numbers the code keeps of it are right.
NumbersOk(e) ==
  Fresh(e) => /\ \A i \in Filled(e) : e.expected \in {Unknown, e.segs[i].of}
              /\ ~e.twice => Cardinality(Filled(e)) = e.received

PartsOf(e) == {e.segs[i] : i \in Filled(e)}
Live       == {d.part : d \in net} \cup UNION {PartsOf(e) : e \in queue}

SameLength == \A x, y \in Live : x.msg = y.msg => x.of = y.of

WholeInv == /\ \A d \in net : DatagramOk(d)
            /\ \A e \in queue : Filled(e) # {} /\ SlotsOk(e) /\ NumbersOk(e)
            /\ SameLength
            /\ WholeMessages

LEMMA BatchBounds ==
  ASSUME TypesInv
  PROVE  Batch \in Nat /\ sent \in Nat /\ sent <= Batch /\ Batch <= sent + 1
BY Bounds DEF TypesInv, P7TypeOK, Batch

LEMMA FilledFacts ==
  ASSUME NEW e \in Entries
  PROVE  /\ IsFiniteSet(Filled(e)) /\ Cardinality(Filled(e)) \in 0 .. MaxSeg
         /\ \A i \in Filled(e) : e.segs[i] \in Segments /\ i \in 0 .. MaxSeg - 1
<1>1. MaxSeg \in Nat /\ MaxSeg >= 1
  BY Bounds
<1>2. IsFiniteSet(0 .. MaxSeg - 1) /\ Cardinality(0 .. MaxSeg - 1) = MaxSeg
  BY <1>1, FS_Interval
<1>3. Filled(e) \subseteq 0 .. MaxSeg - 1
  BY DEF Filled
<1>4. IsFiniteSet(Filled(e)) /\ Cardinality(Filled(e)) <= MaxSeg
  BY <1>2, <1>3, FS_Subset
<1>5. Cardinality(Filled(e)) \in Nat
  BY <1>4, FS_CardinalityType
<1>6. \A i \in Filled(e) : e.segs[i] \in Segments
  BY DEF Filled, Entries, Parts
<1> QED BY <1>1, <1>3, <1>4, <1>5, <1>6

\* Two parts with the same number that were on their way within Delta are of one message.
LEMMA CloseTogether ==
  ASSUME TypesInv, NEW x \in Segments, NEW y \in Segments, SeqOf(x) = SeqOf(y),
         x.msg < sent, y.msg < sent,
         Batch - 1 - x.msg <= Delta + MaxDelay, Batch - 1 - y.msg <= Delta + MaxDelay
  PROVE  x.msg = y.msg
<1>1. x.msg \in Nat /\ y.msg \in Nat
  BY Bounds, SegmentTypes
<1>2. Batch \in Nat /\ sent \in Nat /\ sent <= Batch
  BY BatchBounds
<1>3. x.msg - y.msg < SeqMod /\ y.msg - x.msg < SeqMod
  BY <1>1, <1>2, Bounds
<1>4. x.msg % SeqMod = y.msg % SeqMod
  BY DEF SeqOf
<1> QED BY <1>1, <1>3, <1>4, Bounds, SameRemainder

\* So all of a young message is one message, and a datagram can only be of that one.
LEMMA OneMessageInEntry ==
  ASSUME TypesInv, NEW e \in Entries, SlotsOk(e), Fresh(e), e.t0 \in 0 .. now,
         NEW y \in Segments, SeqOf(y) = e.seq, y.msg < sent, Batch - 1 - y.msg <= Delta + MaxDelay,
         NEW i \in Filled(e)
  PROVE  e.segs[i].msg = y.msg
<1> DEFINE x == e.segs[i]
<1>1. x \in Segments
  BY FilledFacts
<1>2. SeqOf(x) = e.seq /\ x.msg < sent /\ Batch - 1 - x.msg <= now - e.t0 + MaxDelay
  BY DEF SlotsOk
<1>3. Batch - 1 - x.msg <= Delta + MaxDelay
  <2>1. now \in Nat /\ e.t0 \in Nat /\ now - e.t0 <= Delta
    BY Moments DEF TypesInv, Fresh
  <2>2. x.msg \in Int /\ Batch \in Int
    BY <1>1, SegmentTypes, BatchBounds
  <2> HIDE DEF x
  <2> QED BY <1>2, <2>1, <2>2, Bounds
<1> HIDE DEF x
<1>4. x.msg = y.msg
  BY <1>1, <1>2, <1>3, CloseTogether
<1> QED BY <1>4 DEF x

LEMMA Arriving ==
  ASSUME TypesInv, NEW d \in net, DatagramOk(d)
  PROVE  /\ d.part \in Segments /\ d.part.msg < sent /\ d.part.msg \in Nat
         /\ Batch - 1 - d.part.msg <= MaxDelay /\ Batch - 1 - d.part.msg <= Delta + MaxDelay
<1>1. d.part \in Segments /\ d.at \in 0 .. now
  BY DEF TypesInv, P7TypeOK
<1>2. now \in Nat /\ d.part.msg \in Nat /\ Batch \in Nat
  BY <1>1, Moments, BatchBounds, SegmentTypes, Bounds DEF TypesInv
<1> QED BY <1>1, <1>2, Bounds DEF DatagramOk

LEMMA AddToFields ==
  ASSUME NEW e \in Entries, NEW p \in Segments
  PROVE  /\ AddTo(e, p).segs = [e.segs EXCEPT ![p.seg] = p]
         /\ AddTo(e, p).received = e.received + 1 /\ AddTo(e, p).t0 = e.t0
         /\ AddTo(e, p).seq = e.seq
         /\ AddTo(e, p).expected = (IF More(p) THEN e.expected ELSE p.seg + 1)
         /\ AddTo(e, p).twice = (e.twice \/ e.segs[p.seg] = p)
<1> DEFINE f1 == [e EXCEPT !.segs[p.seg] = p]
           f2 == [f1 EXCEPT !.received = @ + 1]
           f3 == [f2 EXCEPT !.expected = IF More(p) THEN @ ELSE p.seg + 1]
           f4 == [f3 EXCEPT !.twice = @ \/ e.segs[p.seg] = p]
           R  == {"seq", "expected", "received", "t0", "segs", "twice"}
<1>1. /\ f1.segs = [e.segs EXCEPT ![p.seg] = p] /\ f1.received = e.received /\ f1.t0 = e.t0
      /\ f1.seq = e.seq /\ f1.expected = e.expected /\ f1.twice = e.twice /\ DOMAIN f1 = R
  BY DEF Entries
<1> HIDE DEF f1
<1>2. /\ f2.segs = f1.segs /\ f2.received = f1.received + 1 /\ f2.t0 = f1.t0
      /\ f2.seq = f1.seq /\ f2.expected = f1.expected /\ f2.twice = f1.twice /\ DOMAIN f2 = R
  BY <1>1
<1> HIDE DEF f2
<1>3. /\ f3.segs = f2.segs /\ f3.received = f2.received /\ f3.t0 = f2.t0
      /\ f3.seq = f2.seq /\ f3.expected = (IF More(p) THEN f2.expected ELSE p.seg + 1)
      /\ f3.twice = f2.twice /\ DOMAIN f3 = R
  BY <1>2
<1> HIDE DEF f3
<1>4. /\ f4.segs = f3.segs /\ f4.received = f3.received /\ f4.t0 = f3.t0
      /\ f4.seq = f3.seq /\ f4.expected = f3.expected
      /\ f4.twice = (f3.twice \/ e.segs[p.seg] = p)
  BY <1>3
<1> HIDE DEF f4
<1>5. AddTo(e, p) = f4
  BY DEF AddTo, f1, f2, f3, f4
<1> QED BY <1>1, <1>2, <1>3, <1>4, <1>5

LEMMA FilledAfterAdd ==
  ASSUME NEW e \in Entries, NEW p \in Segments
  PROVE  /\ Filled(AddTo(e, p)) = Filled(e) \cup {p.seg}
         /\ AddTo(e, p).segs[p.seg] = p
         /\ \A i \in 0 .. MaxSeg - 1 : i # p.seg => AddTo(e, p).segs[i] = e.segs[i]
<1>1. p.seg \in 0 .. MaxSeg - 1 /\ p # Hole
  BY SegmentTypes
<1>2. e.segs \in [0 .. MaxSeg - 1 -> Parts]
  BY DEF Entries
<1>3. AddTo(e, p).segs = [e.segs EXCEPT ![p.seg] = p]
  BY AddToFields
<1>4. /\ AddTo(e, p).segs[p.seg] = p
      /\ \A i \in 0 .. MaxSeg - 1 : i # p.seg => AddTo(e, p).segs[i] = e.segs[i]
  BY <1>1, <1>2, <1>3
<1> HIDE DEF Hole
<1> QED BY <1>1, <1>4 DEF Filled

LEMMA FilledOfNew ==
  ASSUME NEW p \in Segments
  PROVE  /\ Filled(NewMessage(p)) = {p.seg} /\ NewMessage(p).segs[p.seg] = p
         /\ NewMessage(p).t0 = now /\ NewMessage(p).seq = SeqOf(p) /\ NewMessage(p).received = 1
         /\ NewMessage(p).expected = (IF More(p) THEN Unknown ELSE p.seg + 1)
         /\ NewMessage(p).twice = FALSE
<1>1. p.seg \in 0 .. MaxSeg - 1 /\ p # Hole
  BY SegmentTypes
<1>2. NewMessage(p).segs = [[i \in 0 .. MaxSeg - 1 |-> Hole] EXCEPT ![p.seg] = p]
  BY DEF NewMessage
<1> HIDE DEF Hole
<1>3. /\ NewMessage(p).segs[p.seg] = p
      /\ \A i \in 0 .. MaxSeg - 1 : i # p.seg => NewMessage(p).segs[i] = Hole
  BY <1>1, <1>2
<1>4. Filled(NewMessage(p)) = {p.seg}
  BY <1>1, <1>3 DEF Filled
<1> QED BY <1>3, <1>4 DEF NewMessage

\* What a datagram makes of a message is as good as what is in the queue.
LEMMA AddedIsOk ==
  ASSUME TypesInv, WholeInv, NEW d \in net
  PROVE  /\ SlotsOk(AddSegment(d.part)) /\ NumbersOk(AddSegment(d.part))
         /\ PartsOf(AddSegment(d.part)) \subseteq Live
         /\ Filled(AddSegment(d.part)) # {}
<1> DEFINE p == d.part
           a == AddSegment(p)
<1>1. /\ p \in Segments /\ p.msg < sent /\ p.msg \in Nat
      /\ Batch - 1 - p.msg <= MaxDelay /\ Batch - 1 - p.msg <= Delta + MaxDelay
  BY Arriving DEF WholeInv
<1>2. now \in Nat /\ p \in Live
  BY Moments DEF TypesInv, Live
<1>3. /\ a \in Entries /\ a.seq = SeqOf(p) /\ a.t0 \in 0 .. now
      /\ \/ a = NewMessage(p)
         \/ \E e \in queue : e.seq = SeqOf(p) /\ a = AddTo(e, p)
  BY <1>1, Added
<1>4. /\ p.seg \in 0 .. MaxSeg - 1 /\ p.of \in 1 .. MaxSeg /\ p.seg < p.of
      /\ (~More(p) => p.seg + 1 = p.of)
  BY <1>1, SegmentTypes
<1>5. Batch - 1 - p.msg <= now - a.t0 + MaxDelay
  <2>1. Batch \in Nat
    BY BatchBounds
  <2> HIDE DEF a, p
  <2> QED BY <1>1, <1>2, <1>3, <2>1, Bounds
<1> HIDE DEF p, a
<1>6. CASE a = NewMessage(p)
  <2>1. /\ Filled(a) = {p.seg} /\ a.segs[p.seg] = p /\ a.received = 1
        /\ a.expected = (IF More(p) THEN Unknown ELSE p.seg + 1)
    BY <1>1, <1>6, FilledOfNew
  <2>2. SlotsOk(a)
    BY <2>1, <1>1, <1>3, <1>5 DEF SlotsOk
  <2>3. Cardinality(Filled(a)) = 1
    BY <2>1, FS_Singleton
  <2>4. \A i \in Filled(a) : a.expected \in {Unknown, a.segs[i].of}
    BY <2>1, <1>4
  <2>5. NumbersOk(a)
    BY <2>1, <2>3, <2>4 DEF NumbersOk
  <2>6. PartsOf(a) \subseteq Live /\ Filled(a) # {}
    BY <2>1, <1>2 DEF PartsOf
  <2> QED BY <2>2, <2>5, <2>6 DEF a, p
<1>7. ASSUME NEW e \in queue, e.seq = SeqOf(p), a = AddTo(e, p)
      PROVE  SlotsOk(a) /\ NumbersOk(a) /\ PartsOf(a) \subseteq Live /\ Filled(a) # {}
  <2>1. e \in Entries /\ SlotsOk(e) /\ NumbersOk(e) /\ e.t0 \in 0 .. now /\ PartsOf(e) \subseteq Live
    BY DEF TypesInv, P7TypeOK, WholeInv, Live
  <2>2. /\ a.received = e.received + 1 /\ a.t0 = e.t0 /\ a.seq = e.seq
        /\ a.expected = (IF More(p) THEN e.expected ELSE p.seg + 1)
        /\ a.twice = (e.twice \/ e.segs[p.seg] = p)
    BY <2>1, <1>1, <1>7, AddToFields
  <2>3. /\ Filled(a) = Filled(e) \cup {p.seg} /\ a.segs[p.seg] = p
        /\ \A i \in Filled(e) : i # p.seg => a.segs[i] = e.segs[i]
    <3>1. Filled(e) \subseteq 0 .. MaxSeg - 1
      BY DEF Filled
    <3> QED BY <3>1, <2>1, <1>1, <1>7, FilledAfterAdd
  <2>4. SlotsOk(a)
    <3> SUFFICES ASSUME NEW i \in Filled(a)
                 PROVE  /\ a.segs[i].seg = i /\ a.segs[i].msg < sent
                        /\ SeqOf(a.segs[i]) = a.seq
                        /\ Batch - 1 - a.segs[i].msg <= now - a.t0 + MaxDelay
      BY DEF SlotsOk
    <3>1. CASE i = p.seg
      BY <3>1, <2>3, <1>1, <1>3, <1>5
    <3>2. CASE i # p.seg
      <4>1. i \in Filled(e) /\ a.segs[i] = e.segs[i]
        BY <3>2, <2>3
      <4> QED BY <4>1, <2>1, <2>2 DEF SlotsOk
    <3> QED BY <3>1, <3>2
  <2>5. PartsOf(a) \subseteq Live
    <3> SUFFICES ASSUME NEW i \in Filled(a) PROVE a.segs[i] \in Live
      BY DEF PartsOf
    <3>1. CASE i = p.seg
      BY <3>1, <2>3, <1>2
    <3>2. CASE i # p.seg
      BY <3>2, <2>3, <2>1 DEF PartsOf
    <3> QED BY <3>1, <3>2
  <2>6. ASSUME Fresh(a), NEW i \in Filled(e)
        PROVE  e.segs[i].msg = p.msg /\ e.segs[i].of = p.of /\ e.segs[i].seg = i
    <3>1. Fresh(e)
      BY <2>6, <2>2 DEF Fresh
    <3>2. e.segs[i].msg = p.msg
      BY <3>1, <2>1, <1>1, <1>7, OneMessageInEntry
    <3>3. e.segs[i] \in Live
      BY <2>1 DEF PartsOf
    <3>4. e.segs[i].of = p.of
      BY <3>2, <3>3, <1>2 DEF SameLength, WholeInv
    <3> QED BY <3>2, <3>4, <2>1 DEF SlotsOk
  <2>7. ASSUME Fresh(a), NEW i \in Filled(a)
        PROVE  a.expected \in {Unknown, a.segs[i].of}
    <3>0. Fresh(e)
      BY <2>7, <2>2 DEF Fresh
    <3>1. a.segs[i].of = p.of
      BY <2>3, <2>6, <2>7
    <3>2. CASE ~More(p)
      BY <3>1, <3>2, <2>2, <1>4
    <3>3. CASE More(p)
      <4>1. PICK j \in Filled(e) : TRUE
        BY DEF WholeInv
      <4>2. e.expected \in {Unknown, p.of}
        BY <4>1, <3>0, <2>1, <2>6, <2>7 DEF NumbersOk
      <4> QED BY <4>2, <3>1, <3>3, <2>2
    <3> QED BY <3>2, <3>3
  <2>8. ASSUME Fresh(a), ~a.twice
        PROVE  Cardinality(Filled(a)) = a.received
    <3>1. Fresh(e) /\ ~e.twice /\ e.segs[p.seg] # p
      BY <2>8, <2>2 DEF Fresh
    <3>2. p.seg \notin Filled(e)
      <4> SUFFICES ASSUME p.seg \in Filled(e) PROVE FALSE
        OBVIOUS
      <4>1. e.segs[p.seg].msg = p.msg /\ e.segs[p.seg].of = p.of /\ e.segs[p.seg].seg = p.seg
        BY <2>6, <2>8
      <4>2. e.segs[p.seg] \in Segments
        BY <2>1, FilledFacts
      <4>3. e.segs[p.seg] = p
        BY <4>1, <4>2, <1>1 DEF Segments
      <4> QED BY <4>3, <3>1
    <3>3. Cardinality(Filled(e)) = e.received /\ IsFiniteSet(Filled(e))
      BY <3>1, <2>1, FilledFacts DEF NumbersOk
    <3> QED BY <3>2, <3>3, <2>2, <2>3, FS_AddElement
  <2> QED BY <2>3, <2>4, <2>5, <2>7, <2>8 DEF NumbersOk
<1> QED BY <1>3, <1>6, <1>7 DEF a, p

\* What goes up within Delta of its beginning, no datagram of it counted twice, is one message.
LEMMA HandedIsOneMessage ==
  ASSUME TypesInv, WholeInv, NEW d \in net,
         AddSegment(d.part).received = AddSegment(d.part).expected,
         Fresh(AddSegment(d.part)), ~AddSegment(d.part).twice
  PROVE  LET a == AddSegment(d.part)
         IN  /\ Filled(a) = 0 .. a.expected - 1 /\ a.expected \in Nat
             /\ OneMessage(Assembled(a).parts)
<1> DEFINE a == AddSegment(d.part)
           n == a.expected
<1>1. /\ SlotsOk(a) /\ NumbersOk(a) /\ PartsOf(a) \subseteq Live /\ Filled(a) # {}
  BY AddedIsOk
<1>2. d.part \in Segments /\ d.part.msg < sent
  BY Arriving DEF WholeInv
<1>3. a \in Entries /\ a.t0 \in 0 .. now /\ a.seq = SeqOf(d.part)
  BY <1>2, Added
<1>4. a.received = n /\ Fresh(a) /\ ~a.twice
  OBVIOUS
<1> HIDE DEF a
<1>5. /\ IsFiniteSet(Filled(a)) /\ Cardinality(Filled(a)) \in 0 .. MaxSeg
      /\ \A i \in Filled(a) : a.segs[i] \in Segments /\ i \in 0 .. MaxSeg - 1
  BY <1>3, FilledFacts
<1>6. Cardinality(Filled(a)) = n
  BY <1>1, <1>4 DEF NumbersOk
<1>7. n # Unknown /\ n \in 0 .. MaxSeg
  BY <1>5, <1>6, Bounds DEF Unknown
<1> HIDE DEF n
<1>8. \A i \in Filled(a) : a.segs[i].of = n /\ a.segs[i].seg = i
  BY <1>1, <1>4, <1>7 DEF NumbersOk, SlotsOk, n
<1>9. Filled(a) \subseteq 0 .. n - 1
  <2> SUFFICES ASSUME NEW i \in Filled(a) PROVE i \in 0 .. n - 1
    OBVIOUS
  <2>1. a.segs[i].seg < a.segs[i].of /\ i \in Nat
    BY <1>5, SegmentTypes, Bounds
  <2> QED BY <2>1, <1>7, <1>8
<1>10. Filled(a) = 0 .. n - 1
  <2>1. IsFiniteSet(0 .. n - 1) /\ Cardinality(0 .. n - 1) = n
    <3>1. n \in Int /\ n >= 0
      BY <1>7, Bounds
    <3>2. Cardinality(0 .. n - 1) = (IF 0 > n - 1 THEN 0 ELSE (n - 1) - 0 + 1)
      BY <3>1, FS_Interval
    <3> QED BY <3>1, <3>2, FS_Interval
  <2> QED BY <2>1, <1>6, <1>9, FS_Subset
<1>11. \A i, j \in Filled(a) : a.segs[i].msg = a.segs[j].msg
  <2> SUFFICES ASSUME NEW i \in Filled(a), NEW j \in Filled(a) PROVE a.segs[i].msg = a.segs[j].msg
    OBVIOUS
  <2> DEFINE y == a.segs[j]
  <2>1. y \in Segments /\ SeqOf(y) = a.seq /\ y.msg < sent
        /\ Batch - 1 - y.msg <= now - a.t0 + MaxDelay
    BY <1>1, <1>5 DEF SlotsOk
  <2>2. now \in Nat /\ Batch \in Nat /\ y.msg \in Nat
    BY <2>1, Moments, BatchBounds, SegmentTypes, Bounds DEF TypesInv
  <2> HIDE DEF y
  <2>3. Batch - 1 - y.msg <= Delta + MaxDelay
    BY <2>1, <2>2, <1>3, <1>4, Bounds DEF Fresh
  <2>4. a.segs[i].msg = y.msg
    BY <2>1, <2>3, <1>1, <1>3, <1>4, OneMessageInEntry
  <2> QED BY <2>4 DEF y
<1> DEFINE ps == [i \in 1 .. n |-> a.segs[i - 1]]
<1>12. Assembled(a).parts = ps
  BY DEF Assembled, n
<1>13. DOMAIN ps = 1 .. n /\ Len(ps) = n /\ \A i \in 1 .. n : ps[i] = a.segs[i - 1]
  <2>1. n \in Nat
    BY <1>7, Bounds
  <2> QED BY <2>1
<1> HIDE DEF ps
<1>14. ASSUME NEW i \in 1 .. n
       PROVE  ps[i].msg = ps[1].msg /\ ps[i].seg = i - 1 /\ ps[i].of = n
  <2>1. n \in Nat /\ i \in 1 .. n
    BY <1>7, Bounds
  <2>2. i - 1 \in Filled(a) /\ 1 - 1 \in Filled(a) /\ 1 \in 1 .. n
    BY <2>1, <1>10
  <2> QED BY <2>1, <2>2, <1>8, <1>11, <1>13
<1>15. OneMessage(ps)
  BY <1>13, <1>14 DEF OneMessage
<1>16. n \in Nat
  BY <1>7, Bounds
<1> QED BY <1>10, <1>12, <1>15, <1>16 DEF a, n

LEMMA WholeTick ==
  ASSUME TypesInv, WholeInv, Tick
  PROVE  WholeInv'
<1>1. /\ now' = now + 1 /\ sent' = sent /\ queue' = queue /\ idle' = TRUE /\ net' \subseteq net
      /\ handed' = Nothing /\ \A d \in net' : now < d.at + MaxDelay
  BY DEF Tick
<1>2. now \in Nat /\ Batch \in Nat /\ sent \in Nat
  BY Moments, BatchBounds DEF TypesInv
<1>3. Batch' \in Nat /\ Batch' <= Batch + 1
  BY <1>1, <1>2 DEF Batch
<1>4. ASSUME NEW d \in net' PROVE DatagramOk(d)'
  <2>1. d \in net /\ d.part \in Segments /\ d.at \in 0 .. now /\ DatagramOk(d) /\ now < d.at + MaxDelay
    BY <1>1 DEF TypesInv, P7TypeOK, WholeInv
  <2>2. d.part.msg \in Nat
    BY <2>1, SegmentTypes, Bounds
  <2>3. /\ d.at <= now' /\ now' <= d.at + MaxDelay /\ d.part.msg < sent'
        /\ Batch' - 1 - d.part.msg <= now' - d.at
    BY <2>1, <2>2, <1>1, <1>2, <1>3, Bounds DEF DatagramOk
  <2> QED BY <2>3 DEF DatagramOk
<1>5. ASSUME NEW e \in queue'
      PROVE  Filled(e) # {} /\ SlotsOk(e)' /\ NumbersOk(e)'
  <2>1. e \in Entries /\ e.t0 \in 0 .. now /\ Filled(e) # {} /\ SlotsOk(e) /\ NumbersOk(e)
    BY <1>1 DEF TypesInv, P7TypeOK, WholeInv
  <2>2. ASSUME NEW i \in Filled(e)
        PROVE  Batch' - 1 - e.segs[i].msg <= now' - e.t0 + MaxDelay
    <3>1. e.segs[i].msg \in Nat
      BY <2>1, FilledFacts, SegmentTypes, Bounds
    <3>2. Batch - 1 - e.segs[i].msg <= now - e.t0 + MaxDelay
      BY <2>1 DEF SlotsOk
    <3> QED BY <3>1, <3>2, <2>1, <1>1, <1>2, <1>3, Bounds
  <2>3. SlotsOk(e)'
    BY <2>1, <2>2, <1>1 DEF SlotsOk, Filled, SeqOf
  <2>4. Fresh(e)' => Fresh(e)
    BY <2>1, <1>1, <1>2, Bounds DEF Fresh
  <2> QED BY <2>1, <2>3, <2>4 DEF NumbersOk, Filled
<1>6. SameLength'
  <2>1. Live' \subseteq Live
    BY <1>1 DEF Live, PartsOf, Filled
  <2> QED BY <2>1 DEF WholeInv, SameLength
<1>7. WholeMessages'
  BY <1>1 DEF WholeMessages
<1> QED BY <1>4, <1>5, <1>6, <1>7 DEF WholeInv, Filled

LEMMA WholeSend ==
  ASSUME TypesInv, WholeInv, NEW n \in Lengths, SendMessage(n)
  PROVE  WholeInv'
<1>1. /\ now' = now /\ sent' = sent + 1 /\ queue' = queue /\ idle /\ idle' = FALSE
      /\ handed' = Nothing /\ sent < MaxMsgs
  BY DEF SendMessage
<1>2. now \in Nat /\ Batch \in Nat /\ sent \in Nat
  BY Moments, BatchBounds DEF TypesInv
<1>3. Batch' = Batch /\ Batch = sent + 1
  BY <1>1, <1>2 DEF Batch
<1> DEFINE New(d) == /\ d.part \in Segments /\ d.part.msg = sent /\ d.part.of = n /\ d.at = now
<1>4. \A d \in net' : d \in net \/ New(d)
  <2>1. n \in 1 .. MaxSeg
    BY Bounds
  <2>2. \A i \in 0 .. n - 1 : [msg |-> sent, seg |-> i, of |-> n] \in Segments
    BY <1>1, <1>2, <2>1, Bounds DEF Segments
  <2> QED BY <2>2 DEF SendMessage
<1> HIDE DEF New
<1>5. \A d \in net' : DatagramOk(d)'
  <2> SUFFICES ASSUME NEW d \in net' PROVE DatagramOk(d)'
    OBVIOUS
  <2>1. CASE d \in net
    <3>1. d.part.msg \in Nat /\ DatagramOk(d)
      BY <2>1, SegmentTypes, Bounds DEF WholeInv, TypesInv, P7TypeOK
    <3> QED BY <3>1, <1>1, <1>2, <1>3 DEF DatagramOk
  <2>2. CASE New(d)
    <3>1. d.at = now /\ d.part.msg = sent
      BY <2>2 DEF New
    <3> QED BY <3>1, <1>1, <1>2, <1>3, Bounds DEF DatagramOk
  <2> QED BY <2>1, <2>2, <1>4
<1>6. ASSUME NEW e \in queue'
      PROVE  Filled(e) # {} /\ SlotsOk(e)' /\ NumbersOk(e)'
  <2>1. e \in Entries /\ Filled(e) # {} /\ SlotsOk(e) /\ NumbersOk(e)
    BY <1>1 DEF TypesInv, WholeInv
  <2>2. \A i \in Filled(e) : e.segs[i].msg < sent'
    <3> SUFFICES ASSUME NEW i \in Filled(e) PROVE e.segs[i].msg < sent'
      OBVIOUS
    <3>1. e.segs[i].msg \in Nat /\ e.segs[i].msg < sent
      BY <2>1, FilledFacts, SegmentTypes, Bounds DEF SlotsOk
    <3> QED BY <3>1, <1>1, <1>2
  <2>3. SlotsOk(e)'
    BY <2>1, <2>2, <1>1, <1>3 DEF SlotsOk, Filled, SeqOf
  <2> QED BY <2>1, <2>3, <1>1 DEF NumbersOk, Fresh, Filled
<1>7. SameLength'
  <2>1. \A x \in Live : x.msg < sent /\ x.msg \in Nat
    <3>1. \A d \in net : d.part.msg < sent /\ d.part.msg \in Nat
      BY SegmentTypes, Bounds DEF WholeInv, DatagramOk, TypesInv, P7TypeOK
    <3>2. ASSUME NEW e \in queue, NEW i \in Filled(e)
          PROVE  e.segs[i].msg < sent /\ e.segs[i].msg \in Nat
      <4>1. e \in Entries /\ SlotsOk(e)
        BY DEF TypesInv, WholeInv
      <4> QED BY <4>1, FilledFacts, SegmentTypes, Bounds DEF SlotsOk
    <3> QED BY <3>1, <3>2 DEF Live, PartsOf
  <2>2. \A x \in Live' : x \in Live \/ (x.msg = sent /\ x.of = n)
    BY <1>1, <1>4 DEF Live, PartsOf, Filled, New
  <2>3. SameLength
    BY DEF WholeInv
  <2>4. ASSUME NEW x \in Live', NEW y \in Live', x.msg = y.msg
        PROVE  x.of = y.of
    <3>1. CASE x \in Live /\ y \in Live
      BY <3>1, <2>3, <2>4 DEF SameLength
    <3>2. CASE x \notin Live \/ y \notin Live
      <4>1. x.msg = sent /\ y.msg = sent
        BY <3>2, <2>2, <2>4
      <4>2. x \notin Live /\ y \notin Live
        BY <4>1, <2>1, <1>2
      <4> QED BY <4>2, <2>2
    <3> QED BY <3>1, <3>2
  <2> QED BY <2>4 DEF SameLength
<1>8. WholeMessages'
  BY <1>1 DEF WholeMessages
<1> QED BY <1>5, <1>6, <1>7, <1>8 DEF WholeInv, Filled

LEMMA WholeReceive ==
  ASSUME TypesInv, WholeInv, NEW d \in net, Receive(d)
  PROVE  WholeInv'
<1> DEFINE p == d.part
           a == AddSegment(p)
<1>1. /\ now' = now /\ sent' = sent /\ idle' = idle /\ net' \subseteq net
      /\ \A e \in queue' : e \in queue \/ e = a
  BY QueueAfter
<1>2. SlotsOk(a) /\ NumbersOk(a) /\ PartsOf(a) \subseteq Live /\ Filled(a) # {}
  BY AddedIsOk
<1>3. p \in Segments
  BY Arriving DEF WholeInv
<1>4. a \in Entries /\ a.t0 \in 0 .. now
  BY <1>3, Added
<1>5. WholeMessages'
  <2>1. CASE handed' = [parts |-> <<p>>, span |-> 0, twice |-> FALSE] /\ Single(p)
    <3>1. p.seg = 0 /\ p.of = 1
      BY <2>1, <1>3, SegmentTypes, Bounds DEF Single
    <3>2. OneMessage(<<p>>)
      BY <3>1 DEF OneMessage
    <3> QED BY <2>1, <3>2 DEF WholeMessages
  <2>2. CASE handed' = Nothing
    BY <2>2 DEF WholeMessages
  <2>3. CASE handed' = Assembled(a) /\ a.received = a.expected
    <3>1. handed'.span = now - a.t0 /\ handed'.twice = a.twice
      BY <2>3 DEF Assembled
    <3>2. ASSUME ~handed'.twice, handed'.span <= Delta PROVE OneMessage(handed'.parts)
      <4>1. Fresh(a) /\ ~a.twice
        BY <3>1, <3>2 DEF Fresh
      <4> QED BY <4>1, <2>3, HandedIsOneMessage
    <3> QED BY <3>2 DEF WholeMessages
  <2> QED BY <2>1, <2>2, <2>3, Handed
<1> HIDE DEF a, p
<1>6. \A x \in net' : DatagramOk(x)'
  BY <1>1 DEF WholeInv, DatagramOk, Batch
<1>7. ASSUME NEW e \in queue'
      PROVE  Filled(e) # {} /\ SlotsOk(e)' /\ NumbersOk(e)'
  <2>1. Filled(e) # {} /\ SlotsOk(e) /\ NumbersOk(e)
    BY <1>1, <1>2 DEF WholeInv
  <2> QED BY <2>1, <1>1 DEF SlotsOk, NumbersOk, Fresh, Filled, SeqOf, Batch
<1>8. SameLength'
  <2>1. Live' \subseteq Live
    BY <1>1, <1>2 DEF Live, PartsOf, Filled
  <2> QED BY <2>1 DEF WholeInv, SameLength
<1> QED BY <1>5, <1>6, <1>7, <1>8 DEF WholeInv, Filled

LEMMA WholeStep ==
  ASSUME TypesInv, WholeInv, [Next]_vars
  PROVE  WholeInv'
<1>1. CASE UNCHANGED vars
  BY <1>1 DEF WholeInv, DatagramOk, SlotsOk, NumbersOk, Fresh, Filled, SeqOf, Batch, SameLength,
              Live, PartsOf, WholeMessages, vars, txvars
<1> QED BY <1>1, WholeTick, WholeSend, WholeReceive DEF Next

LEMMA WholeAlways == Spec => []WholeInv
<1>1. Init => WholeInv
  BY DEF Init, WholeInv, SameLength, Live, WholeMessages
<1>2. TypesInv /\ WholeInv /\ [Next]_vars => WholeInv'
  BY WholeStep
<1> QED BY <1>1, <1>2, TypesAlways, PTL DEF Spec

\* Only eight bits of a message's number travel, and the receiver compares nothing else:
\* still what it puts together within Delta, no datagram of it counted twice, is one
\* message that was sent, all of it and in order, for any range of the numbers that is
\* longer than Delta and the delay of the network together.
THEOREM P7WholeMessages == Spec => []WholeMessages
<1>1. WholeInv => WholeMessages
  BY DEF WholeInv
<1> QED BY <1>1, WholeAlways, PTL

-----------------------------------------------------------------------------
(***************************************************************************)
(* Messages that arrive in time                                            *)
(***************************************************************************)

Recent(t) == now - t.first <= Delta /\ now \div Sec = t.first \div Sec

\* The message in the queue that began at "first" and holds the segments "got" of message
\* m, which has n segments.
IsTracked(e, first, got, m, n) ==
  /\ e.t0 = first /\ e.seq = m % SeqMod /\ Filled(e) = got /\ ~e.twice
  /\ \A i \in got : e.segs[i].msg = m
  /\ e.received = Cardinality(got)
  /\ e.expected = IF n - 1 \in got THEN n ELSE Unknown

TrackOk(msgs, t, m, n) ==
  t.got # {} /\ t.clean /\ Recent(t) =>
    /\ t.got \subseteq 0 .. n - 1
    /\ t.got = 0 .. n - 1 \/ \E e \in msgs : IsTracked(e, t.first, t.got, m, n)

TrackTypes == [got : SUBSET (0 .. MaxSeg - 1), first : 0 .. now, clean : BOOLEAN]

TracksInv ==
  /\ DOMAIN tracks = 0 .. MaxMsgs - 1
  /\ \A m \in 0 .. MaxMsgs - 1 : tracks[m] \in TrackTypes /\ (m >= sent => tracks[m].got = {})
  /\ \A d \in net : TrackOk(queue, tracks[d.part.msg], d.part.msg, d.part.of)
  /\ InTimeIsHanded

\* The number of segments received is the number expected just when all are there.
LEMMA CountComplete ==
  ASSUME NEW n \in 1 .. MaxSeg, NEW g \in SUBSET (0 .. n - 1)
  PROVE  Cardinality(g) = (IF n - 1 \in g THEN n ELSE Unknown) <=> g = 0 .. n - 1
<1>1. n \in Nat /\ n >= 1 /\ n <= 128
  BY Bounds
<1>2. IsFiniteSet(0 .. n - 1) /\ Cardinality(0 .. n - 1) = n
  BY <1>1, FS_Interval
<1>3. IsFiniteSet(g) /\ Cardinality(g) <= n /\ (Cardinality(g) = n => g = 0 .. n - 1)
  BY <1>2, FS_Subset
<1>4. Cardinality(g) # Unknown
  BY <1>1, <1>3 DEF Unknown
<1>5. g = 0 .. n - 1 => n - 1 \in g /\ Cardinality(g) = n
  BY <1>1, <1>2
<1> QED BY <1>3, <1>4, <1>5

LEMMA RecentIsKept ==
  ASSUME TypesInv, NEW t0 \in 0 .. now, now - t0 <= Delta, now \div Sec = t0 \div Sec
  PROVE  Elapsed(now, t0) <= Delta
<1>1. now \in Nat /\ now \in Moment
  BY Moments DEF TypesInv
<1>2. t0 \in Moment /\ t0 <= now
  <2>1. Sec * Secs \in Int
    BY P7Assumption, SMT
  <2> QED BY <2>1, <1>1 DEF Moment
<1> QED BY <1>1, <1>2, ElapsedAtLeast

\* What stays in the queue.
LEMMA Survives ==
  ASSUME TypesInv, NEW d \in net, Receive(d), NEW e, Elapsed(now, e.t0) <= Delta,
         \/ e \in queue /\ (Single(d.part) \/ e.seq # SeqOf(d.part))
         \/ ~Single(d.part) /\ e = AddSegment(d.part) /\ e.received # e.expected
  PROVE  e \in queue'
<1>0. d.part \in Segments
  BY DEF TypesInv, P7TypeOK
<1>1. CASE Single(d.part)
  BY <1>1 DEF Receive, ReceiveWhole, Single, RemoveOld
<1>2. CASE ~Single(d.part)
  <2>1. ReceiveSegment(d.part)
    BY <1>2 DEF Receive, Single
  <2>2. AddSegment(d.part).seq = SeqOf(d.part)
    BY <1>0, Added
  <2> QED BY <2>1, <2>2, <1>2 DEF ReceiveSegment, RemoveOld
<1> QED BY <1>1, <1>2

\* A datagram that joins a message in the queue that is tracked.
LEMMA TrackedAdd ==
  ASSUME TypesInv, WholeInv, NEW d \in net, NEW e \in queue, NEW first, NEW got,
         IsTracked(e, first, got, d.part.msg, d.part.of),
         got \subseteq 0 .. d.part.of - 1, d.part.seg \notin got
  PROVE  /\ AddSegment(d.part) = AddTo(e, d.part)
         /\ IsTracked(AddSegment(d.part), first, got \cup {d.part.seg}, d.part.msg, d.part.of)
<1> DEFINE p == d.part
           n == p.of
           a == AddSegment(p)
<1>1. p \in Segments
  BY Arriving DEF WholeInv
<1>2. /\ p.seg \in 0 .. MaxSeg - 1 /\ n \in 1 .. MaxSeg /\ p.seg < n
      /\ (More(p) <=> p.seg + 1 < n) /\ (~More(p) => p.seg + 1 = n)
  BY <1>1, SegmentTypes
<1>3. e \in Entries /\ e.seq = SeqOf(p)
  BY DEF TypesInv, IsTracked, SeqOf
<1>4. a = AddTo(e, p)
  <2>1. \E f \in queue : f.seq = SeqOf(p) /\ a = AddTo(f, p)
    BY <1>1, <1>3, Added
  <2> QED BY <2>1, <1>3 DEF TypesInv, P7TypeOK
<1> HIDE DEF p, a
<1>5. /\ a.received = e.received + 1 /\ a.t0 = e.t0 /\ a.seq = e.seq
      /\ a.expected = (IF More(p) THEN e.expected ELSE p.seg + 1)
      /\ a.twice = (e.twice \/ e.segs[p.seg] = p)
  BY <1>1, <1>3, <1>4, AddToFields
<1>6. /\ Filled(a) = Filled(e) \cup {p.seg} /\ a.segs[p.seg] = p
      /\ \A i \in 0 .. MaxSeg - 1 : i # p.seg => a.segs[i] = e.segs[i]
  BY <1>1, <1>3, <1>4, FilledAfterAdd
<1>7. /\ e.t0 = first /\ e.seq = p.msg % SeqMod /\ Filled(e) = got /\ ~e.twice
      /\ (\A i \in got : e.segs[i].msg = p.msg) /\ e.received = Cardinality(got)
      /\ e.expected = (IF n - 1 \in got THEN n ELSE Unknown)
      /\ got \subseteq 0 .. n - 1 /\ p.seg \notin got
  BY DEF IsTracked, p
<1> HIDE DEF n
<1>8. a.received = Cardinality(got \cup {p.seg})
  <2>1. IsFiniteSet(got)
    BY <1>3, <1>7, FilledFacts
  <2>2. p.seg \notin got /\ e.received = Cardinality(got)
    BY <1>7
  <2>3. Cardinality(got \cup {p.seg}) = Cardinality(got) + 1
    BY <2>1, <2>2, FS_AddElement
  <2> QED BY <2>2, <2>3, <1>5
<1>9. ~a.twice
  <2>1. e.segs[p.seg] = Hole /\ p # Hole
    BY <1>1, <1>2, <1>7, SegmentTypes DEF Filled
  <2> QED BY <2>1, <1>5, <1>7
<1>10. a.expected = (IF n - 1 \in got \cup {p.seg} THEN n ELSE Unknown)
  <2>1. CASE More(p)
    <3>1. p.seg # n - 1
      BY <2>1, <1>2, Bounds
    <3> QED BY <3>1, <2>1, <1>5, <1>7
  <2>2. CASE ~More(p)
    <3>1. p.seg = n - 1 /\ p.seg + 1 = n
      BY <2>2, <1>2, Bounds
    <3> QED BY <3>1, <2>2, <1>5
  <2> QED BY <2>1, <2>2
<1>11. \A i \in got \cup {p.seg} : a.segs[i].msg = p.msg
  <2>1. got \subseteq 0 .. MaxSeg - 1
    BY <1>7 DEF Filled
  <2> QED BY <2>1, <1>6, <1>7
<1>12. IsTracked(a, first, got \cup {p.seg}, p.msg, n)
  BY <1>5, <1>6, <1>7, <1>8, <1>9, <1>10, <1>11 DEF IsTracked
<1> QED BY <1>4, <1>12 DEF p, a, n

LEMMA TrackFields ==
  ASSUME TypesInv, TracksInv, NEW p \in Segments
  PROVE  /\ tracks[p.msg] \in TrackTypes /\ Track(p) \in TrackTypes
         /\ \/ /\ tracks[p.msg].got = {} /\ Track(p).got = {p.seg} /\ Track(p).first = now
               /\ Track(p).clean = \A e \in queue : e.seq # SeqOf(p)
            \/ /\ tracks[p.msg].got # {}
               /\ Track(p).got = tracks[p.msg].got \cup {p.seg}
               /\ Track(p).first = tracks[p.msg].first
               /\ Track(p).clean = (tracks[p.msg].clean /\ p.seg \notin tracks[p.msg].got)
<1> DEFINE t == tracks[p.msg]
<1>1. p.msg \in 0 .. MaxMsgs - 1 /\ p.seg \in 0 .. MaxSeg - 1 /\ now \in Nat
  BY SegmentTypes, Moments DEF TypesInv
<1>2. t \in TrackTypes
  BY <1>1 DEF TracksInv
<1> DEFINE b == \A e \in queue : e.seq # SeqOf(p)
<1>3. b \in BOOLEAN
  OBVIOUS
<1> HIDE DEF b, t
<1>4. CASE t.got = {}
  <2>1. Track(p) = [got |-> {p.seg}, first |-> now, clean |-> b]
    BY <1>4 DEF Track, t, b
  <2>2. /\ Track(p).got = {p.seg} /\ Track(p).first = now /\ Track(p).clean = b
        /\ Track(p) \in TrackTypes
    BY <2>1, <1>1, <1>3 DEF TrackTypes
  <2> QED BY <2>2, <1>2, <1>4 DEF t, b
<1>5. CASE t.got # {}
  <2> DEFINE u == [t EXCEPT !.got = @ \cup {p.seg}]
             c == t.clean /\ p.seg \notin t.got
  <2>0. c \in BOOLEAN
    OBVIOUS
  <2>1. Track(p) = [u EXCEPT !.clean = c]
    BY <1>2, <1>5 DEF Track, t, TrackTypes
  <2>2. u \in TrackTypes /\ u.got = t.got \cup {p.seg} /\ u.first = t.first
    BY <1>1, <1>2 DEF TrackTypes
  <2> HIDE DEF u, c
  <2>3. /\ Track(p).got = t.got \cup {p.seg} /\ Track(p).first = t.first /\ Track(p).clean = c
        /\ Track(p) \in TrackTypes
    BY <2>0, <2>1, <2>2 DEF TrackTypes
  <2> QED BY <2>3, <1>2, <1>5 DEF t, c
<1> QED BY <1>4, <1>5

\* The first segment of a message, when no other with its number is in the queue.
LEMMA TrackedNew ==
  ASSUME TypesInv, NEW p \in Segments, \A e \in queue : e.seq # SeqOf(p)
  PROVE  AddSegment(p) = NewMessage(p) /\ IsTracked(NewMessage(p), now, {p.seg}, p.msg, p.of)
<1>1. AddSegment(p) = NewMessage(p)
  BY Added
<1>2. Cardinality({p.seg}) = 1
  BY FS_Singleton
<1>3. p.of - 1 \in {p.seg} <=> ~More(p)
  BY SegmentTypes, Bounds
<1>4. ~More(p) => p.seg + 1 = p.of
  BY SegmentTypes
<1> QED BY <1>1, <1>2, <1>3, <1>4, FilledOfNew DEF IsTracked, SeqOf

\* The message of the datagram that arrives.
LEMMA TrackOfArriving ==
  ASSUME TypesInv, WholeInv, TracksInv, NEW d \in net, Receive(d)
  PROVE  TrackOk(queue', Track(d.part), d.part.msg, d.part.of)
<1> DEFINE p == d.part
           t == tracks[p.msg]
           u == Track(p)
           a == AddSegment(p)
<1> SUFFICES ASSUME u.got # {}, u.clean, Recent(u)
             PROVE  /\ u.got \subseteq 0 .. p.of - 1
                    /\ \/ u.got = 0 .. p.of - 1
                       \/ \E e \in queue' : IsTracked(e, u.first, u.got, p.msg, p.of)
  BY DEF TrackOk
<1>1. p \in Segments
  BY Arriving DEF WholeInv
<1>2. /\ p.seg \in Nat /\ p.of \in 1 .. MaxSeg /\ p.of \in Nat /\ p.seg < p.of
      /\ (~More(p) => p.seg + 1 = p.of)
  BY <1>1, SegmentTypes, Bounds
<1>3. u \in TrackTypes /\ t \in TrackTypes
  BY <1>1, TrackFields
<1>4. ASSUME ~Single(p), u.got \subseteq 0 .. p.of - 1, u.got # 0 .. p.of - 1,
             IsTracked(a, u.first, u.got, p.msg, p.of)
      PROVE  a \in queue'
  <2>1. a.received # a.expected
    BY <1>2, <1>4, CountComplete DEF IsTracked
  <2>2. u.first \in 0 .. now /\ now - u.first <= Delta /\ now \div Sec = u.first \div Sec
    BY <1>3 DEF TrackTypes, Recent
  <2>3. Elapsed(now, a.t0) <= Delta
    BY <2>2, <1>4, RecentIsKept DEF IsTracked
  <2> QED BY <2>1, <2>3, <1>4, Survives
<1>5. CASE t.got = {}
  <2>1. u.got = {p.seg} /\ u.first = now /\ \A e \in queue : e.seq # SeqOf(p)
    BY <1>1, <1>5, TrackFields
  <2>2. u.got \subseteq 0 .. p.of - 1
    BY <2>1, <1>2
  <2>3. CASE Single(p)
    <3>1. p.seg = 0 /\ p.of = 1
      BY <2>3, <1>2 DEF Single
    <3>2. u.got = 0 .. p.of - 1
      BY <3>1, <2>1
    <3> QED BY <2>2, <3>2
  <2>4. CASE ~Single(p)
    <3>1. IsTracked(a, u.first, u.got, p.msg, p.of)
      BY <2>1, <1>1, TrackedNew
    <3> QED BY <2>2, <2>4, <3>1, <1>4
  <2> QED BY <2>3, <2>4
<1>6. CASE t.got # {}
  <2>1. /\ u.got = t.got \cup {p.seg} /\ u.first = t.first /\ t.clean /\ p.seg \notin t.got
    BY <1>1, <1>6, TrackFields
  <2>2. TrackOk(queue, t, p.msg, p.of) /\ Recent(t)
    BY <2>1 DEF TracksInv, Recent
  <2>3. t.got \subseteq 0 .. p.of - 1 /\ p.seg \in 0 .. p.of - 1
    BY <2>1, <2>2, <1>2, <1>6 DEF TrackOk
  <2>4. PICK e \in queue : IsTracked(e, t.first, t.got, p.msg, p.of)
    BY <2>1, <2>2, <2>3, <1>6 DEF TrackOk
  <2>5. IsTracked(a, u.first, u.got, p.msg, p.of)
    BY <2>1, <2>3, <2>4, TrackedAdd
  <2>6. ~Single(p)
    <3> SUFFICES ASSUME Single(p) PROVE FALSE
      OBVIOUS
    <3>1. p.seg = 0 /\ p.of = 1
      BY <1>2 DEF Single
    <3> QED BY <3>1, <2>1, <2>3, <1>6
  <2> QED BY <2>1, <2>3, <2>5, <2>6, <1>4
<1> QED BY <1>5, <1>6

\* Another message that is on its way.
LEMMA TrackOfOthers ==
  ASSUME TypesInv, WholeInv, TracksInv, NEW d \in net, Receive(d), NEW x \in net,
         x.part.msg # d.part.msg
  PROVE  TrackOk(queue', tracks[x.part.msg], x.part.msg, x.part.of)
<1> DEFINE m == x.part.msg
           n == x.part.of
           t == tracks[m]
<1> SUFFICES ASSUME t.got # {}, t.clean, Recent(t)
             PROVE  /\ t.got \subseteq 0 .. n - 1
                    /\ t.got = 0 .. n - 1 \/ \E e \in queue' : IsTracked(e, t.first, t.got, m, n)
  BY DEF TrackOk
<1>1. t.got \subseteq 0 .. n - 1
      /\ (t.got = 0 .. n - 1 \/ \E e \in queue : IsTracked(e, t.first, t.got, m, n))
  BY DEF TracksInv, TrackOk
<1>2. ASSUME NEW e \in queue, IsTracked(e, t.first, t.got, m, n)
      PROVE  e \in queue'
  <2>1. e \in Entries /\ SlotsOk(e) /\ e.t0 \in 0 .. now
    BY DEF TypesInv, P7TypeOK, WholeInv
  <2>2. now - e.t0 <= Delta /\ now \div Sec = e.t0 \div Sec
    BY <1>2 DEF IsTracked, Recent
  <2>3. Elapsed(now, e.t0) <= Delta
    BY <2>1, <2>2, RecentIsKept
  <2>4. e.seq # SeqOf(d.part)
    <3> SUFFICES ASSUME e.seq = SeqOf(d.part) PROVE FALSE
      OBVIOUS
    <3>1. PICK i \in Filled(e) : e.segs[i].msg = m
      BY <1>2 DEF IsTracked
    <3>2. /\ d.part \in Segments /\ d.part.msg < sent
          /\ Batch - 1 - d.part.msg <= Delta + MaxDelay
      BY Arriving DEF WholeInv
    <3>3. Fresh(e)
      BY <2>2 DEF Fresh
    <3>4. e.segs[i].msg = d.part.msg
      BY <3>2, <3>3, <2>1, OneMessageInEntry
    <3> QED BY <3>1, <3>4
  <2> QED BY <2>3, <2>4, Survives
<1> QED BY <1>1, <1>2

LEMMA InTimeArriving ==
  ASSUME TypesInv, WholeInv, TracksInv, NEW d \in net, Receive(d)
  PROVE  InTimeIsHanded'
<1> DEFINE p == d.part
           t == tracks[p.msg]
           u == Track(p)
           a == AddSegment(p)
<1>0. due' = (IF InTime(u, p) THEN p ELSE Hole)
  BY DEF Receive
<1>1. p \in Segments
  BY Arriving DEF WholeInv
<1>2. /\ p.seg \in Nat /\ p.of \in 1 .. MaxSeg /\ p.of \in Nat /\ p.seg < p.of
      /\ (~More(p) => p.seg + 1 = p.of)
  BY <1>1, SegmentTypes, Bounds
<1> SUFFICES ASSUME InTime(u, p)
             PROVE  handed' # Nothing /\ OneMessage(handed'.parts) /\ handed'.parts[1].msg = p.msg
  BY <1>0 DEF InTimeIsHanded
<1>3. u.clean /\ u.got = 0 .. p.of - 1 /\ Recent(u)
  BY DEF InTime, Recent
<1>4. CASE Single(p)
  <2>1. handed' = [parts |-> <<p>>, span |-> 0, twice |-> FALSE]
    BY <1>4, Handed
  <2>2. p.seg = 0 /\ p.of = 1
    BY <1>2, <1>4 DEF Single
  <2>3. handed'.parts = <<p>> /\ Nothing.parts = <<>>
    BY <2>1 DEF Nothing
  <2>4. <<p>> # <<>>
    OBVIOUS
  <2>5. OneMessage(<<p>>) /\ <<p>>[1].msg = p.msg
    BY <2>2 DEF OneMessage
  <2>6. handed' # Nothing
    BY <2>3, <2>4
  <2> HIDE DEF p
  <2> QED BY <2>3, <2>5, <2>6 DEF p
<1>5. CASE ~Single(p)
  <2>1. t.got # {}
    <3> SUFFICES ASSUME t.got = {} PROVE FALSE
      OBVIOUS
    <3>1. u.got = {p.seg}
      BY <1>1, TrackFields
    <3>2. {p.seg} = 0 .. p.of - 1
      BY <3>1, <1>3
    <3>3. 0 \in 0 .. p.of - 1 /\ p.of - 1 \in 0 .. p.of - 1
      BY <1>2
    <3>4. p.seg = 0 /\ p.seg = p.of - 1
      BY <3>2, <3>3
    <3> QED BY <3>4, <1>2, <1>5 DEF Single, More
  <2>2. /\ u.got = t.got \cup {p.seg} /\ u.first = t.first /\ t.clean /\ p.seg \notin t.got
    BY <1>1, <1>3, <2>1, TrackFields
  <2>3. TrackOk(queue, t, p.msg, p.of) /\ Recent(t)
    BY <1>3, <2>2 DEF TracksInv, Recent
  <2>4. t.got \subseteq 0 .. p.of - 1 /\ p.seg \in 0 .. p.of - 1
    BY <2>1, <2>2, <2>3, <1>2 DEF TrackOk
  <2>5. PICK e \in queue : IsTracked(e, t.first, t.got, p.msg, p.of)
    BY <2>1, <2>2, <2>3, <2>4 DEF TrackOk
  <2>6. IsTracked(a, u.first, u.got, p.msg, p.of)
    BY <2>2, <2>4, <2>5, TrackedAdd
  <2>7. a.received = a.expected /\ ~a.twice /\ Fresh(a)
    <3>1. a.received = Cardinality(u.got) /\ a.expected = (IF p.of - 1 \in u.got THEN p.of ELSE Unknown)
      BY <2>6 DEF IsTracked
    <3>2. a.received = a.expected
      BY <3>1, <1>2, <1>3, CountComplete
    <3>3. a.t0 = u.first /\ ~a.twice
      BY <2>6 DEF IsTracked
    <3> QED BY <3>2, <3>3, <1>3 DEF Fresh, Recent
  <2>8. handed' = Assembled(a)
    BY <2>7, <1>5, Handed
  <2>9. Filled(a) = 0 .. a.expected - 1 /\ a.expected \in Nat /\ OneMessage(Assembled(a).parts)
    BY <2>7, HandedIsOneMessage
  <2>10. a.expected = p.of /\ 0 \in u.got /\ a.segs[0].msg = p.msg
    <3>1. p.of - 1 \in u.got /\ 0 \in u.got
      BY <1>2, <1>3, Bounds
    <3> QED BY <3>1, <2>6 DEF IsTracked
  <2> HIDE DEF a, p
  <2>11. Assembled(a).parts = [i \in 1 .. a.expected |-> a.segs[i - 1]]
    BY DEF Assembled
  <2>12. 1 \in 1 .. a.expected
    BY <2>10, <1>2, Bounds
  <2>13. Assembled(a).parts[1] = a.segs[0] /\ DOMAIN Assembled(a).parts = 1 .. a.expected
    BY <2>11, <2>12
  <2>14. Assembled(a) # Nothing
    <3>1. DOMAIN Nothing.parts = {}
      BY DEF Nothing
    <3> QED BY <3>1, <2>12, <2>13
  <2> QED BY <2>8, <2>9, <2>10, <2>13, <2>14 DEF p
<1> QED BY <1>4, <1>5

LEMMA TracksReceive ==
  ASSUME TypesInv, WholeInv, TracksInv, NEW d \in net, Receive(d)
  PROVE  TracksInv'
<1> DEFINE p == d.part
<1>1. p \in Segments /\ p.msg < sent /\ p.msg \in 0 .. MaxMsgs - 1
  BY Arriving, SegmentTypes DEF WholeInv
<1>2. /\ now' = now /\ sent' = sent /\ net' \subseteq net
      /\ tracks' = [tracks EXCEPT ![p.msg] = Track(p)]
  BY QueueAfter DEF Receive
<1>3. /\ DOMAIN tracks' = 0 .. MaxMsgs - 1 /\ tracks'[p.msg] = Track(p)
      /\ \A m \in 0 .. MaxMsgs - 1 : m # p.msg => tracks'[m] = tracks[m]
  BY <1>1, <1>2 DEF TracksInv
<1>4. ASSUME NEW m \in 0 .. MaxMsgs - 1
      PROVE  tracks'[m] \in TrackTypes /\ (m >= sent => tracks'[m].got = {})
  <2>1. CASE m = p.msg
    <3>1. ~(m >= sent)
      <4>1. m \in Nat /\ sent \in Nat
        BY BatchBounds, Bounds
      <4> QED BY <4>1, <1>1, <2>1
    <3> QED BY <3>1, <2>1, <1>1, <1>3, TrackFields
  <2>2. CASE m # p.msg
    BY <2>2, <1>3 DEF TracksInv
  <2> QED BY <2>1, <2>2
<1>5. ASSUME NEW x \in net'
      PROVE  TrackOk(queue', tracks'[x.part.msg], x.part.msg, x.part.of)
  <2>1. x \in net /\ x.part.msg \in 0 .. MaxMsgs - 1
    BY <1>2, SegmentTypes DEF TypesInv, P7TypeOK
  <2>2. CASE x.part.msg # p.msg
    BY <2>1, <2>2, <1>3, TrackOfOthers
  <2>3. CASE x.part.msg = p.msg
    <3>1. x.part \in Live /\ p \in Live
      BY <2>1 DEF Live
    <3>2. x.part.of = p.of
      BY <2>3, <3>1 DEF WholeInv, SameLength
    <3> QED BY <3>2, <2>3, <1>3, TrackOfArriving
  <2> QED BY <2>2, <2>3
<1>6. InTimeIsHanded'
  BY InTimeArriving
<1>7. \A x \in net' : TrackOk(queue, tracks[x.part.msg], x.part.msg, x.part.of)'
  BY <1>2, <1>5 DEF TrackOk, Recent, IsTracked, Filled
<1> HIDE DEF p
<1> QED BY <1>2, <1>3, <1>4, <1>6, <1>7 DEF TracksInv, TrackTypes

LEMMA TracksTick ==
  ASSUME TypesInv, TracksInv, Tick
  PROVE  TracksInv'
<1>1. /\ now' = now + 1 /\ sent' = sent /\ queue' = queue /\ net' \subseteq net /\ due' = Hole
      /\ tracks' = [m \in DOMAIN tracks |->
                      IF \E d \in net' : d.part.msg = m THEN tracks[m] ELSE Untracked]
  BY DEF Tick
<1>2. now \in Nat /\ Sec \in Nat \ {0}
  BY Moments, Bounds DEF TypesInv
<1>3. DOMAIN tracks' = 0 .. MaxMsgs - 1
      /\ \A m \in 0 .. MaxMsgs - 1 : tracks'[m] = tracks[m] \/ tracks'[m] = Untracked
  BY <1>1 DEF TracksInv
<1>4. ASSUME NEW m \in 0 .. MaxMsgs - 1
      PROVE  tracks'[m] \in TrackTypes' /\ (m >= sent' => tracks'[m].got = {})
  <2>1. \A x \in 0 .. now : x \in 0 .. now + 1
    BY <1>2
  <2>2. tracks[m] \in TrackTypes /\ (m >= sent => tracks[m].got = {})
    BY DEF TracksInv
  <2>3. tracks[m] \in TrackTypes'
    BY <2>1, <2>2, <1>1 DEF TrackTypes
  <2>4. Untracked \in TrackTypes' /\ Untracked.got = {}
    BY <1>1, <1>2 DEF TrackTypes, Untracked
  <2> QED BY <2>2, <2>3, <2>4, <1>1, <1>3
<1>5. ASSUME NEW d \in net'
      PROVE  TrackOk(queue, tracks[d.part.msg], d.part.msg, d.part.of)'
  <2> DEFINE t == tracks[d.part.msg]
  <2>1. d \in net /\ d.part.msg \in 0 .. MaxMsgs - 1
    BY <1>1, SegmentTypes DEF TypesInv, P7TypeOK
  <2>2. tracks'[d.part.msg] = t /\ t \in TrackTypes
    BY <2>1, <1>1 DEF TracksInv
  <2>3. TrackOk(queue, t, d.part.msg, d.part.of)
    BY <2>1 DEF TracksInv
  <2> HIDE DEF t
  <2>4. now' - t.first <= Delta /\ now' \div Sec = t.first \div Sec => Recent(t)
    <3>1. t.first \in 0 .. now
      BY <2>2 DEF TrackTypes
    <3>2. t.first \div Sec <= now \div Sec /\ now \div Sec <= (now + 1) \div Sec
          /\ t.first \div Sec \in Int /\ now \div Sec \in Int /\ (now + 1) \div Sec \in Int
      BY <3>1, <1>2, Quotients
    <3> QED BY <3>1, <3>2, <1>1, <1>2, Bounds DEF Recent
  <2> QED BY <2>2, <2>3, <2>4, <1>1 DEF TrackOk, Recent, IsTracked, Filled
<1>6. InTimeIsHanded'
  BY <1>1 DEF InTimeIsHanded
<1> QED BY <1>3, <1>4, <1>5, <1>6 DEF TracksInv

LEMMA TracksSend ==
  ASSUME TypesInv, TracksInv, NEW n \in Lengths, SendMessage(n)
  PROVE  TracksInv'
<1>1. /\ now' = now /\ sent' = sent + 1 /\ queue' = queue /\ tracks' = tracks /\ due' = Hole
      /\ sent < MaxMsgs
      /\ \A d \in net' : d \in net \/ d.part.msg = sent
  BY DEF SendMessage
<1>2. sent \in 0 .. MaxMsgs - 1 /\ sent \in Nat
  BY <1>1, Bounds DEF TypesInv, P7TypeOK
<1>3. tracks[sent].got = {}
  BY <1>2 DEF TracksInv
<1>4. ASSUME NEW d \in net'
      PROVE  TrackOk(queue, tracks[d.part.msg], d.part.msg, d.part.of)'
  <2>1. CASE d \in net
    <3>1. TrackOk(queue, tracks[d.part.msg], d.part.msg, d.part.of)
      BY <2>1 DEF TracksInv
    <3> QED BY <3>1, <1>1 DEF TrackOk, Recent, IsTracked, Filled
  <2>2. CASE d.part.msg = sent
    BY <2>2, <1>1, <1>3 DEF TrackOk
  <2> QED BY <2>1, <2>2, <1>1
<1>5. \A m \in 0 .. MaxMsgs - 1 : m >= sent' => m >= sent
  BY <1>1, <1>2, Bounds
<1>6. InTimeIsHanded'
  BY <1>1 DEF InTimeIsHanded
<1> QED BY <1>1, <1>4, <1>5, <1>6 DEF TracksInv, TrackTypes

LEMMA TracksStep ==
  ASSUME TypesInv, WholeInv, TracksInv, [Next]_vars
  PROVE  TracksInv'
<1>1. CASE UNCHANGED vars
  <2>1. /\ tracks' = tracks /\ sent' = sent /\ now' = now /\ net' = net /\ queue' = queue
        /\ due' = due /\ handed' = handed
    BY <1>1 DEF vars, txvars, ghosts
  <2>2. \A d \in net' : TrackOk(queue, tracks[d.part.msg], d.part.msg, d.part.of)'
    BY <2>1 DEF TracksInv, TrackOk, Recent, IsTracked, Filled
  <2>3. InTimeIsHanded'
    BY <2>1 DEF TracksInv, InTimeIsHanded
  <2> QED BY <2>1, <2>2, <2>3 DEF TracksInv, TrackTypes
<1> QED BY <1>1, TracksTick, TracksSend, TracksReceive DEF Next

LEMMA InitialTracks ==
  ASSUME Init
  PROVE  TracksInv
<1>1. now \in Nat
  BY Bounds DEF Init
<1>2. Untracked \in TrackTypes /\ Untracked.got = {}
  BY <1>1 DEF TrackTypes, Untracked
<1> QED BY <1>2 DEF Init, TracksInv, InTimeIsHanded

\* A message all of whose datagrams arrive within Delta and one second of the clock, each
\* of them once, goes up with the last of them, in whatever order they come and whatever
\* other messages come in between, for any range of the numbers that is longer than
\* Delta and the delay of the network together.
THEOREM P7InTime == Spec => []InTimeIsHanded
<1>1. Init => TracksInv
  BY InitialTracks
<1>2. TypesInv /\ WholeInv /\ TracksInv /\ [Next]_vars => TracksInv'
  BY TracksStep
<1>3. TracksInv => InTimeIsHanded
  BY DEF TracksInv
<1> QED BY <1>1, <1>2, <1>3, TypesAlways, WholeAlways, PTL DEF Spec
=============================================================================
