---------------------------- MODULE RlcAmTxProofs ----------------------------
(***************************************************************************)
(* Proofs about the transmitting side of an RLC AM entity.                 *)
(***************************************************************************)
EXTENDS RlcAmTx, SetSums, SequenceTheorems

\* The sum of PDU sizes that the model counts is a Total.
LEMMA SizeSumIsTotal ==
  ASSUME NEW S, IsFiniteSet(S)
  PROVE  MapThenSumSet(PduSize, S) = Total([s \in S |-> PduSize(s)], S)
<1> DEFINE f == [s \in S |-> PduSize(s)]
           P(g) == g = [s \in SUBSET S |-> IF s = {} THEN 0
                                           ELSE PduSize(OneOf(s)) + g[s \ {OneOf(s)}]]
<1>1. MapThenSumSet(PduSize, S) = (CHOOSE g : P(g))[S]
  BY DEF MapThenSumSet, MapThenFoldSet, OneOf
<1>2. \A s \in SUBSET S : s # {} => f[OneOf(s)] = PduSize(OneOf(s))
  BY AnyIn
<1>3. ASSUME NEW g, SumTable(g, f, S) PROVE P(g)
  BY <1>2, <1>3 DEF SumTable
<1>4. ASSUME NEW g, P(g) PROVE SumTable(g, f, S)
  BY <1>2, <1>4 DEF SumTable
<1> HIDE DEF f, P
<1>5. \E g : P(g)
  BY <1>3, TableExists
<1>6. SumTable(CHOOSE g : P(g), f, S)
  BY <1>4, <1>5
<1>7. (CHOOSE g : P(g))[S] = Total(f, S)
  BY <1>6, TotalOfTable DEF Agree
<1> QED
  BY <1>1, <1>7 DEF f

-----------------------------------------------------------------------------
(***************************************************************************)
(* Lists without repetition                                                *)
(***************************************************************************)
Elements(q) == {q[k] : k \in DOMAIN q}

\* Every element of the list is in it once.
Once(q) == Cardinality(Elements(q)) = Len(q)

NoRepeat(q) == \A j, k \in 1 .. Len(q) : q[j] = q[k] => j = k

\* A list in which every element is once has no repetition, and the other way.
LEMMA OnceIsNoRepeat ==
  ASSUME NEW S, NEW q \in Seq(S)
  PROVE  /\ IsFiniteSet(Elements(q)) /\ Elements(q) \subseteq S
         /\ Once(q) <=> NoRepeat(q)
<1> DEFINE D == 1 .. Len(q)
           T == Elements(q)
<1>1. Len(q) \in Nat /\ q \in [D -> S] /\ DOMAIN q = D
  BY LenProperties
<1>2. IsFiniteSet(D) /\ Cardinality(D) = Len(q)
  BY <1>1, FS_Interval
<1>3. q \in Surjection(D, T)
  BY <1>1 DEF Surjection, Elements
<1>4. /\ IsFiniteSet(T)
      /\ Cardinality(T) = Cardinality(D) <=> q \in Injection(D, T)
  BY <1>2, <1>3, FS_Surjection
<1>5. q \in Injection(D, T) <=> NoRepeat(q)
  BY <1>1, <1>3 DEF Injection, IsInjective, Surjection, NoRepeat
<1>6. T \subseteq S
  BY <1>1 DEF Elements
<1> QED
  BY <1>2, <1>4, <1>5, <1>6 DEF Once

\* Append adds an element at the end.
LEMMA OnceAppend ==
  ASSUME NEW S, NEW q \in Seq(S), Once(q), NEW e \in S, e \notin Elements(q)
  PROVE  /\ Append(q, e) \in Seq(S) /\ Once(Append(q, e))
         /\ Elements(Append(q, e)) = Elements(q) \cup {e}
<1> DEFINE r == Append(q, e)
<1>1. /\ Len(q) \in Nat /\ DOMAIN q = 1 .. Len(q)
      /\ r \in Seq(S) /\ Len(r) = Len(q) + 1 /\ DOMAIN r = 1 .. Len(q) + 1
      /\ \A i \in 1 .. Len(q) : r[i] = q[i]
      /\ r[Len(q) + 1] = e
  BY AppendProperties, LenProperties
<1> HIDE DEF r
<1>2. Elements(r) = Elements(q) \cup {e}
  BY <1>1 DEF Elements
<1>3. \A i \in 1 .. Len(q) : q[i] # e
  BY <1>1 DEF Elements
<1>4. NoRepeat(q)
  BY OnceIsNoRepeat
<1>5. NoRepeat(r)
  <2> SUFFICES ASSUME NEW j \in 1 .. Len(q) + 1, NEW k \in 1 .. Len(q) + 1, r[j] = r[k]
               PROVE  j = k
    BY <1>1 DEF NoRepeat
  <2> QED BY <1>1, <1>3, <1>4 DEF NoRepeat
<1> QED
  BY <1>1, <1>2, <1>5, OnceIsNoRepeat DEF r

\* Tail takes the head away.
LEMMA OnceTail ==
  ASSUME NEW S, NEW q \in Seq(S), Once(q), q # <<>>
  PROVE  /\ Tail(q) \in Seq(S) /\ Once(Tail(q))
         /\ Head(q) \in Elements(q) /\ Head(q) \in S
         /\ Elements(Tail(q)) = Elements(q) \ {Head(q)}
<1> DEFINE r == Tail(q)
           h == Head(q)
<1>1. /\ Len(q) \in Nat /\ Len(q) # 0 /\ DOMAIN q = 1 .. Len(q)
      /\ r \in Seq(S) /\ Len(r) = Len(q) - 1 /\ DOMAIN r = 1 .. Len(q) - 1
      /\ \A i \in 1 .. Len(q) - 1 : r[i] = q[i + 1]
      /\ h = q[1] /\ h \in S
  BY HeadTailProperties, LenProperties, EmptySeq
<1> HIDE DEF r, h
<1>2. NoRepeat(q)
  BY OnceIsNoRepeat
<1>3. h \in Elements(q)
  BY <1>1 DEF Elements
<1>4. Elements(r) = Elements(q) \ {h}
  <2>1. ASSUME NEW i \in 1 .. Len(q) - 1 PROVE r[i] \in Elements(q) \ {h}
    <3>1. i + 1 \in 1 .. Len(q) /\ 1 \in 1 .. Len(q) /\ i + 1 # 1
      BY <1>1
    <3>2. q[i + 1] # h
      BY <1>1, <1>2, <3>1 DEF NoRepeat
    <3> QED BY <1>1, <3>1, <3>2 DEF Elements
  <2>2. ASSUME NEW i \in 1 .. Len(q), q[i] # h PROVE q[i] \in Elements(r)
    <3>1. i - 1 \in 1 .. Len(q) - 1 /\ q[i] = r[i - 1]
      BY <1>1, <2>2
    <3> QED BY <1>1, <3>1 DEF Elements
  <2> QED BY <1>1, <2>1, <2>2 DEF Elements
<1>5. NoRepeat(r)
  BY <1>1, <1>2 DEF NoRepeat
<1> QED
  BY <1>1, <1>3, <1>4, <1>5, OnceIsNoRepeat DEF r, h

\* An element is put at the head.
LEMMA OncePush ==
  ASSUME NEW S, NEW q \in Seq(S), Once(q), NEW e \in S, e \notin Elements(q)
  PROVE  /\ <<e>> \o q \in Seq(S) /\ Once(<<e>> \o q)
         /\ Elements(<<e>> \o q) = Elements(q) \cup {e}
<1> DEFINE r == <<e>> \o q
<1>1. <<e>> \in Seq(S) /\ Len(<<e>>) = 1 /\ <<e>>[1] = e
  OBVIOUS
<1>2. /\ Len(q) \in Nat /\ DOMAIN q = 1 .. Len(q)
      /\ r \in Seq(S) /\ Len(r) = 1 + Len(q) /\ DOMAIN r = 1 .. 1 + Len(q)
      /\ \A i \in 1 .. 1 + Len(q) : r[i] = IF i <= 1 THEN <<e>>[i] ELSE q[i - 1]
  BY <1>1, ConcatProperties, LenProperties
<1> HIDE DEF r
<1>3. r[1] = e /\ \A i \in 1 .. Len(q) : r[i + 1] = q[i]
  BY <1>1, <1>2
<1>4. Elements(r) = Elements(q) \cup {e}
  <2>1. ASSUME NEW i \in 1 .. 1 + Len(q) PROVE r[i] \in Elements(q) \cup {e}
    <3>1. i # 1 => i - 1 \in 1 .. Len(q) /\ r[i] = q[i - 1]
      BY <1>2
    <3> QED BY <1>2, <1>3, <3>1 DEF Elements
  <2>2. ASSUME NEW i \in 1 .. Len(q) PROVE q[i] \in Elements(r)
    <3>1. i + 1 \in 1 .. 1 + Len(q) /\ r[i + 1] = q[i]
      BY <1>2, <1>3
    <3> QED BY <1>2, <3>1 DEF Elements
  <2>3. e \in Elements(r)
    BY <1>2, <1>3 DEF Elements
  <2> QED BY <1>2, <2>1, <2>2, <2>3 DEF Elements
<1>5. NoRepeat(q) /\ \A i \in 1 .. Len(q) : q[i] # e
  BY <1>2, OnceIsNoRepeat DEF Elements
<1>6. NoRepeat(r)
  <2> SUFFICES ASSUME NEW j \in 1 .. 1 + Len(q), NEW k \in 1 .. 1 + Len(q), r[j] = r[k]
               PROVE  j = k
    BY <1>2 DEF NoRepeat
  <2>1. j # 1 => j - 1 \in 1 .. Len(q) /\ r[j] = q[j - 1]
    BY <1>2
  <2>2. k # 1 => k - 1 \in 1 .. Len(q) /\ r[k] = q[k - 1]
    BY <1>2
  <2> QED BY <1>2, <1>3, <1>5, <2>1, <2>2 DEF NoRepeat
<1> QED
  BY <1>2, <1>4, <1>6, OnceIsNoRepeat DEF r

\* An element is taken out of the list.
LEMMA OnceRemove ==
  ASSUME NEW S, NEW q \in Seq(S), Once(q), NEW k \in 1 .. Len(q)
  PROVE  LET r == SubSeq(q, 1, k - 1) \o SubSeq(q, k + 1, Len(q))
         IN  /\ r \in Seq(S) /\ Once(r)
             /\ Elements(r) = Elements(q) \ {q[k]}
<1> DEFINE n == Len(q)
           a == SubSeq(q, 1, k - 1)
           b == SubSeq(q, k + 1, n)
           r == a \o b
<1>1. n \in Nat /\ k \in Nat /\ k >= 1 /\ k <= n /\ DOMAIN q = 1 .. n /\ \A i \in 1 .. n : q[i] \in S
  BY LenProperties, ElementOfSeq
<1>2. /\ a \in Seq(S) /\ Len(a) = k - 1
      /\ \A i \in 1 .. k - 1 : a[i] = q[i]
  <2>1. \A i \in 1 .. k - 1 : q[i] \in S
    BY <1>1
  <2>2. /\ SubSeq(q, 1, k - 1) \in Seq(S)
        /\ Len(SubSeq(q, 1, k - 1)) = IF 1 <= k - 1 THEN (k - 1) - 1 + 1 ELSE 0
        /\ \A i \in 1 .. (k - 1) - 1 + 1 : SubSeq(q, 1, k - 1)[i] = q[1 + i - 1]
    BY <1>1, <2>1, SubSeqProperties
  <2> QED BY <1>1, <2>2
<1>3. /\ b \in Seq(S) /\ Len(b) = n - k
      /\ \A i \in 1 .. n - k : b[i] = q[k + i]
  <2>1. \A i \in k + 1 .. n : q[i] \in S
    BY <1>1
  <2>2. /\ SubSeq(q, k + 1, n) \in Seq(S)
        /\ Len(SubSeq(q, k + 1, n)) = IF k + 1 <= n THEN n - (k + 1) + 1 ELSE 0
        /\ \A i \in 1 .. n - (k + 1) + 1 : SubSeq(q, k + 1, n)[i] = q[(k + 1) + i - 1]
    BY <1>1, <2>1, SubSeqProperties
  <2>3. n - (k + 1) + 1 = n - k /\ \A i \in 1 .. n - k : (k + 1) + i - 1 = k + i
    BY <1>1
  <2>4. \A i \in 1 .. n - k : b[i] = q[k + i]
    BY <2>2, <2>3
  <2>5. Len(b) = n - k
    <3>1. (IF k + 1 <= n THEN n - (k + 1) + 1 ELSE 0) = n - k
      <4> HIDE DEF n
      <4> QED BY <1>1
    <3> QED BY <2>2, <3>1
  <2> QED BY <2>2, <2>4, <2>5
<1> HIDE DEF n, a, b
<1>4. /\ r \in Seq(S) /\ Len(r) = n - 1
      /\ \A i \in 1 .. n - 1 : r[i] = IF i < k THEN q[i] ELSE q[i + 1]
  <2>1. /\ r \in Seq(S) /\ Len(r) = Len(a) + Len(b)
        /\ \A i \in 1 .. Len(a) + Len(b) : r[i] = IF i <= Len(a) THEN a[i] ELSE b[i - Len(a)]
    BY <1>2, <1>3, ConcatProperties
  <2>2. ASSUME NEW i \in 1 .. n - 1 PROVE r[i] = IF i < k THEN q[i] ELSE q[i + 1]
    <3>1. CASE i < k
      BY <1>1, <1>2, <1>3, <2>1, <3>1
    <3>2. CASE ~(i < k)
      <4>1. i - (k - 1) \in 1 .. n - k /\ k + (i - (k - 1)) = i + 1
        BY <1>1, <3>2
      <4>2. r[i] = b[i - (k - 1)]
        BY <1>1, <1>2, <1>3, <2>1, <3>2
      <4> QED BY <1>3, <3>2, <4>1, <4>2
    <3> QED BY <3>1, <3>2
  <2> QED BY <1>1, <1>2, <1>3, <2>1, <2>2
<1>5. DOMAIN r = 1 .. n - 1
  BY <1>4, LenProperties
<1>6. NoRepeat(q)
  BY OnceIsNoRepeat
<1> HIDE DEF r
<1>7. Elements(r) = Elements(q) \ {q[k]}
  <2>1. ASSUME NEW i \in 1 .. n - 1 PROVE r[i] \in Elements(q) \ {q[k]}
    <3>1. PICK j \in 1 .. n : j # k /\ r[i] = q[j]
      <4>1. i \in 1 .. n /\ i + 1 \in 1 .. n /\ (i < k => i # k) /\ (~(i < k) => i + 1 # k)
        BY <1>1
      <4> QED BY <1>4, <4>1
    <3> QED BY <1>1, <1>6, <3>1 DEF Elements, NoRepeat, n
  <2>2. ASSUME NEW i \in 1 .. n, i # k PROVE q[i] \in Elements(r)
    <3>1. CASE i < k
      <4>1. i \in 1 .. n - 1 /\ r[i] = q[i]
        BY <1>1, <1>4, <3>1
      <4> QED BY <1>5, <4>1 DEF Elements
    <3>2. CASE i > k
      <4>1. i - 1 \in 1 .. n - 1 /\ r[i - 1] = q[i]
        BY <1>1, <1>4, <3>2
      <4> QED BY <1>5, <4>1 DEF Elements
    <3> QED BY <1>1, <2>2, <3>1, <3>2
  <2> QED BY <1>1, <1>5, <2>1, <2>2 DEF Elements
<1>8. NoRepeat(r)
  BY <1>1, <1>4, <1>6 DEF NoRepeat, n
<1> QED
  BY <1>4, <1>7, <1>8, OnceIsNoRepeat DEF r, a, b, n

-----------------------------------------------------------------------------
(***************************************************************************)
(* Segments                                                                *)
(***************************************************************************)

\* There are finitely many segments, and a segment has at least one byte.
LEMMA SegmentsFinite ==
  /\ IsFiniteSet(Segment) /\ IsFiniteSet(Ids)
  /\ \A s \in Segment : /\ s.so \in Bytes(s) /\ Bytes(s) \subseteq Units
                        /\ s.id \in Ids /\ s.so \in Nat /\ s.size \in Nat \ {0}
                        /\ s.so + s.size <= MaxLen
                        /\ PduSize(s) \in Nat
<1> DEFINE T == Ids \X (Units \X (1 .. MaxLen))
           f == [s \in Segment |-> <<s.id, <<s.so, s.size>>>>]
<1>1. IsFiniteSet(Ids) /\ IsFiniteSet(Units) /\ IsFiniteSet(1 .. MaxLen)
  BY SizesAssumption, FS_Interval DEF Ids, Units
<1>2. IsFiniteSet(T)
  <2>1. IsFiniteSet(Units \X (1 .. MaxLen))
    BY <1>1, FS_Product
  <2> QED BY <1>1, <2>1, FS_Product
<1>3. f \in Injection(Segment, T)
  <2>1. f \in [Segment -> T]
    BY DEF Segment
  <2>2. ASSUME NEW s \in Segment, NEW t \in Segment, f[s] = f[t] PROVE s = t
    <3>1. s.id = t.id /\ s.so = t.so /\ s.size = t.size
      BY <2>2
    <3> QED BY <3>1 DEF Segment
  <2> QED BY <2>1, <2>2 DEF Injection, IsInjective
<1>4. IsFiniteSet(Segment)
  <2> HIDE DEF f, T
  <2> QED BY <1>2, <1>3, FS_Injection
<1>5. ASSUME NEW s \in Segment
      PROVE  /\ s.so \in Bytes(s) /\ Bytes(s) \subseteq Units
             /\ s.id \in Ids /\ s.so \in Nat /\ s.size \in Nat \ {0}
             /\ s.so + s.size <= MaxLen /\ PduSize(s) \in Nat
  <2>1. s.id \in Ids /\ s.so \in 0 .. MaxLen - 1 /\ s.size \in 1 .. MaxLen /\ s.so + s.size <= MaxLen
    BY DEF Segment, Units
  <2>2. s.so \in Bytes(s) /\ Bytes(s) \subseteq Units
    BY <2>1, SizesAssumption DEF Bytes, Units
  <2> QED BY <2>1, <2>2, SizesAssumption DEF PduSize, compute_pdu_header_size, HDR_SIZE, SO_SIZE
<1> QED
  BY <1>1, <1>4, <1>5

\* No byte is in two segments of the set.
Apart(S) == \A s, t \in S : s # t /\ s.id = t.id => Bytes(s) \cap Bytes(t) = {}

\* The segments of SDU i, and how many there are.
Of(i, S)    == {s \in S : s.id = i}
Count(i, S) == Cardinality(Of(i, S))

\* What generate_pdu makes of a segment.
Pieces(seg, size) == {Front(seg, size)} \cup (IF Split(seg, size) THEN {Back(seg, size)} ELSE {})

\* resegment cuts a segment in two that have its bytes.
LEMMA SplitSegment ==
  ASSUME NEW seg \in Segment, NEW size \in Nat, Fits(seg, size), Split(seg, size)
  PROVE  LET f == Front(seg, size)
             b == Back(seg, size)
         IN  /\ f \in Segment /\ b \in Segment
             /\ f.id = seg.id /\ b.id = seg.id /\ f # b /\ f # seg /\ b # seg
             /\ f.so = seg.so /\ f.size < seg.size
             /\ b.so > seg.so /\ b.so + b.size = seg.so + seg.size
             /\ f.so + f.size = b.so
             /\ Bytes(f) \cap Bytes(b) = {} /\ Bytes(f) \cup Bytes(b) = Bytes(seg)
<1> DEFINE h == compute_pdu_header_size(seg)
           f == Front(seg, size)
           b == Back(seg, size)
<1>1. /\ seg \in [id : Ids, so : Units, size : 1 .. MaxLen]
      /\ seg.so \in Nat /\ seg.size \in Nat /\ seg.so + seg.size <= MaxLen /\ MaxLen \in Nat
  BY SizesAssumption, SegmentsFinite DEF Segment
<1>2. h \in Nat
  BY DEF compute_pdu_header_size, HDR_SIZE, SO_SIZE
<1>3. h + 1 <= size /\ h + seg.size > size /\ PduSize(seg) = h + seg.size
  BY DEF Fits, Split, PduSize
<1>4. /\ f = [seg EXCEPT !.size = size - h]
      /\ b = [seg EXCEPT !.so = seg.so + size - h, !.size = h + seg.size - size]
  <2>1. f = [seg EXCEPT !.size = size - h]
    BY DEF Front
  <2>2. PduSize(seg) - size = h + seg.size - size
    <3> HIDE DEF h
    <3> QED BY <1>1, <1>2, <1>3
  <2>3. b = [seg EXCEPT !.so = seg.so + size - h, !.size = h + seg.size - size]
    BY <2>2 DEF Back
  <2> QED BY <2>1, <2>3
<1>5. /\ f = [id |-> seg.id, so |-> seg.so, size |-> size - h]
      /\ b = [id |-> seg.id, so |-> seg.so + size - h, size |-> h + seg.size - size]
  BY <1>1, <1>4
<1> HIDE DEF f, b, h
<1>6. f \in Segment
  <2>1. size - h \in 1 .. MaxLen /\ seg.so + (size - h) <= MaxLen
    BY <1>1, <1>2, <1>3
  <2> QED BY <1>1, <1>5, <2>1 DEF Segment
<1>7. b \in Segment
  <2>1. /\ seg.so + size - h \in Units /\ h + seg.size - size \in 1 .. MaxLen
        /\ (seg.so + size - h) + (h + seg.size - size) <= MaxLen
    BY <1>1, <1>2, <1>3 DEF Units
  <2> QED BY <1>1, <1>5, <2>1 DEF Segment
<1>8. /\ f.id = seg.id /\ f.so = seg.so /\ f.size = size - h
      /\ b.id = seg.id /\ b.so = seg.so + size - h /\ b.size = h + seg.size - size
  BY <1>5
<1>9. /\ f.size < seg.size /\ b.so > seg.so /\ b.so + b.size = seg.so + seg.size
      /\ f.so + f.size = b.so
  BY <1>1, <1>2, <1>3, <1>8
<1>10. f # b /\ f # seg /\ b # seg
  <2>1. f.size # seg.size /\ b.so # seg.so /\ f.so = seg.so
    BY <1>1, <1>2, <1>3, <1>8
  <2> QED BY <2>1
<1>11. Bytes(f) \cap Bytes(b) = {} /\ Bytes(f) \cup Bytes(b) = Bytes(seg)
  BY <1>1, <1>2, <1>3, <1>8 DEF Bytes
<1> QED
  BY <1>6, <1>7, <1>8, <1>9, <1>10, <1>11 DEF f, b

\* What a segment becomes when a PDU is built from it, split or not.
LEMMA PiecesOfSegment ==
  ASSUME NEW seg \in Segment, NEW size \in Nat, Fits(seg, size)
  PROVE  /\ Front(seg, size) \in Segment /\ Front(seg, size).id = seg.id
         /\ Front(seg, size).so = seg.so /\ Front(seg, size).size <= seg.size
         /\ Front(seg, size) \in Pieces(seg, size)
         /\ Pieces(seg, size) \subseteq Segment /\ Apart(Pieces(seg, size))
         /\ \A p \in Pieces(seg, size) : /\ p.id = seg.id /\ Bytes(p) \subseteq Bytes(seg)
                                         /\ p.so + p.size <= seg.so + seg.size
         /\ UNION {Bytes(p) : p \in Pieces(seg, size)} = Bytes(seg)
         /\ Cardinality(Pieces(seg, size)) = IF Split(seg, size) THEN 2 ELSE 1
         /\ IsFiniteSet(Pieces(seg, size))
<1> DEFINE f == Front(seg, size)
           b == Back(seg, size)
<1>0. seg.so \in Nat /\ seg.size \in Nat
  BY SegmentsFinite
<1>1. CASE Split(seg, size)
  <2>1. Pieces(seg, size) = {f} \cup {b} /\ Pieces(seg, size) = {f, b}
    BY <1>1 DEF Pieces
  <2>2. /\ f \in Segment /\ b \in Segment
        /\ f.id = seg.id /\ b.id = seg.id /\ f # b /\ f.so = seg.so /\ f.size < seg.size
        /\ b.so + b.size = seg.so + seg.size
        /\ Bytes(f) \cap Bytes(b) = {} /\ Bytes(f) \cup Bytes(b) = Bytes(seg)
    BY <1>1, SplitSegment
  <2>3. f.size \in Nat
    BY <2>2, SegmentsFinite
  <2> HIDE DEF f, b
  <2>4. Cardinality(Pieces(seg, size)) = 2 /\ IsFiniteSet(Pieces(seg, size))
    <3>1. IsFiniteSet({f}) /\ Cardinality({f}) = 1
      BY FS_Singleton
    <3>2. b \notin {f}
      BY <2>2
    <3> QED BY <2>1, <3>1, <3>2, FS_AddElement
  <2>5. Apart(Pieces(seg, size))
    BY <2>1, <2>2 DEF Apart
  <2>6. f.so + f.size <= seg.so + seg.size
    BY <1>0, <2>2, <2>3
  <2>7. UNION {Bytes(p) : p \in Pieces(seg, size)} = Bytes(seg)
    BY <2>1, <2>2
  <2>8. f \in Pieces(seg, size) /\ Pieces(seg, size) \subseteq Segment /\ f.size <= seg.size
    BY <1>0, <2>1, <2>2, <2>3
  <2>9. \A p \in Pieces(seg, size) : /\ p.id = seg.id /\ Bytes(p) \subseteq Bytes(seg)
                                     /\ p.so + p.size <= seg.so + seg.size
    BY <1>0, <2>1, <2>2, <2>6
  <2> QED BY <1>1, <2>2, <2>4, <2>5, <2>7, <2>8, <2>9 DEF f
<1>2. CASE ~Split(seg, size)
  <2>1. Pieces(seg, size) = {seg} /\ f = seg
    BY <1>2 DEF Pieces, Front
  <2>2. Cardinality(Pieces(seg, size)) = 1 /\ IsFiniteSet(Pieces(seg, size))
    BY <2>1, FS_Singleton
  <2>3. Apart(Pieces(seg, size))
    BY <2>1 DEF Apart
  <2>4. UNION {Bytes(p) : p \in Pieces(seg, size)} = Bytes(seg)
    BY <2>1
  <2>5. seg.size <= seg.size /\ seg.so + seg.size <= seg.so + seg.size
    BY <1>0
  <2> QED BY <1>2, <2>1, <2>2, <2>3, <2>4, <2>5
<1> QED
  BY <1>1, <1>2

\* Counting the segments of an SDU.
LEMMA CountFacts ==
  ASSUME NEW S \in SUBSET Segment, NEW i
  PROVE  /\ Count(i, S) \in Nat
         /\ Count(i, S) = 0 <=> \A s \in S : s.id # i
         /\ \A T \in SUBSET S : /\ Count(i, T) \in Nat /\ Count(i, T) <= Count(i, S)
                                /\ Count(i, S \ T) = Count(i, S) - Count(i, T)
<1>1. \A T \in SUBSET Segment : IsFiniteSet(Of(i, T)) /\ Count(i, T) \in Nat
  BY SegmentsFinite, FS_Subset, FS_CardinalityType DEF Of, Count
<1>2. Count(i, S) = 0 <=> \A s \in S : s.id # i
  <2>1. Of(i, S) = {} <=> \A s \in S : s.id # i
    BY DEF Of
  <2> QED BY <1>1, <2>1, FS_EmptySet DEF Count
<1>3. ASSUME NEW T \in SUBSET S
      PROVE  Count(i, T) <= Count(i, S) /\ Count(i, S \ T) = Count(i, S) - Count(i, T)
  <2>1. /\ Of(i, T) \in SUBSET Of(i, S) /\ Of(i, S \ T) = Of(i, S) \ Of(i, T)
        /\ Of(i, S) \cap Of(i, T) = Of(i, T)
    BY DEF Of
  <2>2. IsFiniteSet(Of(i, S))
    BY <1>1
  <2>3. Count(i, T) <= Count(i, S)
    BY <2>1, <2>2, FS_Subset DEF Count
  <2>4. Cardinality(Of(i, S) \ Of(i, T)) = Cardinality(Of(i, S)) - Cardinality(Of(i, S) \cap Of(i, T))
    BY <2>2, FS_Difference
  <2> QED BY <2>1, <2>3, <2>4 DEF Count
<1> QED
  BY <1>1, <1>2, <1>3

\* Segments of disjoint sets are counted together.
LEMMA CountUnion ==
  ASSUME NEW S \in SUBSET Segment, NEW T \in SUBSET Segment, S \cap T = {}, NEW i
  PROVE  Count(i, S \cup T) = Count(i, S) + Count(i, T)
<1>1. \A R \in SUBSET Segment : Count(i, R) \in Nat
  BY CountFacts
<1>2. (S \cup T) \ T = S /\ T \in SUBSET (S \cup T) /\ S \cup T \in SUBSET Segment
  OBVIOUS
<1>3. Count(i, (S \cup T) \ T) = Count(i, S \cup T) - Count(i, T)
  BY <1>2, CountFacts
<1> QED
  BY <1>1, <1>2, <1>3

\* How many segments more SDU i has.
Extra(seg, size, i) == IF Split(seg, size) /\ i = seg.id THEN 1 ELSE 0

\* A segment is replaced by its pieces: the others are not touched.
LEMMA ReplaceByPieces ==
  ASSUME NEW S \in SUBSET Segment, Apart(S), NEW seg \in S, NEW size \in Nat, Fits(seg, size)
  PROVE  /\ Pieces(seg, size) \cap (S \ {seg}) = {}
         /\ (S \ {seg}) \cup Pieces(seg, size) \in SUBSET Segment
         /\ Apart((S \ {seg}) \cup Pieces(seg, size))
         /\ \A i \in Ids : Count(i, (S \ {seg}) \cup Pieces(seg, size)) =
                           Count(i, S) + Extra(seg, size, i)
<1> DEFINE P == Pieces(seg, size)
           R == S \ {seg}
<1>1. /\ P \in SUBSET Segment /\ Apart(P)
      /\ \A p \in P : p.id = seg.id /\ Bytes(p) \subseteq Bytes(seg)
      /\ Cardinality(P) = IF Split(seg, size) THEN 2 ELSE 1
  BY PiecesOfSegment
<1>2. \A p \in P : p.so \in Bytes(p)
  BY <1>1, SegmentsFinite
<1> HIDE DEF P
<1>3. \A p \in P, r \in R : r.id = p.id => Bytes(p) \cap Bytes(r) = {}
  BY <1>1 DEF Apart
<1>4. P \cap R = {}
  BY <1>2, <1>3
<1>5. Apart(R \cup P)
  <2> SUFFICES ASSUME NEW s \in R \cup P, NEW t \in R \cup P, s # t, s.id = t.id
               PROVE  Bytes(s) \cap Bytes(t) = {}
    BY DEF Apart
  <2>1. CASE s \in R /\ t \in R
    BY <2>1 DEF Apart
  <2>2. CASE s \in P /\ t \in P
    BY <1>1, <2>2 DEF Apart
  <2>3. CASE (s \in R /\ t \in P) \/ (s \in P /\ t \in R)
    BY <1>3, <2>3
  <2> QED BY <2>1, <2>2, <2>3
<1>6. ASSUME NEW i \in Ids
      PROVE  Count(i, R \cup P) = Count(i, S) + (IF Split(seg, size) /\ i = seg.id THEN 1 ELSE 0)
  <2>1. Count(i, R \cup P) = Count(i, R) + Count(i, P)
    BY <1>1, <1>4, CountUnion
  <2>2. Count(i, R) = Count(i, S) - Count(i, {seg}) /\ Count(i, S) \in Nat
    <3>1. {seg} \in SUBSET S
      OBVIOUS
    <3>2. /\ Count(i, S) \in Nat
          /\ \A T \in SUBSET S : Count(i, S \ T) = Count(i, S) - Count(i, T)
      BY CountFacts
    <3> QED BY <3>1, <3>2
  <2>3. Count(i, {seg}) = IF i = seg.id THEN 1 ELSE 0
    <3>1. Of(i, {seg}) = IF i = seg.id THEN {seg} ELSE {}
      BY DEF Of
    <3> QED BY <3>1, FS_Singleton, FS_EmptySet DEF Count
  <2>4. Count(i, P) = IF i = seg.id THEN (IF Split(seg, size) THEN 2 ELSE 1) ELSE 0
    <3>1. Of(i, P) = IF i = seg.id THEN P ELSE {}
      BY <1>1 DEF Of
    <3> QED BY <1>1, <3>1, FS_EmptySet DEF Count
  <2> QED BY <2>1, <2>2, <2>3, <2>4
<1> QED
  BY <1>1, <1>4, <1>5, <1>6 DEF P, Extra

\* The size of a set of segments, headers included.
SizeTotal(S) == Total([s \in Segment |-> PduSize(s)], S)

\* The sum of the PDU sizes of segments, and what is left when some are removed.
LEMMA SizeFacts ==
  ASSUME NEW S \in SUBSET Segment
  PROVE  /\ MapThenSumSet(PduSize, S) = SizeTotal(S) /\ SizeTotal(S) \in Int
         /\ \A T \in SUBSET S : /\ SizeTotal(T) \in Int
                                /\ SizeTotal(S \ T) = SizeTotal(S) - SizeTotal(T)
<1> DEFINE f == [s \in Segment |-> PduSize(s)]
           g == [s \in S |-> PduSize(s)]
<1>1. IsFiniteSet(S) /\ \A x \in S : f[x] \in Int /\ g[x] = f[x]
  BY SegmentsFinite, FS_Subset
<1>2. MapThenSumSet(PduSize, S) = Total(g, S)
  BY <1>1, SizeSumIsTotal
<1> HIDE DEF f, g
<1>3. Total(g, S) = Total(f, S) /\ Total(f, S) \in Int
  BY <1>1, TotalSame, TotalRemove
<1>4. ASSUME NEW T \in SUBSET S
      PROVE  Total(f, T) \in Int /\ Total(f, S \ T) = Total(f, S) - Total(f, T)
  BY <1>1, TotalSubset
<1> QED
  BY <1>2, <1>3, <1>4 DEF SizeTotal, f

\* Sizes of disjoint sets of segments add up.
LEMMA SizeUnion ==
  ASSUME NEW S \in SUBSET Segment, NEW T \in SUBSET Segment, S \cap T = {}
  PROVE  SizeTotal(S \cup T) = SizeTotal(S) + SizeTotal(T)
<1>1. (S \cup T) \ T = S /\ T \in SUBSET (S \cup T) /\ S \cup T \in SUBSET Segment
  OBVIOUS
<1>2. /\ SizeTotal((S \cup T) \ T) = SizeTotal(S \cup T) - SizeTotal(T)
      /\ SizeTotal(S \cup T) \in Int /\ SizeTotal(T) \in Int
  BY <1>1, SizeFacts
<1> QED
  BY <1>1, <1>2

\* The sums of no segment and of one.
LEMMA SizeOfFew ==
  /\ SizeTotal({}) = 0
  /\ \A s \in Segment : SizeTotal({s}) = PduSize(s) /\ PduSize(s) \in Int
<1>1. SizeTotal({}) = 0
  BY TotalEmpty DEF SizeTotal
<1>2. ASSUME NEW s \in Segment PROVE SizeTotal({s}) = PduSize(s) /\ PduSize(s) \in Int
  <2> DEFINE f == [x \in Segment |-> PduSize(x)]
  <2>1. f[s] = PduSize(s) /\ PduSize(s) \in Int
    BY SegmentsFinite
  <2>2. IsFiniteSet({s}) /\ \A x \in {s} : f[x] \in Int
    BY <2>1, FS_Singleton
  <2> HIDE DEF f
  <2>3. Total(f, {s}) = f[s] + Total(f, {s} \ {s}) /\ {s} \ {s} = {}
    BY <2>2, TotalRemove
  <2> QED BY <2>1, <2>3, TotalEmpty DEF SizeTotal, f
<1> QED
  BY <1>1, <1>2

-----------------------------------------------------------------------------
(***************************************************************************)
(* The inductive invariant of the transmitting side                        *)
(*                                                                         *)
(* SegmentsPartition is not inductive alone: that a discard takes the only *)
(* segment of its SDU needs that segments lie inside their SDUs and that   *)
(* the first segment of an SDU with a sequence number is not in tx_list.   *)
(***************************************************************************)
SegmentsFit  == \A s \in Segments : s.so + s.size <= sdu[s.id].size
SentHaveSn   == \A s \in InFlight : SnOf(s) # NoSn
QueuedFresh  == \A s \in Queued : /\ SnOf(s) = NoSn <=> s.so = 0
                                  /\ SnOf(s) = NoSn => s.size = sdu[s.id].size
GoneIsReset  == \A i \in Ids : sdu[i].fate # "held" => sdu[i] = NoSdu(sdu[i].fate)
WindowKept   == Dist(tx_next_ack, tx_next) <= W

SduSizes == [i \in Ids |-> sdu[i].size]

Accounts ==
  /\ bstatus.tx = SizeTotal(Queued)
  /\ bstatus.retx = SizeTotal(retransmit_list)
  /\ tx_size = Total(SduSizes, Held)

Structure == SegmentsFit /\ SentHaveSn /\ QueuedFresh /\ GoneIsReset

TxInv == TxTypeOK /\ SegmentsPartition /\ Structure /\ WindowKept /\ Accounts

\* SegmentsPartition and the types, in the terms of the lemmas above.
LEMMA TxFacts ==
  ASSUME TxTypeOK, SegmentsPartition
  PROVE  /\ tx_list \in Seq(Segment) /\ Once(tx_list) /\ Queued = Elements(tx_list)
         /\ Segments \in SUBSET Segment /\ Queued \in SUBSET Segment
         /\ wait_list \in SUBSET Segment /\ retransmit_list \in SUBSET Segment
         /\ wait_list \cap retransmit_list = {} /\ Queued \cap InFlight = {}
         /\ Apart(Segments)
         /\ \A i \in Ids : /\ Count(i, Segments) = sdu[i].ref_count - sdu[i].free_count
                           /\ sdu[i].fate = "held" <=> Count(i, Segments) > 0
                           /\ sdu[i].fate = "held" <=> Count(i, Segments) # 0
         /\ \A s \in Segments : s.id \in Held
<1>1. tx_list \in Seq(Segment) /\ wait_list \in SUBSET Segment /\ retransmit_list \in SUBSET Segment
  BY DEF TxTypeOK
<1>2. Queued = Elements(tx_list)
  BY DEF Queued, Elements
<1>3. Once(tx_list)
  BY <1>2 DEF SegmentsPartition, Once
<1>4. Queued \in SUBSET Segment
  BY <1>1, <1>2, <1>3, OnceIsNoRepeat
<1>5. Segments \in SUBSET Segment
  BY <1>1, <1>4 DEF Segments, InFlight
<1>6. Apart(Segments)
  BY DEF SegmentsPartition, Apart
<1>7. ASSUME NEW i \in Ids
      PROVE  /\ Count(i, Segments) = sdu[i].ref_count - sdu[i].free_count
             /\ sdu[i].fate = "held" <=> Count(i, Segments) > 0
             /\ sdu[i].fate = "held" <=> Count(i, Segments) # 0
  <2>1. /\ Count(i, Segments) = sdu[i].ref_count - sdu[i].free_count
        /\ sdu[i].fate = "held" <=> Count(i, Segments) > 0
    BY DEF SegmentsPartition, Count, Of
  <2>2. Count(i, Segments) \in Nat
    BY <1>5, CountFacts
  <2> QED BY <2>1, <2>2
<1>8. ASSUME NEW s \in Segments PROVE s.id \in Held
  <2>1. s.id \in Ids
    BY <1>5, SegmentsFinite
  <2>2. Count(s.id, Segments) # 0
    BY <1>5, CountFacts
  <2> QED BY <1>7, <2>1, <2>2 DEF Held
<1>9. wait_list \cap retransmit_list = {} /\ Queued \cap InFlight = {}
  BY DEF SegmentsPartition
<1> QED
  BY <1>1, <1>2, <1>3, <1>4, <1>5, <1>6, <1>7, <1>8, <1>9

\* The other way round, for the state after a step.
LEMMA PartitionAfter ==
  ASSUME Once(tx_list)', (wait_list \cap retransmit_list = {})', (Queued \cap InFlight = {})',
         Apart(Segments)',
         \A i \in Ids : /\ Count(i, Segments)' = (sdu[i].ref_count - sdu[i].free_count)'
                        /\ (sdu[i].fate = "held")' <=> Count(i, Segments)' > 0
  PROVE  SegmentsPartition'
<1>1. Queued' = Elements(tx_list)'
  BY DEF Queued, Elements
<1>2. (Cardinality(Queued) = Len(tx_list))'
  BY <1>1 DEF Once
<1> QED
  BY <1>2 DEF SegmentsPartition, Apart, Count, Of

\* A sum of sizes over SDUs.
LEMMA SduSum ==
  ASSUME TxTypeOK, NEW S \in SUBSET Ids
  PROVE  /\ MapThenSumSet(LAMBDA i : sdu[i].size, S) = Total(SduSizes, S)
         /\ Total(SduSizes, S) \in Int
         /\ \A T \in SUBSET S : /\ Total(SduSizes, T) \in Int
                                /\ Total(SduSizes, S \ T) = Total(SduSizes, S) - Total(SduSizes, T)
<1> DEFINE f == [i \in S |-> sdu[i].size]
           P(g) == g = [s \in SUBSET S |-> IF s = {} THEN 0 ELSE sdu[OneOf(s)].size + g[s \ {OneOf(s)}]]
<1>1. MapThenSumSet(LAMBDA i : sdu[i].size, S) = (CHOOSE g : P(g))[S]
  BY DEF MapThenSumSet, MapThenFoldSet, OneOf
<1>2. \A s \in SUBSET S : s # {} => f[OneOf(s)] = sdu[OneOf(s)].size
  BY AnyIn
<1>3. ASSUME NEW g, SumTable(g, f, S) PROVE P(g)
  BY <1>2, <1>3 DEF SumTable
<1>4. ASSUME NEW g, P(g) PROVE SumTable(g, f, S)
  BY <1>2, <1>4 DEF SumTable
<1>5. IsFiniteSet(S) /\ \A i \in S : SduSizes[i] \in Int /\ f[i] = SduSizes[i]
  BY SegmentsFinite, FS_Subset DEF TxTypeOK, SduSizes
<1> HIDE DEF f, P
<1>6. \E g : P(g)
  BY <1>3, <1>5, TableExists
<1>7. SumTable(CHOOSE g : P(g), f, S)
  BY <1>4, <1>6
<1>8. (CHOOSE g : P(g))[S] = Total(f, S)
  <2>1. Agree(f, f, S) /\ S \subseteq S /\ IsFiniteSet(S)
    BY <1>5 DEF Agree
  <2> QED BY <1>7, <2>1, TotalOfTable
<1>9. Total(f, S) = Total(SduSizes, S)
  BY <1>5, TotalSame
<1>10. Total(SduSizes, S) \in Int
  BY <1>5, TotalRemove
<1>11. ASSUME NEW T \in SUBSET S
       PROVE  /\ Total(SduSizes, T) \in Int
              /\ Total(SduSizes, S \ T) = Total(SduSizes, S) - Total(SduSizes, T)
  BY <1>5, TotalSubset
<1> QED
  BY <1>1, <1>8, <1>9, <1>10, <1>11

\* The invariant gives the account that the runs check.
LEMMA AccountsAreExact ==
  ASSUME TxInv
  PROVE  AccountsExact
<1>1. Queued \in SUBSET Segment /\ retransmit_list \in SUBSET Segment /\ Held \in SUBSET Ids
  BY TxFacts DEF TxInv, Held
<1>2. tx_size = MapThenSumSet(LAMBDA i : sdu[i].size, Held)
  BY <1>1, SduSum DEF TxInv, Accounts
<1>3. /\ bstatus.tx = MapThenSumSet(PduSize, Queued)
      /\ bstatus.retx = MapThenSumSet(PduSize, retransmit_list)
  BY <1>1, SizeFacts DEF TxInv, Accounts
<1> QED
  BY <1>2, <1>3 DEF AccountsExact

\* A new entity satisfies the invariant.
LEMMA TxInitInv ==
  ASSUME TxInit
  PROVE  TxInv
<1>1. /\ sdu = [i \in Ids |-> NoSdu("none")] /\ tx_list = <<>> /\ wait_list = {}
      /\ retransmit_list = {} /\ air = {} /\ tx_next = 0 /\ tx_next_ack = 0
      /\ bstatus = [tx |-> 0, retx |-> 0] /\ tx_size = 0
  BY DEF TxInit
<1>2. Queued = {} /\ InFlight = {} /\ Segments = {} /\ Len(tx_list) = 0
  BY <1>1, EmptySeq DEF Queued, InFlight, Segments
<1>3. Held = {}
  BY <1>1 DEF Held, NoSdu
<1>4. TxTypeOK
  <2>1. 0 \in SN /\ MaxLen \in Nat
    BY SizesAssumption DEF SN, sn_modulus
  <2>2. NoSdu("none") \in [sn : SN \cup {NoSn}, size : 0 .. MaxLen, ref_count : Nat,
                           free_count : Nat, retx_count : Int,
                           fate : {"none", "held", "acked", "dropped"}]
    BY <2>1 DEF NoSdu
  <2>3. sdu \in [Ids -> [sn : SN \cup {NoSn}, size : 0 .. MaxLen, ref_count : Nat,
                         free_count : Nat, retx_count : Int,
                         fate : {"none", "held", "acked", "dropped"}]]
    BY <1>1, <2>2
  <2>4. tx_list \in Seq(Segment) /\ wait_list \subseteq Segment /\ retransmit_list \subseteq Segment
        /\ air \subseteq DataPdu
    BY <1>1, EmptySeq
  <2>5. tx_size \in Int /\ bstatus \in [tx : Int, retx : Int]
    BY <1>1
  <2>6. /\ tx_next \in SN /\ tx_next_ack \in SN /\ poll_sn \in SN
        /\ pdu_without_poll \in Nat /\ byte_without_poll \in Nat
        /\ force_poll \in BOOLEAN /\ t_poll_retransmit \in BOOLEAN
        /\ max_retx_reached \in BOOLEAN /\ crashed \in BOOLEAN
    BY <2>1 DEF TxInit
  <2> QED BY <2>3, <2>4, <2>5, <2>6 DEF TxTypeOK
<1>5. SegmentsPartition
  <2>1. Cardinality(Queued) = Len(tx_list)
    BY <1>2, FS_EmptySet
  <2>2. \A i \in Ids : Cardinality({s \in Segments : s.id = i}) = 0
    BY <1>2, FS_EmptySet
  <2> QED BY <1>1, <1>2, <2>1, <2>2 DEF SegmentsPartition, NoSdu
<1>6. Structure
  BY <1>1, <1>2 DEF Structure, SegmentsFit, SentHaveSn, QueuedFresh, GoneIsReset, NoSdu
<1>7. WindowKept
  BY <1>1, SizesAssumption DEF WindowKept, Dist
<1>8. Accounts
  BY <1>1, <1>2, <1>3, SizeOfFew, TotalEmpty DEF Accounts
<1> QED
  BY <1>4, <1>5, <1>6, <1>7, <1>8 DEF TxInv

SduType == [sn : SN \cup {NoSn}, size : 0 .. MaxLen, ref_count : Nat, free_count : Nat,
            retx_count : Int, fate : {"none", "held", "acked", "dropped"}]

\* What the upper layer submits is one more segment, not in the lists yet.
LEMMA RecvSduInv ==
  ASSUME TxInv, NEW id \in Ids, NEW size \in 1 .. MaxLen, RecvSdu(id, size)
  PROVE  /\ TxInv'
         /\ Segments' = Segments \cup {[id |-> id, so |-> 0, size |-> size]}
         /\ sdu[id].fate = "none" /\ sdu' = [sdu EXCEPT ![id] = NewSdu(size)]
         /\ UNCHANGED <<tx_next, tx_next_ack, air>>
<1> DEFINE seg == [id |-> id, so |-> 0, size |-> size]
<1>1. /\ sdu[id].fate = "none"
      /\ tx_list' = Append(tx_list, seg) /\ bstatus' = [bstatus EXCEPT !.tx = @ + PduSize(seg)]
      /\ sdu' = [sdu EXCEPT ![id] = NewSdu(size)]
      /\ tx_size' = tx_size + size
      /\ UNCHANGED <<wait_list, retransmit_list, tx_next, tx_next_ack, poll_sn, pdu_without_poll,
                     byte_without_poll, force_poll, t_poll_retransmit, max_retx_reached, crashed, air>>
  BY DEF RecvSdu, txpoll
<1>2. seg \in Segment /\ size \in Nat /\ size <= MaxLen
  BY SizesAssumption DEF Segment, Units
<1>3. /\ tx_list \in Seq(Segment) /\ Once(tx_list) /\ Queued = Elements(tx_list)
      /\ Segments \in SUBSET Segment /\ Queued \in SUBSET Segment
      /\ wait_list \in SUBSET Segment /\ retransmit_list \in SUBSET Segment
      /\ Apart(Segments) /\ Queued \cap InFlight = {}
      /\ \A i \in Ids : /\ Count(i, Segments) = sdu[i].ref_count - sdu[i].free_count
                        /\ sdu[i].fate = "held" <=> Count(i, Segments) > 0
      /\ \A s \in Segments : s.id \in Held
  BY TxFacts DEF TxInv
<1>4. sdu \in [Ids -> SduType]
  BY DEF TxInv, TxTypeOK, SduType
<1>5. \A s \in Segments : s.id # id
  BY <1>1, <1>3 DEF Held
<1>6. seg \notin Segments /\ seg \notin Queued /\ seg.id = id
  BY <1>5 DEF Segments
<1>7. tx_list' \in Seq(Segment) /\ Once(tx_list)' /\ Queued' = Queued \cup {seg}
  <2>1. /\ Append(tx_list, seg) \in Seq(Segment) /\ Once(Append(tx_list, seg))
        /\ Elements(Append(tx_list, seg)) = Elements(tx_list) \cup {seg}
    <3> HIDE DEF seg
    <3> QED BY <1>2, <1>3, <1>6, OnceAppend
  <2>2. Queued' = Elements(tx_list')
    BY DEF Queued, Elements
  <2> QED BY <1>1, <1>3, <2>1, <2>2
<1>8. Segments' = Segments \cup {seg} /\ InFlight' = InFlight
  BY <1>1, <1>7 DEF Segments, InFlight
<1>9. /\ sdu' \in [Ids -> SduType] /\ sdu'[id] = NewSdu(size)
      /\ \A i \in Ids : i # id => sdu'[i] = sdu[i]
  <2>1. NewSdu(size) \in SduType
    BY <1>2 DEF NewSdu, SduType
  <2> QED BY <1>1, <1>4, <2>1
<1>10. \A s \in Segments : sdu'[s.id] = sdu[s.id]
  BY <1>3, <1>5, <1>9 DEF Held
<1>11. TxTypeOK'
  <2>1. bstatus' \in [tx : Int, retx : Int] /\ tx_size' \in Int
    <3>1. PduSize(seg) \in Int
      BY <1>2, SegmentsFinite
    <3>2. bstatus \in [tx : Int, retx : Int] /\ tx_size \in Int
      BY DEF TxInv, TxTypeOK
    <3> HIDE DEF seg
    <3> QED BY <1>1, <1>2, <3>1, <3>2
  <2>2. tx_next \in SN /\ tx_next_ack \in SN /\ poll_sn \in SN
        /\ pdu_without_poll \in Nat /\ byte_without_poll \in Nat
        /\ force_poll \in BOOLEAN /\ t_poll_retransmit \in BOOLEAN
        /\ max_retx_reached \in BOOLEAN /\ crashed \in BOOLEAN /\ air \subseteq DataPdu
        /\ wait_list \subseteq Segment /\ retransmit_list \subseteq Segment
    BY DEF TxInv, TxTypeOK
  <2> QED BY <1>1, <1>7, <1>9, <2>1, <2>2 DEF TxTypeOK, SduType
<1>12. SegmentsPartition'
  <2>1. (wait_list \cap retransmit_list = {})' /\ (Queued \cap InFlight = {})'
    <3>1. seg \notin InFlight /\ wait_list \cap retransmit_list = {}
      BY <1>6, TxFacts DEF Segments, TxInv
    <3> QED BY <1>1, <1>3, <1>7, <1>8, <3>1
  <2>2. Apart(Segments)'
    <3> SUFFICES ASSUME NEW s \in Segments \cup {seg}, NEW t \in Segments \cup {seg}, s # t, s.id = t.id
                 PROVE  Bytes(s) \cap Bytes(t) = {}
      BY <1>8 DEF Apart
    <3>1. s \in Segments /\ t \in Segments
      BY <1>5
    <3> QED BY <1>3, <3>1 DEF Apart
  <2>3. ASSUME NEW i \in Ids
        PROVE  /\ Count(i, Segments)' = (sdu[i].ref_count - sdu[i].free_count)'
               /\ (sdu[i].fate = "held")' <=> Count(i, Segments)' > 0
    <3>1. Of(i, Segments \cup {seg}) = IF i = id THEN {seg} ELSE Of(i, Segments)
      BY <1>5 DEF Of
    <3>2. Count(i, Segments)' = IF i = id THEN 1 ELSE Count(i, Segments)
      BY <1>8, <3>1, FS_Singleton DEF Count
    <3>3. CASE i = id
      BY <1>9, <3>2, <3>3 DEF NewSdu
    <3>4. CASE i # id
      BY <1>3, <1>9, <3>2, <3>4
    <3> QED BY <3>3, <3>4
  <2> QED BY <1>7, <2>1, <2>2, <2>3, PartitionAfter
<1>13. Structure'
  <2>1. SegmentsFit'
    <3>1. seg.so + seg.size <= sdu'[seg.id].size
      BY <1>2, <1>9 DEF NewSdu
    <3> HIDE DEF seg
    <3> QED BY <1>8, <1>10, <3>1 DEF SegmentsFit, TxInv, Structure
  <2>2. SentHaveSn'
    BY <1>8, <1>10 DEF SentHaveSn, SnOf, TxInv, Structure, Segments
  <2>3. QueuedFresh'
    <3>1. seg.so = 0 /\ sdu'[seg.id].sn = NoSn /\ seg.size = sdu'[seg.id].size
      BY <1>9 DEF NewSdu
    <3> HIDE DEF seg
    <3> QED BY <1>7, <1>10, <3>1 DEF QueuedFresh, SnOf, TxInv, Structure, Segments
  <2>4. GoneIsReset'
    BY <1>9 DEF GoneIsReset, NewSdu, TxInv, Structure
  <2> QED BY <2>1, <2>2, <2>3, <2>4 DEF Structure
<1>14. WindowKept'
  BY <1>1 DEF WindowKept, TxInv
<1>15. Accounts'
  <2>1. bstatus.tx = SizeTotal(Queued) /\ bstatus.retx = SizeTotal(retransmit_list)
        /\ tx_size = Total(SduSizes, Held) /\ bstatus \in [tx : Int, retx : Int]
    BY DEF TxInv, Accounts, TxTypeOK
  <2>2. SizeTotal(Queued \cup {seg}) = SizeTotal(Queued) + PduSize(seg)
    <3> HIDE DEF seg
    <3>1. {seg} \in SUBSET Segment /\ Queued \cap {seg} = {}
      BY <1>2, <1>6
    <3>2. SizeTotal(Queued \cup {seg}) = SizeTotal(Queued) + SizeTotal({seg})
      BY <1>3, <3>1, SizeUnion
    <3> QED BY <1>2, <3>2, SizeOfFew
  <2>3. bstatus'.tx = SizeTotal(Queued') /\ bstatus'.retx = SizeTotal(retransmit_list')
    <3> HIDE DEF seg
    <3> QED BY <1>1, <1>7, <2>1, <2>2
  <2>4. Held' = Held \cup {id} /\ id \notin Held /\ Held \in SUBSET Ids
    BY <1>1, <1>9 DEF Held, NewSdu
  <2>5. tx_size' = Total(SduSizes', Held')
    <3> DEFINE f == SduSizes
               g == SduSizes'
    <3>1. IsFiniteSet(Held) /\ \A i \in Held \cup {id} : g[i] \in Int
      <4>1. \A i \in Ids : g[i] \in Int
        BY <1>9 DEF SduSizes, SduType
      <4> QED BY <2>4, <4>1, SegmentsFinite, FS_Subset
    <3>2. \A i \in Held : f[i] = g[i]
      BY <1>1, <1>9 DEF SduSizes, Held
    <3>3. g[id] = size
      BY <1>9 DEF SduSizes, NewSdu
    <3> HIDE DEF f, g
    <3>4. Total(g, Held \cup {id}) = g[id] + Total(g, Held) /\ Total(g, Held) \in Int
      BY <2>4, <3>1, TotalAdd, TotalRemove
    <3>5. Total(f, Held) = Total(g, Held)
      BY <3>1, <3>2, TotalSame
    <3> QED BY <1>1, <1>2, <2>1, <2>4, <3>3, <3>4, <3>5 DEF f, g
  <2> QED BY <2>3, <2>5 DEF Accounts
<1> QED
  BY <1>1, <1>8, <1>11, <1>12, <1>13, <1>14, <1>15 DEF TxInv

\* The head of a list that waits for an acknowledgement is one of its segments.
LEMMA HeadSegIn ==
  ASSUME TxInv, NEW S \in SUBSET InFlight, S # {}
  PROVE  HeadSeg(S) \in S /\ HeadSeg(S) \in Segment /\ SnOf(HeadSeg(S)) \in SN
         /\ \A t \in S : Place(HeadSeg(S)) <= Place(t)
<1> DEFINE T == {Place(s) : s \in S}
<1>1. S \in SUBSET Segment /\ S \in SUBSET Segments
  BY TxFacts DEF TxInv, InFlight, Segments
<1>2. \A s \in S : SnOf(s) \in SN
  BY <1>1, SegmentsFinite DEF TxInv, TxTypeOK, Structure, SentHaveSn, SnOf
<1>3. T \in SUBSET Nat
  <2> SUFFICES ASSUME NEW s \in S PROVE Place(s) \in Nat
    OBVIOUS
  <2>1. tx_next_ack \in SN /\ SnOf(s) \in SN /\ W \in Nat /\ MaxLen \in Nat /\ s.so \in Nat
    BY <1>1, <1>2, SizesAssumption, SegmentsFinite DEF TxInv, TxTypeOK
  <2>2. Dist(tx_next_ack, SnOf(s)) \in Nat
    BY <2>1 DEF Dist, SN, sn_modulus
  <2>3. \A a, b, c \in Nat : a * b + c \in Nat
    OBVIOUS
  <2> QED BY <2>1, <2>2, <2>3 DEF Place
<1>4. PICK m \in T : \A k \in T : m <= k
  <2>1. T # {}
    OBVIOUS
  <2> HIDE DEF T
  <2> QED BY <1>3, <2>1, LeastElement
<1>5. \E s \in S : \A t \in S : Place(s) <= Place(t)
  BY <1>4
<1>6. HeadSeg(S) \in S /\ \A t \in S : Place(HeadSeg(S)) <= Place(t)
  BY <1>5 DEF HeadSeg
<1> QED
  BY <1>1, <1>2, <1>6

\* serialize_sdu hands down a data PDU and leaves the poll state in its types.
LEMMA SerializeType ==
  ASSUME TxTypeOK, NEW seg \in Segment, NEW sn \in SN, NEW poll \in BOOLEAN, NEW next \in SN,
         NEW pdus \in Nat, NEW bytes \in Nat,
         serialize_sdu(seg, sn, poll, next, pdus, bytes)
  PROVE  /\ air' \subseteq DataPdu /\ force_poll' \in BOOLEAN /\ poll_sn' \in SN
         /\ t_poll_retransmit' \in BOOLEAN
         /\ pdu_without_poll' \in Nat /\ byte_without_poll' \in Nat
<1>1. seg \in [id : Ids, so : Units, size : 1 .. MaxLen] /\ seg.so + seg.size <= MaxLen
  BY DEF Segment
<1>2. [id |-> seg.id, sn |-> sn, so |-> seg.so, size |-> seg.size,
       is_last |-> seg.so + seg.size = sdu[seg.id].size, p |-> poll] \in DataPdu
  BY <1>1 DEF DataPdu
<1>3. Young(next) \subseteq DataPdu
  BY DEF Young, TxTypeOK
<1>4. air' \subseteq DataPdu
  BY <1>2, <1>3 DEF serialize_sdu
<1>5. Pred(next) \in SN
  BY SizesAssumption DEF Pred, SN, sn_modulus
<1>6. /\ poll_sn \in SN /\ t_poll_retransmit \in BOOLEAN
  BY DEF TxTypeOK
<1>7. /\ force_poll' = FALSE
      /\ poll => /\ pdu_without_poll' = 0 /\ byte_without_poll' = 0
                 /\ poll_sn' = Pred(next) /\ t_poll_retransmit' = TRUE
      /\ ~poll => /\ pdu_without_poll' = pdus /\ byte_without_poll' = bytes
                  /\ poll_sn' = poll_sn /\ t_poll_retransmit' = t_poll_retransmit
  BY DEF serialize_sdu
<1>8. /\ force_poll' \in BOOLEAN /\ poll_sn' \in SN /\ t_poll_retransmit' \in BOOLEAN
      /\ pdu_without_poll' \in Nat /\ byte_without_poll' \in Nat
  <2>1. CASE poll
    <3>1. poll_sn' = Pred(next) /\ pdu_without_poll' = 0 /\ byte_without_poll' = 0
      BY <1>7, <2>1
    <3>2. force_poll' = FALSE /\ t_poll_retransmit' = TRUE
      BY <1>7, <2>1
    <3> QED BY <1>5, <3>1, <3>2
  <2>2. CASE ~poll
    BY <1>6, <1>7, <2>2
  <2> QED BY <2>1, <2>2
<1> QED
  BY <1>4, <1>8

\* A PDU is built from a segment: the SDU has its pieces in place of it.
LEMMA BuiltFrom ==
  ASSUME TxInv, NEW seg \in Segments, NEW size \in Nat, Fits(seg, size),
         Segments' = (Segments \ {seg}) \cup Pieces(seg, size),
         sdu' \in [Ids -> SduType],
         \A i \in Ids : i # seg.id => sdu'[i] = sdu[i],
         /\ sdu'[seg.id].size = sdu[seg.id].size
         /\ sdu'[seg.id].free_count = sdu[seg.id].free_count
         /\ sdu'[seg.id].fate = sdu[seg.id].fate
         /\ sdu'[seg.id].ref_count = sdu[seg.id].ref_count + (IF Split(seg, size) THEN 1 ELSE 0)
  PROVE  /\ Apart(Segments)'
         /\ \A i \in Ids : /\ Count(i, Segments)' = (sdu[i].ref_count - sdu[i].free_count)'
                           /\ (sdu[i].fate = "held")' <=> Count(i, Segments)' > 0
         /\ SegmentsFit' /\ GoneIsReset'
         /\ Held' = Held /\ SduSizes' = SduSizes
         /\ Pieces(seg, size) \cap (Segments \ {seg}) = {}
<1> DEFINE P == Pieces(seg, size)
<1>1. /\ Segments \in SUBSET Segment /\ Apart(Segments) /\ seg \in Segment
      /\ \A i \in Ids : /\ Count(i, Segments) = sdu[i].ref_count - sdu[i].free_count
                        /\ sdu[i].fate = "held" <=> Count(i, Segments) > 0
      /\ \A s \in Segments : s.id \in Held
  BY TxFacts DEF TxInv
<1>2. /\ P \cap (Segments \ {seg}) = {}
      /\ Apart((Segments \ {seg}) \cup P)
      /\ \A i \in Ids : Count(i, (Segments \ {seg}) \cup P) =
                        Count(i, Segments) + Extra(seg, size, i)
  <2>1. Segments \in SUBSET Segment /\ Apart(Segments) /\ seg \in Segments /\ size \in Nat
        /\ Fits(seg, size)
    BY <1>1
  <2>2. P \cap (Segments \ {seg}) = {} /\ Apart((Segments \ {seg}) \cup P)
    BY ONLY <2>1, ReplaceByPieces
  <2>3. ASSUME NEW i \in Ids
        PROVE  Count(i, (Segments \ {seg}) \cup P) = Count(i, Segments) + Extra(seg, size, i)
    <3> HIDE DEF P
    <3> QED BY <2>1, ReplaceByPieces DEF P
  <2> QED BY <2>2, <2>3
<1>3. \A p \in P : p.id = seg.id /\ p.so + p.size <= seg.so + seg.size /\ p \in Segment
  BY <1>1, PiecesOfSegment
<1>4. seg.id \in Ids /\ seg.id \in Held /\ sdu \in [Ids -> SduType]
  BY <1>1, SegmentsFinite DEF TxInv, TxTypeOK, SduType
<1> HIDE DEF P
<1>5. Apart(Segments)'
  BY <1>2 DEF Apart, P
<1>6. ASSUME NEW i \in Ids
      PROVE  /\ Count(i, Segments)' = (sdu[i].ref_count - sdu[i].free_count)'
             /\ (sdu[i].fate = "held")' <=> Count(i, Segments)' > 0
  <2>1. Count(i, Segments)' = Count(i, Segments) + (IF Split(seg, size) /\ i = seg.id THEN 1 ELSE 0)
    BY <1>2 DEF Count, Of, P, Extra
  <2>2. Count(i, Segments) \in Nat
    BY <1>1, CountFacts
  <2>3. sdu[i].ref_count \in Nat /\ sdu[i].free_count \in Nat
    BY <1>4 DEF SduType
  <2>4. CASE i = seg.id
    <3>1. sdu[i].fate = "held" /\ Count(i, Segments) > 0
      BY <1>1, <1>4, <2>4 DEF Held
    <3> QED BY <1>1, <2>1, <2>2, <2>3, <2>4, <3>1
  <2>5. CASE i # seg.id
    BY <1>1, <2>1, <2>2, <2>5
  <2> QED BY <2>4, <2>5
<1>7. \A i \in Ids : sdu'[i].fate = sdu[i].fate /\ sdu'[i].size = sdu[i].size
  OBVIOUS
<1>8. SegmentsFit'
  <2> SUFFICES ASSUME NEW s \in Segments' PROVE s.so + s.size <= sdu'[s.id].size
    BY DEF SegmentsFit
  <2>1. CASE s \in Segments
    BY <1>1, <1>7, <2>1, SegmentsFinite DEF SegmentsFit, TxInv, Structure
  <2>2. CASE s \in P
    <3>1. seg.so + seg.size <= sdu[seg.id].size
      BY DEF SegmentsFit, TxInv, Structure
    <3>2. s.so + s.size <= seg.so + seg.size /\ s.id = seg.id /\ s.so \in Nat /\ s.size \in Nat
          /\ seg.so \in Nat /\ seg.size \in Nat
      BY <1>1, <1>3, <2>2, SegmentsFinite
    <3>3. sdu[seg.id].size \in Nat
      BY <1>4, SizesAssumption DEF SduType
    <3> QED BY <1>4, <1>7, <3>1, <3>2, <3>3
  <2> QED BY <2>1, <2>2 DEF P
<1>9. GoneIsReset'
  <2> SUFFICES ASSUME NEW i \in Ids, sdu'[i].fate # "held" PROVE sdu'[i] = NoSdu(sdu'[i].fate)
    BY DEF GoneIsReset
  <2>1. i # seg.id
    BY <1>4, <1>7 DEF Held
  <2> QED BY <2>1 DEF GoneIsReset, TxInv, Structure
<1>10. Held' = Held /\ SduSizes' = SduSizes
  BY <1>7 DEF Held, SduSizes
<1> QED
  BY <1>2, <1>5, <1>6, <1>8, <1>9, <1>10 DEF P

\* What goes back to the list when a PDU is built from a segment.
Rest(seg, size) == IF Split(seg, size) THEN {Back(seg, size)} ELSE {}

\* What the PDU takes and what goes back to the list.
LEMMA RestFacts ==
  ASSUME NEW seg \in Segment, NEW size \in Nat, Fits(seg, size)
  PROVE  /\ Pieces(seg, size) = {Front(seg, size)} \cup Rest(seg, size)
         /\ Front(seg, size) \notin Rest(seg, size)
         /\ Front(seg, size) \in Segment /\ Rest(seg, size) \in SUBSET Segment
         /\ \A p \in Pieces(seg, size) : p.id = seg.id
         /\ Cardinality(Rest(seg, size)) = IF Split(seg, size) THEN 1 ELSE 0
         /\ SizeTotal(Rest(seg, size)) = IF Split(seg, size) THEN PduSize(Back(seg, size)) ELSE 0
         /\ SizeTotal(Rest(seg, size)) \in Int
         /\ \A s \in Rest(seg, size) : s.so > 0
<1>1. Pieces(seg, size) = {Front(seg, size)} \cup Rest(seg, size)
  BY DEF Pieces, Rest
<1>2. Front(seg, size) \in Segment /\ \A p \in Pieces(seg, size) : p.id = seg.id
  BY PiecesOfSegment
<1>3. CASE Split(seg, size)
  <2>1. /\ Back(seg, size) \in Segment /\ Front(seg, size) # Back(seg, size)
        /\ Back(seg, size).so > seg.so
    BY <1>3, SplitSegment
  <2>2. Rest(seg, size) = {Back(seg, size)}
    BY <1>3 DEF Rest
  <2>3. Cardinality(Rest(seg, size)) = 1
    BY <2>2, FS_Singleton
  <2>4. SizeTotal(Rest(seg, size)) = PduSize(Back(seg, size)) /\ PduSize(Back(seg, size)) \in Int
    BY <2>1, <2>2, SizeOfFew
  <2>5. Back(seg, size).so > 0
    BY <2>1, SegmentsFinite
  <2> QED BY <1>1, <1>2, <1>3, <2>1, <2>2, <2>3, <2>4, <2>5
<1>4. CASE ~Split(seg, size)
  <2>1. Rest(seg, size) = {}
    BY <1>4 DEF Rest
  <2> QED BY <1>1, <1>2, <1>4, <2>1, FS_EmptySet, SizeOfFew
<1> QED
  BY <1>3, <1>4

\* What generate_pdu does, whichever list it serves: it cuts a segment of an SDU, that
\* keeps its SN or gets the next one, and puts the front of it on the air.
SendsFrom(seg, size) ==
  /\ seg \in Segments /\ size \in Nat /\ Fits(seg, size)
  /\ Segments' = (Segments \ {seg}) \cup Pieces(seg, size)
  /\ \A i \in Ids : /\ sdu'[i].size = sdu[i].size /\ sdu'[i].fate = sdu[i].fate
                    /\ i # seg.id => sdu'[i].sn = sdu[i].sn
  /\ tx_next_ack' = tx_next_ack
  /\ \E p \in BOOLEAN :
       air' = Young(tx_next') \cup
                {[id |-> seg.id, sn |-> sdu'[seg.id].sn, so |-> seg.so,
                  size |-> Front(seg, size).size,
                  is_last |-> seg.so + Front(seg, size).size = sdu[seg.id].size, p |-> p]}
  /\ \/ sdu[seg.id].sn # NoSn /\ sdu'[seg.id].sn = sdu[seg.id].sn /\ tx_next' = tx_next
     \/ /\ sdu[seg.id].sn = NoSn /\ sdu'[seg.id].sn = tx_next /\ tx_next' = Succ(tx_next)
        /\ Dist(tx_next_ack, tx_next) < W

\* A PDU is built from the head of retransmit_list.
LEMMA GenerateRetxPduInv ==
  ASSUME TxInv, NEW size \in TbSizes, GenerateRetxPdu(size)
  PROVE  TxInv' /\ \E seg \in Segments : SendsFrom(seg, size)
<1> DEFINE seg  == HeadSeg(retransmit_list)
           f    == Front(seg, size)
           B    == Rest(seg, size)
           rtl  == (retransmit_list \ {seg}) \cup B
           poll == force_poll \/ check_poll_after_pdu_assembly(tx_list, rtl, tx_next)
<1>1. /\ retransmit_list # {} /\ Fits(seg, size)
      /\ retransmit_list' = rtl /\ wait_list' = wait_list \cup {f}
      /\ sdu' = [sdu EXCEPT ![seg.id].ref_count = @ + Cardinality(B)]
      /\ bstatus' = [bstatus EXCEPT !.retx = @ - PduSize(seg)
                                     + (IF B = {} THEN 0 ELSE PduSize(Back(seg, size)))]
      /\ serialize_sdu(f, SnOf(seg), poll, tx_next, pdu_without_poll, byte_without_poll)
      /\ UNCHANGED <<tx_list, tx_next, tx_next_ack, tx_size, max_retx_reached, crashed>>
  BY DEF GenerateRetxPdu, RetxFits, Rest
<1>2. TxTypeOK /\ size \in Nat
  BY TxAssumption DEF TxInv
<1>3. /\ tx_list \in Seq(Segment) /\ Once(tx_list)
      /\ Segments \in SUBSET Segment
      /\ wait_list \in SUBSET Segment /\ retransmit_list \in SUBSET Segment
      /\ wait_list \cap retransmit_list = {} /\ Queued \cap InFlight = {}
  BY TxFacts DEF TxInv
<1>4. seg \in retransmit_list /\ seg \in Segment /\ SnOf(seg) \in SN
  BY <1>1, HeadSegIn DEF InFlight
<1>5. seg \in Segments /\ seg.id \in Ids
  BY <1>4, SegmentsFinite DEF Segments, InFlight
<1> HIDE DEF seg, poll
<1>6. /\ Pieces(seg, size) = {f} \cup B /\ f \notin B /\ f \in Segment /\ B \in SUBSET Segment
      /\ \A p \in Pieces(seg, size) : p.id = seg.id
      /\ Cardinality(B) = IF Split(seg, size) THEN 1 ELSE 0
      /\ SizeTotal(B) = IF Split(seg, size) THEN PduSize(Back(seg, size)) ELSE 0
      /\ SizeTotal(B) \in Int
  BY <1>1, <1>2, <1>4, RestFacts
<1>7. B = {} <=> ~Split(seg, size)
  BY DEF Rest
<1> HIDE DEF f, B
<1>8. Queued' = Queued /\ InFlight' = (InFlight \ {seg}) \cup Pieces(seg, size)
  BY <1>1, <1>3, <1>4, <1>6 DEF Queued, InFlight
<1>9. Segments' = (Segments \ {seg}) \cup Pieces(seg, size)
  BY <1>3, <1>4, <1>8 DEF Segments, InFlight
<1>10. /\ sdu' \in [Ids -> SduType] /\ sdu \in [Ids -> SduType]
       /\ \A i \in Ids : i # seg.id => sdu'[i] = sdu[i]
       /\ sdu'[seg.id] = [sdu[seg.id] EXCEPT !.ref_count = @ + (IF Split(seg, size) THEN 1 ELSE 0)]
  <2>1. sdu \in [Ids -> SduType]
    BY <1>2 DEF TxTypeOK, SduType
  <2>2. sdu' = [sdu EXCEPT ![seg.id] = [sdu[seg.id] EXCEPT
                 !.ref_count = sdu[seg.id].ref_count + (IF Split(seg, size) THEN 1 ELSE 0)]]
    BY <1>1, <1>6
  <2>3. sdu[seg.id] \in SduType /\ sdu[seg.id].ref_count + (IF Split(seg, size) THEN 1 ELSE 0) \in Nat
    BY <1>5, <2>1 DEF SduType
  <2>4. [sdu[seg.id] EXCEPT
          !.ref_count = sdu[seg.id].ref_count + (IF Split(seg, size) THEN 1 ELSE 0)] \in SduType
    BY <2>3 DEF SduType
  <2> QED BY <1>5, <2>1, <2>2, <2>4
<1>11. /\ sdu'[seg.id].size = sdu[seg.id].size /\ sdu'[seg.id].sn = sdu[seg.id].sn
       /\ sdu'[seg.id].free_count = sdu[seg.id].free_count
       /\ sdu'[seg.id].fate = sdu[seg.id].fate
       /\ sdu'[seg.id].ref_count = sdu[seg.id].ref_count + (IF Split(seg, size) THEN 1 ELSE 0)
  BY <1>5, <1>10 DEF SduType
<1>12. \A i \in Ids : sdu'[i].sn = sdu[i].sn /\ sdu'[i].size = sdu[i].size
  BY <1>10, <1>11
<1>13. /\ Apart(Segments)'
       /\ \A i \in Ids : /\ Count(i, Segments)' = (sdu[i].ref_count - sdu[i].free_count)'
                         /\ (sdu[i].fate = "held")' <=> Count(i, Segments)' > 0
       /\ SegmentsFit' /\ GoneIsReset'
       /\ Held' = Held /\ SduSizes' = SduSizes
       /\ Pieces(seg, size) \cap (Segments \ {seg}) = {}
  BY <1>1, <1>2, <1>5, <1>9, <1>10, <1>11, BuiltFrom
<1>14. TxTypeOK'
  <2>1. /\ air' \subseteq DataPdu /\ force_poll' \in BOOLEAN /\ poll_sn' \in SN
        /\ t_poll_retransmit' \in BOOLEAN
        /\ pdu_without_poll' \in Nat /\ byte_without_poll' \in Nat
    <3>1. poll \in BOOLEAN
      BY <1>2 DEF poll, TxTypeOK
    <3> QED BY <1>1, <1>2, <1>4, <1>6, <3>1, SerializeType DEF TxTypeOK
  <2>2. bstatus' \in [tx : Int, retx : Int]
    <3>1. PduSize(seg) \in Int /\ (Split(seg, size) => PduSize(Back(seg, size)) \in Int)
      BY <1>4, <1>6, SegmentsFinite
    <3>2. bstatus \in [tx : Int, retx : Int]
      BY <1>2 DEF TxTypeOK
    <3> QED BY <1>1, <1>7, <3>1, <3>2
  <2>3. wait_list' \subseteq Segment /\ retransmit_list' \subseteq Segment
    BY <1>1, <1>3, <1>6
  <2> QED BY <1>1, <1>2, <1>10, <2>1, <2>2, <2>3 DEF TxTypeOK, SduType
<1>15. SegmentsPartition'
  <2>1. (wait_list \cap retransmit_list = {})'
    BY <1>1, <1>3, <1>4, <1>6, <1>13 DEF Segments, InFlight
  <2>2. (Queued \cap InFlight = {})'
    BY <1>3, <1>4, <1>8, <1>13 DEF Segments, InFlight
  <2>3. Once(tx_list)'
    BY <1>1, <1>3 DEF Once, Elements
  <2> QED BY <1>13, <2>1, <2>2, <2>3, PartitionAfter
<1>16. Structure'
  <2>1. SentHaveSn'
    <3> SUFFICES ASSUME NEW s \in InFlight' PROVE sdu'[s.id].sn # NoSn
      BY DEF SentHaveSn, SnOf
    <3>1. CASE s \in InFlight
      BY <1>3, <1>12, <3>1, SegmentsFinite DEF SentHaveSn, SnOf, TxInv, Structure, Segments
    <3>2. CASE s \in Pieces(seg, size)
      <4>1. sdu'[s.id].sn = SnOf(seg)
        BY <1>5, <1>6, <1>12, <3>2 DEF SnOf
      <4> QED BY <1>4, <4>1, SizesAssumption DEF SN, NoSn, sn_modulus
    <3> QED BY <1>8, <3>1, <3>2
  <2>2. QueuedFresh'
    BY <1>3, <1>8, <1>12, SegmentsFinite DEF QueuedFresh, SnOf, TxInv, Structure, Segments
  <2> QED BY <1>13, <2>1, <2>2 DEF Structure
<1>17. WindowKept'
  BY <1>1 DEF WindowKept, TxInv
<1>18. Accounts'
  <2>1. bstatus.tx = SizeTotal(Queued) /\ bstatus.retx = SizeTotal(retransmit_list)
        /\ tx_size = Total(SduSizes, Held) /\ bstatus \in [tx : Int, retx : Int]
    BY DEF TxInv, Accounts, TxTypeOK
  <2>2. SizeTotal(retransmit_list') = SizeTotal(retransmit_list) - PduSize(seg) + SizeTotal(B)
    <3>1. /\ SizeTotal(retransmit_list \ {seg}) = SizeTotal(retransmit_list) - SizeTotal({seg})
          /\ SizeTotal({seg}) = PduSize(seg)
      <4>1. {seg} \in SUBSET retransmit_list
        BY <1>4
      <4> QED BY <1>3, <1>4, <4>1, SizeFacts, SizeOfFew
    <3>2. (retransmit_list \ {seg}) \cap B = {} /\ retransmit_list \ {seg} \in SUBSET Segment
      BY <1>3, <1>6, <1>13 DEF Segments, InFlight
    <3>3. SizeTotal((retransmit_list \ {seg}) \cup B) = SizeTotal(retransmit_list \ {seg}) + SizeTotal(B)
      BY <1>6, <3>2, SizeUnion
    <3> QED BY <1>1, <3>1, <3>3
  <2>3. bstatus'.tx = SizeTotal(Queued') /\ bstatus'.retx = SizeTotal(retransmit_list')
    BY <1>1, <1>6, <1>7, <1>8, <2>1, <2>2
  <2> QED BY <1>1, <1>13, <2>1, <2>3 DEF Accounts
<1>19. SendsFrom(seg, size)
  <2>1. /\ f.id = seg.id /\ f.so = seg.so
    BY <1>1, <1>2, <1>4, PiecesOfSegment DEF f
  <2>2. \A i \in Ids : sdu'[i].fate = sdu[i].fate
    BY <1>10, <1>11
  <2>3. poll \in BOOLEAN
    BY <1>2 DEF poll, TxTypeOK
  <2>4. air' = Young(tx_next') \cup
                 {[id |-> seg.id, sn |-> sdu'[seg.id].sn, so |-> seg.so, size |-> f.size,
                   is_last |-> seg.so + f.size = sdu[seg.id].size, p |-> poll]}
    BY <1>1, <1>11, <2>1 DEF serialize_sdu, SnOf
  <2>5. sdu[seg.id].sn # NoSn
    BY <1>4, SizesAssumption DEF SnOf, SN, NoSn, sn_modulus
  <2> QED BY <1>1, <1>2, <1>5, <1>9, <1>11, <1>12, <2>2, <2>3, <2>4, <2>5 DEF SendsFrom, f
<1> QED
  BY <1>5, <1>14, <1>15, <1>16, <1>17, <1>18, <1>19 DEF TxInv

\* The first segment of an SDU that waits in tx_list is the only one of its SDU.
LEMMA WholeIsAlone ==
  ASSUME TxTypeOK, SegmentsPartition, SegmentsFit,
         NEW s \in Segments, s.so = 0, s.size = sdu[s.id].size, NEW t \in Segments, t.id = s.id
  PROVE  t = s
<1>1. Segments \in SUBSET Segment /\ Apart(Segments)
  BY TxFacts
<1>2. /\ t.so \in Bytes(t) /\ t.so \in Nat /\ t.size \in Nat \ {0} /\ s.size \in Nat
      /\ t.so + t.size <= sdu[t.id].size
  BY <1>1, SegmentsFinite DEF SegmentsFit
<1>3. t.so \in Bytes(s)
  BY <1>2 DEF Bytes
<1> QED
  BY <1>1, <1>2, <1>3 DEF Apart

\* A PDU is built from the head of tx_list, whose SDU gets the next sequence number
\* if it has none.
LEMMA GenerateTxPduInv ==
  ASSUME TxInv, NEW size \in TbSizes, GenerateTxPdu(size)
  PROVE  TxInv' /\ \E seg \in Segments : SendsFrom(seg, size)
<1> DEFINE seg   == Head(tx_list)
           new   == sdu[seg.id].sn = NoSn
           sn    == IF new THEN tx_next ELSE sdu[seg.id].sn
           next  == IF new THEN Succ(tx_next) ELSE tx_next
           f     == Front(seg, size)
           B     == Rest(seg, size)
           txl   == IF Split(seg, size) THEN <<Back(seg, size)>> \o Tail(tx_list)
                                        ELSE Tail(tx_list)
           pdus  == pdu_without_poll + 1
           bytes == byte_without_poll + f.size
           poll  == \/ force_poll
                    \/ PollPdu # -1 /\ pdus >= PollPdu
                    \/ PollByte # -1 /\ bytes >= PollByte
                    \/ check_poll_after_pdu_assembly(txl, retransmit_list, next)
           more  == IF Split(seg, size) THEN 1 ELSE 0
<1>1. /\ tx_list # <<>> /\ Fits(seg, size) /\ ~is_window_stalling(tx_next)
      /\ tx_list' = txl /\ tx_next' = next /\ wait_list' = wait_list \cup {f}
      /\ sdu' = [sdu EXCEPT ![seg.id].sn = sn, ![seg.id].ref_count = @ + more]
      /\ bstatus' = [bstatus EXCEPT
                       !.tx = @ - PduSize(seg)
                                + (IF Split(seg, size) THEN PduSize(Back(seg, size)) ELSE 0)]
      /\ serialize_sdu(f, sn, poll, next, pdus, bytes)
      /\ UNCHANGED <<retransmit_list, tx_next_ack, tx_size, max_retx_reached, crashed>>
  BY DEF GenerateTxPdu
<1>2. TxTypeOK /\ size \in Nat /\ SegmentsPartition /\ Structure
  BY TxAssumption DEF TxInv
<1>3. /\ tx_list \in Seq(Segment) /\ Once(tx_list) /\ Queued = Elements(tx_list)
      /\ Segments \in SUBSET Segment /\ Queued \in SUBSET Segment
      /\ wait_list \in SUBSET Segment /\ retransmit_list \in SUBSET Segment
      /\ wait_list \cap retransmit_list = {} /\ Queued \cap InFlight = {}
  BY <1>2, TxFacts
<1>4. /\ Tail(tx_list) \in Seq(Segment) /\ Once(Tail(tx_list))
      /\ seg \in Queued /\ seg \in Segment
      /\ Elements(Tail(tx_list)) = Queued \ {seg}
  BY <1>1, <1>3, OnceTail
<1>5. seg \in Segments /\ seg.id \in Ids
  BY <1>4, SegmentsFinite DEF Segments
<1>6. sdu \in [Ids -> SduType] /\ tx_next \in SN
  BY <1>2 DEF TxTypeOK, SduType
<1>7. sn \in SN /\ next \in SN
  <2>1. sdu[seg.id].sn \in SN \cup {NoSn}
    BY <1>5, <1>6 DEF SduType
  <2>2. Succ(tx_next) \in SN
    BY <1>6, SizesAssumption DEF Succ, SN, sn_modulus
  <2> HIDE DEF seg
  <2> QED BY <1>6, <2>1, <2>2
<1> HIDE DEF seg, poll
<1>8. /\ Pieces(seg, size) = {f} \cup B /\ f \notin B /\ f \in Segment /\ B \in SUBSET Segment
      /\ \A p \in Pieces(seg, size) : p.id = seg.id
      /\ SizeTotal(B) = IF Split(seg, size) THEN PduSize(Back(seg, size)) ELSE 0
      /\ SizeTotal(B) \in Int
      /\ \A s \in B : s.so > 0
  BY <1>1, <1>2, <1>4, RestFacts
<1>9. Split(seg, size) => B = {Back(seg, size)}
  BY DEF Rest
<1>10. ~Split(seg, size) => B = {}
  BY DEF Rest
<1> HIDE DEF f, B, new, sn, next
<1>11. /\ sdu' \in [Ids -> SduType]
       /\ \A i \in Ids : i # seg.id => sdu'[i] = sdu[i]
       /\ sdu'[seg.id].size = sdu[seg.id].size /\ sdu'[seg.id].sn = sn
       /\ sdu'[seg.id].free_count = sdu[seg.id].free_count
       /\ sdu'[seg.id].fate = sdu[seg.id].fate
       /\ sdu'[seg.id].ref_count = sdu[seg.id].ref_count + more
  <2> DEFINE one == [sdu EXCEPT ![seg.id].sn = sn]
             old == sdu[seg.id]
             mid == [old EXCEPT !.sn = sn]
             last == [mid EXCEPT !.ref_count = mid.ref_count + more]
  <2>1. old \in SduType /\ more \in Nat
    BY <1>5, <1>6
  <2>2. /\ mid \in SduType /\ mid.sn = sn /\ mid.size = old.size /\ mid.free_count = old.free_count
        /\ mid.fate = old.fate /\ mid.ref_count = old.ref_count
    <3> HIDE DEF old
    <3> QED BY <1>7, <2>1 DEF SduType
  <2>3. /\ last \in SduType /\ last.sn = sn /\ last.size = old.size
        /\ last.free_count = old.free_count
        /\ last.fate = old.fate /\ last.ref_count = old.ref_count + more
    <3> HIDE DEF old, mid, more
    <3> QED BY <2>1, <2>2 DEF SduType
  <2>4. one = [sdu EXCEPT ![seg.id] = mid] /\ one \in [Ids -> SduType] /\ one[seg.id] = mid
    <3> HIDE DEF mid
    <3>1. one = [sdu EXCEPT ![seg.id] = mid]
      BY DEF mid
    <3> HIDE DEF one
    <3> QED BY <1>5, <1>6, <2>2, <3>1
  <2>5. sdu' = [one EXCEPT ![seg.id].ref_count = @ + more]
    BY <1>1
  <2> HIDE DEF one, mid, more
  <2>6. sdu' = [one EXCEPT ![seg.id] = last]
    BY <2>4, <2>5
  <2> HIDE DEF last
  <2>7. sdu'[seg.id] = last /\ sdu' \in [Ids -> SduType]
    BY <1>5, <2>3, <2>4, <2>6
  <2>8. \A i \in Ids : i # seg.id => sdu'[i] = sdu[i]
    BY <1>5, <1>6, <2>4, <2>6
  <2> QED BY <2>3, <2>7, <2>8 DEF more
<1>12. \A i \in Ids : sdu'[i].size = sdu[i].size /\ (i # seg.id => sdu'[i].sn = sdu[i].sn)
  BY <1>11
<1>13. B \cap (Segments \ {seg}) = {} /\ Pieces(seg, size) \cap (Segments \ {seg}) = {}
  <2>1. Apart(Segments)
    BY <1>2, TxFacts
  <2>2. Pieces(seg, size) \cap (Segments \ {seg}) = {}
    BY <1>1, <1>2, <1>3, <1>5, <2>1, ReplaceByPieces
  <2> QED BY <1>8, <2>2
<1>14. tx_list' \in Seq(Segment) /\ Once(tx_list)' /\ Queued' = (Queued \ {seg}) \cup B
  <2>1. Queued' = Elements(tx_list') /\ (Once(tx_list)' <=> Once(tx_list'))
    BY DEF Queued, Elements, Once
  <2>2. CASE Split(seg, size)
    <3>1. tx_list' = <<Back(seg, size)>> \o Tail(tx_list)
      BY <1>1, <2>2
    <3>2. Back(seg, size) \in Segment /\ Back(seg, size) \notin Elements(Tail(tx_list))
      BY <1>4, <1>8, <1>9, <1>13, <2>2 DEF Segments
    <3>3. \A q, b : q \in Seq(Segment) /\ Once(q) /\ b \in Segment /\ b \notin Elements(q)
                     => /\ <<b>> \o q \in Seq(Segment) /\ Once(<<b>> \o q)
                        /\ Elements(<<b>> \o q) = Elements(q) \cup {b}
      BY OncePush
    <3>4. /\ tx_list' \in Seq(Segment) /\ Once(tx_list')
          /\ Elements(tx_list') = Elements(Tail(tx_list)) \cup {Back(seg, size)}
      <4> DEFINE q == Tail(tx_list)
                 b == Back(seg, size)
      <4>1. q \in Seq(Segment) /\ Once(q) /\ b \in Segment /\ b \notin Elements(q)
        BY <1>4, <3>2
      <4>2. tx_list' = <<b>> \o q
        BY <3>1
      <4> HIDE DEF q, b
      <4>3. tx_list' \in Seq(Segment) /\ Once(tx_list') /\ Elements(tx_list') = Elements(q) \cup {b}
        BY <3>3, <4>1, <4>2, Zenon
      <4> QED BY <4>3 DEF q, b
    <3> QED BY <1>4, <1>9, <2>1, <2>2, <3>4
  <2>3. CASE ~Split(seg, size)
    <3>1. tx_list' = Tail(tx_list) /\ B = {}
      BY <1>1, <1>10, <2>3
    <3> QED BY <1>4, <2>1, <3>1
  <2> QED BY <2>2, <2>3
<1>15. InFlight' = InFlight \cup {f}
  BY <1>1 DEF InFlight
<1>16. Segments' = (Segments \ {seg}) \cup Pieces(seg, size)
  BY <1>3, <1>4, <1>8, <1>14, <1>15 DEF Segments
<1>17. /\ Apart(Segments)'
       /\ \A i \in Ids : /\ Count(i, Segments)' = (sdu[i].ref_count - sdu[i].free_count)'
                         /\ (sdu[i].fate = "held")' <=> Count(i, Segments)' > 0
       /\ SegmentsFit' /\ GoneIsReset'
       /\ Held' = Held /\ SduSizes' = SduSizes
  BY <1>1, <1>2, <1>5, <1>11, <1>16, BuiltFrom
<1>18. TxTypeOK'
  <2>1. /\ air' \subseteq DataPdu /\ force_poll' \in BOOLEAN /\ poll_sn' \in SN
        /\ t_poll_retransmit' \in BOOLEAN
        /\ pdu_without_poll' \in Nat /\ byte_without_poll' \in Nat
    <3>1. poll \in BOOLEAN
      BY <1>2 DEF poll, TxTypeOK
    <3>2. pdus \in Nat /\ bytes \in Nat
      BY <1>2, <1>8, SegmentsFinite DEF TxTypeOK
    <3> QED BY <1>1, <1>2, <1>7, <1>8, <3>1, <3>2, SerializeType
  <2>2. bstatus' \in [tx : Int, retx : Int]
    <3>1. PduSize(seg) \in Int /\ (Split(seg, size) => PduSize(Back(seg, size)) \in Int)
      BY <1>4, <1>8, <1>9, SegmentsFinite
    <3>2. bstatus \in [tx : Int, retx : Int]
      BY <1>2 DEF TxTypeOK
    <3> QED BY <1>1, <3>1, <3>2
  <2>3. wait_list' \subseteq Segment /\ retransmit_list' \subseteq Segment
    BY <1>1, <1>3, <1>8
  <2> QED BY <1>1, <1>2, <1>7, <1>11, <1>14, <2>1, <2>2, <2>3 DEF TxTypeOK, SduType
<1>19. SegmentsPartition'
  <2>1. f \notin retransmit_list /\ f \notin Queued \ {seg}
    BY <1>3, <1>4, <1>8, <1>13 DEF Segments, InFlight
  <2>2. (wait_list \cap retransmit_list = {})'
    BY <1>1, <1>3, <2>1
  <2>3. (Queued \cap InFlight = {})'
    BY <1>3, <1>8, <1>13, <1>14, <1>15, <1>4, <2>1 DEF Segments
  <2> QED BY <1>14, <1>17, <2>2, <2>3, PartitionAfter
<1>20. sn # NoSn
  BY <1>7, SizesAssumption DEF SN, NoSn, sn_modulus
<1>21. Structure'
  <2>1. SentHaveSn'
    <3> SUFFICES ASSUME NEW s \in InFlight' PROVE sdu'[s.id].sn # NoSn
      BY DEF SentHaveSn, SnOf
    <3>1. s.id \in Ids /\ (s \in InFlight \/ s.id = seg.id)
      BY <1>3, <1>8, <1>15, SegmentsFinite DEF Segments
    <3>2. CASE s.id = seg.id
      BY <1>11, <1>20, <3>2
    <3>3. CASE s.id # seg.id
      BY <1>2, <1>12, <3>1, <3>3 DEF SentHaveSn, SnOf, Structure
    <3> QED BY <3>2, <3>3
  <2>2. QueuedFresh'
    <3> SUFFICES ASSUME NEW s \in Queued'
                 PROVE  /\ sdu'[s.id].sn = NoSn <=> s.so = 0
                        /\ sdu'[s.id].sn = NoSn => s.size = sdu'[s.id].size
      BY DEF QueuedFresh, SnOf
    <3>1. CASE s \in B
      <4>1. s.id = seg.id /\ s.so > 0 /\ s.so \in Nat
        BY <1>8, <3>1, SegmentsFinite
      <4> QED BY <1>11, <1>20, <4>1
    <3>2. CASE s \in Queued \ {seg} /\ s.id # seg.id
      <4>1. s.id \in Ids
        BY <1>3, <3>2, SegmentsFinite
      <4> QED BY <1>2, <1>12, <3>2, <4>1 DEF QueuedFresh, SnOf, Structure
    <3>3. CASE s \in Queued \ {seg} /\ s.id = seg.id
      <4>1. ~new
        <5> SUFFICES ASSUME new PROVE FALSE
          OBVIOUS
        <5>1. seg.so = 0 /\ seg.size = sdu[seg.id].size
          BY <1>2, <1>4 DEF QueuedFresh, SnOf, Structure, new
        <5>2. s \in Segments
          BY <3>3 DEF Segments
        <5> QED BY <1>2, <1>5, <3>3, <5>1, <5>2, WholeIsAlone DEF Structure
      <4>2. sdu'[s.id].sn = sdu[s.id].sn /\ sdu'[s.id].size = sdu[s.id].size
        BY <1>11, <3>3, <4>1 DEF sn
      <4> QED BY <1>2, <3>3, <4>2 DEF QueuedFresh, SnOf, Structure
    <3> QED BY <1>14, <3>1, <3>2, <3>3
  <2> QED BY <1>17, <2>1, <2>2 DEF Structure
<1>22. WindowKept'
  <2>1. Dist(tx_next_ack, tx_next) <= W /\ tx_next_ack \in SN /\ ~(Dist(tx_next_ack, tx_next) >= W)
    BY <1>1, <1>2 DEF TxInv, WindowKept, TxTypeOK, is_window_stalling
  <2>2. Dist(tx_next_ack, next) <= W
    <3>1. CASE new
      BY <1>6, <2>1, <3>1, SizesAssumption DEF next, Dist, Succ, SN, sn_modulus
    <3>2. CASE ~new
      BY <2>1, <3>2 DEF next
    <3> QED BY <3>1, <3>2
  <2> QED BY <1>1, <2>2 DEF WindowKept
<1>23. Accounts'
  <2>1. bstatus.tx = SizeTotal(Queued) /\ bstatus.retx = SizeTotal(retransmit_list)
        /\ tx_size = Total(SduSizes, Held) /\ bstatus \in [tx : Int, retx : Int]
    BY DEF TxInv, Accounts, TxTypeOK
  <2>2. SizeTotal(Queued') = SizeTotal(Queued) - PduSize(seg) + SizeTotal(B)
    <3>1. /\ SizeTotal(Queued \ {seg}) = SizeTotal(Queued) - SizeTotal({seg})
          /\ SizeTotal({seg}) = PduSize(seg)
      <4>1. {seg} \in SUBSET Queued
        BY <1>4
      <4> QED BY <1>3, <1>4, <4>1, SizeFacts, SizeOfFew
    <3>2. (Queued \ {seg}) \cap B = {} /\ Queued \ {seg} \in SUBSET Segment
      BY <1>3, <1>13 DEF Segments
    <3>3. SizeTotal((Queued \ {seg}) \cup B) = SizeTotal(Queued \ {seg}) + SizeTotal(B)
      BY <1>8, <3>2, SizeUnion
    <3> QED BY <1>14, <3>1, <3>3
  <2>3. bstatus'.tx = SizeTotal(Queued') /\ bstatus'.retx = SizeTotal(retransmit_list')
    BY <1>1, <1>8, <2>1, <2>2
  <2> QED BY <1>1, <1>17, <2>1, <2>3 DEF Accounts
<1>24. SendsFrom(seg, size)
  <2>1. /\ f.id = seg.id /\ f.so = seg.so
    BY <1>1, <1>2, <1>4, PiecesOfSegment DEF f
  <2>2. \A i \in Ids : sdu'[i].fate = sdu[i].fate
    BY <1>11
  <2>3. poll \in BOOLEAN
    BY <1>2 DEF poll, TxTypeOK
  <2>4. air' = Young(tx_next') \cup
                 {[id |-> seg.id, sn |-> sdu'[seg.id].sn, so |-> seg.so, size |-> f.size,
                   is_last |-> seg.so + f.size = sdu[seg.id].size, p |-> poll]}
    BY <1>1, <1>11, <2>1 DEF serialize_sdu
  <2>5. CASE new
    <3>1. sdu[seg.id].sn = NoSn /\ sdu'[seg.id].sn = tx_next /\ tx_next' = Succ(tx_next)
      BY <1>1, <1>11, <2>5 DEF new, sn, next
    <3>2. Dist(tx_next_ack, tx_next) < W
      <4>1. Dist(tx_next_ack, tx_next) \in Int
        BY <1>2, SizesAssumption DEF TxTypeOK, Dist, SN, sn_modulus
      <4> QED BY <1>1, <4>1, SizesAssumption DEF is_window_stalling
    <3> QED BY <1>1, <1>2, <1>5, <1>12, <1>16, <2>2, <2>3, <2>4, <3>1, <3>2 DEF SendsFrom, f
  <2>6. CASE ~new
    <3>1. sdu[seg.id].sn # NoSn /\ sdu'[seg.id].sn = sdu[seg.id].sn /\ tx_next' = tx_next
      BY <1>1, <1>11, <2>6 DEF new, sn, next
    <3> QED BY <1>1, <1>2, <1>5, <1>12, <1>16, <2>2, <2>3, <2>4, <3>1 DEF SendsFrom, f
  <2> QED BY <2>5, <2>6
<1> QED
  BY <1>5, <1>18, <1>19, <1>21, <1>22, <1>23, <1>24 DEF TxInv

\* The new tx_next_ack is not further from tx_next than the old one.
LEMMA NextAckFacts ==
  ASSUME TxInv, NEW st \in StatusPdu, NEW wl, NEW rtl, wl \cup rtl \in SUBSET InFlight
  PROVE  /\ NextAck(st, wl, rtl) \in SN /\ Dist(NextAck(st, wl, rtl), tx_next) <= W
         /\ \A s \in wl \cup rtl : ~TxBefore(SnOf(s), NextAck(st, wl, rtl))
         /\ ~TxBefore(st.ack_sn, NextAck(st, wl, rtl))
         /\ NextAck(st, wl, rtl) \in {tx_next, st.ack_sn} \cup {SnOf(s) : s \in wl \cup rtl}
<1> DEFINE cands == {tx_next, st.ack_sn} \cup {SnOf(s) : s \in wl \cup rtl}
           D == {Dist(tx_next_ack, sn) : sn \in cands}
           n == NextAck(st, wl, rtl)
<1>1. /\ tx_next \in SN /\ tx_next_ack \in SN /\ st.ack_sn \in SN
      /\ Dist(tx_next_ack, tx_next) <= W
  BY DEF TxInv, TxTypeOK, WindowKept, StatusPdu
<1>2. \A s \in wl \cup rtl : SnOf(s) \in SN
  <2> SUFFICES ASSUME NEW s \in wl \cup rtl PROVE SnOf(s) \in SN
    OBVIOUS
  <2>1. s \in InFlight /\ s.id \in Ids
    BY TxFacts, SegmentsFinite DEF TxInv, Segments
  <2> QED BY <2>1 DEF TxInv, TxTypeOK, Structure, SentHaveSn, SnOf
<1>3. cands \in SUBSET SN /\ tx_next \in cands /\ st.ack_sn \in cands
      /\ \A s \in wl \cup rtl : SnOf(s) \in cands
  BY <1>1, <1>2
<1>4. \A sn \in SN : Dist(tx_next_ack, sn) \in Nat
  BY <1>1, SizesAssumption DEF Dist, SN, sn_modulus
<1>5. n = CHOOSE sn \in cands : \A t \in cands : ~TxBefore(t, sn)
  BY DEF NextAck
<1> HIDE DEF cands, n
<1>6. \E sn \in cands : \A t \in cands : ~TxBefore(t, sn)
  <2>1. D \in SUBSET Nat /\ D # {}
    BY <1>3, <1>4
  <2> HIDE DEF D
  <2>2. PICK m \in D : \A k \in D : m <= k
    BY <2>1, LeastElement
  <2>3. PICK sn \in cands : m = Dist(tx_next_ack, sn)
    BY <2>2 DEF D
  <2>4. \A t \in cands : Dist(tx_next_ack, t) \in D /\ Dist(tx_next_ack, t) \in Nat
    BY <1>3, <1>4 DEF D
  <2>5. \A t \in cands : ~(Dist(tx_next_ack, t) < Dist(tx_next_ack, sn))
    BY <2>1, <2>2, <2>3, <2>4
  <2> QED BY <2>5 DEF TxBefore
<1>7. n \in cands /\ \A t \in cands : ~TxBefore(t, n)
  BY <1>5, <1>6
<1>8. n \in SN /\ ~TxBefore(tx_next, n)
  BY <1>3, <1>7
<1>9. Dist(n, tx_next) <= W
  BY <1>1, <1>8, SizesAssumption DEF TxBefore, Dist, SN, sn_modulus
<1> QED
  BY <1>3, <1>7, <1>8, <1>9 DEF n, cands

\* What a STATUS PDU does to an SDU that has segments `gone`.
LEMMA AfterStatusFacts ==
  ASSUME TxTypeOK, NEW i \in Ids, NEW gone \in SUBSET Segment, NEW again \in SUBSET Segment
  PROVE  /\ AfterStatus(i, gone, again) \in SduType
         /\ AfterStatus(i, gone, again).fate # sdu[i].fate =>
              /\ sdu[i].fate = "held" /\ sdu[i].free_count + Count(i, gone) = sdu[i].ref_count
              /\ Count(i, gone) > 0
              /\ AfterStatus(i, gone, again) = NoSdu("acked")
         /\ AfterStatus(i, gone, again).fate = sdu[i].fate =>
              /\ AfterStatus(i, gone, again).sn = sdu[i].sn
              /\ AfterStatus(i, gone, again).size = sdu[i].size
              /\ AfterStatus(i, gone, again).ref_count = sdu[i].ref_count
              /\ AfterStatus(i, gone, again).free_count = sdu[i].free_count + Count(i, gone)
              /\ sdu[i].fate = "held" /\ Count(i, gone) > 0
                   => sdu[i].free_count + Count(i, gone) # sdu[i].ref_count
         /\ sdu[i] = NoSdu(sdu[i].fate) /\ sdu[i].fate # "held" /\ Count(i, gone) = 0
              /\ Count(i, again) = 0 => AfterStatus(i, gone, again) = sdu[i]
<1> DEFINE old   == sdu[i]
           nfree == Count(i, gone)
           nretx == Count(i, again)
           more  == [old EXCEPT !.free_count = @ + nfree, !.retx_count = Capped(@ + nretx)]
           a     == AfterStatus(i, gone, again)
<1>1. a = IF old.fate = "held" /\ nfree > 0 /\ old.free_count + nfree = old.ref_count
          THEN NoSdu("acked") ELSE more
  BY DEF AfterStatus, Count, Of
<1>2. old \in SduType /\ nfree \in Nat /\ nretx \in Nat
  BY CountFacts DEF TxTypeOK, SduType
<1> HIDE DEF old, nfree, nretx, a
<1>3. \A n \in Int : Capped(n) \in Int
  BY TxAssumption DEF Capped
<1>4. /\ more \in SduType /\ more.sn = old.sn /\ more.size = old.size /\ more.fate = old.fate
      /\ more.ref_count = old.ref_count /\ more.free_count = old.free_count + nfree
      /\ more.retx_count = Capped(old.retx_count + nretx)
  <2> DEFINE x == old.free_count + nfree
             y == Capped(old.retx_count + nretx)
             mid == [old EXCEPT !.free_count = x]
             last == [mid EXCEPT !.retx_count = y]
  <2>1. old.retx_count \in Int /\ old.free_count \in Nat
    BY <1>2 DEF SduType
  <2>2. x \in Nat /\ y \in Int
    BY <1>2, <1>3, <2>1
  <2> HIDE DEF x, y
  <2>3. /\ mid \in SduType /\ mid.sn = old.sn /\ mid.size = old.size /\ mid.fate = old.fate
        /\ mid.ref_count = old.ref_count /\ mid.free_count = x /\ mid.retx_count = old.retx_count
    BY <1>2, <2>2 DEF SduType
  <2> HIDE DEF mid
  <2>4. /\ last \in SduType /\ last.sn = old.sn /\ last.size = old.size /\ last.fate = old.fate
        /\ last.ref_count = old.ref_count /\ last.free_count = x /\ last.retx_count = y
    BY <2>2, <2>3 DEF SduType
  <2>5. more = last
    <3>1. more = [mid EXCEPT !.retx_count = Capped(@ + nretx)]
      BY DEF mid, x
    <3> QED BY <2>3, <3>1 DEF y
  <2> HIDE DEF last, more
  <2> QED BY <2>4, <2>5 DEF x, y
<1>5. NoSdu("acked") \in SduType /\ NoSdu("acked").fate = "acked"
  BY SizesAssumption DEF NoSdu, SduType
<1>6. old = NoSdu(old.fate) /\ nfree = 0 /\ nretx = 0 => more = old
  <2> SUFFICES ASSUME old = NoSdu(old.fate), nfree = 0, nretx = 0 PROVE more = old
    OBVIOUS
  <2>1. old.retx_count = -1 /\ Capped(-1) = -1
    BY TxAssumption DEF NoSdu, Capped
  <2>2. old.free_count + nfree = old.free_count /\ Capped(old.retx_count + nretx) = old.retx_count
    BY <1>2, <2>1 DEF SduType
  <2>3. more = [old EXCEPT !.free_count = old.free_count, !.retx_count = old.retx_count]
    BY <2>2
  <2>4. \A r \in SduType : /\ [r EXCEPT !.free_count = r.free_count] = r
                           /\ [r EXCEPT !.retx_count = r.retx_count] = r
    BY DEF SduType
  <2>5. [old EXCEPT !.free_count = old.free_count, !.retx_count = old.retx_count] =
        [[old EXCEPT !.free_count = old.free_count] EXCEPT !.retx_count = old.retx_count]
    OBVIOUS
  <2> HIDE DEF more
  <2> QED BY <1>2, <2>3, <2>4, <2>5
<1>7. a.fate # old.fate => a = NoSdu("acked") /\ old.fate = "held" /\ nfree > 0
                             /\ old.free_count + nfree = old.ref_count
  BY <1>1, <1>4
<1>8. a.fate = old.fate => a = more
  BY <1>1, <1>5
<1>9. a.fate = old.fate /\ old.fate = "held" /\ nfree > 0 => old.free_count + nfree # old.ref_count
  BY <1>1, <1>5
<1> HIDE DEF more
<1>10. old.fate # "held" => a = more
  BY <1>1
<1> QED
  BY <1>1, <1>4, <1>5, <1>6, <1>7, <1>8, <1>9, <1>10 DEF old, nfree, nretx, a

\* The invariant is about the variables of the entity only.
LEMMA TxUnchanged ==
  ASSUME TxInv, UNCHANGED txvars
  PROVE  TxInv'
<1> USE DEF txvars, txlists, txpoll, txstat
<1>1. /\ TxTypeOK' = TxTypeOK /\ SegmentsPartition' = SegmentsPartition
      /\ Structure' = Structure /\ WindowKept' = WindowKept /\ Accounts' = Accounts
  <2>1. TxTypeOK' = TxTypeOK
    BY DEF TxTypeOK
  <2>2. Queued' = Queued /\ InFlight' = InFlight /\ Segments' = Segments
        /\ SduSizes' = SduSizes /\ Held' = Held
    BY DEF Queued, InFlight, Segments, SduSizes, Held
  <2>3. SegmentsPartition' = SegmentsPartition
    BY <2>2 DEF SegmentsPartition
  <2>4. Structure' = Structure
    BY <2>2 DEF Structure, SegmentsFit, SentHaveSn, QueuedFresh, GoneIsReset, SnOf
  <2>5. WindowKept' = WindowKept /\ Accounts' = Accounts
    BY <2>2 DEF WindowKept, Accounts
  <2> QED BY <2>1, <2>3, <2>4, <2>5
<1> QED
  BY <1>1 DEF TxInv

\* What process_control_pdu takes away: segments that the STATUS PDU acknowledges, and
\* the SDUs that have no segment left.
StatusTakes(st) ==
  /\ Segments' \subseteq Segments
  /\ \A s \in Segments \ Segments' : ValidStatus(st) /\ s \in InFlight
                                     /\ ~Nacked(s, st) /\ TxBefore(SnOf(s), st.ack_sn)
  /\ \A i \in Ids : /\ sdu'[i].fate # sdu[i].fate =>
                         /\ sdu[i].fate = "held" /\ sdu'[i].fate = "acked"
                         /\ \A s \in Segments' : s.id # i
                    /\ sdu'[i].fate = sdu[i].fate => /\ sdu'[i].sn = sdu[i].sn
                                                     /\ sdu'[i].size = sdu[i].size
  /\ tx_next' = tx_next /\ air' = air

\* What is left of the lists and of the SDUs after a STATUS PDU.
LEMMA ProcessControlPduInv ==
  ASSUME TxInv, NEW st \in StatusPdu, ProcessControlPdu(st)
  PROVE  TxInv' /\ StatusTakes(st)
<1>1. CASE ~ValidStatus(st)
  <2>1. UNCHANGED txvars
    BY <1>1 DEF ProcessControlPdu, txvars
  <2>2. Segments' = Segments
    BY <2>1 DEF txvars, txlists, Segments, Queued, InFlight
  <2>3. StatusTakes(st)
    BY <2>1, <2>2 DEF StatusTakes, txvars
  <2> QED BY <2>1, <2>3, TxUnchanged
<1>2. CASE ValidStatus(st)
  <2> DEFINE sent  == wait_list \cup retransmit_list
             again == {s \in wait_list : Nacked(s, st)}
             gone  == {s \in sent : ~Nacked(s, st) /\ TxBefore(SnOf(s), st.ack_sn)}
             wl    == wait_list \ (again \cup gone)
             rtl   == (retransmit_list \ gone) \cup again
             after == [i \in Ids |-> AfterStatus(i, gone, again)]
             acked == {i \in Held : after[i].fate = "acked"}
  <2>1. /\ wait_list' = wl /\ retransmit_list' = rtl /\ sdu' = after
        /\ bstatus' = [bstatus EXCEPT !.retx = @ + RetxBalance(again, gone)]
        /\ tx_next_ack' = NextAck(st, wl, rtl)
        /\ UNCHANGED <<tx_list, poll_sn, pdu_without_poll, byte_without_poll, force_poll,
                       tx_next, crashed, air>>
    BY <1>2 DEF ProcessControlPdu
  <2>2. tx_size' = tx_size - MapThenSumSet(LAMBDA i : sdu[i].size, acked)
    BY <1>2, Zenon DEF ProcessControlPdu
  <2>3. max_retx_reached' \in BOOLEAN /\ t_poll_retransmit' \in BOOLEAN
    BY <1>2 DEF ProcessControlPdu
  <2>4. /\ TxTypeOK /\ SegmentsPartition /\ Structure /\ WindowKept /\ Accounts
        /\ Segments \in SUBSET Segment /\ Queued \in SUBSET Segment
        /\ wait_list \in SUBSET Segment /\ retransmit_list \in SUBSET Segment
        /\ wait_list \cap retransmit_list = {} /\ Queued \cap InFlight = {}
        /\ Apart(Segments) /\ Once(tx_list)
        /\ \A i \in Ids : /\ Count(i, Segments) = sdu[i].ref_count - sdu[i].free_count
                          /\ sdu[i].fate = "held" <=> Count(i, Segments) > 0
                          /\ sdu[i].fate = "held" <=> Count(i, Segments) # 0
    BY TxFacts DEF TxInv
  <2>5. /\ again \in SUBSET wait_list /\ gone \in SUBSET InFlight
        /\ again \in SUBSET Segment /\ gone \in SUBSET Segment /\ gone \in SUBSET Segments
        /\ again \cap gone = {} /\ again \in SUBSET Segments
    BY <2>4 DEF InFlight, Segments
  <2>6. acked \in SUBSET Held /\ Held \in SUBSET Ids
        /\ \A i \in Held : i \in acked <=> after[i].fate = "acked"
    BY DEF Held
  <2>7. after \in [Ids -> SduType] /\ \A i \in Ids : after[i] = AfterStatus(i, gone, again)
    <3>1. \A i \in Ids : AfterStatus(i, gone, again) \in SduType
      BY <2>4, <2>5, AfterStatusFacts
    <3> QED BY <3>1
  <2>8. wl \cup rtl = InFlight \ gone /\ wl \cap rtl = {}
        /\ wl \in SUBSET Segment /\ rtl \in SUBSET Segment
    BY <2>4, <2>5 DEF InFlight
  <2>9. rtl = (retransmit_list \ (gone \cap retransmit_list)) \cup again
    OBVIOUS
  <2> HIDE DEF again, gone, wl, rtl, after, acked
  <2>10. InFlight' = InFlight \ gone /\ Queued' = Queued /\ Segments' = Segments \ gone
    BY <2>1, <2>4, <2>5, <2>8 DEF InFlight, Queued, Segments
  <2>11. ASSUME NEW i \in Ids
         PROVE  /\ Count(i, Segments') = Count(i, Segments) - Count(i, gone)
                /\ Count(i, Segments') \in Nat /\ Count(i, gone) \in Nat
                /\ Count(i, Segments) \in Nat
                /\ Count(i, again) \in Nat /\ Count(i, again) <= Count(i, Segments)
                /\ Count(i, gone) <= Count(i, Segments)
    <3>1. Segments \ gone \in SUBSET Segments
      OBVIOUS
    <3> QED BY <2>4, <2>5, <2>10, <3>1, CountFacts
  <2>12. sdu \in [Ids -> SduType]
    BY <2>4 DEF TxTypeOK, SduType
  <2>13. ASSUME NEW i \in Ids
         PROVE  /\ Count(i, Segments') = after[i].ref_count - after[i].free_count
                /\ after[i].fate = "held" <=> Count(i, Segments') > 0
                /\ after[i].fate # "held" => after[i] = NoSdu(after[i].fate)
                /\ after[i].fate # sdu[i].fate => sdu[i].fate = "held" /\ after[i].fate = "acked"
                /\ after[i].fate = sdu[i].fate => /\ after[i].sn = sdu[i].sn
                                                  /\ after[i].size = sdu[i].size
    <3> DEFINE old == sdu[i]
               new == AfterStatus(i, gone, again)
               n   == Count(i, gone)
               l   == Count(i, Segments)
               r   == Count(i, Segments')
    <3>1. new \in SduType /\ old \in SduType
      BY <2>7, <2>12
    <3>2. /\ new.fate # old.fate =>
              /\ old.fate = "held" /\ old.free_count + n = old.ref_count
              /\ n > 0 /\ new = NoSdu("acked")
          /\ new.fate = old.fate =>
              /\ new.sn = old.sn /\ new.size = old.size
              /\ new.ref_count = old.ref_count /\ new.free_count = old.free_count + n
              /\ old.fate = "held" /\ n > 0 => old.free_count + n # old.ref_count
          /\ old = NoSdu(old.fate) /\ old.fate # "held" /\ n = 0 /\ Count(i, again) = 0 => new = old
      <4>1. TxTypeOK /\ gone \in SUBSET Segment /\ again \in SUBSET Segment
        BY <2>4, <2>5
      <4> QED BY ONLY <4>1, i \in Ids, AfterStatusFacts, Zenon
    <3>3. r = l - n /\ r \in Nat /\ n \in Nat /\ l \in Nat /\ n <= l
          /\ Count(i, again) \in Nat /\ Count(i, again) <= l
      BY <2>11
    <3>4. l = old.ref_count - old.free_count /\ (old.fate = "held" <=> l > 0)
      BY <2>4
    <3>5. old.fate # "held" => old = NoSdu(old.fate)
      BY <2>4 DEF Structure, GoneIsReset
    <3>6. after[i] = new
      BY <2>7
    <3>7. \A r1 \in SduType : r1.ref_count \in Nat /\ r1.free_count \in Nat
      BY DEF SduType
    <3>8. NoSdu("acked").fate = "acked" /\ NoSdu("acked").ref_count = 0
          /\ NoSdu("acked").free_count = 0
      BY DEF NoSdu
    <3> HIDE DEF old, new, n, l, r
    <3>9. CASE new.fate # old.fate
      <4>1. /\ old.fate = "held" /\ old.free_count + n = old.ref_count
            /\ new = NoSdu("acked")
        BY <3>2, <3>9
      <4>2. l = n
        BY <3>1, <3>3, <3>4, <3>7, <4>1
      <4>3. r = 0
        BY <3>3, <4>2
      <4>4. new.ref_count - new.free_count = 0 /\ new.fate = "acked"
        BY <3>8, <4>1
      <4> QED BY <3>6, <3>9, <4>1, <4>3, <4>4 DEF old, r
    <3>10. CASE new.fate = old.fate /\ old.fate = "held"
      <4>1. /\ new.sn = old.sn /\ new.size = old.size
            /\ new.ref_count = old.ref_count /\ new.free_count = old.free_count + n
            /\ n > 0 => old.free_count + n # old.ref_count
        BY <3>2, <3>10
      <4>2. l > 0 /\ old.ref_count \in Nat /\ old.free_count \in Nat
        BY <3>1, <3>4, <3>7, <3>10
      <4>3. r = new.ref_count - new.free_count /\ r > 0
        BY <3>3, <3>4, <4>1, <4>2
      <4> QED BY <3>6, <3>10, <4>1, <4>3 DEF old, r
    <3>11. CASE new.fate = old.fate /\ old.fate # "held"
      <4>1. l = 0 /\ n = 0 /\ r = 0 /\ Count(i, again) = 0
        BY <3>3, <3>4, <3>11
      <4>2. new = old
        BY <3>2, <3>5, <3>11, <4>1
      <4> QED BY <3>1, <3>3, <3>4, <3>5, <3>6, <3>7, <3>11, <4>1, <4>2 DEF old, r
    <3> QED BY <3>9, <3>10, <3>11
  <2>14. TxTypeOK'
    <3>1. bstatus' \in [tx : Int, retx : Int]
      <4>1. RetxBalance(again, gone) \in Int
        <5>1. gone \cap retransmit_list \in SUBSET Segment
          BY <2>4
        <5> QED BY <2>5, <5>1, SizeFacts DEF RetxBalance
      <4> QED BY <2>1, <2>4, <4>1 DEF TxTypeOK
    <3>2. tx_size' \in Int
      <4>1. acked \in SUBSET Ids
        BY <2>6
      <4>2. /\ MapThenSumSet(LAMBDA i : sdu[i].size, acked) = Total(SduSizes, acked)
            /\ Total(SduSizes, acked) \in Int
        BY <2>4, <4>1, SduSum
      <4>3. tx_size' = tx_size - Total(SduSizes, acked)
        BY <2>2, <4>2, Zenon
      <4> QED BY <2>4, <4>2, <4>3 DEF TxTypeOK
    <3>3. tx_next_ack' \in SN
      BY <2>1, <2>8, NextAckFacts
    <3> QED BY <2>1, <2>3, <2>4, <2>7, <2>8, <3>1, <3>2, <3>3 DEF TxTypeOK, SduType
  <2>15. SegmentsPartition'
    <3>1. Once(tx_list)' /\ Apart(Segments)' /\ (Queued \cap InFlight = {})'
      BY <2>1, <2>4, <2>10 DEF Once, Elements, Apart
    <3>2. (wait_list \cap retransmit_list = {})'
      BY <2>1, <2>8
    <3>3. \A i \in Ids : /\ Count(i, Segments)' = (sdu[i].ref_count - sdu[i].free_count)'
                         /\ (sdu[i].fate = "held")' <=> Count(i, Segments)' > 0
      BY <2>1, <2>13 DEF Count, Of
    <3> QED BY <3>1, <3>2, <3>3, PartitionAfter
  <2>16. \A s \in Segments' : /\ s.id \in Ids /\ sdu'[s.id].sn = sdu[s.id].sn
                              /\ sdu'[s.id].size = sdu[s.id].size
    <3> SUFFICES ASSUME NEW s \in Segments'
                 PROVE  /\ s.id \in Ids /\ sdu'[s.id].sn = sdu[s.id].sn
                        /\ sdu'[s.id].size = sdu[s.id].size
      OBVIOUS
    <3>1. s \in Segments /\ s \in Segment /\ s.id \in Ids
      BY <2>4, <2>10, SegmentsFinite
    <3>2. Count(s.id, Segments') # 0
      <4>1. Segments' \in SUBSET Segment
        BY <2>4, <2>10
      <4> QED BY <4>1, CountFacts
    <3>3. Count(s.id, Segments') > 0
      BY <2>11, <3>1, <3>2
    <3>4. after[s.id].fate = "held"
      BY <2>13, <3>1, <3>3
    <3>5. after[s.id].fate = sdu[s.id].fate
      BY <2>13, <3>1, <3>4
    <3> QED BY <2>1, <2>13, <3>1, <3>5
  <2>17. Structure'
    <3>1. SegmentsFit'
      BY <2>4, <2>10, <2>16 DEF Structure, SegmentsFit
    <3>2. SentHaveSn'
      BY <2>4, <2>10, <2>16 DEF Structure, SentHaveSn, SnOf, Segments
    <3>3. QueuedFresh'
      BY <2>4, <2>10, <2>16 DEF Structure, QueuedFresh, SnOf, Segments
    <3>4. GoneIsReset'
      BY <2>1, <2>13 DEF GoneIsReset
    <3> QED BY <3>1, <3>2, <3>3, <3>4 DEF Structure
  <2>18. WindowKept'
    BY <2>1, <2>8, NextAckFacts DEF WindowKept
  <2>19. Accounts'
    <3>1. bstatus.tx = SizeTotal(Queued) /\ bstatus.retx = SizeTotal(retransmit_list)
          /\ tx_size = Total(SduSizes, Held) /\ bstatus \in [tx : Int, retx : Int]
      BY <2>4 DEF Accounts, TxTypeOK
    <3>2. SizeTotal(rtl) = SizeTotal(retransmit_list) + RetxBalance(again, gone)
          /\ RetxBalance(again, gone) \in Int
      <4> DEFINE g == gone \cap retransmit_list
      <4>1. g \in SUBSET retransmit_list /\ g \in SUBSET Segment
            /\ retransmit_list \ g \in SUBSET Segment
            /\ (retransmit_list \ g) \cap again = {}
        BY <2>4, <2>5
      <4>2. SizeTotal(rtl) = SizeTotal(retransmit_list \ g) + SizeTotal(again)
        BY <2>5, <2>9, <4>1, SizeUnion
      <4>3. /\ SizeTotal(retransmit_list \ g) = SizeTotal(retransmit_list) - SizeTotal(g)
            /\ SizeTotal(retransmit_list) \in Int
        BY <2>4, <4>1, SizeFacts
      <4>4. RetxBalance(again, gone) = SizeTotal(again) - SizeTotal(g)
            /\ SizeTotal(again) \in Int /\ SizeTotal(g) \in Int
        BY <2>5, <4>1, SizeFacts DEF RetxBalance
      <4> HIDE DEF g
      <4> QED BY <4>2, <4>3, <4>4
    <3>3. bstatus'.tx = bstatus.tx /\ bstatus'.retx = bstatus.retx + RetxBalance(again, gone)
      BY <2>1, <3>1
    <3>4. Held' = Held \ acked
      <4>1. \A i \in Ids : i \in Held' <=> i \in Held /\ i \notin acked
        <5> SUFFICES ASSUME NEW i \in Ids PROVE i \in Held' <=> i \in Held /\ i \notin acked
          OBVIOUS
        <5>1. i \in Held' <=> after[i].fate = "held"
          BY <2>1 DEF Held
        <5>2. i \in Held <=> sdu[i].fate = "held"
          BY DEF Held
        <5>3. i \in acked <=> i \in Held /\ after[i].fate = "acked"
          BY <2>6
        <5>4. after[i].fate # sdu[i].fate => sdu[i].fate = "held" /\ after[i].fate = "acked"
          BY <2>13
        <5> QED BY <5>1, <5>2, <5>3, <5>4
      <4> QED BY <4>1, <2>6 DEF Held
    <3>5. Total(SduSizes', Held') = Total(SduSizes, Held')
      <4>1. IsFiniteSet(Held')
        BY <2>6, <3>4, SegmentsFinite, FS_Subset
      <4>2. \A i \in Held' : SduSizes'[i] = SduSizes[i]
        <5> SUFFICES ASSUME NEW i \in Held' PROVE SduSizes'[i] = SduSizes[i]
          OBVIOUS
        <5>1. i \in Ids /\ after[i].fate = "held" /\ sdu[i].fate = "held"
          BY <2>1, <2>6, <3>4 DEF Held
        <5>2. after[i].size = sdu[i].size
          BY <2>13, <5>1
        <5> QED BY <2>1, <5>1, <5>2 DEF SduSizes
      <4> QED BY <4>1, <4>2, TotalSame
    <3>6. Total(SduSizes, Held') = Total(SduSizes, Held) - Total(SduSizes, acked)
          /\ MapThenSumSet(LAMBDA i : sdu[i].size, acked) = Total(SduSizes, acked)
      <4>1. acked \in SUBSET Ids
        BY <2>6
      <4>2. MapThenSumSet(LAMBDA i : sdu[i].size, acked) = Total(SduSizes, acked)
        BY <2>4, <4>1, SduSum
      <4> QED BY <2>4, <2>6, <3>4, <4>2, SduSum
    <3>7. tx_size' = Total(SduSizes', Held')
      BY <2>2, <3>1, <3>5, <3>6
    <3>8. bstatus'.tx = SizeTotal(Queued') /\ bstatus'.retx = SizeTotal(retransmit_list')
      BY <2>1, <2>10, <3>1, <3>2, <3>3
    <3> QED BY <3>7, <3>8 DEF Accounts
  <2>20. StatusTakes(st)
    <3>1. \A s \in gone : s \in InFlight /\ ~Nacked(s, st) /\ TxBefore(SnOf(s), st.ack_sn)
      BY DEF gone, InFlight
    <3>2. \A i \in Ids : sdu'[i].fate # sdu[i].fate => \A s \in Segments' : s.id # i
      <4> SUFFICES ASSUME NEW i \in Ids, sdu'[i].fate # sdu[i].fate
                   PROVE  \A s \in Segments' : s.id # i
        OBVIOUS
      <4>1. Segments' \in SUBSET Segment
        BY <2>4, <2>10
      <4>2. ~(Count(i, Segments') > 0)
        BY <2>1, <2>13
      <4>3. Count(i, Segments') = 0
        BY <2>11, <4>2
      <4> QED BY <4>1, <4>3, CountFacts
    <3> QED BY <1>2, <2>1, <2>10, <2>13, <3>1, <3>2 DEF StatusTakes
  <2> QED BY <2>14, <2>15, <2>17, <2>18, <2>19, <2>20 DEF TxInv
<1> QED
  BY <1>1, <1>2

\* The poll timer only moves segments from wait_list to retransmit_list.
LEMMA PollRetransmitExpiresInv ==
  ASSUME TxInv, PollRetransmitExpires
  PROVE  /\ TxInv' /\ Segments' = Segments
         /\ \A i \in Ids : /\ sdu'[i].sn = sdu[i].sn /\ sdu'[i].size = sdu[i].size
                           /\ sdu'[i].fate = sdu[i].fate
         /\ UNCHANGED <<tx_next, tx_next_ack, air>>
<1>1. /\ TxTypeOK /\ SegmentsPartition /\ Structure /\ WindowKept /\ Accounts
      /\ Segments \in SUBSET Segment
      /\ wait_list \in SUBSET Segment /\ retransmit_list \in SUBSET Segment
      /\ wait_list \cap retransmit_list = {} /\ Queued \cap InFlight = {}
      /\ Apart(Segments) /\ Once(tx_list)
      /\ \A i \in Ids : /\ Count(i, Segments) = sdu[i].ref_count - sdu[i].free_count
                        /\ sdu[i].fate = "held" <=> Count(i, Segments) > 0
      /\ \A s \in Segments : s.id \in Held
  BY TxFacts DEF TxInv
<1>2. /\ t_poll_retransmit' = FALSE /\ force_poll' = TRUE
      /\ UNCHANGED <<tx_list, tx_next, tx_next_ack, poll_sn, pdu_without_poll,
                     byte_without_poll, tx_size, air>>
  BY DEF PollRetransmitExpires
<1>3. ASSUME UNCHANGED <<sdu, wait_list, retransmit_list, bstatus, max_retx_reached>>,
             crashed' \in BOOLEAN
      PROVE  TxInv' /\ Segments' = Segments
  <2>1. TxTypeOK'
    BY <1>1, <1>2, <1>3 DEF TxTypeOK
  <2>2. Queued' = Queued /\ InFlight' = InFlight /\ Segments' = Segments
        /\ SduSizes' = SduSizes /\ Held' = Held
    BY <1>2, <1>3 DEF Queued, InFlight, Segments, SduSizes, Held
  <2>3. SegmentsPartition' /\ WindowKept' /\ Accounts'
    BY <1>1, <1>2, <1>3, <2>2 DEF SegmentsPartition, WindowKept, Accounts
  <2>4. Structure'
    BY <1>1, <1>3, <2>2 DEF Structure, SegmentsFit, SentHaveSn, QueuedFresh, GoneIsReset, SnOf
  <2> QED BY <2>1, <2>2, <2>3, <2>4 DEF TxInv
<1>4. CASE \/ ~check_poll_after_pdu_assembly(tx_list, retransmit_list, tx_next)
           \/ wait_list = {}
  <2>1. UNCHANGED <<sdu, wait_list, retransmit_list, bstatus, max_retx_reached>>
        /\ crashed' \in BOOLEAN
    BY <1>1, <1>4 DEF PollRetransmitExpires, TxTypeOK
  <2> QED BY <1>2, <1>3, <2>1
<1>5. CASE check_poll_after_pdu_assembly(tx_list, retransmit_list, tx_next) /\ wait_list # {}
  <2> DEFINE head  == HeadSeg(wait_list)
             again == {s \in wait_list : SnOf(s) = SnOf(head)}
             count == Capped(sdu[head.id].retx_count + 1)
  <2>1. /\ sdu' = [sdu EXCEPT ![head.id].retx_count = count]
        /\ wait_list' = wait_list \ again /\ retransmit_list' = retransmit_list \cup again
        /\ bstatus' = [bstatus EXCEPT !.retx = @ + MapThenSumSet(PduSize, again)]
        /\ max_retx_reached' = (max_retx_reached \/ count >= MaxRetx)
        /\ UNCHANGED crashed
    BY <1>5 DEF PollRetransmitExpires
  <2>2. head \in wait_list /\ head \in Segments /\ head.id \in Held /\ head.id \in Ids
    <3>1. wait_list \in SUBSET InFlight
      BY DEF InFlight
    <3>2. head \in wait_list
      BY <1>5, <3>1, HeadSegIn
    <3> QED BY <1>1, <3>1, <3>2 DEF Segments, Held
  <2>3. again \in SUBSET wait_list
    OBVIOUS
  <2>4. sdu \in [Ids -> SduType]
    BY <1>1 DEF TxTypeOK, SduType
  <2>5. count \in Int
    BY <2>2, <2>4, TxAssumption DEF Capped, SduType
  <2> HIDE DEF head, again, count
  <2>6. /\ sdu' \in [Ids -> SduType]
        /\ \A i \in Ids : i # head.id => sdu'[i] = sdu[i]
        /\ \A i \in Ids : /\ sdu'[i].sn = sdu[i].sn /\ sdu'[i].size = sdu[i].size
                          /\ sdu'[i].fate = sdu[i].fate /\ sdu'[i].ref_count = sdu[i].ref_count
                          /\ sdu'[i].free_count = sdu[i].free_count
    <3> DEFINE old == sdu[head.id]
               new == [old EXCEPT !.retx_count = count]
    <3>1. old \in SduType
      BY <2>2, <2>4
    <3>2. /\ new \in SduType /\ new.sn = old.sn /\ new.size = old.size /\ new.fate = old.fate
          /\ new.ref_count = old.ref_count /\ new.free_count = old.free_count
      <4> HIDE DEF old
      <4> QED BY <2>5, <3>1 DEF SduType
    <3>3. sdu' = [sdu EXCEPT ![head.id] = new]
      BY <2>1
    <3> HIDE DEF new
    <3>4. sdu'[head.id] = new /\ \A i \in Ids : i # head.id => sdu'[i] = sdu[i]
      BY <2>2, <2>4, <3>3
    <3>5. sdu' \in [Ids -> SduType]
      BY <2>2, <2>4, <3>2, <3>3
    <3> QED BY <3>2, <3>4, <3>5
  <2>7. Queued' = Queued /\ InFlight' = InFlight /\ Segments' = Segments
        /\ SduSizes' = SduSizes /\ Held' = Held
    BY <1>2, <2>1, <2>3, <2>6 DEF Queued, InFlight, Segments, SduSizes, Held
  <2>8. bstatus'.tx = bstatus.tx /\ bstatus'.retx = bstatus.retx + SizeTotal(again)
        /\ SizeTotal(again) \in Int /\ bstatus \in [tx : Int, retx : Int]
        /\ bstatus' \in [tx : Int, retx : Int]
    <3>1. again \in SUBSET Segment
      BY <1>1, <2>3
    <3>2. MapThenSumSet(PduSize, again) = SizeTotal(again) /\ SizeTotal(again) \in Int
      BY <3>1, SizeFacts
    <3>3. bstatus \in [tx : Int, retx : Int]
      BY <1>1 DEF TxTypeOK
    <3> QED BY <2>1, <3>2, <3>3
  <2>9. TxTypeOK'
    BY <1>1, <1>2, <2>1, <2>3, <2>6, <2>8 DEF TxTypeOK, SduType
  <2>10. SegmentsPartition'
    <3>1. Once(tx_list)' /\ Apart(Segments)' /\ (Queued \cap InFlight = {})'
      BY <1>1, <1>2, <2>7 DEF Once, Elements, Apart
    <3>2. (wait_list \cap retransmit_list = {})'
      BY <1>1, <2>1, <2>3
    <3>3. \A i \in Ids : /\ Count(i, Segments)' = (sdu[i].ref_count - sdu[i].free_count)'
                         /\ (sdu[i].fate = "held")' <=> Count(i, Segments)' > 0
      BY <1>1, <2>6, <2>7 DEF Count, Of
    <3> QED BY <3>1, <3>2, <3>3, PartitionAfter
  <2>11. Structure'
    <3>1. \A s \in Segments' : /\ s.id \in Ids /\ sdu'[s.id].sn = sdu[s.id].sn
                               /\ sdu'[s.id].size = sdu[s.id].size
      BY <1>1, <2>6, <2>7, SegmentsFinite
    <3>2. SegmentsFit' /\ SentHaveSn' /\ QueuedFresh'
      BY <1>1, <2>7, <3>1 DEF Structure, SegmentsFit, SentHaveSn, QueuedFresh, SnOf, Segments
    <3>3. GoneIsReset'
      <4> SUFFICES ASSUME NEW i \in Ids, sdu'[i].fate # "held" PROVE sdu'[i] = NoSdu(sdu'[i].fate)
        BY DEF GoneIsReset
      <4>1. i # head.id
        BY <2>2, <2>6 DEF Held
      <4> QED BY <1>1, <2>6, <4>1 DEF GoneIsReset, Structure
    <3> QED BY <3>2, <3>3 DEF Structure
  <2>12. WindowKept'
    BY <1>1, <1>2 DEF WindowKept
  <2>13. Accounts'
    <3>1. retransmit_list \cap again = {} /\ again \in SUBSET Segment
      BY <1>1, <2>3
    <3>2. SizeTotal(retransmit_list') = SizeTotal(retransmit_list) + SizeTotal(again)
      BY <1>1, <2>1, <3>1, SizeUnion
    <3> QED BY <1>1, <1>2, <2>7, <2>8, <3>2 DEF Accounts
  <2> QED BY <1>2, <2>6, <2>7, <2>9, <2>10, <2>11, <2>12, <2>13 DEF TxInv
<1> QED
  BY <1>4, <1>5

\* A discard takes the only segment of its SDU.
LEMMA DiscardSduInv ==
  ASSUME TxInv, NEW id \in Ids, DiscardSdu(id)
  PROVE  /\ TxInv'
         /\ \E seg \in Segments : /\ seg.id = id /\ SnOf(seg) = NoSn
                                  /\ Segments' = Segments \ {seg}
                                  /\ \A t \in Segments : t.id = id => t = seg
         /\ sdu'[id] = NoSdu("dropped") /\ \A i \in Ids : i # id => sdu'[i] = sdu[i]
         /\ UNCHANGED <<tx_next, tx_next_ack, air>>
<1>1. /\ TxTypeOK /\ SegmentsPartition /\ Structure /\ WindowKept /\ Accounts
      /\ Segments \in SUBSET Segment /\ Queued \in SUBSET Segment
      /\ wait_list \in SUBSET Segment /\ retransmit_list \in SUBSET Segment
      /\ wait_list \cap retransmit_list = {} /\ Queued \cap InFlight = {}
      /\ Apart(Segments) /\ Once(tx_list) /\ tx_list \in Seq(Segment)
      /\ Queued = Elements(tx_list)
      /\ \A i \in Ids : /\ Count(i, Segments) = sdu[i].ref_count - sdu[i].free_count
                        /\ sdu[i].fate = "held" <=> Count(i, Segments) > 0
      /\ \A s \in Segments : s.id \in Held
  BY TxFacts DEF TxInv
<1>2. PICK k \in DOMAIN tx_list :
        /\ tx_list[k].id = id /\ tx_list[k].so = 0 /\ tx_list[k].size = sdu[id].size
        /\ tx_list' = SubSeq(tx_list, 1, k - 1) \o SubSeq(tx_list, k + 1, Len(tx_list))
        /\ bstatus' = [bstatus EXCEPT !.tx = @ - PduSize(tx_list[k])]
  BY DEF DiscardSdu
<1>3. /\ tx_size' = tx_size - sdu[id].size /\ sdu' = [sdu EXCEPT ![id] = NoSdu("dropped")]
      /\ UNCHANGED <<wait_list, retransmit_list, tx_next, tx_next_ack, poll_sn, pdu_without_poll,
                     byte_without_poll, force_poll, t_poll_retransmit, max_retx_reached,
                     crashed, air>>
  BY DEF DiscardSdu, txpoll
<1> DEFINE seg == tx_list[k]
<1>4. seg \in Queued /\ seg \in Segments /\ seg \in Segment /\ seg.id = id
  BY <1>1, <1>2 DEF Queued, Segments
<1>5. tx_list' \in Seq(Segment) /\ Once(tx_list') /\ Elements(tx_list') = Queued \ {seg}
  <2>1. k \in 1 .. Len(tx_list)
    BY <1>1, <1>2, LenProperties
  <2> QED BY <1>1, <1>2, <2>1, OnceRemove
<1>6. sdu \in [Ids -> SduType] /\ sdu' \in [Ids -> SduType] /\ sdu'[id] = NoSdu("dropped")
      /\ \A i \in Ids : i # id => sdu'[i] = sdu[i]
  <2>1. sdu \in [Ids -> SduType]
    BY <1>1 DEF TxTypeOK, SduType
  <2>2. NoSdu("dropped") \in SduType
    BY SizesAssumption DEF NoSdu, SduType
  <2> QED BY <1>3, <2>1, <2>2
<1>7. \A t \in Segments : t.id = id => t = seg
  BY <1>1, <1>2, <1>4, WholeIsAlone DEF Structure
<1>7a. SnOf(seg) = NoSn
  BY <1>1, <1>2, <1>4 DEF Structure, QueuedFresh
<1> HIDE DEF seg
<1>8. Queued' = Queued \ {seg} /\ InFlight' = InFlight /\ Segments' = Segments \ {seg}
  <2>1. Queued' = Elements(tx_list')
    BY DEF Queued, Elements
  <2> QED BY <1>1, <1>3, <1>4, <1>5, <2>1 DEF InFlight, Segments
<1>9. ASSUME NEW i \in Ids
      PROVE  /\ Count(i, Segments)' = (sdu[i].ref_count - sdu[i].free_count)'
             /\ (sdu[i].fate = "held")' <=> Count(i, Segments)' > 0
  <2>0. Count(i, Segments)' = Count(i, Segments')
    BY DEF Count, Of
  <2>1. CASE i = id
    <3>1. Segments' \in SUBSET Segment /\ \A s \in Segments' : s.id # id
      BY <1>1, <1>7, <1>8
    <3>2. Count(i, Segments') = 0
      BY <2>1, <3>1, CountFacts
    <3>3. sdu'[i].ref_count = 0 /\ sdu'[i].free_count = 0 /\ sdu'[i].fate = "dropped"
      BY <1>6, <2>1 DEF NoSdu
    <3> QED BY <2>0, <3>2, <3>3
  <2>2. CASE i # id
    <3>1. Of(i, Segments') = Of(i, Segments)
      BY <1>4, <1>8, <2>2 DEF Of
    <3> QED BY <1>1, <1>6, <2>0, <2>2, <3>1 DEF Count
  <2> QED BY <2>1, <2>2
<1>10. \A s \in Segments' : s.id \in Ids /\ s.id # id /\ sdu'[s.id] = sdu[s.id]
  BY <1>1, <1>6, <1>7, <1>8, SegmentsFinite
<1>11. bstatus \in [tx : Int, retx : Int] /\ bstatus' \in [tx : Int, retx : Int]
       /\ bstatus'.tx = bstatus.tx - PduSize(seg) /\ bstatus'.retx = bstatus.retx
       /\ PduSize(seg) \in Int
  <2>1. bstatus \in [tx : Int, retx : Int] /\ PduSize(seg) \in Int
    BY <1>1, <1>4, SegmentsFinite DEF TxTypeOK
  <2>2. bstatus' = [bstatus EXCEPT !.tx = @ - PduSize(seg)]
    BY <1>2 DEF seg
  <2> QED BY <2>1, <2>2
<1>12. TxTypeOK'
  <2>1. tx_size' \in Int
    BY <1>1, <1>3, <1>6, SizesAssumption DEF TxTypeOK, SduType
  <2> QED BY <1>1, <1>3, <1>5, <1>6, <1>11, <2>1 DEF TxTypeOK, SduType
<1>13. SegmentsPartition'
  <2>1. Once(tx_list)' /\ Apart(Segments)'
    BY <1>1, <1>5, <1>8 DEF Once, Elements, Apart
  <2>2. (wait_list \cap retransmit_list = {})' /\ (Queued \cap InFlight = {})'
    BY <1>1, <1>3, <1>8
  <2> QED BY <1>9, <2>1, <2>2, PartitionAfter
<1>14. Structure'
  <2>1. SegmentsFit' /\ SentHaveSn' /\ QueuedFresh'
    BY <1>1, <1>8, <1>10 DEF Structure, SegmentsFit, SentHaveSn, QueuedFresh, SnOf, Segments
  <2>2. GoneIsReset'
    BY <1>1, <1>6 DEF GoneIsReset, Structure, NoSdu
  <2> QED BY <2>1, <2>2 DEF Structure
<1>15. WindowKept'
  BY <1>1, <1>3 DEF WindowKept
<1>16. Accounts'
  <2>1. id \in Held /\ Held \in SUBSET Ids
    BY <1>1, <1>4 DEF Held
  <2>2. Held' = Held \ {id}
    BY <1>6, <2>1 DEF Held, NoSdu
  <2>3. IsFiniteSet(Held) /\ IsFiniteSet(Held \ {id})
        /\ \A i \in Held : SduSizes[i] \in Int
    BY <1>6, <2>1, SegmentsFinite, FS_Subset, SizesAssumption DEF SduSizes, SduType
  <2>4. Total(SduSizes, Held) = SduSizes[id] + Total(SduSizes, Held \ {id})
        /\ Total(SduSizes, Held \ {id}) \in Int
    BY <2>1, <2>3, TotalRemove
  <2>5. Total(SduSizes', Held \ {id}) = Total(SduSizes, Held \ {id})
    <3>1. \A i \in Held \ {id} : SduSizes'[i] = SduSizes[i]
      BY <1>6, <2>1 DEF SduSizes
    <3> QED BY <2>3, <3>1, TotalSame
  <2>6. SduSizes[id] = sdu[id].size /\ sdu[id].size \in Int
    BY <1>6, SizesAssumption DEF SduSizes, SduType
  <2>7. tx_size' = Total(SduSizes', Held')
    BY <1>1, <1>3, <2>2, <2>4, <2>5, <2>6 DEF Accounts
  <2>8. SizeTotal(Queued \ {seg}) = SizeTotal(Queued) - PduSize(seg)
    <3>1. {seg} \in SUBSET Queued /\ SizeTotal({seg}) = PduSize(seg)
      BY <1>4, SizeOfFew
    <3>2. SizeTotal(Queued \ {seg}) = SizeTotal(Queued) - SizeTotal({seg})
      BY <1>1, <3>1, SizeFacts
    <3> QED BY <3>1, <3>2
  <2> QED BY <1>1, <1>3, <1>8, <1>11, <2>7, <2>8 DEF Accounts
<1> QED
  BY <1>3, <1>4, <1>6, <1>7, <1>8, <1>12, <1>13, <1>14, <1>15, <1>16, <1>7a DEF TxInv

\* Re-establishment drops everything that is held.
LEMMA TxReestablishInv ==
  ASSUME TxInv, TxReestablish
  PROVE  TxInv'
<1>1. /\ sdu' = [i \in Ids |-> IF i \in Held THEN NoSdu("dropped") ELSE sdu[i]]
      /\ tx_list' = <<>> /\ wait_list' = {} /\ retransmit_list' = {}
      /\ tx_next' = 0 /\ tx_next_ack' = 0
      /\ poll_sn' = 0 /\ pdu_without_poll' = 0 /\ byte_without_poll' = 0
      /\ force_poll' = FALSE /\ t_poll_retransmit' = FALSE
      /\ tx_size' = 0 /\ bstatus' = [tx |-> 0, retx |-> 0] /\ air' = {}
      /\ UNCHANGED <<max_retx_reached, crashed>>
  BY DEF TxReestablish
<1>2. TxTypeOK /\ GoneIsReset
  BY DEF TxInv, Structure
<1>3. sdu \in [Ids -> SduType] /\ NoSdu("dropped") \in SduType
  BY <1>2, SizesAssumption DEF TxTypeOK, SduType, NoSdu
<1>4. sdu' \in [Ids -> SduType]
  BY <1>1, <1>3
<1>5. \A i \in Ids : sdu'[i].fate # "held" /\ sdu'[i] = NoSdu(sdu'[i].fate)
  BY <1>1, <1>2 DEF Held, GoneIsReset, NoSdu
<1>6. Queued' = {} /\ InFlight' = {} /\ Segments' = {} /\ Held' = {}
  BY <1>1, <1>5, EmptySeq DEF Queued, InFlight, Segments, Held
<1>7. 0 \in SN
  BY SizesAssumption DEF SN, sn_modulus
<1>8. TxTypeOK'
  <2>1. tx_list' \in Seq(Segment)
    BY <1>1
  <2>2. bstatus' \in [tx : Int, retx : Int]
    BY <1>1
  <2>3. max_retx_reached' \in BOOLEAN /\ crashed' \in BOOLEAN
    BY <1>1, <1>2 DEF TxTypeOK
  <2> QED BY <1>1, <1>4, <1>7, <2>1, <2>2, <2>3 DEF TxTypeOK, SduType
<1>9. Once(tx_list)' /\ Apart(Segments)'
  <2>1. Elements(<<>>) = {} /\ Len(<<>>) = 0
    BY EmptySeq DEF Elements
  <2>2. Once(<<>>)
    BY <2>1, FS_EmptySet DEF Once
  <2> QED BY <1>1, <1>6, <2>2 DEF Once, Elements, Apart
<1>10. \A i \in Ids : /\ Count(i, Segments)' = (sdu[i].ref_count - sdu[i].free_count)'
                      /\ (sdu[i].fate = "held")' <=> Count(i, Segments)' > 0
  <2>1. \A i \in Ids : Count(i, Segments)' = 0
    BY <1>6, FS_EmptySet DEF Count, Of
  <2>2. \A i \in Ids : sdu'[i].ref_count = 0 /\ sdu'[i].free_count = 0
    <3>1. \A x : NoSdu(x).ref_count = 0 /\ NoSdu(x).free_count = 0
      BY DEF NoSdu
    <3> QED BY <1>5, <3>1
  <2> QED BY <1>5, <2>1, <2>2
<1>11. SegmentsPartition'
  BY <1>1, <1>6, <1>9, <1>10, PartitionAfter
<1>12. Structure'
  BY <1>5, <1>6 DEF Structure, SegmentsFit, SentHaveSn, QueuedFresh, GoneIsReset
<1>13. WindowKept'
  BY <1>1, SizesAssumption DEF WindowKept, Dist
<1>14. Accounts'
  BY <1>1, <1>6, SizeOfFew, TotalEmpty DEF Accounts
<1> QED
  BY <1>8, <1>11, <1>12, <1>13, <1>14 DEF TxInv

\* The air may lose PDUs: nothing else of the invariant is about it.
LEMMA AirShrinks ==
  ASSUME TxInv, air' \in SUBSET air,
         UNCHANGED <<sdu, txlists, tx_next, tx_next_ack, txpoll, txstat, crashed>>
  PROVE  TxInv'
<1> USE DEF txlists, txpoll, txstat
<1>1. TxTypeOK'
  BY DEF TxInv, TxTypeOK
<1>2. Queued' = Queued /\ InFlight' = InFlight /\ Segments' = Segments
      /\ SduSizes' = SduSizes /\ Held' = Held
  BY DEF Queued, InFlight, Segments, SduSizes, Held
<1>3. SegmentsPartition'
  BY <1>2 DEF TxInv, SegmentsPartition
<1>4. Structure'
  BY <1>2 DEF TxInv, Structure, SegmentsFit, SentHaveSn, QueuedFresh, GoneIsReset, SnOf
<1>5. WindowKept' /\ Accounts'
  BY <1>2 DEF TxInv, WindowKept, Accounts
<1> QED
  BY <1>1, <1>3, <1>4, <1>5 DEF TxInv
=============================================================================
