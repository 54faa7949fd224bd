---------------------------- MODULE RlcAmRxProofs ----------------------------
(***************************************************************************)
(* Proofs about the receiving side of an RLC AM entity, for every window   *)
(* size, SDU size and buffer size, and for whatever PDUs the peer sends.   *)
(***************************************************************************)
EXTENDS RlcAmRx, SetSums

-----------------------------------------------------------------------------
(***************************************************************************)
(* The arithmetic of sequence numbers                                      *)
(***************************************************************************)

\* A sequence number moved up by at most one modulus is a sequence number.
LEMMA PlusInSN ==
  ASSUME NEW x \in SN, NEW k \in 0 .. sn_modulus
  PROVE  Plus(x, k) \in SN
BY SizesAssumption DEF SN, sn_modulus, Plus

\* The next sequence number is the one at distance 1.
LEMMA SuccIsPlus ==
  ASSUME NEW x \in SN
  PROVE  Succ(x) \in SN /\ Succ(x) = Plus(x, 1)
BY SizesAssumption DEF SN, sn_modulus, Plus, Succ

\* Distances seen from any base of the space are below the modulus.
LEMMA DistRange ==
  ASSUME NEW x \in SN, NEW a \in SN
  PROVE  Dist(x, a) \in 0 .. sn_modulus - 1 /\ Plus(x, Dist(x, a)) = a
BY SizesAssumption DEF SN, sn_modulus, Plus, Dist

\* Moving up from a base and measuring the distance from it are inverses.
LEMMA DistOfPlus ==
  ASSUME NEW x \in SN, NEW k \in 0 .. sn_modulus - 1
  PROVE  Dist(x, Plus(x, k)) = k
BY SizesAssumption DEF SN, sn_modulus, Plus, Dist

\* Two SNs of a window are never kept in the same slot, and every slot is that of
\* an SN of the window; the SN one window above another has its slot.
LEMMA SlotsOfWindow ==
  ASSUME NEW x \in SN
  PROVE  /\ \A k \in 0 .. sn_modulus : get_pos(Plus(x, k)) \in Slots
         /\ \A j, k \in 0 .. W - 1 : get_pos(Plus(x, j)) = get_pos(Plus(x, k)) => j = k
         /\ \A s \in Slots : \E k \in 0 .. W - 1 : s = get_pos(Plus(x, k))
         /\ \A k \in 0 .. W : get_pos(Plus(x, W + k)) = get_pos(Plus(x, k))
         /\ get_pos(Plus(x, 0)) = get_pos(x) /\ Plus(x, 0) = x
<1>1. \A k \in 0 .. sn_modulus : get_pos(Plus(x, k)) \in Slots
  BY SizesAssumption DEF SN, sn_modulus, Plus, get_pos, Slots
<1>2. \A j, k \in 0 .. W - 1 : get_pos(Plus(x, j)) = get_pos(Plus(x, k)) => j = k
  BY SizesAssumption DEF SN, sn_modulus, Plus, get_pos
<1>3. ASSUME NEW s \in Slots PROVE \E k \in 0 .. W - 1 : s = get_pos(Plus(x, k))
  <2>1. CASE x <= s
    <3>1. s - x \in 0 .. W - 1 /\ s = get_pos(Plus(x, s - x))
      BY <2>1, SizesAssumption DEF SN, sn_modulus, Plus, get_pos, Slots
    <3> QED BY <3>1
  <2>2. CASE s < x /\ x <= s + W
    <3>1. s + W - x \in 0 .. W - 1 /\ s = get_pos(Plus(x, s + W - x))
      BY <2>2, SizesAssumption DEF SN, sn_modulus, Plus, get_pos, Slots
    <3> QED BY <3>1
  <2>3. CASE s + W < x
    <3>1. s + 2 * W - x \in 0 .. W - 1 /\ s = get_pos(Plus(x, s + 2 * W - x))
      BY <2>3, SizesAssumption DEF SN, sn_modulus, Plus, get_pos, Slots
    <3> QED BY <3>1
  <2> QED BY <2>1, <2>2, <2>3, SizesAssumption DEF SN, sn_modulus, Slots
<1>4. \A k \in 0 .. W : get_pos(Plus(x, W + k)) = get_pos(Plus(x, k))
  BY SizesAssumption DEF SN, sn_modulus, Plus, get_pos
<1>5. get_pos(Plus(x, 0)) = get_pos(x) /\ Plus(x, 0) = x
  BY SizesAssumption DEF SN, sn_modulus, Plus
<1> QED
  BY <1>1, <1>2, <1>3, <1>4, <1>5

\* Distances seen from the SN `c` further.
LEMMA DistFromPlus ==
  ASSUME NEW x \in SN, NEW a \in SN, NEW c \in 0 .. W
  PROVE  Dist(Plus(x, c), a) = IF c <= Dist(x, a) THEN Dist(x, a) - c
                                                  ELSE Dist(x, a) - c + sn_modulus
BY SizesAssumption DEF SN, sn_modulus, Plus, Dist

\* Moving up twice within the space is moving up by the sum.
LEMMA PlusOfPlus ==
  ASSUME NEW x \in SN, NEW c \in 0 .. W, NEW k \in 0 .. W
  PROVE  Plus(Plus(x, c), k) = Plus(x, c + k)
BY SizesAssumption DEF SN, sn_modulus, Plus

-----------------------------------------------------------------------------
(***************************************************************************)
(* Searches in the reception buffer                                        *)
(***************************************************************************)

\* DeliveredRun finds the first slot, from `sn` on, that is not delivered.
LEMMA RunEndsAtFirst ==
  ASSUME NEW list, NEW sn \in SN, NEW r, r = DeliveredRun(list, sn)
  PROVE  /\ r \in 0 .. W
         /\ \A j \in 0 .. r - 1 : list[get_pos(Plus(sn, j))].delivered
         /\ r < W => ~list[get_pos(Plus(sn, r))].delivered
<1> DEFINE D(k) == list[get_pos(Plus(sn, k))].delivered
           T    == {k \in 0 .. W : k < W => ~D(k)}
<1>1. W \in Nat
  BY SizesAssumption
<1>2. T \in SUBSET Nat /\ T # {}
  <2>1. W \in T
    BY <1>1
  <2> QED BY <2>1, <1>1
<1>3. PICK m \in T : \A k \in T : m <= k
  <2> HIDE DEF T
  <2> QED BY <1>2, LeastElement
<1>4. m \in 0 .. W /\ (m < W => ~D(m))
  BY <1>3
<1>5. \A j \in 0 .. m - 1 : D(j)
  <2> SUFFICES ASSUME NEW j \in 0 .. m - 1 PROVE D(j)
    OBVIOUS
  <2>1. j \in 0 .. W /\ j < W /\ ~(m <= j)
    BY <1>1, <1>4
  <2>2. j \notin T
    BY <2>1, <1>3
  <2> HIDE DEF D
  <2> QED BY <2>1, <2>2
<1>6. \E k \in 0 .. W : (\A j \in 0 .. k - 1 : D(j)) /\ (k < W => ~D(k))
  BY <1>4, <1>5
<1>7. r = CHOOSE k \in 0 .. W : (\A j \in 0 .. k - 1 : D(j)) /\ (k < W => ~D(k))
  BY DEF DeliveredRun
<1> HIDE DEF D
<1>8. r \in 0 .. W /\ (\A j \in 0 .. r - 1 : D(j)) /\ (r < W => ~D(r))
  BY <1>6, <1>7
<1> QED
  BY <1>8 DEF D

-----------------------------------------------------------------------------
(***************************************************************************)
(* The receive window                                                      *)
(*                                                                         *)
(* The inductive invariant is the conjunction of four invariants that need *)
(* each other: the pointers stay in order only because an expiry moves     *)
(* rx_highest_status to a trigger in the window and because searches stop  *)
(* at the slots above rx_next_highest, which are empty.                    *)
(***************************************************************************)
RxInv == RxTypeOK /\ PointersOrdered /\ TriggerInWindow /\ OneSnPerSlot

\* The slot of the SN k above rx_next.
Sl(k) == get_pos(Plus(rx_next, k))

\* What RxInv says, in distances from rx_next.
LEMMA WindowFacts ==
  ASSUME RxInv, ~hung
  PROVE  /\ rx_next \in SN /\ rx_highest_status \in SN /\ rx_next_highest \in SN
         /\ Dist(rx_next, rx_next_highest) \in 0 .. W
         /\ Dist(rx_next, rx_highest_status) \in 0 .. Dist(rx_next, rx_next_highest)
         /\ rx_highest_status = Plus(rx_next, Dist(rx_next, rx_highest_status))
         /\ rx_next_highest = Plus(rx_next, Dist(rx_next, rx_next_highest))
         /\ \A k \in Dist(rx_next, rx_next_highest) .. W - 1 : IsEmpty(rx_list[Sl(k)])
         /\ ~rx_list[Sl(0)].delivered
         /\ ~rx_list[get_pos(rx_highest_status)].delivered
<1>1. rx_next \in SN /\ rx_highest_status \in SN /\ rx_next_highest \in SN
  BY DEF RxInv, RxTypeOK
<1>2. /\ Dist(rx_next, rx_highest_status) <= Dist(rx_next, rx_next_highest)
      /\ Dist(rx_next, rx_next_highest) <= W
      /\ \A k \in Dist(rx_next, rx_next_highest) .. W - 1 : IsEmpty(rx_list[Sl(k)])
      /\ ~rx_list[get_pos(rx_next)].delivered
      /\ ~rx_list[get_pos(rx_highest_status)].delivered
  BY DEF RxInv, PointersOrdered, Sl
<1>3. get_pos(rx_next) = Sl(0)
  BY <1>1, SlotsOfWindow DEF Sl
<1>4. /\ Dist(rx_next, rx_next_highest) \in 0 .. sn_modulus - 1
      /\ Dist(rx_next, rx_highest_status) \in 0 .. sn_modulus - 1
      /\ rx_highest_status = Plus(rx_next, Dist(rx_next, rx_highest_status))
      /\ rx_next_highest = Plus(rx_next, Dist(rx_next, rx_next_highest))
  BY <1>1, DistRange
<1>5. W \in Nat /\ sn_modulus \in Nat
  BY SizesAssumption DEF sn_modulus
<1> QED
  <2>1. Dist(rx_next, rx_next_highest) \in 0 .. W
    BY <1>2, <1>4, <1>5
  <2>2. Dist(rx_next, rx_highest_status) \in 0 .. Dist(rx_next, rx_next_highest)
    BY <1>2, <1>4, <1>5
  <2> QED BY <1>1, <1>2, <1>3, <1>4, <2>1, <2>2

\* A run of delivered slots that begins k above rx_next does not pass
\* rx_next_highest: the slot there is empty, or it is that of rx_next again.
LEMMA RunStaysBelow ==
  ASSUME rx_next \in SN, NEW list,
         NEW h \in 0 .. W, NEW k \in 0 .. h, NEW r,
         r = DeliveredRun(list, Plus(rx_next, k)),
         h < W => ~list[Sl(h)].delivered,
         k > 0 => ~list[Sl(0)].delivered
  PROVE  /\ r \in 0 .. h - k
         /\ r < W => ~list[Sl(k + r)].delivered
<1>1. W \in Nat \ {0, 1} /\ sn_modulus = 2 * W
  BY SizesAssumption DEF sn_modulus
<1>2. Plus(rx_next, k) \in SN
  BY <1>1, PlusInSN
<1>3. \A j \in 0 .. W : Plus(Plus(rx_next, k), j) = Plus(rx_next, k + j)
  BY <1>1, PlusOfPlus
<1>4. /\ r \in 0 .. W
      /\ \A j \in 0 .. r - 1 : list[Sl(k + j)].delivered
      /\ r < W => ~list[Sl(k + r)].delivered
  <2>1. /\ r \in 0 .. W
        /\ \A j \in 0 .. r - 1 : list[get_pos(Plus(Plus(rx_next, k), j))].delivered
        /\ r < W => ~list[get_pos(Plus(Plus(rx_next, k), r))].delivered
    BY <1>2, RunEndsAtFirst
  <2> QED BY <1>1, <1>3, <2>1 DEF Sl
<1>5. r <= h - k
  <2> SUFFICES ASSUME r > h - k PROVE FALSE
    BY <1>1, <1>4
  <2>1. h - k \in 0 .. r - 1 /\ k + (h - k) = h
    BY <1>1, <1>4
  <2>2. list[Sl(h)].delivered
    BY <1>4, <2>1
  <2>3. h = W /\ k > 0
    BY <1>1, <1>4, <2>2
  <2>4. Sl(W) = Sl(0)
    <3>1. get_pos(Plus(rx_next, W + 0)) = get_pos(Plus(rx_next, 0))
      BY <1>1, SlotsOfWindow
    <3> QED BY <1>1, <3>1 DEF Sl
  <2> QED BY <2>2, <2>3, <2>4
<1> QED
  BY <1>1, <1>4, <1>5

BufferType == [Slots -> Slot]

\* The bytes of PDUs are units, and so is what a slot covers once it is freed.
LEMMA SlotTypes ==
  /\ \A q \in DataPdu : Bytes(q) \subseteq Units
  /\ \A slot \in Slot : Covered(slot) \subseteq Units /\ FreedSlot(slot) \in Slot
  /\ EmptySlot \in Slot
<1>1. \A q \in DataPdu : Bytes(q) \subseteq Units
  BY SizesAssumption DEF DataPdu, Bytes, Units
<1>2. \A slot \in Slot : Covered(slot) \subseteq Units
  BY <1>1 DEF Slot, Covered, WithData
<1>3. \A slot \in Slot : FreedSlot(slot) \in Slot
  BY <1>2 DEF FreedSlot, Slot
<1> QED
  BY <1>1, <1>2, <1>3 DEF EmptySlot, Slot

\* reassemble_and_deliver keeps its outputs in their types.
LEMMA DeliverType ==
  ASSUME RxTypeOK, NEW slot, Deliver(slot) \/ UNCHANGED <<delivered, garbled>>
  PROVE  delivered' \in [Ids -> 0 .. 2] /\ garbled' \in BOOLEAN
<1>1. delivered \in [Ids -> 0 .. 2] /\ garbled \in BOOLEAN
  BY DEF RxTypeOK
<1>2. CASE UNCHANGED <<delivered, garbled>>
  BY <1>1, <1>2
<1>3. CASE Deliver(slot) /\ Gaps(slot) = {}
  <2> DEFINE ids == {q.id : q \in slot.pdus}
  <2> HIDE DEF ids
  <2>1. CASE /\ delivered' = [i \in Ids |-> IF i \in ids /\ delivered[i] < 2
                                           THEN delivered[i] + 1 ELSE delivered[i]]
             /\ UNCHANGED garbled
    BY <1>1, <2>1
  <2>2. CASE garbled' = TRUE /\ UNCHANGED delivered
    BY <1>1, <2>2
  <2> QED BY <1>3, <2>1, <2>2 DEF Deliver, ids
<1>4. CASE Deliver(slot) /\ Gaps(slot) # {}
  BY <1>2, <1>4 DEF Deliver
<1> QED
  BY <1>2, <1>3, <1>4

\* What reception_actions makes of the buffer: the slot of the PDU with it, whether
\* that completes its SDU, the buffer once the SDU is delivered, and the number of
\* slots that the window moves.
SlotWith(q)  == [rx_list[get_pos(q.sn)] EXCEPT !.pdus = @ \cup {[q EXCEPT !.p = FALSE]}]
Completes(q) == sdu_full(SlotWith(q))
FreedWith(q) == [rx_list EXCEPT ![get_pos(q.sn)] = IF Completes(q) THEN FreedSlot(SlotWith(q)) ELSE SlotWith(q)]
Moves(q)     == IF Completes(q) /\ q.sn = rx_next THEN DeliveredRun(FreedWith(q), q.sn) ELSE 0

KeepEffect(q) ==
  /\ Dist(rx_next, q.sn) \in 0 .. W - 1
  /\ get_pos(q.sn) \in Slots /\ ~rx_list[get_pos(q.sn)].delivered
  /\ FreedWith(q) \in BufferType
  /\ Moves(q) \in 0 .. Dist(rx_next, rx_next_highest')
  /\ Moves(q) > 0 => Completes(q) /\ q.sn = rx_next
  /\ \A k \in 0 .. Moves(q) - 1 : FreedWith(q)[Sl(k)].delivered
  /\ hung' => /\ Completes(q) /\ \A s \in Slots : FreedWith(q)[s].delivered
              /\ rx_next' = rx_next /\ rx_list' = FreedWith(q)
  /\ ~hung' => /\ rx_next' = Plus(rx_next, Moves(q))
               /\ \A k \in 0 .. W - 1 :
                    rx_list'[Sl(k)] = IF k < Moves(q) THEN EmptySlot ELSE FreedWith(q)[Sl(k)]
  /\ rx_next_highest' = HighestAfter(q.sn)
  /\ rx_size' = rx_size + q.size - (IF Completes(q) THEN FreedSize(SlotWith(q)) ELSE 0)
  /\ IF Completes(q) THEN Deliver(SlotWith(q)) ELSE UNCHANGED <<delivered, garbled>>

\* recv_pdu keeps a PDU: the window moves past what is delivered at its head.
LEMMA KeepPdu ==
  ASSUME RxInv, ~hung, NEW q \in DataPdu, ~Discarded(q), reception_actions(q),
         ~rx_list[get_pos(q.sn)].delivered
  PROVE  /\ rx_next' \in SN /\ rx_next_status_trigger' \in SN
         /\ rx_highest_status' \in SN /\ rx_next_highest' \in SN
         /\ rx_list' \in BufferType
         /\ t_reassembly' \in BOOLEAN /\ hung' \in BOOLEAN
         /\ PointersOrdered' /\ TriggerInWindow' /\ OneSnPerSlot'
         /\ KeepEffect(q)
<1> DEFINE x       == q.sn
           d       == Dist(rx_next, x)
           s       == Dist(rx_next, rx_highest_status)
           list    == [rx_list EXCEPT ![get_pos(x)].pdus = @ \cup {[q EXCEPT !.p = FALSE]}]
           highest == HighestAfter(x)
           h       == Dist(rx_next, highest)
           slot    == list[get_pos(x)]
           full    == sdu_full(slot)
           freed   == IF full THEN [list EXCEPT ![get_pos(x)] = FreedSlot(slot)] ELSE list
           status  == IF full /\ x = rx_highest_status
                      THEN Plus(x, DeliveredRun(freed, x)) ELSE rx_highest_status
           count   == IF full /\ x = rx_next THEN DeliveredRun(freed, x) ELSE 0
           next    == Plus(rx_next, count)
           final   == [sl \in Slots |-> IF \E k \in 0 .. count - 1 : sl = get_pos(Plus(rx_next, k))
                                        THEN EmptySlot ELSE freed[sl]]
           endless == full /\ x = rx_highest_status /\ \A sl \in Slots : freed[sl].delivered
           running == t_reassembly /\ ~StopReassembly(next, final)
           start   == ~running /\ StartReassembly(next, next, highest, final)
<1>1. /\ hung' = endless
      /\ rx_next_highest' = highest
      /\ endless => /\ rx_list' = freed
                    /\ UNCHANGED <<rx_highest_status, rx_next, t_reassembly, rx_next_status_trigger>>
      /\ ~endless => /\ rx_list' = final
                     /\ rx_highest_status' = status
                     /\ rx_next' = next
                     /\ t_reassembly' = (running \/ start)
                     /\ rx_next_status_trigger' = IF start THEN highest ELSE rx_next_status_trigger
  BY DEF reception_actions
<1>2. W \in Nat \ {0, 1} /\ sn_modulus = 2 * W
  BY SizesAssumption DEF sn_modulus
<1>3. x \in SN /\ q \in [id : Ids, sn : SN, so : Units, size : 1 .. MaxLen, is_last : BOOLEAN, p : BOOLEAN]
      /\ [q EXCEPT !.p = FALSE] \in DataPdu /\ [q EXCEPT !.p = FALSE].sn = x
  BY DEF DataPdu
<1>4. /\ rx_next \in SN /\ rx_highest_status \in SN /\ rx_next_highest \in SN
      /\ Dist(rx_next, rx_next_highest) \in 0 .. W
      /\ s \in 0 .. Dist(rx_next, rx_next_highest)
      /\ rx_highest_status = Plus(rx_next, s)
      /\ rx_next_highest = Plus(rx_next, Dist(rx_next, rx_next_highest))
      /\ \A k \in Dist(rx_next, rx_next_highest) .. W - 1 : IsEmpty(rx_list[Sl(k)])
      /\ ~rx_list[Sl(0)].delivered
      /\ ~rx_list[get_pos(rx_highest_status)].delivered
  BY WindowFacts
<1>5. d \in 0 .. W - 1 /\ x = Plus(rx_next, d)
  <2>1. d < W
    BY DEF Discarded, sn_in_recv_window
  <2>2. d \in 0 .. sn_modulus - 1 /\ x = Plus(rx_next, d)
    BY <1>3, <1>4, DistRange
  <2> QED BY <1>2, <2>1, <2>2
<1>6. get_pos(x) = Sl(d) /\ get_pos(x) \in Slots
  <2>1. get_pos(x) = Sl(d)
    BY <1>5 DEF Sl
  <2>2. \A k \in 0 .. sn_modulus : get_pos(Plus(rx_next, k)) \in Slots
    BY <1>4, SlotsOfWindow
  <2> QED BY <1>2, <1>5, <2>1, <2>2 DEF Sl
<1>7. rx_list \in BufferType /\ list \in BufferType /\ ~rx_list[get_pos(x)].delivered
      /\ ~list[get_pos(x)].delivered
  <2>1. rx_list \in BufferType
    BY DEF RxInv, RxTypeOK, BufferType
  <2>2. list \in BufferType
    BY <2>1, <1>3, <1>6 DEF BufferType, Slot
  <2>3. ~rx_list[get_pos(x)].delivered
    OBVIOUS
  <2>4. ~list[get_pos(x)].delivered
    BY <2>1, <2>3, <1>6 DEF BufferType, Slot
  <2> QED BY <2>1, <2>2, <2>3, <2>4
<1>8. highest \in SN /\ h \in d + 1 .. W /\ Dist(rx_next, rx_next_highest) <= h
      /\ highest = Plus(rx_next, h)
  <2>1. CASE RxBefore(x, rx_next_highest)
    <3>1. highest = rx_next_highest /\ d < Dist(rx_next, rx_next_highest)
      BY <2>1 DEF HighestAfter, RxBefore
    <3> QED BY <1>2, <1>4, <1>5, <3>1
  <2>2. CASE ~RxBefore(x, rx_next_highest)
    <3>1. highest = Succ(x) /\ ~(d < Dist(rx_next, rx_next_highest))
      BY <2>2 DEF HighestAfter, RxBefore
    <3>2. Succ(x) = Plus(rx_next, d + 1)
      <4>1. Succ(x) = Plus(x, 1)
        BY <1>3, SuccIsPlus
      <4>2. Plus(Plus(rx_next, d), 1) = Plus(rx_next, d + 1)
        BY <1>2, <1>4, <1>5, PlusOfPlus
      <4> QED BY <4>1, <4>2, <1>5
    <3>3. h = d + 1
      <4>1. d + 1 \in 0 .. sn_modulus - 1
        BY <1>2, <1>5
      <4>2. Dist(rx_next, Plus(rx_next, d + 1)) = d + 1
        BY <1>4, <4>1, DistOfPlus
      <4> QED BY <4>2, <3>1, <3>2
    <3>4. highest \in SN
      BY <3>1, <1>3, SuccIsPlus
    <3> QED BY <1>2, <1>4, <1>5, <3>1, <3>2, <3>3, <3>4
  <2> QED BY <2>1, <2>2
\* `freed` is `rx_list` but for the slot of x, which is delivered if it is full.
<1>9. /\ freed \in BufferType
      /\ freed[Sl(d)].delivered <=> full
      /\ full => freed[Sl(d)] = FreedSlot(slot)
      /\ ~full => freed[Sl(d)].pdus = rx_list[Sl(d)].pdus \cup {[q EXCEPT !.p = FALSE]}
      /\ \A sl \in Slots : sl # Sl(d) => freed[sl] = rx_list[sl]
  <2>1. CASE full
    <3>1. freed = [list EXCEPT ![get_pos(x)] = FreedSlot(slot)]
      BY <2>1
    <3>2. FreedSlot(slot) \in Slot /\ FreedSlot(slot).delivered
      <4>1. slot \in Slot
        BY <1>6, <1>7 DEF BufferType
      <4> QED BY <4>1, SlotTypes DEF FreedSlot
    <3> HIDE DEF full, freed, slot
    <3> QED BY <2>1, <3>1, <3>2, <1>6, <1>7 DEF BufferType
  <2>2. CASE ~full
    <3>1. freed = list
      BY <2>2
    <3> HIDE DEF full, freed
    <3> QED BY <2>2, <3>1, <1>6, <1>7 DEF BufferType, Slot
  <2> QED BY <2>1, <2>2
<1>10. \A k \in 0 .. W : Sl(k) \in Slots /\ Sl(W) = Sl(0)
  <2>1. /\ \A k \in 0 .. sn_modulus : get_pos(Plus(rx_next, k)) \in Slots
        /\ \A k \in 0 .. W : get_pos(Plus(rx_next, W + k)) = get_pos(Plus(rx_next, k))
    BY <1>4, SlotsOfWindow
  <2>2. get_pos(Plus(rx_next, W + 0)) = get_pos(Plus(rx_next, 0))
    BY <1>2, <2>1
  <2> QED BY <1>2, <2>1, <2>2 DEF Sl
<1>11. \A j, k \in 0 .. W - 1 : Sl(j) = Sl(k) => j = k
  BY <1>4, SlotsOfWindow DEF Sl
<1>12. /\ \A k \in h .. W - 1 : IsEmpty(freed[Sl(k)]) /\ ~freed[Sl(k)].delivered
       /\ freed[Sl(0)].delivered => full /\ d = 0
  <2> HIDE DEF full, freed, list, slot, highest
  <2>1. ASSUME NEW k \in h .. W - 1
        PROVE  IsEmpty(freed[Sl(k)]) /\ ~freed[Sl(k)].delivered
    <3>1. k \in 0 .. W - 1 /\ k # d /\ k \in Dist(rx_next, rx_next_highest) .. W - 1
      BY <1>2, <1>4, <1>5, <1>8
    <3>2. Sl(k) # Sl(d) /\ Sl(k) \in Slots
      BY <1>2, <1>5, <1>10, <1>11, <3>1
    <3>3. freed[Sl(k)] = rx_list[Sl(k)] /\ IsEmpty(rx_list[Sl(k)])
      BY <1>4, <1>9, <3>1, <3>2
    <3> QED BY <3>3 DEF IsEmpty
  <2>2. ASSUME freed[Sl(0)].delivered
        PROVE  full /\ d = 0
    <3>1. Sl(0) \in Slots
      BY <1>2, <1>10
    <3>2. Sl(0) = Sl(d)
      BY <1>4, <1>9, <2>2, <3>1
    <3>3. d = 0
      BY <1>2, <1>5, <1>11, <3>2
    <3> QED BY <1>9, <2>2, <3>2, <3>3
  <2> QED BY <2>1, <2>2
<1> HIDE DEF list, slot, full, freed, highest, h
\* The window moves by `count`, past delivered slots only, up to one that is not.
<1>13. /\ count \in 0 .. h
       /\ count > 0 => full /\ d = 0
       /\ \A k \in 0 .. count - 1 : freed[Sl(k)].delivered
       /\ count < W => ~freed[Sl(count)].delivered
  <2>1. x = rx_next <=> d = 0
    BY <1>2, <1>3, <1>4, <1>5, SlotsOfWindow DEF Dist
  <2>2. CASE ~(full /\ x = rx_next)
    <3>1. count = 0
      BY <2>2
    <3>2. ~freed[Sl(0)].delivered
      BY <1>12, <2>1, <2>2
    <3>3. h \in Nat
      BY <1>2, <1>5, <1>8
    <3> HIDE DEF count, d
    <3> QED BY <1>2, <3>1, <3>2, <3>3
  <2>3. CASE full /\ x = rx_next
    <3>1. count = DeliveredRun(freed, Plus(rx_next, 0))
      BY <1>4, <2>3, SlotsOfWindow
    <3>2. h \in 0 .. W /\ 0 \in 0 .. h
      BY <1>2, <1>5, <1>8
    <3>3. h < W => ~freed[Sl(h)].delivered
      BY <1>2, <1>12, <3>2
    <3>4. /\ count \in 0 .. W
          /\ \A j \in 0 .. count - 1 : freed[get_pos(Plus(Plus(rx_next, 0), j))].delivered
      <4> HIDE DEF count
      <4>1. Plus(rx_next, 0) \in SN
        BY <1>4, SlotsOfWindow
      <4> QED BY <3>1, <4>1, RunEndsAtFirst
    <3>5. Plus(rx_next, 0) = rx_next
      BY <1>4, SlotsOfWindow
    <3>6. count \in 0 .. h - 0 /\ (count < W => ~freed[Sl(0 + count)].delivered)
      <4> HIDE DEF count
      <4>1. 0 > 0 => ~freed[Sl(0)].delivered
        OBVIOUS
      <4> QED BY <1>4, <3>1, <3>2, <3>3, <4>1, RunStaysBelow
    <3> HIDE DEF count
    <3> QED BY <1>2, <2>1, <2>3, <3>2, <3>4, <3>5, <3>6 DEF Sl
  <2> QED BY <2>2, <2>3
<1>14. /\ next \in SN
       /\ \A k \in 0 .. W : Plus(next, k) = Plus(rx_next, count + k)
       /\ \A a \in SN : Dist(next, a) = IF count <= Dist(rx_next, a)
                                       THEN Dist(rx_next, a) - count
                                       ELSE Dist(rx_next, a) - count + sn_modulus
  <2>1. count \in 0 .. W /\ count \in 0 .. sn_modulus
    BY <1>2, <1>8, <1>13
  <2> HIDE DEF count
  <2> QED BY <1>4, <2>1, PlusInSN, PlusOfPlus, DistFromPlus
\* Slots of the window that begins at `next`.
<1>15. \A k \in 0 .. W :
         get_pos(Plus(next, k)) = Sl(IF count + k < W THEN count + k ELSE count + k - W)
  <2> SUFFICES ASSUME NEW k \in 0 .. W
               PROVE  get_pos(Plus(next, k)) = Sl(IF count + k < W THEN count + k
                                                                  ELSE count + k - W)
    OBVIOUS
  <2>1. get_pos(Plus(next, k)) = Sl(count + k)
    BY <1>14 DEF Sl
  <2>2. ASSUME ~(count + k < W)
        PROVE  Sl(count + k) = Sl(count + k - W)
    <3> DEFINE j == count + k - W
    <3>1. j \in 0 .. W /\ W + j = count + k
      BY <1>2, <1>8, <1>13, <2>2
    <3>2. get_pos(Plus(rx_next, W + j)) = get_pos(Plus(rx_next, j))
      BY <1>4, <3>1, SlotsOfWindow
    <3> QED BY <3>1, <3>2 DEF Sl
  <2> QED BY <2>1, <2>2
<1>16. /\ final \in BufferType
       /\ \A k \in 0 .. W - 1 : final[Sl(k)] = IF k < count THEN EmptySlot ELSE freed[Sl(k)]
  <2>1. count \in 0 .. W
    BY <1>2, <1>8, <1>13
  <2> HIDE DEF count
  <2>2. EmptySlot \in Slot
    BY DEF EmptySlot, Slot
  <2>3. final \in BufferType
    BY <1>9, <2>2 DEF BufferType
  <2>4. ASSUME NEW k \in 0 .. W - 1
        PROVE  final[Sl(k)] = IF k < count THEN EmptySlot ELSE freed[Sl(k)]
    <3>1. Sl(k) \in Slots
      BY <1>2, <1>10
    <3>2. (\E j \in 0 .. count - 1 : Sl(k) = get_pos(Plus(rx_next, j))) <=> k < count
      BY <1>2, <1>11, <2>1 DEF Sl
    <3> QED BY <3>1, <3>2
  <2> QED BY <2>3, <2>4
<1>17. ~final[get_pos(next)].delivered
  <2>1. get_pos(next) = Sl(IF count < W THEN count ELSE 0)
    <3>1. Plus(next, 0) = next
      BY <1>14, SlotsOfWindow
    <3>2. count \in 0 .. W /\ 0 \in 0 .. W
      BY <1>2, <1>8, <1>13
    <3> HIDE DEF count, next
    <3> QED BY <1>2, <1>15, <3>1, <3>2
  <2>2. CASE count < W
    <3> HIDE DEF count, next, final
    <3> QED BY <1>2, <1>8, <1>13, <1>16, <2>1, <2>2
  <2>3. CASE ~(count < W)
    <3> HIDE DEF count, next, final
    <3> QED BY <1>2, <1>8, <1>13, <1>16, <2>1, <2>3 DEF EmptySlot
  <2> QED BY <2>2, <2>3
\* rx_highest_status stays between rx_next and rx_next_highest.
<1>18. /\ status \in SN
       /\ Dist(rx_next, status) \in count .. h
       /\ ~final[get_pos(status)].delivered
  <2>1. CASE full /\ x = rx_highest_status
    <3> DEFINE r == DeliveredRun(freed, Plus(rx_next, d))
    <3>1. status = Plus(Plus(rx_next, d), r)
      BY <1>5, <2>1
    <3>2. r \in 0 .. h - d /\ (r < W => ~freed[Sl(d + r)].delivered)
      <4>1. h \in 0 .. W /\ d \in 0 .. h
        BY <1>2, <1>5, <1>8
      <4>2. (h < W => ~freed[Sl(h)].delivered) /\ (d > 0 => ~freed[Sl(0)].delivered)
        BY <1>2, <1>12, <4>1
      <4> HIDE DEF d, r
      <4>3. r = DeliveredRun(freed, Plus(rx_next, d))
        BY DEF r
      <4> QED BY <1>4, <4>1, <4>2, <4>3, RunStaysBelow
    <3>3. status = Plus(rx_next, d + r) /\ Dist(rx_next, status) = d + r /\ status \in SN
      <4> HIDE DEF d, r, status
      <4>1. d \in 0 .. W /\ r \in 0 .. W /\ d + r \in 0 .. sn_modulus - 1
            /\ d + r \in 0 .. sn_modulus
        BY <1>2, <1>5, <1>8, <3>2
      <4>2. status = Plus(rx_next, d + r)
        BY <1>4, <3>1, <4>1, PlusOfPlus
      <4>3. Dist(rx_next, Plus(rx_next, d + r)) = d + r /\ Plus(rx_next, d + r) \in SN
        BY <1>4, <4>1, DistOfPlus, PlusInSN
      <4> QED BY <4>2, <4>3
    <3>4. CASE d = 0
      <4>1. x = rx_next /\ Plus(rx_next, d) = x
        BY <1>4, <1>5, <3>4, SlotsOfWindow
      <4>2. count = r
        BY <2>1, <4>1
      <4>3. status = next
        <5>1. d + r = r
          <6> HIDE DEF d, r
          <6> QED BY <1>2, <1>8, <3>2, <3>4
        <5>2. status = Plus(rx_next, r) /\ next = Plus(rx_next, r)
          BY <3>3, <4>2, <5>1
        <5> QED BY <5>2
      <4>4. Dist(rx_next, status) = count
        BY <3>2, <3>3, <3>4, <4>2
      <4> HIDE DEF d, r, status, count, next, final
      <4> QED BY <1>2, <1>8, <1>13, <1>17, <3>3, <4>3, <4>4
    <3>5. CASE d # 0
      <4>1. count = 0 /\ d > 0
        <5> HIDE DEF d, count
        <5> QED BY <1>2, <1>5, <1>8, <1>13, <3>5
      <4>2. ~final[Sl(d + r)].delivered
        <5> HIDE DEF d, r, status, next, final
        <5>1. d + r \in 0 .. W /\ r < W
          BY <1>2, <1>5, <1>8, <3>2, <4>1
        <5>2. CASE d + r < W
          BY <1>2, <1>16, <3>2, <4>1, <5>1, <5>2
        <5>3. CASE d + r = W
          <6>1. Sl(d + r) = Sl(0) /\ 0 \in 0 .. W - 1
            BY <1>2, <1>10, <5>3
          <6>2. ~freed[Sl(0)].delivered
            BY <1>12, <4>1
          <6> HIDE DEF count
          <6> QED BY <1>2, <1>16, <4>1, <6>1, <6>2
        <5> QED BY <1>2, <5>1, <5>2, <5>3
      <4> HIDE DEF d, r, status, next, final, count
      <4> QED BY <1>2, <1>5, <1>8, <3>2, <3>3, <4>1, <4>2 DEF Sl
    <3> QED BY <3>4, <3>5
  <2>2. CASE ~(full /\ x = rx_highest_status)
    <3>1. status = rx_highest_status /\ Dist(rx_next, status) = s
          /\ get_pos(status) = Sl(s) /\ status \in SN
      BY <1>4, <2>2 DEF Sl
    <3>2. s \in 0 .. h /\ s \in 0 .. W
      <4> HIDE DEF s
      <4> QED BY <1>2, <1>4, <1>8
    <3>3. s = d => ~full
      BY <1>4, <1>5, <2>2
    <3>4. s < W => ~freed[Sl(s)].delivered
      <4> SUFFICES ASSUME s < W PROVE ~freed[Sl(s)].delivered
        OBVIOUS
      <4>1. CASE s = d
        <5> HIDE DEF s, d
        <5> QED BY <1>9, <3>3, <4>1
      <4>2. CASE s # d
        <5>1. Sl(s) # Sl(d) /\ Sl(s) \in Slots
          <6> HIDE DEF s, d
          <6> QED BY <1>2, <1>5, <1>10, <1>11, <3>2, <4>2
        <5>2. ~rx_list[Sl(s)].delivered
          BY <1>4, <3>1
        <5> HIDE DEF s, d
        <5> QED BY <1>9, <5>1, <5>2
      <4> QED BY <4>1, <4>2
    <3> HIDE DEF s, status, count, final, d
    <3>5. count <= s
      <4> SUFFICES ASSUME s < count PROVE FALSE
        BY <1>2, <1>8, <1>13, <3>2
      <4>1. s \in 0 .. count - 1 /\ s < W
        BY <1>2, <1>8, <1>13, <3>2
      <4> QED BY <1>13, <3>4, <4>1
    <3>6. ~final[Sl(s)].delivered
      <4>1. CASE s < W
        BY <1>2, <1>8, <1>13, <1>16, <3>2, <3>4, <3>5, <4>1
      <4>2. CASE s = W
        <5>1. Sl(s) = Sl(0) /\ 0 \in 0 .. W - 1
          BY <1>2, <1>10, <4>2
        <5>2. CASE count = 0
          BY <1>2, <1>13, <1>16, <5>1, <5>2
        <5>3. CASE count # 0
          <6>1. 0 < count
            BY <1>2, <1>8, <1>13, <5>3
          <6> QED BY <1>16, <5>1, <6>1 DEF EmptySlot
        <5> QED BY <5>2, <5>3
      <4> QED BY <1>2, <3>2, <4>1, <4>2
    <3> QED BY <1>2, <1>8, <1>13, <3>1, <3>2, <3>5, <3>6
  <2> QED BY <2>1, <2>2
<1> HIDE DEF final, endless, running, start, count, next, status, d, s
<1>19. Dist(next, highest) = h - count /\ Dist(next, highest) \in 0 .. W
       /\ Dist(next, status) \in 0 .. Dist(next, highest)
  <2>1. Dist(next, highest) = h - count
    BY <1>2, <1>8, <1>13, <1>14 DEF h
  <2>2. Dist(next, status) = Dist(rx_next, status) - count
    BY <1>2, <1>8, <1>13, <1>14, <1>18
  <2> QED BY <1>2, <1>8, <1>13, <1>18, <2>1, <2>2
<1>20. \A k \in Dist(next, highest) .. W - 1 : IsEmpty(final[get_pos(Plus(next, k))])
  <2> SUFFICES ASSUME NEW k \in Dist(next, highest) .. W - 1
               PROVE  IsEmpty(final[get_pos(Plus(next, k))])
    OBVIOUS
  <2>1. k \in 0 .. W - 1 /\ k \in 0 .. W /\ h - count <= k /\ count \in 0 .. W /\ h \in 0 .. W
    BY <1>2, <1>8, <1>13, <1>19
  <2>2. CASE count + k < W
    <3>1. get_pos(Plus(next, k)) = Sl(count + k)
      BY <1>15, <2>1, <2>2
    <3>2. count + k \in h .. W - 1 /\ count + k \in 0 .. W - 1 /\ ~(count + k < count)
      BY <1>2, <2>1, <2>2
    <3>3. final[Sl(count + k)] = freed[Sl(count + k)] /\ IsEmpty(freed[Sl(count + k)])
      BY <1>12, <1>16, <3>2
    <3> QED BY <3>1, <3>3
  <2>3. CASE ~(count + k < W)
    <3>1. get_pos(Plus(next, k)) = Sl(count + k - W)
      BY <1>15, <2>1, <2>3
    <3>2. count + k - W \in 0 .. W - 1 /\ count + k - W < count
      BY <1>2, <2>1, <2>3
    <3>3. final[Sl(count + k - W)] = EmptySlot
      BY <1>16, <3>2
    <3> QED BY <3>1, <3>3 DEF EmptySlot, IsEmpty
  <2> QED BY <2>2, <2>3
<1>21. PointersOrdered'
  <2>1. CASE endless
    BY <1>1, <2>1 DEF PointersOrdered
  <2>2. CASE ~endless
    <3>1. rx_next' = next /\ rx_next_highest' = highest /\ rx_highest_status' = status
          /\ rx_list' = final
      BY <1>1, <2>2
    <3>2. Dist(next, status) <= Dist(next, highest) /\ Dist(next, highest) <= W
      BY <1>2, <1>19
    <3> QED BY <1>17, <1>18, <1>20, <3>1, <3>2 DEF PointersOrdered
  <2> QED BY <2>1, <2>2
<1>22. TriggerInWindow'
  <2>1. CASE endless \/ ~t_reassembly'
    BY <1>1, <2>1 DEF TriggerInWindow
  <2>2. CASE ~endless /\ start
    <3>1. rx_next' = next /\ rx_next_highest' = highest /\ rx_next_status_trigger' = highest
      BY <1>1, <2>2
    <3>2. highest # next
      <4> SUFFICES ASSUME highest = next PROVE FALSE
        OBVIOUS
      <4>1. Succ(next) \in SN /\ Succ(next) # next /\ Dist(next, Succ(next)) \in Nat
            /\ Dist(next, next) = 0
        BY <1>2, <1>14 DEF Succ, SN, Dist
      <4>2. StartReassembly(next, next, highest, final)
        BY <2>2 DEF start
      <4> QED BY <4>1, <4>2 DEF StartReassembly
    <3>3. Dist(next, highest) <= Dist(next, highest)
      BY <1>2, <1>19
    <3> QED BY <3>1, <3>2, <3>3 DEF TriggerInWindow
  <2>3. CASE ~endless /\ ~start /\ running
    <3> DEFINE t == Dist(rx_next, rx_next_status_trigger)
    <3>1. rx_next' = next /\ rx_next_highest' = highest
          /\ rx_next_status_trigger' = rx_next_status_trigger
      BY <1>1, <2>3
    <3>2. rx_next_status_trigger \in SN
      BY DEF RxInv, RxTypeOK
    <3>3. rx_next_status_trigger # next
          /\ (Dist(next, rx_next_status_trigger) < W \/ rx_next_status_trigger = Plus(next, W))
      BY <2>3 DEF running, StopReassembly, sn_in_recv_window
    <3>4. t \in 0 .. h /\ t # 0
      <4>1. rx_next_status_trigger # rx_next /\ t <= Dist(rx_next, rx_next_highest)
        BY <2>3 DEF running, RxInv, TriggerInWindow
      <4>2. t \in Nat /\ t # 0
        BY <1>2, <1>4, <3>2, <4>1 DEF SN, Dist
      <4> QED BY <1>2, <1>4, <1>8, <4>1, <4>2
    <3>5. Dist(next, rx_next_status_trigger) <= W
      <4>1. Dist(next, Plus(next, W)) = W
        BY <1>2, <1>14, DistOfPlus
      <4>2. Dist(next, rx_next_status_trigger) \in 0 .. sn_modulus - 1
        BY <1>14, <3>2, DistRange
      <4> QED BY <1>2, <3>3, <4>1, <4>2
    <3>6. Dist(next, rx_next_status_trigger) = IF count <= t THEN t - count
                                                          ELSE t - count + sn_modulus
      BY <1>14, <3>2
    <3> HIDE DEF t
    <3>7. Dist(next, rx_next_status_trigger) <= Dist(next, highest)
      BY <1>2, <1>8, <1>13, <1>19, <3>4, <3>5, <3>6
    <3> QED BY <3>1, <3>3, <3>7 DEF TriggerInWindow
  <2> QED BY <1>1, <2>1, <2>2, <2>3
<1>23. \A k \in 0 .. W - 1 : \A p \in freed[Sl(k)].pdus : p.sn = Plus(rx_next, k)
  <2> SUFFICES ASSUME NEW k \in 0 .. W - 1, NEW p \in freed[Sl(k)].pdus
               PROVE  p.sn = Plus(rx_next, k)
    OBVIOUS
  <2>1. \A r \in rx_list[Sl(k)].pdus : r.sn = Plus(rx_next, k)
    BY DEF RxInv, OneSnPerSlot, Sl
  <2>2. CASE k # d
    <3>1. Sl(k) # Sl(d) /\ Sl(k) \in Slots
      BY <1>2, <1>5, <1>10, <1>11, <2>2
    <3> QED BY <1>9, <2>1, <3>1
  <2>3. CASE k = d
    <3>1. CASE full
      BY <1>9, <2>3, <3>1 DEF FreedSlot
    <3>2. CASE ~full
      BY <1>3, <1>5, <1>9, <2>1, <2>3, <3>2
    <3> QED BY <3>1, <3>2
  <2> QED BY <2>2, <2>3
<1>24. OneSnPerSlot'
  <2>1. CASE endless
    <3>1. rx_next' = rx_next /\ rx_list' = freed
      BY <1>1, <2>1
    <3> QED BY <1>23, <3>1 DEF OneSnPerSlot, Sl
  <2>2. CASE ~endless
    <3>1. rx_next' = next /\ rx_list' = final
      BY <1>1, <2>2
    <3>2. ASSUME NEW k \in 0 .. W - 1, NEW p \in final[get_pos(Plus(next, k))].pdus
          PROVE  p.sn = Plus(next, k)
      <4>1. k \in 0 .. W /\ count \in 0 .. W
        BY <1>2, <1>8, <1>13
      <4>2. CASE count + k < W
        <5>1. get_pos(Plus(next, k)) = Sl(count + k) /\ Plus(next, k) = Plus(rx_next, count + k)
          BY <1>14, <1>15, <4>1, <4>2
        <5>2. count + k \in 0 .. W - 1 /\ ~(count + k < count)
          BY <1>2, <4>1, <4>2
        <5> QED BY <1>16, <1>23, <3>2, <5>1, <5>2
      <4>3. CASE ~(count + k < W)
        <5>1. get_pos(Plus(next, k)) = Sl(count + k - W)
          BY <1>15, <4>1, <4>3
        <5>2. count + k - W \in 0 .. W - 1 /\ count + k - W < count
          BY <1>2, <4>1, <4>3
        <5> QED BY <1>16, <3>2, <5>1, <5>2 DEF EmptySlot
      <4> QED BY <4>2, <4>3
    <3> QED BY <3>1, <3>2 DEF OneSnPerSlot
  <2> QED BY <2>1, <2>2
<1>25. /\ rx_next' \in SN /\ rx_next_status_trigger' \in SN
       /\ rx_highest_status' \in SN /\ rx_next_highest' \in SN
       /\ rx_list' \in BufferType
       /\ t_reassembly' \in BOOLEAN /\ hung' \in BOOLEAN
  <2>1. rx_next_status_trigger \in SN /\ t_reassembly \in BOOLEAN
    BY DEF RxInv, RxTypeOK
  <2>2. endless \in BOOLEAN /\ (running \/ start) \in BOOLEAN
    BY DEF endless
  <2>3. CASE endless
    BY <1>1, <1>4, <1>8, <1>9, <2>1, <2>2, <2>3
  <2>4. CASE ~endless
    BY <1>1, <1>8, <1>14, <1>16, <1>18, <2>1, <2>2, <2>4
  <2> QED BY <2>3, <2>4
<1>26. list[get_pos(x)] = SlotWith(q) /\ slot = SlotWith(q) /\ full = Completes(q)
  <2>1. list[get_pos(x)] = SlotWith(q)
    BY <1>6, <1>7 DEF list, SlotWith, BufferType
  <2> QED BY <2>1 DEF slot, full, Completes
<1>27. freed = FreedWith(q)
  <2>1. list = [rx_list EXCEPT ![get_pos(x)] = SlotWith(q)]
    BY <1>6, <1>7 DEF list, SlotWith, BufferType
  <2>2. CASE full
    BY <1>26, <2>1, <2>2 DEF freed, FreedWith
  <2>3. CASE ~full
    BY <1>26, <2>1, <2>3 DEF freed, FreedWith
  <2> QED BY <2>2, <2>3
<1>28. count = Moves(q)
  BY <1>26, <1>27 DEF count, Moves
<1>29. KeepEffect(q)
  <2>1. endless => full /\ \A sl \in Slots : freed[sl].delivered
    BY DEF endless
  <2>2. h = Dist(rx_next, rx_next_highest')
    BY <1>1 DEF h
  <2>3. rx_size' = rx_size + q.size - (IF full THEN FreedSize(slot) ELSE 0)
        /\ (IF full THEN Deliver(slot) ELSE UNCHANGED <<delivered, garbled>>)
    BY DEF reception_actions, list, slot, full
  <2>4. Dist(rx_next, q.sn) \in 0 .. W - 1
    BY <1>5 DEF d
  <2>5. count > 0 => full /\ x = rx_next
    BY <1>4, <1>5, <1>13, SlotsOfWindow
  <2>6. /\ hung' => rx_next' = rx_next /\ rx_list' = freed
        /\ ~hung' => rx_next' = Plus(rx_next, count) /\ rx_list' = final
        /\ rx_next_highest' = highest
    BY <1>1 DEF next
  <2>7. highest = HighestAfter(x)
    BY DEF highest
  <2>8. freed \in BufferType /\ get_pos(x) \in Slots /\ ~rx_list[get_pos(x)].delivered
    BY <1>6, <1>7, <1>9
  <2>9. hung' = endless
    BY <1>1
  <2> HIDE DEF highest
  <2> QED BY <1>13, <1>16, <1>26, <1>27, <1>28, <2>1, <2>2, <2>3, <2>4, <2>5, <2>6, <2>7, <2>8, <2>9
          DEF KeepEffect
<1> QED
  BY <1>21, <1>22, <1>24, <1>25, <1>29

\* recv_pdu keeps a PDU that goes past the end of a delivered SDU: it waits in its slot
\* with its data, and neither the pointers nor the other slots change.
LEMMA LatePdu ==
  ASSUME RxInv, ~hung, NEW q \in DataPdu, ~Discarded(q), reception_actions(q),
         rx_list[get_pos(q.sn)].delivered
  PROVE  /\ UNCHANGED <<rx_next, rx_highest_status, rx_next_highest, hung, delivered, garbled>>
         /\ rx_next_status_trigger' \in SN /\ t_reassembly' \in BOOLEAN
         /\ rx_list' = [rx_list EXCEPT ![get_pos(q.sn)] = SlotWith(q)]
         /\ rx_list' \in BufferType
         /\ rx_size \in Int => rx_size' = rx_size + q.size
         /\ PointersOrdered' /\ TriggerInWindow' /\ OneSnPerSlot'
         /\ get_pos(q.sn) \in Slots /\ SlotWith(q).delivered
<1> DEFINE x    == q.sn
           d    == Dist(rx_next, x)
           h    == Dist(rx_next, rx_next_highest)
           list == [rx_list EXCEPT ![get_pos(x)] = SlotWith(q)]
<1>1. W \in Nat \ {0, 1} /\ sn_modulus = 2 * W
  BY SizesAssumption DEF sn_modulus
<1>2. x \in SN /\ [q EXCEPT !.p = FALSE] \in DataPdu /\ [q EXCEPT !.p = FALSE].sn = x
  BY DEF DataPdu
<1>3. /\ rx_next \in SN /\ rx_highest_status \in SN /\ rx_next_highest \in SN
      /\ h \in 0 .. W
      /\ \A k \in h .. W - 1 : IsEmpty(rx_list[Sl(k)])
      /\ ~rx_list[Sl(0)].delivered
      /\ rx_list \in BufferType
  BY WindowFacts DEF RxInv, RxTypeOK, BufferType
<1>4. d \in 0 .. W - 1 /\ x = Plus(rx_next, d) /\ get_pos(x) = Sl(d)
  <2>1. d < W
    BY DEF Discarded, sn_in_recv_window
  <2>2. d \in 0 .. sn_modulus - 1 /\ x = Plus(rx_next, d)
    BY <1>2, <1>3, DistRange
  <2> QED BY <1>1, <2>1, <2>2 DEF Sl
<1>5. get_pos(x) \in Slots /\ \A k \in 0 .. W - 1 : Sl(k) \in Slots
  <2>1. \A k \in 0 .. sn_modulus : get_pos(Plus(rx_next, k)) \in Slots
    BY <1>3, SlotsOfWindow
  <2> QED BY <1>1, <1>4, <2>1 DEF Sl
\* The slot is in use: its SN is one of those below rx_next_highest.
<1>6. d < h /\ d # 0
  <2>1. ~IsEmpty(rx_list[Sl(d)])
    BY <1>4 DEF IsEmpty
  <2>2. ~(d \in h .. W - 1) /\ d # 0
    BY <1>3, <1>4, <2>1
  <2> QED BY <1>1, <1>3, <1>4, <2>2
<1>7. HighestAfter(x) = rx_next_highest
  BY <1>6 DEF HighestAfter, RxBefore
<1>8. SlotWith(q) \in Slot /\ SlotWith(q).delivered /\ list \in BufferType
      /\ SlotWith(q).pdus = rx_list[get_pos(x)].pdus \cup {[q EXCEPT !.p = FALSE]}
  <2>1. rx_list[get_pos(x)] \in Slot
    BY <1>3, <1>5 DEF BufferType
  <2>2. SlotWith(q) \in Slot /\ SlotWith(q).delivered
        /\ SlotWith(q).pdus = rx_list[get_pos(x)].pdus \cup {[q EXCEPT !.p = FALSE]}
    BY <1>2, <2>1 DEF SlotWith, Slot
  <2> QED BY <1>3, <2>2 DEF BufferType
<1>9. [rx_list EXCEPT ![get_pos(x)].pdus = @ \cup {[q EXCEPT !.p = FALSE]}] = list
  BY DEF SlotWith
<1>10. list[get_pos(x)] = SlotWith(q) /\ \A s \in Slots : s # get_pos(x) => list[s] = rx_list[s]
  BY <1>3, <1>5 DEF BufferType
<1>11. ~sdu_full(SlotWith(q))
  BY <1>8 DEF sdu_full
<1>12. Plus(rx_next, 0) = rx_next
  BY <1>3, SlotsOfWindow
<1> DEFINE running == t_reassembly /\ ~StopReassembly(rx_next, list)
           start   == ~running /\ StartReassembly(rx_next, rx_next, rx_next_highest, list)
<1>13. [sl \in Slots |-> IF \E k \in 0 .. 0 - 1 : sl = get_pos(Plus(rx_next, k))
                         THEN EmptySlot ELSE list[sl]] = list
  <2> HIDE DEF list
  <2>1. list \in [Slots -> Slot] /\ 0 .. 0 - 1 = {}
    BY <1>8 DEF BufferType
  <2>2. list = [sl \in Slots |-> list[sl]]
    BY <2>1
  <2> QED BY <2>1, <2>2
<1>14. /\ UNCHANGED <<rx_next, rx_highest_status, rx_next_highest, delivered, garbled>>
       /\ ~hung' /\ rx_list' = list /\ rx_size' = rx_size + q.size - 0
       /\ t_reassembly' = (running \/ start)
       /\ rx_next_status_trigger' = IF start THEN rx_next_highest ELSE rx_next_status_trigger
  <2> HIDE DEF list
  <2> QED BY <1>7, <1>9, <1>10, <1>11, <1>12, <1>13 DEF reception_actions
<1>15. /\ \A s \in Slots : list[s].delivered <=> rx_list[s].delivered
       /\ \A k \in h .. W - 1 : IsEmpty(list[Sl(k)])
  <2>1. \A s \in Slots : list[s].delivered <=> rx_list[s].delivered
    <3> HIDE DEF list
    <3> QED BY <1>8, <1>10
  <2>2. ASSUME NEW k \in h .. W - 1 PROVE IsEmpty(list[Sl(k)])
    <3>1. k \in 0 .. W - 1 /\ k # d
      BY <1>1, <1>3, <1>4, <1>6
    <3>2. Sl(k) # Sl(d)
      BY <1>3, <1>4, <3>1, SlotsOfWindow DEF Sl
    <3>3. list[Sl(k)] = rx_list[Sl(k)]
      <4> HIDE DEF list
      <4> QED BY <1>4, <1>5, <1>10, <3>1, <3>2
    <3> QED BY <1>3, <3>3
  <2> QED BY <2>1, <2>2
<1> HIDE DEF list
<1>16. PointersOrdered'
  <2>1. get_pos(rx_next) \in Slots /\ get_pos(rx_highest_status) \in Slots
    BY <1>3, SizesAssumption DEF get_pos, Slots, SN, sn_modulus
  <2>2. /\ Dist(rx_next, rx_highest_status) <= h /\ h <= W
        /\ ~rx_list[get_pos(rx_next)].delivered /\ ~rx_list[get_pos(rx_highest_status)].delivered
    BY DEF RxInv, PointersOrdered
  <2> QED BY <1>14, <1>15, <2>1, <2>2 DEF PointersOrdered, Sl
<1>17. TriggerInWindow'
  <2>1. CASE start
    <3>1. h > Dist(rx_next, Succ(rx_next)) \/ rx_next_highest = Succ(rx_next)
      BY <2>1 DEF StartReassembly
    <3>2. rx_next_highest # rx_next
      BY <1>1, <1>3, <1>4, <1>6, SizesAssumption DEF Dist, SN
    <3> QED BY <1>3, <1>14, <2>1, <3>2 DEF TriggerInWindow
  <2>2. CASE ~start
    BY <1>14, <2>2 DEF RxInv, TriggerInWindow
  <2> QED BY <2>1, <2>2
<1>18. OneSnPerSlot'
  <2> SUFFICES ASSUME NEW k \in 0 .. W - 1, NEW r \in list[Sl(k)].pdus
               PROVE  r.sn = Plus(rx_next, k)
    BY <1>14 DEF OneSnPerSlot, Sl
  <2>1. \A r1 \in rx_list[Sl(k)].pdus : r1.sn = Plus(rx_next, k)
    BY DEF RxInv, OneSnPerSlot, Sl
  <2>2. CASE k = d
    BY <1>2, <1>4, <1>8, <1>10, <2>1, <2>2
  <2>3. CASE k # d
    <3>1. Sl(k) # Sl(d)
      BY <1>3, <1>4, <2>3, SlotsOfWindow DEF Sl
    <3> QED BY <1>4, <1>5, <1>10, <2>1, <3>1
  <2> QED BY <2>2, <2>3
<1>19. rx_next_status_trigger' \in SN /\ t_reassembly' \in BOOLEAN
  BY <1>3, <1>14 DEF RxInv, RxTypeOK
<1>20. (rx_size \in Int => rx_size' = rx_size + q.size) /\ UNCHANGED hung
  <2>1. q.size \in Int
    BY DEF DataPdu
  <2>2. hung = FALSE
    BY DEF RxInv, RxTypeOK
  <2>3. hung' \in BOOLEAN
    BY DEF reception_actions
  <2>4. hung' = FALSE
    BY <1>14, <2>3
  <2>5. UNCHANGED hung
    BY <2>2, <2>4
  <2>6. rx_size' = rx_size + q.size - 0
    BY <1>14
  <2> QED BY <2>1, <2>5, <2>6
<1> QED
  BY <1>5, <1>8, <1>14, <1>16, <1>17, <1>18, <1>19, <1>20 DEF list


\* t_reassembly expires: rx_highest_status moves to the first SDU not delivered
\* from the trigger on, which is not above rx_next_highest.
LEMMA ExpiryKeepsWindow ==
  ASSUME RxInv, ReassemblyExpires
  PROVE  RxInv'
<1> DEFINE t   == Dist(rx_next, rx_next_status_trigger)
           h   == Dist(rx_next, rx_next_highest)
           r   == DeliveredRun(rx_list, rx_next_status_trigger)
           new == Plus(rx_next_status_trigger, r)
<1>1. /\ ~hung /\ t_reassembly
      /\ rx_highest_status' = new
      /\ rx_next_status_trigger' = IF t_reassembly' THEN rx_next_highest ELSE rx_next_status_trigger
      /\ t_reassembly' \in BOOLEAN
      /\ UNCHANGED <<rx_next, rx_next_highest, rx_list, hung, delivered, garbled, ctl,
                     t_status_prohibit>>
      /\ status_triggered' = TRUE
  BY DEF ReassemblyExpires, StartReassembly
<1>2. W \in Nat \ {0, 1} /\ sn_modulus = 2 * W
  BY SizesAssumption DEF sn_modulus
<1>3. /\ rx_next \in SN /\ rx_next_highest \in SN /\ h \in 0 .. W
      /\ rx_next_highest = Plus(rx_next, h)
      /\ \A k \in h .. W - 1 : IsEmpty(rx_list[Sl(k)])
      /\ ~rx_list[Sl(0)].delivered
  BY <1>1, WindowFacts
<1>4. rx_next_status_trigger \in SN /\ t \in 1 .. h /\ rx_next_status_trigger = Plus(rx_next, t)
  <2>1. rx_next_status_trigger \in SN
    BY DEF RxInv, RxTypeOK
  <2>2. t \in 0 .. sn_modulus - 1 /\ rx_next_status_trigger = Plus(rx_next, t)
    BY <1>3, <2>1, DistRange
  <2>3. rx_next_status_trigger # rx_next /\ t <= h
    BY <1>1 DEF RxInv, TriggerInWindow
  <2>4. t # 0
    BY <1>3, <2>2, <2>3, SlotsOfWindow
  <2> HIDE DEF t, h
  <2> QED BY <1>2, <1>3, <2>1, <2>2, <2>3, <2>4
<1>5. r \in 0 .. h - t /\ (r < W => ~rx_list[Sl(t + r)].delivered)
  <2>1. r = DeliveredRun(rx_list, Plus(rx_next, t))
    BY <1>4
  <2>2. h < W => ~rx_list[Sl(h)].delivered
    BY <1>2, <1>3 DEF IsEmpty
  <2>3. t \in 0 .. h
    BY <1>2, <1>3, <1>4
  <2> HIDE DEF t, h, r
  <2> QED BY <1>3, <2>1, <2>2, <2>3, RunStaysBelow
<1> HIDE DEF t, h, r
<1>6. new \in SN /\ new = Plus(rx_next, t + r) /\ Dist(rx_next, new) = t + r
  <2>1. t \in 0 .. W /\ r \in 0 .. W /\ t + r \in 0 .. sn_modulus - 1
        /\ t + r \in 0 .. sn_modulus
    BY <1>2, <1>3, <1>4, <1>5
  <2>2. new = Plus(rx_next, t + r)
    BY <1>3, <1>4, <2>1, PlusOfPlus
  <2> QED BY <1>3, <2>1, <2>2, PlusInSN, DistOfPlus
<1>7. ~rx_list[get_pos(new)].delivered
  <2>1. r < W
    BY <1>2, <1>3, <1>4, <1>5
  <2> QED BY <1>5, <1>6, <2>1 DEF Sl
<1>8. RxTypeOK'
  BY <1>1, <1>3, <1>4, <1>6 DEF RxInv, RxTypeOK
<1>9. PointersOrdered'
  <2>1. Dist(rx_next, new) <= h
    BY <1>2, <1>3, <1>4, <1>5, <1>6
  <2> QED BY <1>1, <1>7, <2>1 DEF RxInv, PointersOrdered, h
<1>10. TriggerInWindow'
  <2>1. rx_next_highest # rx_next /\ h <= h
    BY <1>2, <1>3, <1>4, DistOfPlus DEF h, Dist, SN
  <2> QED BY <1>1, <2>1 DEF TriggerInWindow, h
<1>11. OneSnPerSlot'
  BY <1>1 DEF RxInv, OneSnPerSlot
<1> QED
  BY <1>8, <1>9, <1>10, <1>11 DEF RxInv

\* A place in the window is a natural number: an SN's distance counts for MaxLen,
\* so that the units of an SN come before those of the next one.
LEMMA PositionRange ==
  ASSUME rx_next \in SN, NEW x \in SN \X Units
  PROVE  /\ Position(x) \in Nat /\ Position(x) <= 2 * W * MaxLen
         /\ Dist(rx_next, x[1]) * MaxLen <= Position(x)
         /\ Position(x) < (Dist(rx_next, x[1]) + 1) * MaxLen
<1>1. W \in Nat /\ sn_modulus = 2 * W /\ MaxLen \in Nat
  BY SizesAssumption DEF sn_modulus
<1>2. Dist(rx_next, x[1]) \in 0 .. 2 * W - 1 /\ x[2] \in 0 .. MaxLen - 1
  BY <1>1, DistRange DEF Units
<1> DEFINE d == Dist(rx_next, x[1])
<1>3. d * MaxLen \in Nat /\ (d + 1) * MaxLen = d * MaxLen + MaxLen
      /\ d * MaxLen <= (2 * W - 1) * MaxLen /\ (2 * W - 1) * MaxLen = 2 * W * MaxLen - MaxLen
      /\ 2 * W * MaxLen \in Nat
  <2> HIDE DEF d
  <2>1. d \in 0 .. 2 * W - 1
    BY <1>2 DEF d
  <2> QED BY <1>1, <2>1
<1>4. Position(x) = d * MaxLen + x[2]
  BY DEF Position
<1> HIDE DEF d
<1>5. /\ Position(x) \in Nat /\ Position(x) <= 2 * W * MaxLen
      /\ d * MaxLen <= Position(x) /\ Position(x) < (d + 1) * MaxLen
  <2> DEFINE p == d * MaxLen
             top == 2 * W * MaxLen
             u == x[2]
             low == (2 * W - 1) * MaxLen
             up == (d + 1) * MaxLen
  <2>1. p \in Nat /\ up = p + MaxLen /\ p <= low /\ low = top - MaxLen /\ top \in Nat
        /\ u \in 0 .. MaxLen - 1 /\ Position(x) = p + u
    BY <1>2, <1>3, <1>4
  <2> HIDE DEF p, top, u, low, up
  <2>2. Position(x) \in Nat /\ Position(x) <= top /\ p <= Position(x) /\ Position(x) < up
    BY <1>1, <2>1
  <2> QED BY <2>2 DEF p, top, up
<1> QED
  BY <1>5 DEF d

\* The last NACK, from which ack_sn comes, exists.
LEMMA LastNackOf ==
  ASSUME rx_next \in SN, NEW nack \in SUBSET (SN \X Units), nack # {}
  PROVE  /\ LastNack(nack) \in nack
         /\ \A y \in nack : Position(y) <= Position(LastNack(nack))
<1> DEFINE top  == 2 * W * MaxLen
           gaps == {top - Position(x) : x \in nack}
<1>1. \A x \in nack : Position(x) \in Nat /\ Position(x) <= top
  BY PositionRange
<1>2. top \in Int
  BY SizesAssumption
<1>3. gaps \in SUBSET Nat /\ gaps # {}
  <2> HIDE DEF top
  <2> QED BY <1>1, <1>2
<1>4. PICK m \in gaps : \A k \in gaps : m <= k
  <2> HIDE DEF gaps
  <2> QED BY <1>3, LeastElement
<1>5. PICK x \in nack : m = top - Position(x)
  BY <1>4
<1>6. \A y \in nack : Position(y) <= Position(x)
  <2> SUFFICES ASSUME NEW y \in nack PROVE Position(y) <= Position(x)
    OBVIOUS
  <2>1. top - Position(x) <= top - Position(y)
    BY <1>4, <1>5
  <2> HIDE DEF top
  <2> QED BY <1>1, <1>2, <2>1
<1> QED
  BY <1>6 DEF LastNack

\* The SNs that a report covers.
LEMMA ReportedSns ==
  ASSUME rx_next \in SN, rx_highest_status \in SN
  PROVE  Reported \subseteq SN /\ Missing \subseteq SN \X Units
<1>1. W \in Nat \ {0, 1} /\ sn_modulus = 2 * W
  BY SizesAssumption DEF sn_modulus
<1>2. Dist(rx_next, rx_highest_status) \in 0 .. sn_modulus - 1
  BY <1>1, DistRange
<1>3. Reported \subseteq SN
  BY <1>1, <1>2, PlusInSN DEF Reported
<1> QED
  BY <1>3 DEF Missing

\* A STATUS PDU is well formed: what is NACKed is in the window.
LEMMA StatusType ==
  ASSUME RxInv, NEW cut
  PROVE  StatusUpTo(cut) \in StatusPdu
<1>1. rx_next \in SN /\ rx_highest_status \in SN
  BY DEF RxInv, RxTypeOK
<1> DEFINE nack == NacksUpTo(cut)
<1>2. nack \in SUBSET (SN \X Units)
  BY <1>1, ReportedSns DEF NacksUpTo
<1>3. StatusUpTo(cut) = [ack_sn |-> IF nack = {} THEN rx_next ELSE Succ(LastNack(nack)[1]),
                         nack |-> nack, wraps |-> FALSE]
  BY DEF StatusUpTo
<1> HIDE DEF nack
<1>4. nack # {} => Succ(LastNack(nack)[1]) \in SN
  BY <1>1, <1>2, LastNackOf, SuccIsPlus
<1> QED
  BY <1>1, <1>2, <1>3, <1>4 DEF StatusPdu

-----------------------------------------------------------------------------
(***************************************************************************)
(* The invariant                                                           *)
(***************************************************************************)

\* A new entity satisfies the invariant: nothing is held and the pointers agree.
LEMMA RxInitInv ==
  ASSUME RxInit
  PROVE  RxInv
<1>1. 0 \in SN /\ Dist(0, 0) = 0 /\ W \in Nat
  BY SizesAssumption DEF SN, sn_modulus, Dist
<1>2. \A k \in 0 .. W - 1 : rx_list[get_pos(Plus(0, k))] = EmptySlot
  BY <1>1, SlotsOfWindow, SizesAssumption DEF RxInit, sn_modulus
<1>3. rx_list[get_pos(0)] = EmptySlot
  BY SizesAssumption DEF RxInit, get_pos, Slots
<1>4. RxTypeOK
  <2>1. EmptySlot \in Slot
    BY DEF EmptySlot, Slot
  <2>2. rx_list \in [Slots -> Slot]
    BY <2>1 DEF RxInit
  <2>3. delivered \in [Ids -> 0 .. 2]
    BY DEF RxInit
  <2> QED BY <1>1, <2>2, <2>3 DEF RxInit, RxTypeOK
<1>5. PointersOrdered
  <2>1. IsEmpty(EmptySlot) /\ ~EmptySlot.delivered
    BY DEF EmptySlot, IsEmpty
  <2>2. \A k \in 0 .. W - 1 : IsEmpty(rx_list[get_pos(Plus(0, k))])
    BY <1>2, <2>1
  <2>3. ~rx_list[get_pos(0)].delivered
    BY <1>3, <2>1
  <2> QED BY <1>1, <2>2, <2>3 DEF RxInit, PointersOrdered
<1>6. TriggerInWindow
  BY DEF RxInit, TriggerInWindow
<1>7. OneSnPerSlot
  BY <1>2 DEF RxInit, OneSnPerSlot, EmptySlot
<1> QED
  BY <1>4, <1>5, <1>6, <1>7 DEF RxInv

\* The variables that the window is made of.
window == <<rxptrs, rx_list, t_reassembly, hung>>

\* A step that touches neither the pointers, the buffer nor the timer keeps
\* what the invariant says of the window (status reports, t_status_prohibit).
LEMMA SameWindow ==
  ASSUME RxInv, UNCHANGED window, RxTypeOK'
  PROVE  RxInv'
BY DEF window, rxptrs, RxInv, PointersOrdered, TriggerInWindow, OneSnPerSlot

\* recv_pdu of a data PDU keeps the invariant, whether it keeps the PDU or not.
LEMMA RecvDataPduInv ==
  ASSUME RxInv, NEW q \in DataPdu, RecvDataPdu(q)
  PROVE  RxInv'
<1>1. ~hung /\ UNCHANGED <<t_status_prohibit, ctl>>
      /\ status_triggered' = (status_triggered \/ Triggers(q))
  BY DEF RecvDataPdu
<1>2. status_triggered' \in BOOLEAN /\ t_status_prohibit' \in BOOLEAN /\ ctl' \subseteq StatusPdu
  BY <1>1 DEF RxInv, RxTypeOK
<1>3. CASE Discarded(q)
  <2>1. UNCHANGED <<rxptrs, rx_list, rx_size, t_reassembly, hung, delivered, garbled>>
    BY <1>3 DEF RecvDataPdu
  <2>2. RxTypeOK'
    BY <1>2, <2>1 DEF RxInv, RxTypeOK, rxptrs
  <2> QED BY <2>1, <2>2, SameWindow DEF window
<1>4. CASE ~Discarded(q)
  <2>1. reception_actions(q)
    BY <1>4 DEF RecvDataPdu
  <2>2. /\ rx_next' \in SN /\ rx_next_status_trigger' \in SN
        /\ rx_highest_status' \in SN /\ rx_next_highest' \in SN
        /\ rx_list' \in BufferType
        /\ t_reassembly' \in BOOLEAN /\ hung' \in BOOLEAN
        /\ PointersOrdered' /\ TriggerInWindow' /\ OneSnPerSlot'
    <3>1. CASE ~rx_list[get_pos(q.sn)].delivered
      BY <1>1, <1>4, <2>1, <3>1, KeepPdu
    <3>2. CASE rx_list[get_pos(q.sn)].delivered
      BY <1>1, <1>4, <2>1, <3>2, LatePdu DEF RxInv, RxTypeOK
    <3> QED BY <3>1, <3>2
  <2>3. \E slot : Deliver(slot) \/ UNCHANGED <<delivered, garbled>>
    BY <2>1 DEF reception_actions
  <2>4. delivered' \in [Ids -> 0 .. 2] /\ garbled' \in BOOLEAN
    BY <2>3, DeliverType DEF RxInv
  <2>5. RxTypeOK'
    BY <1>2, <2>2, <2>4 DEF RxTypeOK, BufferType
  <2> QED BY <2>2, <2>5 DEF RxInv
<1> QED
  BY <1>3, <1>4

\* Every step keeps the invariant.
LEMMA RxStepInv ==
  ASSUME RxInv, [RxNext]_rxvars
  PROVE  RxInv'
<1>1. ASSUME NEW q \in DataPdu, RecvDataPdu(q) PROVE RxInv'
  BY <1>1, RecvDataPduInv
<1>2. CASE ReassemblyExpires
  BY <1>2, ExpiryKeepsWindow
<1>3. CASE StatusProhibitExpires
  <2>1. UNCHANGED window /\ RxTypeOK'
    BY <1>3 DEF StatusProhibitExpires, RxInv, RxTypeOK, window, rxptrs
  <2> QED BY <2>1, SameWindow
<1>4. CASE GenerateStatus
  <2>1. PICK st \in {WholeStatus} \cup {StatusUpTo(Position(x)) : x \in NackStarts} :
          ctl' = ctl \cup {st}
    BY <1>4 DEF GenerateStatus
  <2>2. [ack_sn |-> Succ(rx_next), nack |-> {}, wraps |-> TRUE] \in StatusPdu
    BY SuccIsPlus DEF RxInv, RxTypeOK, StatusPdu
  <2>3. st \in StatusPdu
    BY <2>1, <2>2, StatusType DEF WholeStatus
  <2>4. UNCHANGED window /\ RxTypeOK'
    BY <1>4, <2>1, <2>3 DEF GenerateStatus, RxInv, RxTypeOK, window, rxptrs
  <2> QED BY <2>4, SameWindow
<1>5. CASE CollectStatus
  <2>1. UNCHANGED window /\ RxTypeOK'
    BY <1>5 DEF CollectStatus, RxInv, RxTypeOK, window, rxptrs
  <2> QED BY <2>1, SameWindow
<1>6. CASE RxReestablish
  <2>1. 0 \in SN /\ Dist(0, 0) = 0 /\ W \in Nat
    BY SizesAssumption DEF SN, sn_modulus, Dist
  <2>2. rx_list' = [s \in Slots |-> EmptySlot] /\ rx_next' = 0 /\ rx_next_highest' = 0
        /\ rx_highest_status' = 0 /\ rx_next_status_trigger' = 0 /\ t_reassembly' = FALSE
    BY <1>6 DEF RxReestablish
  <2>3. \A k \in 0 .. W - 1 : rx_list'[get_pos(Plus(0, k))] = EmptySlot
    BY <2>1, <2>2, SlotsOfWindow, SizesAssumption DEF sn_modulus
  <2>4. rx_list'[get_pos(0)] = EmptySlot
    BY <2>2, SizesAssumption DEF get_pos, Slots
  <2>5. RxTypeOK'
    BY <1>6, <2>1, SlotTypes DEF RxReestablish, RxInv, RxTypeOK, BufferType
  <2>6. PointersOrdered'
    <3>1. IsEmpty(EmptySlot) /\ ~EmptySlot.delivered
      BY DEF EmptySlot, IsEmpty
    <3>2. \A k \in 0 .. W - 1 : IsEmpty(rx_list'[get_pos(Plus(0, k))])
      BY <2>3, <3>1
    <3>3. ~rx_list'[get_pos(0)].delivered
      BY <2>4, <3>1
    <3> QED BY <2>1, <2>2, <3>2, <3>3 DEF PointersOrdered
  <2>7. TriggerInWindow'
    BY <2>2 DEF TriggerInWindow
  <2>8. OneSnPerSlot'
    BY <2>2, <2>3 DEF OneSnPerSlot, EmptySlot
  <2> QED BY <2>5, <2>6, <2>7, <2>8 DEF RxInv
<1>7. CASE UNCHANGED rxvars
  <2>1. UNCHANGED window /\ RxTypeOK'
    BY <1>7 DEF rxvars, RxInv, RxTypeOK, window, rxptrs
  <2> QED BY <2>1, SameWindow
<1> QED
  BY <1>1, <1>2, <1>3, <1>4, <1>5, <1>6, <1>7 DEF RxNext

\* The receive window keeps its shape whatever PDUs come, in whatever order, and
\* whenever the timers expire.
THEOREM RxInvariant == RxSpec => []RxInv
<1>1. RxInit => RxInv
  BY RxInitInv
<1>2. RxInv /\ [RxNext]_rxvars => RxInv'
  BY RxStepInv
<1> QED
  BY <1>1, <1>2, PTL DEF RxSpec

\* Every variable of the receiver keeps its type; the pointers never leave the
\* sequence number space, and a STATUS PDU only reports SNs of that space.
THEOREM RxTypes == RxSpec => []RxTypeOK
BY RxInvariant, PTL DEF RxInv

\* rx_next, rx_highest_status and rx_next_highest stay in order in one window,
\* and what reception_actions and the status search rely on holds: no slot above
\* rx_next_highest is in use, and none of the two pointers is at a delivered SDU.
THEOREM RxPointersOrdered == RxSpec => []PointersOrdered
BY RxInvariant, PTL DEF RxInv

\* t_reassembly never runs for an SDU that has left the window.
THEOREM RxTriggerInWindow == RxSpec => []TriggerInWindow
BY RxInvariant, PTL DEF RxInv

\* The PDUs of two SNs one window apart are never in the buffer slot together.
THEOREM RxOneSnPerSlot == RxSpec => []OneSnPerSlot
BY RxInvariant, PTL DEF RxInv

-----------------------------------------------------------------------------
(***************************************************************************)
(* The size of what is held                                                *)
(*                                                                         *)
(* What a step adds to rx_size and takes off it against the sum over the   *)
(* buffer before and after it.                                             *)
(***************************************************************************)

\* There are finitely many data PDUs.
LEMMA DataPdusFinite ==
  IsFiniteSet(DataPdu)
<1> DEFINE T == Ids \X (SN \X (Units \X ((1 .. MaxLen) \X (BOOLEAN \X BOOLEAN))))
           f == [q \in DataPdu |-> <<q.id, <<q.sn, <<q.so, <<q.size, <<q.is_last, q.p>>>>>>>>>>]
<1>1. IsFiniteSet(Ids) /\ IsFiniteSet(SN) /\ IsFiniteSet(Units) /\ IsFiniteSet(1 .. MaxLen)
  BY SizesAssumption, FS_Interval DEF Ids, SN, Units, sn_modulus
<1>2. IsFiniteSet(BOOLEAN)
  <2>1. IsFiniteSet({TRUE}) /\ BOOLEAN = {TRUE} \cup {FALSE}
    BY FS_Singleton
  <2> QED BY <2>1, FS_AddElement
<1>3. IsFiniteSet(T)
  <2>1. IsFiniteSet(BOOLEAN \X BOOLEAN)
    BY <1>2, FS_Product
  <2>2. IsFiniteSet((1 .. MaxLen) \X (BOOLEAN \X BOOLEAN))
    BY <1>1, <2>1, FS_Product
  <2>3. IsFiniteSet(Units \X ((1 .. MaxLen) \X (BOOLEAN \X BOOLEAN)))
    BY <1>1, <2>2, FS_Product
  <2>4. IsFiniteSet(SN \X (Units \X ((1 .. MaxLen) \X (BOOLEAN \X BOOLEAN))))
    BY <1>1, <2>3, FS_Product
  <2> QED BY <1>1, <2>4, FS_Product
<1>4. f \in Injection(DataPdu, T)
  <2>1. f \in [DataPdu -> T]
    BY DEF DataPdu
  <2>2. ASSUME NEW q \in DataPdu, NEW r \in DataPdu, f[q] = f[r] PROVE q = r
    <3>1. /\ q.id = r.id /\ q.sn = r.sn /\ q.so = r.so /\ q.size = r.size
          /\ q.is_last = r.is_last /\ q.p = r.p
      BY <2>2
    <3> QED BY <3>1 DEF DataPdu
  <2> QED BY <2>1, <2>2 DEF Injection, IsInjective
<1> HIDE DEF f, T
<1> QED
  BY <1>3, <1>4, FS_Injection


\* The two sums of PDU sizes in the model are Totals.
LEMMA PairSumIsTotal ==
  ASSUME NEW S, IsFiniteSet(S)
  PROVE  SizeOf(S) = Total([x \in S |-> x[2].size], S)
<1> DEFINE f == [x \in S |-> x[2].size]
           P(g) == g = [s \in SUBSET S |-> IF s = {} THEN 0 ELSE OneOf(s)[2].size + g[s \ {OneOf(s)}]]
<1>1. SizeOf(S) = (CHOOSE g : P(g))[S]
  BY DEF SizeOf, MapThenSumSet, MapThenFoldSet, OneOf
<1>2. \A s \in SUBSET S : s # {} => f[OneOf(s)] = OneOf(s)[2].size
  BY AnyIn
<1>3. ASSUME NEW g, SumTable(g, f, S) PROVE P(g)
  BY <1>2, <1>3 DEF SumTable
<1>4. ASSUME NEW g, P(g) PROVE SumTable(g, f, S)
  BY <1>2, <1>4 DEF SumTable
<1> HIDE DEF f, P
<1>5. \E g : P(g)
  BY <1>3, TableExists
<1>6. SumTable(CHOOSE g : P(g), f, S)
  BY <1>4, <1>5
<1>7. (CHOOSE g : P(g))[S] = Total(f, S)
  BY <1>6, TotalOfTable DEF Agree
<1> QED
  BY <1>1, <1>7 DEF f

\* What reassembly gives back is the sum of the sizes of the PDUs of the slot.
LEMMA FreedSizeIsTotal ==
  ASSUME NEW slot, IsFiniteSet(slot.pdus)
  PROVE  FreedSize(slot) = Total([q \in slot.pdus |-> q.size], slot.pdus)
<1> DEFINE S == slot.pdus
           f == [q \in S |-> q.size]
           P(g) == g = [s \in SUBSET S |-> IF s = {} THEN 0 ELSE OneOf(s).size + g[s \ {OneOf(s)}]]
<1>0. IsFiniteSet(S)
  OBVIOUS
<1>1. FreedSize(slot) = (CHOOSE g : P(g))[S]
  BY DEF FreedSize, MapThenSumSet, MapThenFoldSet, OneOf
<1>2. \A s \in SUBSET S : s # {} => f[OneOf(s)] = OneOf(s).size
  BY AnyIn
<1>3. ASSUME NEW g, SumTable(g, f, S) PROVE P(g)
  BY <1>2, <1>3 DEF SumTable
<1>4. ASSUME NEW g, P(g) PROVE SumTable(g, f, S)
  BY <1>2, <1>4 DEF SumTable
<1> HIDE DEF f, P, S
<1>5. \E g : P(g)
  BY <1>0, <1>3, TableExists
<1>6. SumTable(CHOOSE g : P(g), f, S)
  BY <1>4, <1>5
<1>7. (CHOOSE g : P(g))[S] = Total(f, S)
  BY <1>0, <1>6, TotalOfTable DEF Agree
<1> QED
  BY <1>1, <1>7 DEF f, S

\* The PDUs that a buffer holds, each with its slot, and their sizes.
KeptIn(list) == {x \in Slots \X DataPdu : x[2] \in list[x[1]].pdus}
Sizes        == [x \in Slots \X DataPdu |-> x[2].size]
SumOf(pdus)  == Total([q \in pdus |-> q.size], pdus)

\* Whatever is held is finite, and sizes are integers.
LEMMA KeptFinite ==
  /\ IsFiniteSet(Slots \X DataPdu)
  /\ \A x \in Slots \X DataPdu : Sizes[x] = x[2].size /\ Sizes[x] \in Int
  /\ \A q \in DataPdu : q.size \in Nat \ {0}
<1>1. IsFiniteSet(Slots)
  BY SizesAssumption, FS_Interval DEF Slots
<1>2. \A q \in DataPdu : q.size \in Nat \ {0}
  BY DEF DataPdu
<1>3. \A x \in Slots \X DataPdu : Sizes[x] = x[2].size /\ Sizes[x] \in Int
  BY <1>2 DEF Sizes
<1> QED
  BY <1>1, <1>2, <1>3, DataPdusFinite, FS_Product

\* Sums over PDUs and their slots, and what the buffer holds, as Totals.
LEMMA SizeIsTotal ==
  /\ \A S \in SUBSET (Slots \X DataPdu) :
       /\ IsFiniteSet(S) /\ SizeOf(S) = Total(Sizes, S) /\ SizeOf(S) \in Nat
  /\ RxTypeOK => HeldPdus = KeptIn(rx_list) /\ KeptIn(rx_list) \in SUBSET (Slots \X DataPdu)
  /\ RxTypeOK' => HeldPdus' = KeptIn(rx_list') /\ KeptIn(rx_list') \in SUBSET (Slots \X DataPdu)
<1>1. ASSUME NEW S \in SUBSET (Slots \X DataPdu)
      PROVE  IsFiniteSet(S) /\ SizeOf(S) = Total(Sizes, S) /\ SizeOf(S) \in Nat
  <2> DEFINE f == [x \in S |-> x[2].size]
  <2>1. IsFiniteSet(S)
    BY KeptFinite, FS_Subset
  <2>2. \A x \in S : f[x] = Sizes[x]
    BY KeptFinite
  <2>3. Total(f, S) = Total(Sizes, S)
    <3> HIDE DEF f
    <3> QED BY <2>1, <2>2, TotalSame
  <2>4. \A x \in S : x[2] \in DataPdu
    OBVIOUS
  <2>5. \A x \in S : Sizes[x] \in Nat
    BY <2>4, KeptFinite
  <2>6. Total(Sizes, S) \in Nat
    BY <2>1, <2>5, TotalNat
  <2> QED BY <2>1, <2>3, <2>6, PairSumIsTotal
<1>2. RxTypeOK => HeldPdus = KeptIn(rx_list)
  <2> SUFFICES ASSUME RxTypeOK PROVE HeldPdus = KeptIn(rx_list)
    OBVIOUS
  <2>1. \A s \in Slots : rx_list[s].pdus \in SUBSET DataPdu
    BY DEF RxTypeOK, Slot
  <2> QED BY <2>1 DEF KeptIn, HeldPdus
<1>3. RxTypeOK' => HeldPdus' = KeptIn(rx_list')
  <2> SUFFICES ASSUME RxTypeOK' PROVE HeldPdus' = KeptIn(rx_list')
    OBVIOUS
  <2>1. \A s \in Slots : rx_list'[s].pdus \in SUBSET DataPdu
    BY DEF RxTypeOK, Slot
  <2> QED BY <2>1 DEF KeptIn, HeldPdus
<1> QED
  BY <1>1, <1>2, <1>3 DEF KeptIn

\* One slot changes: the total changes by what it held and what it holds.
LEMMA KeptUpdate ==
  ASSUME NEW l \in BufferType, NEW m \in BufferType, NEW s \in Slots,
         \A t \in Slots : t # s => m[t].pdus = l[t].pdus
  PROVE  /\ Total(Sizes, KeptIn(m)) = Total(Sizes, KeptIn(l)) - SumOf(l[s].pdus) + SumOf(m[s].pdus)
         /\ Total(Sizes, KeptIn(l)) \in Int /\ SumOf(l[s].pdus) \in Int /\ SumOf(m[s].pdus) \in Int
<1> DEFINE Pairs(P) == {x \in Slots \X DataPdu : x[1] = s /\ x[2] \in P}
           Rest     == {x \in KeptIn(l) : x[1] # s}
<1>1. ASSUME NEW P \in SUBSET DataPdu
      PROVE  Total(Sizes, Pairs(P)) = SumOf(P) /\ SumOf(P) \in Int /\ IsFiniteSet(Pairs(P))
  <2> DEFINE f == [q \in P |-> q.size]
             b == [q \in P |-> <<s, q>>]
  <2>1. IsFiniteSet(P)
    BY DataPdusFinite, FS_Subset
  <2>2. b \in Bijection(P, Pairs(P))
    <3>1. b \in [P -> Pairs(P)]
      OBVIOUS
    <3>2. \A q, r \in P : b[q] = b[r] => q = r
      OBVIOUS
    <3>3. \A x \in Pairs(P) : x[2] \in P /\ b[x[2]] = x
      OBVIOUS
    <3> HIDE DEF b, Pairs
    <3> QED BY <3>1, <3>2, <3>3 DEF Bijection, Injection, Surjection, IsInjective
  <2>3. \A q \in P : f[q] \in Int /\ Sizes[b[q]] = f[q]
    BY KeptFinite
  <2>4. Total(f, P) \in Int
    <3>1. \A q \in P : f[q] \in Int
      BY <2>3
    <3> HIDE DEF f
    <3> QED BY <2>1, <3>1, TotalRemove
  <2>5. IsFiniteSet(Pairs(P))
    BY KeptFinite, FS_Subset
  <2> HIDE DEF b, Pairs
  <2>6. Total(f, P) = Total(Sizes, Pairs(P))
    <3> HIDE DEF f
    <3> QED BY <2>1, <2>2, <2>3, TotalReindex
  <2> QED BY <2>4, <2>5, <2>6 DEF SumOf
<1>2. l[s].pdus \in SUBSET DataPdu /\ m[s].pdus \in SUBSET DataPdu
  BY DEF BufferType, Slot
<1>3. KeptIn(l) = Rest \cup Pairs(l[s].pdus) /\ KeptIn(m) = Rest \cup Pairs(m[s].pdus)
  BY DEF KeptIn
<1>4. /\ Rest \cap Pairs(l[s].pdus) = {} /\ Rest \cap Pairs(m[s].pdus) = {}
      /\ Rest \in SUBSET (Slots \X DataPdu)
      /\ Pairs(l[s].pdus) \in SUBSET (Slots \X DataPdu)
      /\ Pairs(m[s].pdus) \in SUBSET (Slots \X DataPdu)
  BY DEF KeptIn
<1> HIDE DEF Rest, Pairs
<1>5. IsFiniteSet(Rest)
  BY <1>4, KeptFinite, FS_Subset
<1>6. ASSUME NEW P \in SUBSET DataPdu, Rest \cap Pairs(P) = {},
             Pairs(P) \in SUBSET (Slots \X DataPdu)
      PROVE  Total(Sizes, Rest \cup Pairs(P)) = Total(Sizes, Rest) + SumOf(P)
             /\ Total(Sizes, Rest) \in Int
  <2>1. \A x \in Rest \cup Pairs(P) : Sizes[x] \in Int
    BY <1>4, <1>6, KeptFinite
  <2>2. /\ Total(Sizes, Rest) \in Int
        /\ Total(Sizes, Rest \cup Pairs(P)) = Total(Sizes, Rest) + Total(Sizes, Pairs(P))
    BY <1>1, <1>5, <1>6, <2>1, TotalUnion
  <2> QED BY <1>1, <2>2
<1>7. /\ Total(Sizes, KeptIn(l)) = Total(Sizes, Rest) + SumOf(l[s].pdus)
      /\ Total(Sizes, KeptIn(m)) = Total(Sizes, Rest) + SumOf(m[s].pdus)
      /\ Total(Sizes, Rest) \in Int
  BY <1>2, <1>3, <1>4, <1>6
<1>8. SumOf(l[s].pdus) \in Int /\ SumOf(m[s].pdus) \in Int
  BY <1>1, <1>2
<1> QED
  BY <1>7, <1>8

\* One PDU more in a slot.
LEMMA SumOfMore ==
  ASSUME NEW P \in SUBSET DataPdu, NEW q \in DataPdu, q \notin P
  PROVE  SumOf(P \cup {q}) = SumOf(P) + q.size /\ SumOf(P) \in Int
<1> DEFINE f == [r \in P \cup {q} |-> r.size]
<1>1. IsFiniteSet(P) /\ \A r \in P \cup {q} : f[r] \in Int
  BY DataPdusFinite, FS_Subset, KeptFinite
<1>2. Total(f, P \cup {q}) = f[q] + Total(f, P) /\ Total(f, P) \in Int
  <2> HIDE DEF f
  <2> QED BY <1>1, TotalAdd, TotalRemove
<1>3. Total(f, P) = SumOf(P)
  BY <1>1, TotalSame DEF SumOf
<1>4. Total(f, P \cup {q}) = SumOf(P \cup {q})
  BY DEF SumOf
<1> HIDE DEF f
<1>5. f[q] = q.size /\ q.size \in Int
  BY KeptFinite DEF f
<1> QED
  BY <1>2, <1>3, <1>4, <1>5

\* A buffer whose slots are all empty holds nothing.
LEMMA EmptyBuffer ==
  ASSUME NEW list, list = [s \in Slots |-> EmptySlot]
  PROVE  /\ KeptIn(list) = {} /\ Total(Sizes, KeptIn(list)) = 0
         /\ \A s \in Slots : ~list[s].delivered
<1>1. KeptIn(list) = {} /\ \A s \in Slots : ~list[s].delivered
  BY DEF KeptIn, EmptySlot
<1> QED
  BY <1>1, TotalEmpty

\* The facts about a PDU that is kept: it is new in its slot.
LEMMA NewInSlot ==
  ASSUME RxTypeOK, NEW q \in DataPdu, ~Discarded(q), get_pos(q.sn) \in Slots
  PROVE  /\ [q EXCEPT !.p = FALSE] \in DataPdu
         /\ [q EXCEPT !.p = FALSE] \notin rx_list[get_pos(q.sn)].pdus
         /\ [q EXCEPT !.p = FALSE].size = q.size
         /\ SlotWith(q) \in Slot
         /\ SlotWith(q).pdus = rx_list[get_pos(q.sn)].pdus \cup {[q EXCEPT !.p = FALSE]}
         /\ SlotWith(q).delivered = rx_list[get_pos(q.sn)].delivered
         /\ SlotWith(q).freed = rx_list[get_pos(q.sn)].freed
<1> DEFINE p == [q EXCEPT !.p = FALSE]
           slot == rx_list[get_pos(q.sn)]
<1>1. p \in DataPdu /\ p.size = q.size /\ p.so = q.so
  BY DEF DataPdu
<1>2. Bytes(p) = Bytes(q)
  BY <1>1 DEF Bytes
<1>3. ~(Bytes(q) \subseteq Covered(slot))
  BY DEF Discarded, segment_already_received
<1>4. p \notin slot.pdus
  <2> SUFFICES ASSUME p \in slot.pdus PROVE FALSE
    OBVIOUS
  <2>1. Bytes(p) \subseteq Covered(slot)
    BY DEF Covered, WithData
  <2> QED BY <1>2, <1>3, <2>1
<1>5. slot \in Slot
  BY DEF RxTypeOK
<1>6. /\ SlotWith(q) \in Slot /\ SlotWith(q).pdus = slot.pdus \cup {p}
      /\ SlotWith(q).delivered = slot.delivered /\ SlotWith(q).freed = slot.freed
  <2>1. SlotWith(q) = [slot EXCEPT !.pdus = slot.pdus \cup {p}]
    BY DEF SlotWith
  <2> HIDE DEF slot, p
  <2> QED BY <1>1, <1>5, <2>1 DEF Slot
<1> QED
  BY <1>1, <1>4, <1>6

\* The account of a step: rx_size changes as the total held does, but for `lost`.
Changes(lost) ==
  rx_size' - Total(Sizes, KeptIn(rx_list')) = rx_size - Total(Sizes, KeptIn(rx_list)) + lost

\* What the buffer holds once q is put in its slot, and its SDU delivered if that
\* completes it, has changed as rx_size does.
LEMMA PutSize ==
  ASSUME RxTypeOK, NEW q \in DataPdu, ~Discarded(q), get_pos(q.sn) \in Slots,
         FreedWith(q) \in BufferType, rx_size \in Int,
         rx_size' = rx_size + q.size - (IF Completes(q) THEN FreedSize(SlotWith(q)) ELSE 0)
  PROVE  /\ rx_size' - Total(Sizes, KeptIn(FreedWith(q))) = rx_size - Total(Sizes, KeptIn(rx_list))
         /\ rx_size' \in Int /\ rx_size' <= rx_size + q.size
<1> DEFINE s == get_pos(q.sn)
           P == rx_list[s].pdus
           p == [q EXCEPT !.p = FALSE]
           fl == FreedWith(q)
<1>2. rx_list \in BufferType /\ P \in SUBSET DataPdu
  BY DEF RxTypeOK, BufferType, Slot
<1>3. /\ p \in DataPdu /\ p \notin P /\ p.size = q.size
      /\ SlotWith(q).pdus = P \cup {p}
  BY NewInSlot
<1>4. /\ \A t \in Slots : t # s => fl[t] = rx_list[t]
      /\ fl[s] = IF Completes(q) THEN FreedSlot(SlotWith(q)) ELSE SlotWith(q)
  BY <1>2 DEF FreedWith, BufferType
<1> DEFINE old == SumOf(P)
           new == SumOf(fl[s].pdus)
           before == Total(Sizes, KeptIn(rx_list))
           after == Total(Sizes, KeptIn(fl))
<1>5. /\ after = before - old + new /\ before \in Int /\ old \in Int /\ new \in Int
  <2> HIDE DEF fl
  <2> QED BY <1>2, <1>4, KeptUpdate DEF fl
<1>6. SumOf(P \cup {p}) = old + q.size /\ q.size \in Int
  <2> HIDE DEF P, p
  <2> QED BY <1>2, <1>3, SumOfMore, KeptFinite
<1>8. FreedSize(SlotWith(q)) = old + q.size
  <2>1. IsFiniteSet(P \cup {p})
    BY <1>2, <1>3, DataPdusFinite, FS_Subset
  <2> HIDE DEF P, p
  <2> QED BY <1>3, <1>6, <2>1, FreedSizeIsTotal DEF SumOf
<1>7. old \in Nat
  <2>1. IsFiniteSet(P) /\ \A r \in P : [r1 \in P |-> r1.size][r] \in Nat
    BY <1>2, DataPdusFinite, FS_Subset, KeptFinite
  <2> QED BY <2>1, TotalNat DEF SumOf
<1>9. rx_size' - after = rx_size - before /\ rx_size' \in Int /\ rx_size' <= rx_size + q.size
  <2>1. CASE Completes(q)
    <3>1. fl[s].pdus = {}
      BY <1>4, <2>1 DEF FreedSlot
    <3>2. new = 0
      BY <3>1, TotalEmpty DEF SumOf
    <3>3. rx_size' = rx_size + q.size - FreedSize(SlotWith(q)) /\ q.size \in Nat
      BY <2>1 DEF DataPdu
    <3> HIDE DEF old, new, before, after
    <3> QED BY <1>5, <1>6, <1>7, <1>8, <3>2, <3>3
  <2>2. CASE ~Completes(q)
    <3>1. fl[s].pdus = P \cup {p}
      BY <1>3, <1>4, <2>2
    <3>2. new = old + q.size
      BY <1>6, <3>1
    <3> HIDE DEF old, new, before, after
    <3>3. rx_size' = rx_size + q.size - 0
      BY <2>2
    <3> QED BY <1>5, <1>6, <1>7, <3>2, <3>3
  <2> QED BY <2>1, <2>2
<1> QED
  BY <1>9

\* Keeping a PDU: the window moves past slots that were delivered, and what they still
\* hold is what the account loses.
LEMMA KeepSize ==
  ASSUME RxInv, ~hung, NEW q \in DataPdu, ~Discarded(q), reception_actions(q), RxTypeOK',
         rx_size \in Int
  PROVE  Changes(Total(Sizes, Forgotten)) /\ rx_size' \in Int /\ rx_size' <= RxMax
<1> DEFINE s == get_pos(q.sn)
           fl == FreedWith(q)
<1>1. RxTypeOK /\ rx_list \in BufferType /\ rx_size + q.size <= RxMax
      /\ q.size \in Int /\ RxMax \in Int
  BY RxAssumption DEF RxInv, RxTypeOK, BufferType, Discarded, DataPdu
<1>2. CASE rx_list[s].delivered
  <2>1. /\ rx_list' = [rx_list EXCEPT ![s] = SlotWith(q)] /\ rx_size' = rx_size + q.size
        /\ s \in Slots /\ rx_list' \in BufferType /\ SlotWith(q).delivered
    BY <1>2, LatePdu
  <2>2. ~Completes(q)
    BY <2>1 DEF Completes, sdu_full
  <2>3. fl = rx_list'
    BY <2>1, <2>2 DEF FreedWith
  <2>4. rx_size' = rx_size + q.size - (IF Completes(q) THEN FreedSize(SlotWith(q)) ELSE 0)
    BY <1>1, <2>1, <2>2
  <2>5. /\ rx_size' - Total(Sizes, KeptIn(rx_list')) = rx_size - Total(Sizes, KeptIn(rx_list))
        /\ rx_size' \in Int /\ rx_size' <= rx_size + q.size
    BY <1>1, <2>1, <2>3, <2>4, PutSize
  <2>6. \A t \in Slots : rx_list[t].delivered => rx_list'[t].delivered
    BY <1>1, <2>1 DEF BufferType
  <2>7. Forgotten = {}
    BY <2>6 DEF Forgotten, HeldPdus
  <2>8. Total(Sizes, Forgotten) = 0
    BY <2>7, TotalEmpty
  <2>9. Total(Sizes, KeptIn(rx_list)) \in Int
    BY <1>1, SizeIsTotal
  <2> QED BY <1>1, <2>5, <2>8, <2>9 DEF Changes
<1>3. CASE ~rx_list[s].delivered
  <2>1. KeepEffect(q)
    BY <1>3, KeepPdu
  <2>2. s \in Slots /\ fl \in BufferType
    BY <2>1 DEF KeepEffect
  <2>3. /\ rx_size' - Total(Sizes, KeptIn(fl)) = rx_size - Total(Sizes, KeptIn(rx_list))
        /\ rx_size' \in Int /\ rx_size' <= rx_size + q.size
    BY <1>1, <2>1, <2>2, PutSize DEF KeepEffect
  <2>4. /\ \A t \in Slots : t # s => fl[t] = rx_list[t]
        /\ fl[s].delivered => fl[s].pdus = {}
    <3>1. /\ \A t \in Slots : t # s => fl[t] = rx_list[t]
          /\ fl[s] = IF Completes(q) THEN FreedSlot(SlotWith(q)) ELSE SlotWith(q)
      BY <1>1, <2>2 DEF FreedWith, BufferType
    <3>2. SlotWith(q).delivered = rx_list[s].delivered
      BY <1>1, <2>2, NewInSlot
    <3> QED BY <1>3, <3>1, <3>2 DEF FreedSlot
  <2> HIDE DEF fl
  \* A slot is as in `fl`, or it was delivered there and is empty now.
  <2>5. \A t \in Slots : \/ rx_list'[t] = fl[t]
                         \/ rx_list'[t] = EmptySlot /\ fl[t].delivered
    <3>1. CASE hung'
      BY <2>1, <3>1 DEF KeepEffect, fl
    <3>2. CASE ~hung'
      <4> SUFFICES ASSUME NEW t \in Slots
                   PROVE  rx_list'[t] = fl[t] \/ (rx_list'[t] = EmptySlot /\ fl[t].delivered)
        OBVIOUS
      <4>1. PICK k \in 0 .. W - 1 : t = Sl(k)
        BY SlotsOfWindow DEF Sl, RxInv, RxTypeOK
      <4>2. rx_list'[t] = IF k < Moves(q) THEN EmptySlot ELSE fl[t]
        BY <2>1, <3>2, <4>1 DEF KeepEffect, fl
      <4>3. CASE k < Moves(q)
        <5>1. k \in 0 .. Moves(q) - 1
          BY <2>1, <4>3, SizesAssumption DEF KeepEffect
        <5>2. fl[t].delivered
          BY <2>1, <4>1, <5>1 DEF KeepEffect, fl
        <5> QED BY <4>2, <4>3, <5>2
      <4>4. CASE ~(k < Moves(q))
        BY <4>2, <4>4
      <4> QED BY <4>3, <4>4
    <3> QED BY <3>1, <3>2
  <2>6. HeldPdus = KeptIn(rx_list) /\ KeptIn(rx_list) \in SUBSET (Slots \X DataPdu)
    BY <1>1, SizeIsTotal
  <2>7. EmptySlot.pdus = {} /\ ~EmptySlot.delivered
    BY DEF EmptySlot
  <2>8. ASSUME NEW x \in Slots \X DataPdu
        PROVE  /\ x \in KeptIn(fl) <=> x \in KeptIn(rx_list') \/ x \in Forgotten
               /\ ~(x \in KeptIn(rx_list') /\ x \in Forgotten)
    <3> DEFINE t == x[1]
    <3>1. t \in Slots
      OBVIOUS
    <3>2. /\ x \in Forgotten <=> /\ x[2] \in rx_list[t].pdus
                                 /\ rx_list[t].delivered /\ ~rx_list'[t].delivered
          /\ x \in KeptIn(fl) <=> x[2] \in fl[t].pdus
          /\ x \in KeptIn(rx_list') <=> x[2] \in rx_list'[t].pdus
      BY <2>6 DEF Forgotten, KeptIn
    <3> HIDE DEF t
    <3>3. CASE t = s
      BY <1>3, <2>4, <2>5, <2>7, <3>1, <3>2, <3>3
    <3>4. CASE t # s
      BY <2>4, <2>5, <2>7, <3>1, <3>2, <3>4
    <3> QED BY <3>3, <3>4
  <2>9. Forgotten \in SUBSET (Slots \X DataPdu) /\ KeptIn(rx_list') \in SUBSET (Slots \X DataPdu)
    BY <2>6 DEF Forgotten, KeptIn
  <2>10. KeptIn(fl) = KeptIn(rx_list') \cup Forgotten /\ KeptIn(rx_list') \cap Forgotten = {}
    <3>1. KeptIn(fl) \in SUBSET (Slots \X DataPdu)
      BY DEF KeptIn
    <3> QED BY <2>8, <2>9, <3>1
  <2>11. /\ Total(Sizes, KeptIn(fl)) = Total(Sizes, KeptIn(rx_list')) + Total(Sizes, Forgotten)
         /\ Total(Sizes, KeptIn(rx_list')) \in Int /\ Total(Sizes, Forgotten) \in Int
         /\ Total(Sizes, KeptIn(rx_list)) \in Int
    <3>1. IsFiniteSet(KeptIn(rx_list')) /\ IsFiniteSet(Forgotten)
      BY <2>9, SizeIsTotal
    <3>2. \A x \in KeptIn(rx_list') \cup Forgotten : Sizes[x] \in Int
      BY <2>9, KeptFinite
    <3>3. Total(Sizes, KeptIn(rx_list)) \in Int
      BY <2>6, SizeIsTotal
    <3> QED BY <2>10, <3>1, <3>2, <3>3, TotalUnion
  <2>12. rx_size' <= RxMax
    BY <1>1, <2>3
  <2> QED BY <1>1, <2>3, <2>11, <2>12 DEF Changes
<1> QED
  BY <1>2, <1>3

\* What a step changes in the account, when it starts within the limits.
SizeBounds == rx_size \in Int /\ Total(Sizes, KeptIn(rx_list)) <= rx_size /\ rx_size <= RxMax

AccountsStep ==
  \/ rx_size' = 0 /\ rx_list' = [s \in Slots |-> EmptySlot]
  \/ rx_size' - SizeOf(HeldPdus') = rx_size - SizeOf(HeldPdus) + SizeOf(Forgotten)

\* Every step keeps the account.
LEMMA RxSizeStep ==
  ASSUME RxInv, RxInv', SizeBounds, [RxNext]_rxvars
  PROVE  SizeBounds' /\ AccountsStep
<1>1. /\ RxTypeOK /\ HeldPdus = KeptIn(rx_list) /\ HeldPdus' = KeptIn(rx_list')
      /\ SizeOf(HeldPdus) = Total(Sizes, KeptIn(rx_list)) /\ SizeOf(HeldPdus) \in Nat
      /\ SizeOf(HeldPdus') = Total(Sizes, KeptIn(rx_list')) /\ SizeOf(HeldPdus') \in Nat
  BY SizeIsTotal DEF RxInv
<1>2. /\ Forgotten \in SUBSET (Slots \X DataPdu)
      /\ SizeOf(Forgotten) = Total(Sizes, Forgotten) /\ SizeOf(Forgotten) \in Nat
  <2>1. Forgotten \in SUBSET (Slots \X DataPdu)
    BY <1>1, SizeIsTotal DEF Forgotten
  <2> QED BY <2>1, SizeIsTotal
<1>3. ASSUME UNCHANGED <<rx_list, rx_size>> PROVE SizeBounds' /\ AccountsStep
  <2>1. Forgotten = {} /\ HeldPdus' = HeldPdus
    BY <1>3 DEF Forgotten, HeldPdus
  <2>2. SizeOf(Forgotten) = 0
    BY <1>2, <2>1, TotalEmpty
  <2>3. rx_size \in Int
    BY DEF SizeBounds
  <2> QED BY <1>1, <1>3, <2>1, <2>2, <2>3 DEF SizeBounds, AccountsStep
<1>4. ASSUME NEW q \in DataPdu, RecvDataPdu(q) PROVE SizeBounds' /\ AccountsStep
  <2>1. CASE Discarded(q)
    BY <1>3, <1>4, <2>1 DEF RecvDataPdu
  <2>2. CASE ~Discarded(q)
    <3>1. Changes(Total(Sizes, Forgotten)) /\ rx_size' \in Int /\ rx_size' <= RxMax
      BY <1>4, <2>2, KeepSize DEF RecvDataPdu, RxInv, SizeBounds
    <3> QED BY <1>1, <1>2, <3>1 DEF Changes, AccountsStep, SizeBounds
  <2> QED BY <2>1, <2>2
<1>5. CASE RxReestablish
  <2>1. rx_list' = [s \in Slots |-> EmptySlot] /\ rx_size' = 0
    BY <1>5 DEF RxReestablish
  <2> QED BY <2>1, EmptyBuffer, RxAssumption DEF SizeBounds, AccountsStep
<1>6. CASE ReassemblyExpires \/ StatusProhibitExpires \/ GenerateStatus \/ CollectStatus
  BY <1>3, <1>6 DEF ReassemblyExpires, StatusProhibitExpires, GenerateStatus, CollectStatus
<1>7. CASE UNCHANGED rxvars
  BY <1>3, <1>7 DEF rxvars
<1> QED
  BY <1>4, <1>5, <1>6, <1>7 DEF RxNext

LEMMA RxSizeInit ==
  ASSUME RxInit
  PROVE  SizeBounds
BY EmptyBuffer, RxAssumption DEF RxInit, SizeBounds

\* rx_size changes with what the buffer holds, whatever comes and in whatever order, but
\* for the PDUs past the end of a delivered SDU that go with the window: these stay
\* counted.
THEOREM RxSizeIsAccounted == RxSpec => RxSizeAccounts
<1>1. RxInit => RxInv /\ SizeBounds
  BY RxInitInv, RxSizeInit
<1>2. RxInv /\ SizeBounds /\ [RxNext]_rxvars => (RxInv /\ SizeBounds)'
  BY RxStepInv, RxSizeStep
<1>3. RxInv /\ SizeBounds /\ [RxNext]_rxvars => [AccountsStep]_rxvars
  BY RxStepInv, RxSizeStep
<1>4. RxSizeAccounts <=> [][AccountsStep]_rxvars
  BY DEF RxSizeAccounts, AccountsStep
<1> QED
  BY <1>1, <1>2, <1>3, <1>4, PTL DEF RxSpec

\* The reception buffer never holds more than rx_maxsize, and counts at least what it
\* holds, whatever the peer sends.
THEOREM RxBufferIsBounded == RxSpec => [](SizeOf(HeldPdus) <= rx_size /\ rx_size <= RxMax)
<1>1. RxInit => RxInv /\ SizeBounds
  BY RxInitInv, RxSizeInit
<1>2. RxInv /\ SizeBounds /\ [RxNext]_rxvars => (RxInv /\ SizeBounds)'
  BY RxStepInv, RxSizeStep
<1>3. RxInv /\ SizeBounds => SizeOf(HeldPdus) <= rx_size /\ rx_size <= RxMax
  BY SizeIsTotal DEF RxInv, SizeBounds
<1> QED
  BY <1>1, <1>2, <1>3, PTL DEF RxSpec
=============================================================================
