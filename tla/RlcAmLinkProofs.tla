--------------------------- MODULE RlcAmLinkProofs ---------------------------
(***************************************************************************)
(* Theorems about an RLC AM bearer (RlcAmLink), for every window, number   *)
(* and size of SDUs, buffer, poll and retransmission parameters, and for   *)
(* any number of losses and re-establishments.                             *)
(***************************************************************************)
EXTENDS RlcAmLink, RlcAmTxProofs, RlcAmRxProofs

-----------------------------------------------------------------------------
(***************************************************************************)
(* The two sides keep their invariants whatever the other one does         *)
(***************************************************************************)
Bounds == losses \in 0 .. MaxLoss /\ reests \in 0 .. MaxReest

BothInv == TxInv /\ RxInv /\ Bounds

\* The receiver may lose STATUS PDUs: nothing else of its invariant is about them.
LEMMA CtlShrinks ==
  ASSUME RxInv, ctl' \in SUBSET ctl,
         UNCHANGED <<rxptrs, rx_list, rx_size, status_triggered, t_reassembly,
                     t_status_prohibit, hung, delivered, garbled>>
  PROVE  RxInv'
<1>1. UNCHANGED window
  BY DEF window, rxptrs
<1>2. RxTypeOK'
  BY DEF RxInv, RxTypeOK, rxptrs
<1> QED
  BY <1>1, <1>2, SameWindow

\* Every step of the bearer keeps the invariants of the two sides.
LEMMA BothStep ==
  ASSUME BothInv, [Next]_vars
  PROVE  BothInv'
<1>1. TxInv /\ RxInv /\ Bounds
  BY DEF BothInv
<1>2. CASE Submit
  <2>1. PICK id \in Ids, size \in 1 .. MaxLen : RecvSdu(id, size)
    BY <1>2 DEF Submit
  <2>2. TxInv'
    BY <1>1, <2>1, RecvSduInv
  <2>3. RxInv' /\ Bounds'
    BY <1>1, <1>2, RxStepInv DEF Submit, Bounds
  <2> QED BY <2>2, <2>3 DEF BothInv
<1>3. CASE SendPdu
  <2>1. PICK size \in TbSizes : GeneratePdu(size)
    BY <1>3 DEF SendPdu
  <2>2. TxInv'
    BY <1>1, <2>1, GenerateRetxPduInv, GenerateTxPduInv DEF GeneratePdu
  <2>3. RxInv' /\ Bounds'
    BY <1>1, <1>3, CtlShrinks DEF SendPdu, Bounds
  <2> QED BY <2>2, <2>3 DEF BothInv
<1>4. CASE PollTimeout
  <2>1. TxInv'
    BY <1>1, <1>4, PollRetransmitExpiresInv DEF PollTimeout
  <2>2. RxInv' /\ Bounds'
    BY <1>1, <1>4, RxStepInv DEF PollTimeout, Bounds
  <2> QED BY <2>1, <2>2 DEF BothInv
<1>5. CASE Discard
  <2>1. TxInv'
    BY <1>1, <1>5, DiscardSduInv DEF Discard
  <2>2. RxInv' /\ Bounds'
    BY <1>1, <1>5, RxStepInv DEF Discard, Bounds
  <2> QED BY <2>1, <2>2 DEF BothInv
<1>6. CASE ReassemblyTimeout \/ StatusProhibitTimeout \/ SendStatus
  <2>1. TxInv'
    BY <1>1, <1>6, TxUnchanged DEF ReassemblyTimeout, StatusProhibitTimeout, SendStatus
  <2>2. RxNext /\ UNCHANGED <<losses, reests>>
    BY <1>6 DEF ReassemblyTimeout, StatusProhibitTimeout, SendStatus, RxNext
  <2>3. RxInv' /\ Bounds'
    BY <1>1, <2>2, RxStepInv DEF Bounds
  <2> QED BY <2>1, <2>3 DEF BothInv
<1>7. ASSUME NEW q \in air, ReceivePdu(q)
      PROVE  BothInv'
  <2>1. TxInv'
    BY <1>1, <1>7, AirShrinks DEF ReceivePdu
  <2>2. q \in DataPdu
    BY <1>1 DEF TxInv, TxTypeOK
  <2>3. RxInv' /\ Bounds'
    BY <1>1, <1>7, <2>2, RecvDataPduInv DEF ReceivePdu, Bounds
  <2> QED BY <2>1, <2>3 DEF BothInv
<1>8. ASSUME NEW st \in ctl, ReceiveStatus(st)
      PROVE  BothInv'
  <2>1. st \in StatusPdu
    BY <1>1 DEF RxInv, RxTypeOK
  <2>2. TxInv'
    BY <1>1, <1>8, <2>1, ProcessControlPduInv DEF ReceiveStatus
  <2>3. RxInv' /\ Bounds'
    BY <1>1, <1>8, CtlShrinks DEF ReceiveStatus, Bounds
  <2> QED BY <2>2, <2>3 DEF BothInv
<1>9. CASE LosePdu
  <2>1. TxInv'
    BY <1>1, <1>9, AirShrinks DEF LosePdu
  <2>2. RxInv' /\ Bounds'
    BY <1>1, <1>9, LinkAssumption, RxStepInv DEF LosePdu, Bounds
  <2> QED BY <2>1, <2>2 DEF BothInv
<1>10. CASE LoseStatus
  <2>1. TxInv'
    BY <1>1, <1>10, TxUnchanged DEF LoseStatus
  <2>2. RxInv'
    BY <1>1, <1>10, CtlShrinks DEF LoseStatus
  <2>3. Bounds'
    BY <1>1, <1>10, LinkAssumption DEF LoseStatus, Bounds
  <2> QED BY <2>1, <2>2, <2>3 DEF BothInv
<1>11. CASE Reestablish
  <2>1. TxInv'
    BY <1>1, <1>11, TxReestablishInv DEF Reestablish
  <2>2. RxInv'
    BY <1>1, <1>11, RxStepInv DEF Reestablish, RxNext
  <2>3. Bounds'
    BY <1>1, <1>11, LinkAssumption DEF Reestablish, Bounds
  <2> QED BY <2>1, <2>2, <2>3 DEF BothInv
<1>12. CASE UNCHANGED vars
  <2>1. TxInv'
    BY <1>1, <1>12, TxUnchanged DEF vars
  <2>2. RxInv' /\ Bounds'
    BY <1>1, <1>12, RxStepInv DEF vars, Bounds
  <2> QED BY <2>1, <2>2 DEF BothInv
<1> QED
  BY <1>2, <1>3, <1>4, <1>5, <1>6, <1>7, <1>8, <1>9, <1>10, <1>11, <1>12 DEF Next

\* The invariants of the two sides hold in every state of the bearer.
THEOREM LinkInvariant == Spec => []BothInv
<1>1. Init => BothInv
  BY TxInitInv, RxInitInv, LinkAssumption DEF Init, BothInv, Bounds
<1>2. BothInv /\ [Next]_vars => BothInv'
  BY BothStep
<1> QED
  BY <1>1, <1>2, PTL DEF Spec

\* Every variable of the bearer keeps its type: sequence numbers stay in their
\* space and segments and PDUs inside the largest SDU, on both sides.
THEOREM LinkTypes == Spec => []TypeOK
<1>1. BothInv => TypeOK
  BY DEF BothInv, TxInv, RxInv, Bounds, TypeOK
<1> QED
  BY <1>1, LinkInvariant, PTL

\* generate_pdu, the STATUS PDUs, the poll timer, discards and re-establishments
\* keep the segments of an SDU disjoint and counted by ref_count and free_count: an
\* SDU is freed with its last segment, once, and never used afterwards.
THEOREM LinkSegmentsPartition == Spec => []SegmentsPartition
BY LinkInvariant, PTL DEF BothInv, TxInv

\* The sizes announced to the MAC and the buffer occupancy are those of what the
\* lists hold, after any sequence of operations: neither drifts.
THEOREM LinkAccountsExact == Spec => []AccountsExact
<1>1. BothInv => AccountsExact
  BY AccountsAreExact DEF BothInv
<1> QED
  BY <1>1, LinkInvariant, PTL

-----------------------------------------------------------------------------
(***************************************************************************)
(* Delivery, as long as tx_next_ack is right                               *)
(*                                                                         *)
(* process_control_pdu may move tx_next_ack past an SDU that the peer does *)
(* not have (TxNextAckIsOldest fails when an SDU with an SN has segments   *)
(* in tx_list only): the window then holds more SNs than it may, and       *)
(* nothing below is true any more.  Everything else the code does keeps    *)
(* the promise to the upper layer.  What the two entities know of each     *)
(* other is said in ages: how far an SN is below tx_next.                  *)
(***************************************************************************)
\* How far below tx_next an SN is.
Age(x) == Dist(x, tx_next)

\* The SDUs that are held and have an SN.
Numbered == {i \in Held : sdu[i].sn # NoSn}

SlotOf(sn) == rx_list[get_pos(sn)]

\* The PDUs in the reception buffer.
Buffered == UNION {rx_list[s].pdus : s \in Slots}

\* The receiver is done with the SDU of this SN: it is below the window or delivered.
Done(sn) == Age(sn) > Age(rx_next) \/ SlotOf(sn).delivered

\* The peer has this unit of SDU i.
Got(i, u) == delivered[i] > 0 \/ \E q \in Buffered : q.id = i /\ u \in Bytes(q)

\* The PDU says of its SDU what the transmitter would say now.
Genuine(q) == /\ q.id \in Numbered /\ sdu[q.id].sn = q.sn
              /\ q.so + q.size <= sdu[q.id].size
              /\ q.is_last <=> q.so + q.size = sdu[q.id].size

DistinctSns == \A i, j \in Numbered : sdu[i].sn = sdu[j].sn => i = j

Nested == Age(rx_next) <= Age(tx_next_ack) /\ Age(rx_next_highest) <= Age(rx_next)

AirGenuine ==
  \A q \in air : /\ Age(q.sn) \in 1 .. W
                 /\ delivered[q.id] = 0 => Genuine(q)
                 /\ delivered[q.id] > 0 => Done(q.sn)

\* A slot holds PDUs with their data until its SDU is delivered, and none afterwards.
DeliveredIsFreed ==
  \A s \in Slots : IF rx_list[s].delivered THEN rx_list[s].pdus = {} ELSE rx_list[s].freed = {}

BufferGenuine ==
  /\ \A q \in Buffered : delivered[q.id] = 0 /\ Genuine(q)
  /\ \A s \in Slots : ~sdu_full(rx_list[s])
  /\ DeliveredIsFreed

\* The slot of an SDU that was delivered knows every byte of it: what the transmitter
\* still sends of the SDU was received already.
DeliveredWhole ==
  /\ \A i \in Numbered : delivered[i] > 0 /\ Age(sdu[i].sn) <= Age(rx_next) =>
       0 .. sdu[i].size - 1 \subseteq SlotOf(sdu[i].sn).freed
  /\ \A q \in air : delivered[q.id] > 0 /\ Age(q.sn) <= Age(rx_next) =>
       Bytes(q) \subseteq SlotOf(q.sn).freed

DoneIsDelivered == \A i \in Numbered : delivered[i] > 0 <=> Done(sdu[i].sn)

MissingIsHeld ==
  \A k \in 0 .. Age(rx_next) - 1 :
    ~SlotOf(Plus(rx_next, k)).delivered => \E i \in Numbered : sdu[i].sn = Plus(rx_next, k)

NothingLost ==
  \A i \in Held : \A u \in 0 .. sdu[i].size - 1 :
    (\E s \in Segments : s.id = i /\ u \in Bytes(s)) \/ Got(i, u)

Truthful(st) ==
  \A i \in Numbered : Age(sdu[i].sn) > Age(st.ack_sn) =>
    \A u \in 0 .. sdu[i].size - 1 : <<sdu[i].sn, u>> \in st.nack \/ Got(i, u)
StatusTrue == \A st \in ctl : Age(st.ack_sn) <= W /\ (~st.wraps => Truthful(st))

HeadHeld ==
  \E s \in Segments : \E u \in Bytes(s) :
    /\ SnOf(s) = rx_next
    /\ \A st \in ctl : ~st.wraps /\ Age(st.ack_sn) < Age(rx_next) => <<rx_next, u>> \in st.nack

HungAtHead == hung => /\ Age(rx_next) = W /\ HeadHeld
                      /\ \A s \in Slots : rx_list[s].delivered

FatesOk ==
  \A i \in Ids : /\ sdu[i].fate = "acked" => delivered[i] > 0
                 /\ delivered[i] > 0 => sdu[i].fate # "none"
                 /\ delivered[i] < 2
                 /\ sdu[i].fate = "held" /\ sdu[i].sn = NoSn => delivered[i] = 0

LinkInv ==
  /\ BothInv /\ TxNextAckIsOldest
  /\ DistinctSns /\ Nested /\ AirGenuine /\ BufferGenuine /\ DoneIsDelivered
  /\ MissingIsHeld /\ NothingLost /\ StatusTrue /\ HungAtHead /\ FatesOk
  /\ DeliveredWhole /\ ~garbled

\* An age is below the modulus, and it grows by one when tx_next does.
LEMMA AgeFacts ==
  ASSUME tx_next \in SN, NEW x \in SN
  PROVE  /\ Age(x) \in 0 .. sn_modulus - 1
         /\ Age(x) = 0 <=> x = tx_next
         /\ Age(x) <= W => Dist(x, Succ(tx_next)) = Age(x) + 1
         /\ Dist(x, Succ(tx_next)) \in Nat
BY SizesAssumption DEF Age, Dist, SN, sn_modulus, Succ

\* Distances are differences of ages.
LEMMA DistIsAge ==
  ASSUME tx_next \in SN, NEW x \in SN, NEW y \in SN
  PROVE  Dist(x, y) = IF Age(y) <= Age(x) THEN Age(x) - Age(y) ELSE Age(x) - Age(y) + sn_modulus
BY SizesAssumption DEF Age, Dist, SN, sn_modulus

\* An SN above another one, up to tx_next, is as much younger.
LEMMA AgeOfPlus ==
  ASSUME tx_next \in SN, NEW x \in SN, NEW k \in 0 .. Age(x)
  PROVE  Plus(x, k) \in SN /\ Age(Plus(x, k)) = Age(x) - k
BY SizesAssumption DEF Age, Dist, SN, sn_modulus, Plus

\* Two SNs of the same age are the same.
LEMMA SameAge ==
  ASSUME tx_next \in SN, NEW x \in SN, NEW y \in SN, Age(x) = Age(y)
  PROVE  x = y
BY SizesAssumption DEF Age, Dist, SN, sn_modulus

\* The SNs between rx_next and tx_next are those of the receive window.
LEMMA SlotInWindow ==
  ASSUME tx_next \in SN, rx_next \in SN, Age(rx_next) <= W,
         NEW x \in SN, Age(x) >= 1, Age(x) <= Age(rx_next)
  PROVE  /\ Age(rx_next) - Age(x) \in 0 .. W - 1
         /\ Dist(rx_next, x) = Age(rx_next) - Age(x)
         /\ x = Plus(rx_next, Age(rx_next) - Age(x))
         /\ get_pos(x) = Sl(Age(rx_next) - Age(x)) /\ get_pos(x) \in Slots
<1>1. Age(rx_next) \in Nat /\ Age(x) \in Nat
  BY AgeFacts
<1>2. Dist(rx_next, x) = Age(rx_next) - Age(x)
  BY <1>1, DistIsAge
<1>3. Age(rx_next) - Age(x) \in 0 .. W - 1
  BY <1>1, SizesAssumption
<1>4. x = Plus(rx_next, Age(rx_next) - Age(x))
  BY <1>2, DistRange
<1>5. Age(rx_next) - Age(x) \in 0 .. sn_modulus
  BY <1>3, SizesAssumption DEF sn_modulus
<1> QED
  BY <1>2, <1>3, <1>4, <1>5, SlotsOfWindow DEF Sl

\* The types of what the invariant speaks of.
LEMMA LinkTypeFacts ==
  ASSUME BothInv
  PROVE  /\ TxInv /\ RxInv
         /\ tx_next \in SN /\ tx_next_ack \in SN /\ rx_next \in SN /\ rx_next_highest \in SN
         /\ sdu \in [Ids -> SduType] /\ delivered \in [Ids -> 0 .. 2]
         /\ rx_list \in BufferType
         /\ air \in SUBSET DataPdu /\ ctl \in SUBSET StatusPdu
         /\ Segments \in SUBSET Segment
         /\ \A s \in Segments : s.id \in Held
         /\ Age(tx_next_ack) <= W
         /\ \A x \in SN : get_pos(x) \in Slots
         /\ hung \in BOOLEAN
         /\ \A i \in Held : \E s \in Segments : s.id = i
<1>1. TxInv /\ RxInv
  BY DEF BothInv
<1>2. /\ tx_next \in SN /\ tx_next_ack \in SN /\ sdu \in [Ids -> SduType] /\ air \in SUBSET DataPdu
      /\ Age(tx_next_ack) <= W
  BY <1>1 DEF TxInv, TxTypeOK, SduType, WindowKept, Age
<1>3. /\ rx_next \in SN /\ rx_next_highest \in SN /\ delivered \in [Ids -> 0 .. 2]
      /\ rx_list \in BufferType /\ ctl \in SUBSET StatusPdu /\ hung \in BOOLEAN
  BY <1>1 DEF RxInv, RxTypeOK, BufferType
<1>4. \A x \in SN : get_pos(x) \in Slots
  BY SizesAssumption DEF get_pos, Slots, SN, sn_modulus
<1>5. Segments \in SUBSET Segment /\ \A s \in Segments : s.id \in Held
  BY <1>1, TxFacts DEF TxInv
<1>6. \A i \in Held : \E s \in Segments : s.id = i
  <2> SUFFICES ASSUME NEW i \in Held PROVE \E s \in Segments : s.id = i
    OBVIOUS
  <2>1. i \in Ids /\ sdu[i].fate = "held"
    BY DEF Held
  <2>2. Count(i, Segments) # 0
    BY <1>1, <2>1, TxFacts DEF TxInv
  <2> QED BY <1>5, <2>2, CountFacts
<1> QED
  BY <1>1, <1>2, <1>3, <1>4, <1>5, <1>6

\* The SDUs with an SN are in the transmit window, and have at least one byte.
LEMMA NumberedFacts ==
  ASSUME BothInv, TxNextAckIsOldest, NEW i \in Numbered
  PROVE  /\ i \in Ids /\ i \in Held /\ sdu[i].sn \in SN
         /\ Age(sdu[i].sn) \in 1 .. Age(tx_next_ack) /\ Age(sdu[i].sn) \in 1 .. W
         /\ sdu[i].size \in 1 .. MaxLen
<1>1. /\ tx_next \in SN /\ tx_next_ack \in SN /\ sdu \in [Ids -> SduType] /\ TxInv
      /\ Age(tx_next_ack) <= W /\ Segments \in SUBSET Segment
      /\ \A j \in Held : \E s \in Segments : s.id = j
  BY LinkTypeFacts
<1>2. i \in Ids /\ i \in Held /\ sdu[i].sn # NoSn
  BY DEF Numbered, Held
<1>3. sdu[i].sn \in SN /\ sdu[i].size \in 0 .. MaxLen
  BY <1>1, <1>2 DEF SduType
<1>4. Dist(tx_next_ack, sdu[i].sn) < Dist(tx_next_ack, tx_next)
  BY <1>2 DEF TxNextAckIsOldest, TxBefore
<1>5. Age(sdu[i].sn) \in 1 .. Age(tx_next_ack)
  BY <1>1, <1>3, <1>4, SizesAssumption DEF Age, Dist, SN, sn_modulus
<1>6. sdu[i].size > 0
  <2>1. PICK s \in Segments : s.id = i
    BY <1>1, <1>2
  <2>2. s.so + s.size <= sdu[i].size /\ s.so \in Nat /\ s.size \in Nat \ {0}
    BY <1>1, <2>1, SegmentsFinite DEF TxInv, Structure, SegmentsFit
  <2> QED BY <1>3, <2>2, SizesAssumption
<1>7. Age(tx_next_ack) \in Nat /\ W \in Nat /\ MaxLen \in Nat
  BY <1>1, AgeFacts, SizesAssumption
<1> QED
  BY <1>1, <1>2, <1>3, <1>5, <1>6, <1>7

\* A step that changes neither the receiver nor tx_next, only takes PDUs away, and takes
\* the SN of no SDU that the peer does not have: most of the invariant stays.
LEMMA SameNumbers ==
  ASSUME LinkInv,
         UNCHANGED <<rx_next, rx_next_highest, rx_list, hung, delivered, garbled, tx_next>>,
         air' \in SUBSET air, ctl' \in SUBSET ctl,
         Numbered' \in SUBSET Numbered,
         \A i \in Numbered : delivered[i] = 0 => i \in Numbered',
         \A i \in Numbered' : sdu'[i].sn = sdu[i].sn /\ sdu'[i].size = sdu[i].size
  PROVE  /\ DistinctSns' /\ AirGenuine' /\ BufferGenuine' /\ DoneIsDelivered'
         /\ MissingIsHeld' /\ StatusTrue' /\ DeliveredWhole' /\ ~garbled'
<1>1. /\ BothInv /\ TxNextAckIsOldest /\ DistinctSns /\ Nested /\ AirGenuine /\ BufferGenuine
      /\ DoneIsDelivered /\ MissingIsHeld /\ StatusTrue /\ DeliveredWhole /\ ~garbled
  BY DEF LinkInv
<1>2. /\ \A x : Age(x)' = Age(x)
      /\ \A x : SlotOf(x)' = SlotOf(x)
      /\ Buffered' = Buffered
      /\ Age(rx_next)' = Age(rx_next)
  BY DEF Age, SlotOf, Buffered
<1>3. /\ \A x : Done(x)' <=> Done(x)
      /\ \A i, u : Got(i, u)' <=> Got(i, u)
  BY <1>2 DEF Done, Got
<1>4. ASSUME NEW q, Genuine(q), delivered[q.id] = 0
      PROVE  Genuine(q)'
  BY <1>4 DEF Genuine
<1>5. DistinctSns'
  BY <1>1 DEF DistinctSns
<1>6. AirGenuine'
  <2> SUFFICES ASSUME NEW q \in air'
               PROVE  /\ (Age(q.sn) \in 1 .. W)'
                      /\ delivered'[q.id] = 0 => Genuine(q)'
                      /\ delivered'[q.id] > 0 => Done(q.sn)'
    BY DEF AirGenuine
  <2>1. /\ Age(q.sn) \in 1 .. W
        /\ delivered[q.id] = 0 => Genuine(q)
        /\ delivered[q.id] > 0 => Done(q.sn)
    BY <1>1 DEF AirGenuine
  <2> QED BY <1>2, <1>3, <1>4, <2>1
<1>7. BufferGenuine'
  <2>1. \A q \in Buffered' : delivered'[q.id] = 0 /\ Genuine(q)'
    BY <1>1, <1>2, <1>4 DEF BufferGenuine
  <2>2. (\A s \in Slots : ~sdu_full(rx_list[s]))'
    BY <1>1 DEF BufferGenuine
  <2>3. DeliveredIsFreed'
    BY <1>1 DEF BufferGenuine, DeliveredIsFreed
  <2> QED BY <2>1, <2>2, <2>3 DEF BufferGenuine
<1>8. DoneIsDelivered'
  BY <1>1, <1>3 DEF DoneIsDelivered
<1>9. MissingIsHeld'
  <2> SUFFICES ASSUME NEW k \in 0 .. Age(rx_next) - 1, ~SlotOf(Plus(rx_next, k)).delivered
               PROVE  \E i \in Numbered' : sdu'[i].sn = Plus(rx_next, k)
    BY <1>2 DEF MissingIsHeld
  <2> DEFINE x == Plus(rx_next, k)
  <2>1. PICK i \in Numbered : sdu[i].sn = x
    BY <1>1 DEF MissingIsHeld
  <2>2. rx_next \in SN /\ tx_next \in SN /\ delivered \in [Ids -> 0 .. 2] /\ i \in Ids
    BY <1>1, LinkTypeFacts, NumberedFacts
  <2>3. Age(x) <= Age(rx_next)
    <3>1. k \in 0 .. Age(rx_next) /\ Age(rx_next) \in Nat
      BY <2>2, AgeFacts
    <3> QED BY <2>2, <3>1, AgeOfPlus
  <2>4. ~Done(x)
    <3>1. Age(x) \in Nat /\ Age(rx_next) \in Nat
      BY <1>1, <2>1, <2>2, AgeFacts, NumberedFacts
    <3> QED BY <2>3, <3>1 DEF Done
  <2> HIDE DEF x
  <2>5. ~(delivered[i] > 0)
    BY <1>1, <2>1, <2>4 DEF DoneIsDelivered
  <2>6. delivered[i] = 0
    BY <2>2, <2>5
  <2> QED BY <2>1, <2>6 DEF x
<1>10. StatusTrue'
  <2>1. ASSUME NEW st, Truthful(st)
        PROVE  Truthful(st)'
    BY <1>2, <1>3, <2>1 DEF Truthful
  <2> QED BY <1>1, <1>2, <2>1 DEF StatusTrue
<1>11. DeliveredWhole'
  BY <1>1, <1>2 DEF DeliveredWhole
<1> QED
  BY <1>1, <1>5, <1>6, <1>7, <1>8, <1>9, <1>10, <1>11

\* Segments that stay, STATUS PDUs that go: what is held or known of SDUs stays too.
LEMMA SameSegments ==
  ASSUME LinkInv,
         UNCHANGED <<rx_next, rx_list, hung, delivered, tx_next>>,
         ctl' \in SUBSET ctl, Segments' = Segments,
         \A i \in Ids : /\ sdu'[i].sn = sdu[i].sn /\ sdu'[i].size = sdu[i].size
                        /\ sdu'[i].fate = sdu[i].fate
  PROVE  NothingLost' /\ HungAtHead' /\ FatesOk'
<1>1. BothInv /\ NothingLost /\ HungAtHead /\ FatesOk
  BY DEF LinkInv
<1>2. Held' = Held /\ Buffered' = Buffered /\ Age(rx_next)' = Age(rx_next) /\ Held \in SUBSET Ids
  BY DEF Held, Buffered, Age
<1>3. \A i, u : Got(i, u)' <=> Got(i, u)
  BY <1>2 DEF Got
<1>4. NothingLost'
  BY <1>1, <1>2, <1>3 DEF NothingLost
<1>5. HungAtHead'
  <2>1. ASSUME HeadHeld PROVE HeadHeld'
    <3>1. PICK s \in Segments : \E u \in Bytes(s) :
            /\ SnOf(s) = rx_next
            /\ \A st \in ctl : ~st.wraps /\ Age(st.ack_sn) < Age(rx_next) => <<rx_next, u>> \in st.nack
      BY <2>1 DEF HeadHeld
    <3>2. SnOf(s)' = SnOf(s)
      BY <1>1, LinkTypeFacts, SegmentsFinite DEF SnOf
    <3>3. \A x : Age(x)' = Age(x)
      BY DEF Age
    <3> QED BY <1>2, <3>1, <3>2, <3>3 DEF HeadHeld
  <2> QED BY <1>1, <1>2, <2>1 DEF HungAtHead
<1>6. FatesOk'
  BY <1>1 DEF FatesOk
<1> QED
  BY <1>4, <1>5, <1>6

\* A step that changes nothing the invariant speaks of, but what is under way.
LEMMA QuietStep ==
  ASSUME LinkInv, BothInv',
         UNCHANGED <<rx_next, rx_next_highest, rx_list, hung, delivered, garbled,
                     tx_next, tx_next_ack>>,
         air' \in SUBSET air, ctl' \in SUBSET ctl, Segments' = Segments,
         \A i \in Ids : /\ sdu'[i].sn = sdu[i].sn /\ sdu'[i].size = sdu[i].size
                        /\ sdu'[i].fate = sdu[i].fate
  PROVE  LinkInv'
<1>1. Held' = Held /\ Numbered' = Numbered /\ Held \in SUBSET Ids /\ Numbered \in SUBSET Ids
  BY DEF Held, Numbered
<1>2. /\ DistinctSns' /\ AirGenuine' /\ BufferGenuine' /\ DoneIsDelivered'
      /\ MissingIsHeld' /\ StatusTrue' /\ DeliveredWhole' /\ ~garbled'
  BY <1>1, SameNumbers
<1>3. NothingLost' /\ HungAtHead' /\ FatesOk'
  BY SameSegments
<1>4. Nested' /\ TxNextAckIsOldest'
  BY <1>1 DEF LinkInv, Nested, TxNextAckIsOldest, TxBefore, Age
<1> QED
  BY <1>2, <1>3, <1>4 DEF LinkInv

\* A new SDU has one segment and nothing else is known of it.
LEMMA SubmitStep ==
  ASSUME LinkInv, Submit
  PROVE  LinkInv'
<1>1. PICK id \in Ids, size \in 1 .. MaxLen : RecvSdu(id, size)
  BY DEF Submit
<1> DEFINE seg == [id |-> id, so |-> 0, size |-> size]
<1>2. BothInv /\ BothInv'
  BY BothStep DEF LinkInv, Next
<1>3. /\ Segments' = Segments \cup {seg}
      /\ sdu[id].fate = "none" /\ sdu' = [sdu EXCEPT ![id] = NewSdu(size)]
      /\ UNCHANGED <<tx_next, tx_next_ack, air>>
  BY <1>1, <1>2, LinkTypeFacts, RecvSduInv
<1>4. UNCHANGED <<rx_next, rx_next_highest, rx_list, hung, delivered, garbled, ctl>>
  BY DEF Submit, rxvars, rxptrs
<1>5. sdu \in [Ids -> SduType] /\ delivered \in [Ids -> 0 .. 2] /\ Segments \in SUBSET Segment
      /\ \A s \in Segments : s.id \in Held
  BY <1>2, LinkTypeFacts
<1>6. /\ sdu'[id].fate = "held" /\ sdu'[id].sn = NoSn /\ sdu'[id].size = size
      /\ \A i \in Ids : i # id => sdu'[i] = sdu[i]
  BY <1>3, <1>5 DEF NewSdu
<1>7. Held' = Held \cup {id} /\ id \notin Held /\ Numbered' = Numbered /\ Numbered \in SUBSET Held
      /\ \A i \in Held : i \in Ids /\ i # id
  BY <1>3, <1>6 DEF Held, Numbered
<1>8. /\ DistinctSns' /\ AirGenuine' /\ BufferGenuine' /\ DoneIsDelivered'
      /\ MissingIsHeld' /\ StatusTrue' /\ DeliveredWhole' /\ ~garbled'
  BY <1>3, <1>4, <1>6, <1>7, SameNumbers
<1>9. Nested' /\ TxNextAckIsOldest'
  <2>1. Nested'
    BY <1>3, <1>4 DEF LinkInv, Nested, Age
  <2>2. TxNextAckIsOldest'
    BY <1>3, <1>6, <1>7 DEF LinkInv, TxNextAckIsOldest, TxBefore
  <2> QED BY <2>1, <2>2
<1>10. Buffered' = Buffered /\ \A i, u : Got(i, u)' <=> Got(i, u)
  BY <1>4 DEF Buffered, Got
<1>11. NothingLost'
  <2> SUFFICES ASSUME NEW i \in Held', NEW u \in 0 .. sdu'[i].size - 1
               PROVE  (\E s \in Segments' : s.id = i /\ u \in Bytes(s)) \/ Got(i, u)'
    BY DEF NothingLost
  <2>1. CASE i = id
    <3>1. u \in Bytes(seg) /\ seg.id = id
      BY <1>6, <2>1 DEF Bytes
    <3> QED BY <1>3, <2>1, <3>1
  <2>2. CASE i # id
    <3>1. i \in Held /\ sdu'[i] = sdu[i]
      BY <1>6, <1>7, <2>2
    <3>2. (\E s \in Segments : s.id = i /\ u \in Bytes(s)) \/ Got(i, u)
      BY <3>1 DEF LinkInv, NothingLost
    <3> QED BY <1>3, <1>10, <3>2
  <2> QED BY <2>1, <2>2
<1>12. HungAtHead'
  <2>1. ASSUME HeadHeld PROVE HeadHeld'
    <3>1. PICK s \in Segments : \E u \in Bytes(s) :
            /\ SnOf(s) = rx_next
            /\ \A st \in ctl : ~st.wraps /\ Age(st.ack_sn) < Age(rx_next) => <<rx_next, u>> \in st.nack
      BY <2>1 DEF HeadHeld
    <3>2. SnOf(s)' = SnOf(s)
      BY <1>5, <1>6, <1>7 DEF SnOf
    <3>3. \A x : Age(x)' = Age(x)
      BY <1>3 DEF Age
    <3>4. Age(rx_next)' = Age(rx_next)
      BY <1>3, <1>4 DEF Age
    <3> QED BY <1>3, <1>4, <3>1, <3>2, <3>3, <3>4 DEF HeadHeld
  <2> QED BY <1>3, <1>4, <2>1 DEF LinkInv, HungAtHead, Age
<1>13. FatesOk'
  <2>1. delivered[id] = 0
    BY <1>3, <1>5 DEF LinkInv, FatesOk
  <2> QED BY <1>4, <1>6, <2>1 DEF LinkInv, FatesOk
<1> QED
  BY <1>2, <1>8, <1>9, <1>11, <1>12, <1>13 DEF LinkInv

\* A discard takes an SDU that has no SN yet: the receiver knows nothing of it.
LEMMA DiscardStep ==
  ASSUME LinkInv, Discard
  PROVE  LinkInv'
<1>1. PICK id \in Ids : DiscardSdu(id)
  BY DEF Discard
<1>2. BothInv /\ BothInv'
  BY BothStep DEF LinkInv, Next
<1>3. PICK seg \in Segments : /\ seg.id = id /\ SnOf(seg) = NoSn
                              /\ Segments' = Segments \ {seg}
                              /\ \A t \in Segments : t.id = id => t = seg
  BY <1>1, <1>2, LinkTypeFacts, DiscardSduInv
<1>4. /\ sdu'[id] = NoSdu("dropped") /\ \A i \in Ids : i # id => sdu'[i] = sdu[i]
      /\ UNCHANGED <<tx_next, tx_next_ack, air>>
  BY <1>1, <1>2, LinkTypeFacts, DiscardSduInv
<1>5. UNCHANGED <<rx_next, rx_next_highest, rx_list, hung, delivered, garbled, ctl>>
  BY DEF Discard, rxvars, rxptrs
<1>6. sdu \in [Ids -> SduType] /\ delivered \in [Ids -> 0 .. 2] /\ Segments \in SUBSET Segment
      /\ rx_next \in SN /\ \A s \in Segments : s.id \in Held
  BY <1>2, LinkTypeFacts
<1>7. id \in Held /\ sdu[id].sn = NoSn /\ sdu'[id].fate = "dropped"
  BY <1>3, <1>4, <1>6 DEF SnOf, NoSdu
<1>8. Held' = Held \ {id} /\ Numbered' = Numbered /\ Numbered \in SUBSET Held
      /\ id \notin Numbered /\ \A i \in Held : i \in Ids
  BY <1>4, <1>7 DEF Held, Numbered
<1>9. /\ DistinctSns' /\ AirGenuine' /\ BufferGenuine' /\ DoneIsDelivered'
      /\ MissingIsHeld' /\ StatusTrue' /\ DeliveredWhole' /\ ~garbled'
  BY <1>4, <1>5, <1>8, SameNumbers
<1>10. Nested' /\ TxNextAckIsOldest'
  <2>1. Nested'
    BY <1>4, <1>5 DEF LinkInv, Nested, Age
  <2>2. TxNextAckIsOldest'
    BY <1>4, <1>8 DEF LinkInv, TxNextAckIsOldest, TxBefore
  <2> QED BY <2>1, <2>2
<1>11. Buffered' = Buffered /\ \A i, u : Got(i, u)' <=> Got(i, u)
  BY <1>5 DEF Buffered, Got
<1>12. NothingLost'
  <2> SUFFICES ASSUME NEW i \in Held', NEW u \in 0 .. sdu'[i].size - 1
               PROVE  (\E s \in Segments' : s.id = i /\ u \in Bytes(s)) \/ Got(i, u)'
    BY DEF NothingLost
  <2>1. i \in Held /\ sdu'[i] = sdu[i] /\ i # id
    BY <1>4, <1>8
  <2>2. (\E s \in Segments : s.id = i /\ u \in Bytes(s)) \/ Got(i, u)
    BY <2>1 DEF LinkInv, NothingLost
  <2> QED BY <1>3, <1>11, <2>1, <2>2
<1>13. HungAtHead'
  <2>1. ASSUME HeadHeld PROVE HeadHeld'
    <3>1. PICK s \in Segments : \E u \in Bytes(s) :
            /\ SnOf(s) = rx_next
            /\ \A st \in ctl : ~st.wraps /\ Age(st.ack_sn) < Age(rx_next) => <<rx_next, u>> \in st.nack
      BY <2>1 DEF HeadHeld
    <3>2. s # seg /\ s.id # id
      BY <1>3, <1>6, <3>1, SizesAssumption DEF SN, NoSn, sn_modulus
    <3>3. SnOf(s)' = SnOf(s) /\ s \in Segments'
      BY <1>3, <1>4, <1>6, <1>8, <3>2 DEF SnOf
    <3>4. \A x : Age(x)' = Age(x)
      BY <1>4 DEF Age
    <3>5. Age(rx_next)' = Age(rx_next)
      BY <1>4, <1>5 DEF Age
    <3> QED BY <1>5, <3>1, <3>3, <3>4, <3>5 DEF HeadHeld
  <2> QED BY <1>4, <1>5, <2>1 DEF LinkInv, HungAtHead, Age
<1>14. FatesOk'
  <2>1. delivered[id] = 0
    BY <1>7, <1>8 DEF LinkInv, FatesOk, Held
  <2>2. sdu'[id].fate # "acked" /\ sdu'[id].fate # "none" /\ sdu'[id].fate # "held"
    BY <1>7
  <2> QED BY <1>4, <1>5, <2>1, <2>2 DEF LinkInv, FatesOk
<1> QED
  BY <1>2, <1>9, <1>10, <1>12, <1>13, <1>14 DEF LinkInv

\* The timers and the losses change nothing the invariant speaks of.
LEMMA TimerAndLossSteps ==
  ASSUME LinkInv, \/ PollTimeout \/ ReassemblyTimeout \/ StatusProhibitTimeout
                  \/ LosePdu \/ LoseStatus \/ UNCHANGED vars
  PROVE  LinkInv'
<1>1. BothInv /\ BothInv'
  BY BothStep DEF LinkInv, Next
<1>2. CASE PollTimeout
  <2>1. /\ Segments' = Segments
        /\ \A i \in Ids : /\ sdu'[i].sn = sdu[i].sn /\ sdu'[i].size = sdu[i].size
                          /\ sdu'[i].fate = sdu[i].fate
        /\ UNCHANGED <<tx_next, tx_next_ack, air>>
    BY <1>1, <1>2, LinkTypeFacts, PollRetransmitExpiresInv DEF PollTimeout
  <2>2. UNCHANGED <<rx_next, rx_next_highest, rx_list, hung, delivered, garbled, ctl>>
    BY <1>2 DEF PollTimeout, rxvars, rxptrs
  <2> QED BY <1>1, <2>1, <2>2, QuietStep
<1>3. CASE ReassemblyTimeout \/ StatusProhibitTimeout
  <2>1. UNCHANGED <<rx_next, rx_next_highest, rx_list, hung, delivered, garbled, ctl>>
    BY <1>3 DEF ReassemblyTimeout, StatusProhibitTimeout, ReassemblyExpires,
                StatusProhibitExpires, rxptrs
  <2>2. UNCHANGED <<sdu, tx_list, wait_list, retransmit_list, tx_next, tx_next_ack, air>>
    BY <1>3 DEF ReassemblyTimeout, StatusProhibitTimeout, txvars, txlists
  <2>3. Segments' = Segments
    BY <2>2 DEF Segments, Queued, InFlight
  <2> QED BY <1>1, <2>1, <2>2, <2>3, QuietStep
<1>4. CASE LosePdu \/ LoseStatus
  <2>1. UNCHANGED <<rx_next, rx_next_highest, rx_list, hung, delivered, garbled>>
        /\ ctl' \in SUBSET ctl
    BY <1>4 DEF LosePdu, LoseStatus, rxvars, rxptrs
  <2>2. UNCHANGED <<sdu, tx_list, wait_list, retransmit_list, tx_next, tx_next_ack>>
        /\ air' \in SUBSET air
    BY <1>4 DEF LosePdu, LoseStatus, txvars, txlists
  <2>3. Segments' = Segments
    BY <2>2 DEF Segments, Queued, InFlight
  <2> QED BY <1>1, <2>1, <2>2, <2>3, QuietStep
<1>5. CASE UNCHANGED vars
  <2>1. UNCHANGED <<rx_next, rx_next_highest, rx_list, hung, delivered, garbled, ctl, sdu, tx_list,
                    wait_list, retransmit_list, tx_next, tx_next_ack, air>>
    BY <1>5 DEF vars, txvars, txlists, rxvars, rxptrs
  <2>2. Segments' = Segments
    BY <2>1 DEF Segments, Queued, InFlight
  <2> QED BY <1>1, <2>1, <2>2, QuietStep
<1> QED
  BY <1>2, <1>3, <1>4, <1>5

\* A PDU of the buffer is in the slot of its SN.
LEMMA BufferedSlot ==
  ASSUME BothInv, NEW q \in Buffered
  PROVE  /\ q \in DataPdu /\ q.id \in Ids /\ q.sn \in SN
         /\ q.so \in Nat /\ q.size \in Nat \ {0} /\ q.is_last \in BOOLEAN
         /\ get_pos(q.sn) \in Slots /\ q \in SlotOf(q.sn).pdus
<1>1. PICK s \in Slots : q \in rx_list[s].pdus
  BY DEF Buffered
<1>2. rx_next \in SN /\ rx_list \in BufferType /\ OneSnPerSlot
  BY LinkTypeFacts DEF RxInv
<1>3. PICK k \in 0 .. W - 1 : s = get_pos(Plus(rx_next, k))
  BY <1>2, SlotsOfWindow
<1>4. q.sn = Plus(rx_next, k)
  BY <1>1, <1>2, <1>3 DEF OneSnPerSlot
<1>5. q \in DataPdu
  <2>1. rx_list[s] \in Slot
    BY <1>2 DEF BufferType
  <2> QED BY <1>1, <2>1 DEF Slot
<1>6. /\ q.id \in Ids /\ q.sn \in SN /\ q.so \in Nat /\ q.size \in Nat \ {0}
      /\ q.is_last \in BOOLEAN
  BY <1>5, SizesAssumption DEF DataPdu, Units
<1> QED
  BY <1>1, <1>3, <1>4, <1>5, <1>6 DEF SlotOf

\* The peer lacks a byte of every SDU that it has not delivered.
LEMMA SomethingIsMissing ==
  ASSUME LinkInv, NEW i \in Numbered, delivered[i] = 0
  PROVE  \E u \in 0 .. sdu[i].size - 1 : ~Got(i, u)
<1> DEFINE last == sdu[i].size - 1
<1>1. BothInv /\ BufferGenuine /\ TxNextAckIsOldest /\ i \in Ids /\ sdu[i].size \in 1 .. MaxLen
  BY NumberedFacts DEF LinkInv
<1>2. last \in 0 .. last /\ last \in Nat /\ sdu[i].size \in Nat
  BY <1>1, SizesAssumption
<1> SUFFICES ASSUME \A u \in 0 .. last : Got(i, u)
             PROVE  FALSE
  OBVIOUS
<1>3. \A u \in 0 .. last : \E q \in Buffered : q.id = i /\ u \in Bytes(q)
  BY DEF Got
<1>4. PICK q \in Buffered : q.id = i /\ last \in Bytes(q)
  BY <1>2, <1>3
<1>5. ASSUME NEW r \in Buffered, r.id = i
      PROVE  /\ r.sn = sdu[i].sn /\ r \in SlotOf(sdu[i].sn).pdus
             /\ r.so + r.size <= sdu[i].size
             /\ r.is_last <=> r.so + r.size = sdu[i].size
    BY <1>1, <1>5, BufferedSlot DEF BufferGenuine, Genuine
<1>6. q.so + q.size = sdu[i].size /\ q.is_last /\ q.so + q.size - 1 = last
  <2>1. q.so + q.size <= sdu[i].size /\ (q.is_last <=> q.so + q.size = sdu[i].size)
    BY <1>4, <1>5
  <2>2. q.so \in Nat /\ q.size \in Nat
    BY <1>1, <1>4, BufferedSlot
  <2>3. last <= q.so + q.size - 1
    BY <1>2, <1>4, <2>2 DEF Bytes
  <2> QED BY <1>2, <2>1, <2>2, <2>3
<1>7. 0 .. last \subseteq Covered(SlotOf(sdu[i].sn))
  BY <1>3, <1>5 DEF Covered, WithData
<1>8. sdu_full(SlotOf(sdu[i].sn))
  <2>1. ~SlotOf(sdu[i].sn).delivered
    BY <1>1, <1>4, <1>5, BufferedSlot DEF BufferGenuine, DeliveredIsFreed, SlotOf
  <2> QED BY <1>4, <1>5, <1>6, <1>7, <2>1 DEF sdu_full
<1>9. get_pos(sdu[i].sn) \in Slots
  BY <1>1, <1>4, <1>5, BufferedSlot
<1> QED
  BY <1>1, <1>8, <1>9 DEF BufferGenuine, SlotOf

\* A segment of the SDU that the receiver waits for is held, and no STATUS PDU that
\* is under way takes it.
LEMMA HeadIsHeld ==
  ASSUME LinkInv, Age(rx_next) > 0
  PROVE  HeadHeld
<1>1. CASE hung
  BY <1>1 DEF LinkInv, HungAtHead
<1>2. CASE ~hung
  <2>1. /\ BothInv /\ BufferGenuine /\ TxNextAckIsOldest /\ RxInv /\ rx_next \in SN
        /\ tx_next \in SN /\ Age(rx_next) \in Nat
        /\ Segments \in SUBSET Segment
    BY LinkTypeFacts, AgeFacts DEF LinkInv
  <2>2. ~SlotOf(rx_next).delivered
    BY <1>2, <2>1 DEF RxInv, PointersOrdered, SlotOf
  <2>3. Plus(rx_next, 0) = rx_next /\ 0 \in 0 .. Age(rx_next) - 1
    BY <2>1, SlotsOfWindow
  <2>4. PICK i \in Numbered : sdu[i].sn = rx_next
    BY <2>2, <2>3 DEF LinkInv, MissingIsHeld
  <2>5. ~Done(rx_next)
    BY <2>1, <2>2 DEF Done
  <2>6. delivered[i] = 0
    <3>1. ~(delivered[i] > 0)
      BY <2>4, <2>5 DEF LinkInv, DoneIsDelivered
    <3>2. i \in Ids /\ delivered \in [Ids -> 0 .. 2]
      BY <2>1, NumberedFacts, LinkTypeFacts
    <3> QED BY <3>1, <3>2
  <2>7. PICK u \in 0 .. sdu[i].size - 1 : ~Got(i, u)
    BY <2>6, SomethingIsMissing
  <2>8. i \in Held
    BY DEF Numbered
  <2>9. PICK s \in Segments : s.id = i /\ u \in Bytes(s)
    BY <2>7, <2>8 DEF LinkInv, NothingLost
  <2>10. SnOf(s) = rx_next
    BY <2>4, <2>9 DEF SnOf
  <2>11. ASSUME NEW st \in ctl, ~st.wraps, Age(st.ack_sn) < Age(rx_next)
         PROVE  <<rx_next, u>> \in st.nack
    <3>1. Truthful(st)
      BY <2>11 DEF LinkInv, StatusTrue
    <3>2. st \in StatusPdu /\ st.ack_sn \in SN
      BY <2>1, LinkTypeFacts DEF StatusPdu
    <3>3. Age(sdu[i].sn) > Age(st.ack_sn)
      BY <2>1, <2>4, <2>11, <3>2, AgeFacts
    <3> QED BY <2>4, <2>7, <3>1, <3>3 DEF Truthful
  <2> QED BY <2>9, <2>10, <2>11 DEF HeadHeld
<1>3. hung \in BOOLEAN
  BY LinkTypeFacts DEF LinkInv
<1> QED
  BY <1>1, <1>2, <1>3

\* Sending a segment gives tx_next to an SDU that has no SN, and ages every SN by one
\* then; otherwise it changes no SN.
LEMMA SendNumbers ==
  ASSUME LinkInv, NEW size, NEW seg \in Segments, SendsFrom(seg, size),
         UNCHANGED <<rx_next, rx_next_highest, rx_list, hung, delivered, garbled>>
  PROVE  \E d \in {0, 1} :
         /\ \A x \in SN : Age(x) <= W => Age(x)' = Age(x) + d
         /\ d = 1 => /\ Age(tx_next_ack) < W /\ ~hung /\ delivered[seg.id] = 0
                     /\ sdu'[seg.id].sn = tx_next /\ Dist(tx_next, tx_next') = 1
                     /\ seg.id \notin Numbered
                     /\ Age(tx_next) = 0
         /\ d = 0 => seg.id \in Numbered /\ tx_next' = tx_next
         /\ Held' = Held /\ Numbered' = Numbered \cup {seg.id} /\ seg.id \in Held
         /\ \A i \in Numbered : sdu'[i].sn = sdu[i].sn
<1>1. /\ BothInv /\ tx_next \in SN /\ tx_next_ack \in SN /\ rx_next \in SN /\ Nested /\ HungAtHead
      /\ FatesOk /\ sdu \in [Ids -> SduType] /\ delivered \in [Ids -> 0 .. 2] /\ seg.id \in Held
      /\ hung \in BOOLEAN
  BY LinkTypeFacts DEF LinkInv
<1>2. Held' = Held /\ seg.id \in Ids /\ sdu[seg.id].fate = "held"
  BY <1>1 DEF SendsFrom, Held
<1>3. CASE /\ sdu[seg.id].sn # NoSn /\ sdu'[seg.id].sn = sdu[seg.id].sn /\ tx_next' = tx_next
  <2>1. \A i \in Ids : sdu'[i].sn = sdu[i].sn
    BY <1>3 DEF SendsFrom
  <2>2. Numbered' = Numbered /\ seg.id \in Numbered /\ \A i \in Numbered : sdu'[i].sn = sdu[i].sn
    BY <1>1, <1>2, <1>3, <2>1 DEF Numbered, Held
  <2>3. \A x \in SN : Age(x)' = Age(x) + 0
    BY <1>1, <1>3, AgeFacts DEF Age
  <2> QED BY <1>1, <1>2, <1>3, <2>2, <2>3
<1>4. CASE /\ sdu[seg.id].sn = NoSn /\ sdu'[seg.id].sn = tx_next /\ tx_next' = Succ(tx_next)
           /\ Dist(tx_next_ack, tx_next) < W
  <2>1. \A x \in SN : Age(x) <= W => Age(x)' = Age(x) + 1
    BY <1>1, <1>4, AgeFacts DEF Age
  <2>2. Age(tx_next) = 0 /\ Dist(tx_next, tx_next') = 1 /\ Age(tx_next_ack) < W
    <3>1. Age(tx_next) = 0
      BY <1>1, AgeFacts
    <3>2. Dist(tx_next, Succ(tx_next)) = 1
      BY <1>1, <3>1, AgeFacts, SizesAssumption
    <3> QED BY <1>4, <3>1, <3>2 DEF Age
  <2>3. ~hung
    <3>1. Age(rx_next) \in Nat /\ Age(tx_next_ack) \in Nat /\ W \in Nat
      BY <1>1, AgeFacts, SizesAssumption
    <3> QED BY <1>1, <2>2, <3>1 DEF Nested, HungAtHead
  <2>4. delivered[seg.id] = 0
    BY <1>1, <1>2, <1>4 DEF FatesOk
  <2>5. tx_next # NoSn
    BY <1>1, SizesAssumption DEF SN, NoSn, sn_modulus
  <2>6. /\ Numbered' = Numbered \cup {seg.id} /\ seg.id \notin Numbered
        /\ \A i \in Numbered : sdu'[i].sn = sdu[i].sn
    <3>1. \A i \in Ids : i # seg.id => sdu'[i].sn = sdu[i].sn
      BY DEF SendsFrom
    <3>2. seg.id \notin Numbered /\ seg.id \in Numbered'
      BY <1>1, <1>2, <1>4, <2>5 DEF Numbered
    <3>3. \A i \in Held : i # seg.id => (i \in Numbered' <=> i \in Numbered) /\ i \in Ids
      BY <1>2, <3>1 DEF Numbered, Held
    <3> QED BY <1>2, <3>1, <3>2, <3>3 DEF Numbered
  <2> QED BY <1>1, <1>2, <1>4, <2>1, <2>2, <2>3, <2>4, <2>6
<1> QED
  BY <1>3, <1>4 DEF SendsFrom

\* The bytes of a segment that is sent are in the PDU or go back to the list.
LEMMA BytesAreKept ==
  ASSUME TxInv, NEW size, NEW seg \in Segments, SendsFrom(seg, size),
         NEW s \in Segments, NEW u \in Bytes(s)
  PROVE  \E t \in Segments' : t.id = s.id /\ u \in Bytes(t)
<1>1. /\ Segments' = (Segments \ {seg}) \cup Pieces(seg, size) /\ seg \in Segment
      /\ size \in Nat /\ Fits(seg, size)
  BY TxFacts DEF SendsFrom, TxInv
<1>2. CASE s = seg
  <2>1. PICK p \in Pieces(seg, size) : u \in Bytes(p)
    BY <1>1, <1>2, PiecesOfSegment
  <2>2. p.id = seg.id
    BY <1>1, PiecesOfSegment
  <2> QED BY <1>1, <1>2, <2>1, <2>2
<1>3. CASE s # seg
  BY <1>1, <1>3
<1> QED
  BY <1>2, <1>3

\* Building a data PDU keeps the invariant: a PDU made of a segment says what its SDU
\* says, a new SN takes a free place above the receive window's SNs, and what is still
\* under way is not older than a window.
LEMMA SendPduStep ==
  ASSUME LinkInv, SendPdu
  PROVE  LinkInv'
<1>1. BothInv /\ BothInv'
  BY BothStep DEF LinkInv, Next
<1>2. PICK size \in TbSizes : GeneratePdu(size)
  BY DEF SendPdu
<1>3. PICK seg \in Segments : SendsFrom(seg, size)
  BY <1>1, <1>2, LinkTypeFacts, GenerateRetxPduInv, GenerateTxPduInv DEF GeneratePdu
<1>4. /\ UNCHANGED <<rx_next, rx_next_highest, rx_list, hung, delivered, garbled>>
      /\ ctl' = {st \in ctl : Dist(st.ack_sn, tx_next') <= W}
  BY DEF SendPdu, rxptrs
<1> DEFINE i0 == seg.id
           n0 == sdu'[i0].sn
<1>5. PICK d \in {0, 1} :
         /\ \A x \in SN : Age(x) <= W => Age(x)' = Age(x) + d
         /\ d = 1 => /\ Age(tx_next_ack) < W /\ ~hung /\ delivered[i0] = 0
                     /\ n0 = tx_next /\ Dist(tx_next, tx_next') = 1
                     /\ i0 \notin Numbered
                     /\ Age(tx_next) = 0
         /\ d = 0 => i0 \in Numbered /\ tx_next' = tx_next
         /\ Held' = Held /\ Numbered' = Numbered \cup {i0} /\ i0 \in Held
         /\ \A i \in Numbered : sdu'[i].sn = sdu[i].sn
  BY <1>3, <1>4, SendNumbers
<1>6. /\ TxInv /\ RxInv
      /\ tx_next \in SN /\ tx_next_ack \in SN /\ rx_next \in SN /\ rx_next_highest \in SN
      /\ delivered \in [Ids -> 0 .. 2] /\ rx_list \in BufferType /\ hung \in BOOLEAN
      /\ air \in SUBSET DataPdu /\ ctl \in SUBSET StatusPdu /\ Segments \in SUBSET Segment
      /\ W \in Nat \ {0}
  BY <1>1, LinkTypeFacts, SizesAssumption
<1>7. /\ TxNextAckIsOldest /\ DistinctSns /\ Nested /\ AirGenuine /\ BufferGenuine
      /\ DoneIsDelivered /\ MissingIsHeld /\ NothingLost /\ StatusTrue /\ HungAtHead /\ FatesOk
      /\ DeliveredWhole /\ ~garbled
  BY DEF LinkInv
<1>8. /\ \A x \in SN : Age(x) \in Nat
      /\ Age(tx_next_ack) <= W /\ Age(rx_next) <= Age(tx_next_ack)
      /\ Age(rx_next_highest) <= Age(rx_next)
  BY <1>1, <1>6, <1>7, AgeFacts, LinkTypeFacts DEF Nested
<1>9. /\ Age(rx_next)' = Age(rx_next) + d /\ Age(rx_next_highest)' = Age(rx_next_highest) + d
      /\ Age(tx_next_ack)' = Age(tx_next_ack) + d
  <2>1. tx_next_ack' = tx_next_ack
    BY <1>3 DEF SendsFrom
  <2>2. \A x \in SN : Age(x) <= W => Dist(x, tx_next') = Age(x) + d
    BY <1>5 DEF Age
  <2>3. Dist(rx_next, tx_next') = Age(rx_next) + d
    BY <1>6, <1>8, <2>2
  <2>4. Dist(rx_next_highest, tx_next') = Age(rx_next_highest) + d
    BY <1>6, <1>8, <2>2
  <2>5. Dist(tx_next_ack, tx_next') = Age(tx_next_ack) + d
    BY <1>6, <1>8, <2>2
  <2> QED BY <1>4, <2>1, <2>3, <2>4, <2>5 DEF Age
<1>10. /\ Buffered' = Buffered /\ \A i, u : Got(i, u)' <=> Got(i, u)
       /\ \A x : SlotOf(x)' = SlotOf(x)
  BY <1>4 DEF Buffered, Got, SlotOf
<1>11. \A x \in SN : Age(x) <= W => (Done(x)' <=> Done(x))
  <2> SUFFICES ASSUME NEW x \in SN, Age(x) <= W
               PROVE  Done(x)' <=> Done(x)
    OBVIOUS
  <2>1. Age(x)' > Age(rx_next)' <=> Age(x) > Age(rx_next)
    BY <1>5, <1>6, <1>8, <1>9
  <2> QED BY <1>10, <2>1 DEF Done
<1>12. \A i \in Numbered : /\ sdu[i].sn \in SN /\ Age(sdu[i].sn) \in 1 .. W
                           /\ Age(sdu[i].sn) <= Age(tx_next_ack) /\ i \in Ids
  BY <1>1, <1>7, NumberedFacts
<1>13. \A i \in Ids : sdu'[i].size = sdu[i].size /\ sdu'[i].fate = sdu[i].fate
  BY <1>3 DEF SendsFrom
<1>14. i0 \in Ids /\ n0 \in SN
  BY <1>5, <1>6, <1>12 DEF Held
<1>15. \A i \in Numbered' : i # i0 => i \in Numbered /\ i \in Ids /\ sdu'[i].sn = sdu[i].sn
  BY <1>5, <1>12
<1>16. d = 0 => n0 = sdu[i0].sn
  BY <1>5
<1>17. d \in Nat
  BY <1>5
<1> HIDE DEF i0, n0
<1>18. n0 = sdu'[i0].sn /\ i0 = seg.id
  BY DEF i0, n0
<1>20. TxNextAckIsOldest'
  <2>1. tx_next_ack' = tx_next_ack
    BY <1>3 DEF SendsFrom
  <2>2. \A i \in Numbered' : Dist(tx_next_ack, sdu'[i].sn) < Dist(tx_next_ack, tx_next')
    <3> SUFFICES ASSUME NEW i \in Numbered'
                 PROVE  Dist(tx_next_ack, sdu'[i].sn) < Dist(tx_next_ack, tx_next')
      OBVIOUS
    <3>1. Dist(tx_next_ack, tx_next') = Dist(tx_next_ack, tx_next) + d
      BY <1>5, <1>6, <1>8 DEF Age
    <3>2. Dist(tx_next_ack, tx_next) \in Nat
      BY <1>6, <1>8 DEF Age
    <3>3. CASE i \in Numbered
      <4>1. sdu'[i].sn = sdu[i].sn
        BY <1>5, <3>3
      <4>2. Dist(tx_next_ack, sdu[i].sn) < Dist(tx_next_ack, tx_next)
        BY <1>7, <3>3 DEF TxNextAckIsOldest, TxBefore, Numbered
      <4>3. Dist(tx_next_ack, sdu[i].sn) \in Nat
        BY <1>6, <1>12, <3>3, DistRange
      <4> QED BY <1>17, <3>1, <3>2, <4>1, <4>2, <4>3
    <3>4. CASE i \notin Numbered
      <4>1. i = i0 /\ d = 1
        BY <1>5, <1>15, <1>18, <3>4
      <4>2. sdu'[i].sn = tx_next
        BY <1>5, <1>18, <4>1
      <4> QED BY <3>1, <3>2, <4>1, <4>2
    <3> QED BY <3>3, <3>4
  <2> QED BY <1>5, <2>1, <2>2 DEF TxNextAckIsOldest, TxBefore, Numbered
<1>21. DistinctSns'
  <2> SUFFICES ASSUME NEW i \in Numbered', NEW j \in Numbered', sdu'[i].sn = sdu'[j].sn
               PROVE  i = j
    BY DEF DistinctSns
  <2>1. CASE i \in Numbered /\ j \in Numbered
    BY <1>5, <1>7, <2>1 DEF DistinctSns
  <2>2. ASSUME NEW k \in Numbered', k \notin Numbered
        PROVE  k = i0 /\ d = 1 /\ sdu'[k].sn = tx_next /\ Age(tx_next) = 0
    BY <1>5, <1>15, <1>18, <2>2
  <2>3. ASSUME NEW k \in Numbered
        PROVE  sdu'[k].sn = sdu[k].sn /\ Age(sdu[k].sn) # 0
    BY <1>5, <1>12, <2>3
  <2> QED BY <2>1, <2>2, <2>3
<1>22. Nested'
  <2>1. Age(rx_next) \in Nat /\ Age(tx_next_ack) \in Nat /\ Age(rx_next_highest) \in Nat
    BY <1>6, <1>8
  <2> QED BY <1>8, <1>9, <1>17, <2>1 DEF Nested
<1>23. ASSUME NEW q, Genuine(q)
       PROVE  Genuine(q)'
  <2>1. q.id \in Numbered /\ q.id \in Ids /\ q.id \in Numbered'
    BY <1>5, <1>12, <1>23 DEF Genuine
  <2> QED BY <1>5, <1>13, <1>23, <2>1 DEF Genuine
<1>24. ASSUME i0 \in Numbered
       PROVE  d = 0 /\ n0 = sdu[i0].sn
  BY <1>5, <1>18, <1>24
<1>25. ASSUME NEW q \in air, Dist(q.sn, tx_next') <= W
       PROVE  /\ (Age(q.sn) \in 1 .. W)'
              /\ delivered'[q.id] = 0 => Genuine(q)'
              /\ delivered'[q.id] > 0 => Done(q.sn)'
  <2>1. q.sn \in SN /\ Age(q.sn) \in 1 .. W
    BY <1>6, <1>7 DEF AirGenuine, DataPdu
  <2>2. Age(q.sn)' = Age(q.sn) + d
    BY <1>5, <2>1
  <2>3. Age(q.sn)' <= W
    BY <1>25 DEF Age
  <2>4. (Age(q.sn) \in 1 .. W)'
    BY <1>17, <2>1, <2>2, <2>3
  <2>5. Done(q.sn)' <=> Done(q.sn)
    BY <1>11, <2>1
  <2> QED BY <1>4, <1>7, <1>23, <2>4, <2>5 DEF AirGenuine
<1>26. PICK p \in BOOLEAN :
         air' = Young(tx_next') \cup
                  {[id |-> i0, sn |-> n0, so |-> seg.so, size |-> Front(seg, size).size,
                    is_last |-> seg.so + Front(seg, size).size = sdu[i0].size, p |-> p]}
  BY <1>3, <1>18 DEF SendsFrom
<1> DEFINE pdu == [id |-> i0, sn |-> n0, so |-> seg.so, size |-> Front(seg, size).size,
                   is_last |-> seg.so + Front(seg, size).size = sdu[i0].size, p |-> p]
<1>27. ASSUME NEW q, q = pdu
       PROVE  Genuine(q)'
  <2>1. /\ seg \in Segment /\ size \in Nat /\ Fits(seg, size) /\ seg.id \in Ids
        /\ seg.so \in Nat /\ seg.size \in Nat /\ seg.so + seg.size <= sdu[seg.id].size
    <3>1. seg \in Segment /\ size \in Nat /\ Fits(seg, size) /\ seg.id \in Ids
      BY <1>3, <1>6, <1>14, <1>18 DEF SendsFrom
    <3>2. seg.so \in Nat /\ seg.size \in Nat
      BY <3>1, SegmentsFinite
    <3>3. seg.so + seg.size <= sdu[seg.id].size
      BY <1>6 DEF TxInv, Structure, SegmentsFit
    <3> QED BY <3>1, <3>2, <3>3
  <2>2. Front(seg, size).size <= seg.size /\ Front(seg, size) \in Segment
    BY <2>1, PiecesOfSegment
  <2>3. Front(seg, size).size \in Nat
    BY <2>2, SegmentsFinite
  <2>4. sdu[i0].size \in Nat /\ sdu'[i0].size = sdu[i0].size
    <3>1. sdu \in [Ids -> SduType]
      BY <1>1, LinkTypeFacts
    <3> QED BY <1>13, <1>14, <3>1, SizesAssumption DEF SduType
  <2>5. i0 \in Numbered'
    BY <1>5, <1>18
  <2>6. seg.so + Front(seg, size).size <= sdu[i0].size
    BY <1>18, <2>1, <2>2, <2>3, <2>4
  <2>7. /\ q.id = i0 /\ q.sn = n0 /\ q.so = seg.so /\ q.size = Front(seg, size).size
        /\ q.is_last = (seg.so + Front(seg, size).size = sdu[i0].size)
    BY <1>27
  <2> HIDE DEF pdu
  <2>8. (q.id \in Numbered)' /\ (sdu[q.id].sn = q.sn)'
    BY <1>18, <2>5, <2>7
  <2>9. (q.so + q.size <= sdu[q.id].size)'
    BY <2>4, <2>6, <2>7
  <2>10. (q.is_last <=> q.so + q.size = sdu[q.id].size)'
    BY <2>4, <2>7, Zenon
  <2> QED BY <2>8, <2>9, <2>10 DEF Genuine
<1>28. AirGenuine'
  <2> SUFFICES ASSUME NEW q \in air'
               PROVE  /\ (Age(q.sn) \in 1 .. W)'
                      /\ delivered'[q.id] = 0 => Genuine(q)'
                      /\ delivered'[q.id] > 0 => Done(q.sn)'
    BY DEF AirGenuine
  <2>1. CASE q \in Young(tx_next')
    BY <1>25, <2>1 DEF Young
  <2>2. CASE q = pdu
    <3>1. q.sn = n0 /\ q.id = i0
      BY <2>2
    <3>2. Genuine(q)'
      BY <1>27, <2>2
    <3> HIDE DEF pdu
    <3>3. CASE d = 1
      <4>1. Dist(n0, tx_next') = 1 /\ delivered[i0] = 0
        BY <1>5, <1>18, <3>3
      <4>2. (Age(q.sn) \in 1 .. W)'
        BY <1>6, <3>1, <4>1 DEF Age
      <4> QED BY <1>4, <3>1, <3>2, <4>1, <4>2
    <3>4. CASE d = 0
      <4>1. i0 \in Numbered /\ n0 = sdu[i0].sn /\ tx_next' = tx_next
        BY <1>5, <1>18, <3>4
      <4>2. Age(n0) \in 1 .. W /\ n0 \in SN
        BY <1>12, <4>1
      <4>3. Dist(n0, tx_next') = Age(n0)
        BY <4>1 DEF Age
      <4>4. (Age(q.sn) \in 1 .. W)'
        BY <3>1, <4>2, <4>3 DEF Age
      <4>5. delivered[i0] > 0 => Done(n0)
        BY <1>7, <4>1 DEF DoneIsDelivered
      <4>6. q.sn \in SN /\ Age(q.sn) <= W
        BY <3>1, <4>2
      <4>7. Done(q.sn)' <=> Done(q.sn)
        BY <1>11, <4>6
      <4> QED BY <1>4, <3>1, <3>2, <4>4, <4>5, <4>7
    <3> QED BY <1>5, <3>3, <3>4
  <2> QED BY <1>26, <2>1, <2>2
<1>29. BufferGenuine'
  <2>1. \A q \in Buffered' : delivered'[q.id] = 0 /\ Genuine(q)'
    BY <1>4, <1>7, <1>10, <1>23 DEF BufferGenuine
  <2>2. (\A s \in Slots : ~sdu_full(rx_list[s]))' /\ DeliveredIsFreed'
    BY <1>4, <1>7 DEF BufferGenuine, DeliveredIsFreed
  <2> QED BY <2>1, <2>2 DEF BufferGenuine
<1>30. d = 1 => ~SlotOf(tx_next).delivered /\ Age(rx_next) + 1 <= W
  <2> SUFFICES ASSUME d = 1
               PROVE  ~SlotOf(tx_next).delivered /\ Age(rx_next) + 1 <= W
    OBVIOUS
  <2>1. Age(rx_next) \in Nat /\ Age(rx_next) < W /\ Age(rx_next_highest) \in Nat
    BY <1>5, <1>6, <1>8
  <2>2. Plus(rx_next, Age(rx_next)) = tx_next
    BY <1>6, DistRange DEF Age
  <2>3. Dist(rx_next, rx_next_highest) = Age(rx_next) - Age(rx_next_highest)
    BY <1>6, <1>8, DistIsAge
  <2>4. Age(rx_next) \in Dist(rx_next, rx_next_highest) .. W - 1
    BY <1>6, <2>1, <2>3
  <2>5. IsEmpty(rx_list[Sl(Age(rx_next))])
    BY <1>5, <1>6, <2>4, WindowFacts
  <2> QED BY <2>1, <2>2, <2>5, SizesAssumption DEF IsEmpty, Sl, SlotOf
<1>31. DoneIsDelivered'
  <2> SUFFICES ASSUME NEW i \in Numbered'
               PROVE  (delivered[i] > 0 <=> Done(sdu[i].sn))'
    BY DEF DoneIsDelivered
  <2>1. CASE i \in Numbered
    <3>1. sdu'[i].sn = sdu[i].sn /\ sdu[i].sn \in SN /\ Age(sdu[i].sn) <= W
      BY <1>5, <1>12, <2>1
    <3>2. delivered[i] > 0 <=> Done(sdu[i].sn)
      BY <1>7, <2>1 DEF DoneIsDelivered
    <3> QED BY <1>4, <1>11, <3>1, <3>2
  <2>2. CASE i \notin Numbered
    <3>1. i = i0 /\ d = 1
      BY <1>5, <1>15, <1>18, <2>2
    <3>2. sdu'[i].sn = tx_next /\ Dist(tx_next, tx_next') = 1 /\ delivered[i] = 0
      BY <1>5, <1>18, <3>1
    <3>3. PICK x \in SN : x = tx_next
      BY <1>6
    <3>4. Dist(x, tx_next') = 1 /\ ~rx_list[get_pos(x)].delivered
      BY <1>30, <3>1, <3>2, <3>3 DEF SlotOf
    <3>5. Age(rx_next)' \in Nat /\ Age(rx_next)' >= 1
      <4>1. Age(rx_next) \in Nat
        BY <1>6, <1>8
      <4> QED BY <1>9, <3>1, <4>1
    <3>6. ~Done(x)'
      BY <1>4, <3>4, <3>5 DEF Done, Age, SlotOf
    <3> QED BY <1>4, <3>2, <3>3, <3>6
  <2> QED BY <2>1, <2>2
<1>32. MissingIsHeld'
  <2> SUFFICES ASSUME NEW k \in 0 .. Age(rx_next)' - 1,
                      ~SlotOf(Plus(rx_next, k)).delivered
               PROVE  \E i \in Numbered' : sdu'[i].sn = Plus(rx_next, k)
    BY <1>4, <1>10 DEF MissingIsHeld
  <2>1. Age(rx_next) \in Nat
    BY <1>6, <1>8
  <2>2. CASE k < Age(rx_next)
    <3>1. k \in 0 .. Age(rx_next) - 1
      BY <2>1, <2>2
    <3>2. PICK i \in Numbered : sdu[i].sn = Plus(rx_next, k)
      BY <1>7, <3>1 DEF MissingIsHeld
    <3> QED BY <1>5, <3>2
  <2>3. CASE ~(k < Age(rx_next))
    <3>1. k = Age(rx_next) /\ d = 1
      BY <1>5, <1>9, <2>1, <2>3
    <3>2. Plus(rx_next, k) = tx_next
      BY <1>6, <3>1, DistRange DEF Age
    <3> QED BY <1>5, <1>18, <3>1, <3>2
  <2> QED BY <2>2, <2>3
<1>33. NothingLost'
  <2> SUFFICES ASSUME NEW i \in Held, NEW u \in 0 .. sdu[i].size - 1
               PROVE  (\E s \in Segments' : s.id = i /\ u \in Bytes(s)) \/ Got(i, u)
    <3>1. \A i \in Held : sdu'[i].size = sdu[i].size
      BY <1>13 DEF Held
    <3> QED BY <1>5, <1>10, <3>1 DEF NothingLost
  <2>1. (\E s \in Segments : s.id = i /\ u \in Bytes(s)) \/ Got(i, u)
    BY <1>7 DEF NothingLost
  <2>2. ASSUME NEW s \in Segments, s.id = i, u \in Bytes(s)
        PROVE  \E t \in Segments' : t.id = i /\ u \in Bytes(t)
    BY <1>3, <1>6, <2>2, BytesAreKept
  <2> QED BY <2>1, <2>2
<1>34. StatusTrue'
  <2> SUFFICES ASSUME NEW st \in ctl'
               PROVE  Age(st.ack_sn)' <= W /\ (~st.wraps => Truthful(st)')
    BY DEF StatusTrue
  <2>1. st \in ctl /\ Dist(st.ack_sn, tx_next') <= W /\ st.ack_sn \in SN
    BY <1>4, <1>6 DEF StatusPdu
  <2>2. Age(st.ack_sn) <= W /\ (~st.wraps => Truthful(st))
    BY <1>7, <2>1 DEF StatusTrue
  <2>3. Age(st.ack_sn)' = Age(st.ack_sn) + d
    BY <1>5, <2>1, <2>2
  <2>4. ASSUME ~st.wraps, NEW i \in Numbered', (Age(sdu[i].sn) > Age(st.ack_sn))',
               NEW u \in 0 .. sdu'[i].size - 1
        PROVE  <<sdu'[i].sn, u>> \in st.nack \/ Got(i, u)
    <3>1. Age(st.ack_sn) \in Nat
      BY <1>8, <2>1
    <3>2. CASE i \in Numbered
      <4>1. sdu'[i].sn = sdu[i].sn /\ sdu[i].sn \in SN /\ Age(sdu[i].sn) \in 1 .. W /\ i \in Ids
        BY <1>5, <1>12, <3>2
      <4>2. Dist(sdu[i].sn, tx_next') = Age(sdu[i].sn) + d
        BY <1>5, <4>1 DEF Age
      <4>3. Dist(sdu[i].sn, tx_next') > Age(st.ack_sn) + d
        BY <2>3, <2>4, <4>1 DEF Age
      <4>4. Age(sdu[i].sn) > Age(st.ack_sn)
        BY <1>17, <3>1, <4>1, <4>2, <4>3
      <4> QED BY <1>13, <2>2, <2>4, <3>2, <4>1, <4>4 DEF Truthful
    <3>3. CASE i \notin Numbered
      <4>1. d = 1 /\ sdu'[i].sn = tx_next /\ Dist(tx_next, tx_next') = 1
        BY <1>5, <1>15, <1>18, <3>3
      <4>2. 1 > Age(st.ack_sn) + 1
        BY <2>3, <2>4, <4>1 DEF Age
      <4> QED BY <3>1, <4>2
    <3> QED BY <3>2, <3>3
  <2>5. ~st.wraps => Truthful(st)'
    BY <1>10, <2>4 DEF Truthful
  <2> QED BY <2>1, <2>5 DEF Age
<1>35. HungAtHead'
  <2> SUFFICES ASSUME hung
               PROVE  (Age(rx_next) = W)' /\ HeadHeld' /\ \A s \in Slots : rx_list[s].delivered
    BY <1>4 DEF HungAtHead
  <2>1. d = 0 /\ tx_next' = tx_next /\ i0 \in Numbered
    BY <1>5, <1>18
  <2>2. \A x : Age(x)' = Age(x)
    BY <2>1 DEF Age
  <2>3. Age(rx_next)' = Age(rx_next)
    BY <1>4, <2>1 DEF Age
  <2>4. Age(rx_next) = W /\ HeadHeld /\ \A s \in Slots : rx_list[s].delivered
    BY <1>7 DEF HungAtHead
  <2>5. PICK s \in Segments : \E v \in Bytes(s) :
          /\ SnOf(s) = rx_next
          /\ \A st \in ctl : ~st.wraps /\ Age(st.ack_sn) < Age(rx_next) => <<rx_next, v>> \in st.nack
    BY <2>4 DEF HeadHeld
  <2>6. PICK u \in Bytes(s) :
          /\ SnOf(s) = rx_next
          /\ \A st \in ctl : ~st.wraps /\ Age(st.ack_sn) < Age(rx_next) => <<rx_next, u>> \in st.nack
    BY <2>5
  <2>7. PICK t \in Segments' : t.id = s.id /\ u \in Bytes(t)
    BY <1>3, <1>6, BytesAreKept
  <2>8. SnOf(t)' = rx_next
    <3>1. s.id \in Held
      BY <1>1, LinkTypeFacts
    <3>2. s.id \in Numbered
      BY <1>6, <2>6, <3>1, SizesAssumption DEF SnOf, Numbered, SN, NoSn, sn_modulus
    <3> QED BY <1>5, <2>6, <2>7, <3>2 DEF SnOf
  <2>9. \A st \in ctl' : ~st.wraps /\ Age(st.ack_sn)' < Age(rx_next)' => <<rx_next, u>> \in st.nack
    BY <1>4, <2>2, <2>3, <2>6
  <2>10. HeadHeld'
    BY <1>4, <2>7, <2>8, <2>9 DEF HeadHeld
  <2> QED BY <2>3, <2>4, <2>10
<1>36. FatesOk'
  <2> SUFFICES ASSUME NEW i \in Ids
               PROVE  /\ sdu'[i].fate = "acked" => delivered[i] > 0
                      /\ delivered[i] > 0 => sdu'[i].fate # "none"
                      /\ delivered[i] < 2
                      /\ sdu'[i].fate = "held" /\ sdu'[i].sn = NoSn => delivered[i] = 0
    BY <1>4 DEF FatesOk
  <2>1. CASE i = i0
    <3>1. n0 # NoSn
      BY <1>14, SizesAssumption DEF SN, NoSn, sn_modulus
    <3> QED BY <1>7, <1>13, <1>18, <2>1, <3>1 DEF FatesOk
  <2>2. CASE i # i0
    <3>1. sdu'[i].sn = sdu[i].sn
      BY <1>3, <1>18, <2>2 DEF SendsFrom
    <3> QED BY <1>7, <1>13, <3>1 DEF FatesOk
  <2> QED BY <2>1, <2>2
<1>37. DeliveredWhole'
  <2>1. ASSUME NEW i \in Numbered', delivered[i] > 0, (Age(sdu[i].sn) <= Age(rx_next))'
        PROVE  0 .. sdu'[i].size - 1 \subseteq SlotOf(sdu'[i].sn).freed
    <3>1. i \in Numbered
      BY <1>5, <1>15, <1>18, <2>1
    <3>2. sdu'[i].sn = sdu[i].sn /\ sdu[i].sn \in SN /\ Age(sdu[i].sn) \in 1 .. W /\ i \in Ids
      BY <1>5, <1>12, <3>1
    <3>3. Dist(sdu[i].sn, tx_next') = Age(sdu[i].sn) + d
      BY <1>5, <3>2 DEF Age
    <3>4. Dist(sdu[i].sn, tx_next') <= Age(rx_next) + d
      BY <1>9, <2>1, <3>2 DEF Age
    <3>5. Age(sdu[i].sn) <= Age(rx_next)
      BY <1>6, <1>8, <1>17, <3>2, <3>3, <3>4
    <3> QED BY <1>7, <1>13, <2>1, <3>1, <3>2, <3>5 DEF DeliveredWhole
  <2>2. ASSUME NEW q \in air', delivered[q.id] > 0, (Age(q.sn) <= Age(rx_next))'
        PROVE  Bytes(q) \subseteq SlotOf(q.sn).freed
    <3>1. CASE q \in Young(tx_next')
      <4>1. q \in air /\ q.sn \in SN /\ Age(q.sn) \in 1 .. W
        BY <1>6, <1>7, <3>1 DEF Young, AirGenuine, DataPdu
      <4>2. Age(q.sn)' = Age(q.sn) + d
        BY <1>5, <4>1
      <4>3. Age(q.sn) <= Age(rx_next)
        BY <1>6, <1>8, <1>9, <1>17, <2>2, <4>1, <4>2
      <4> QED BY <1>7, <2>2, <4>1, <4>3 DEF DeliveredWhole
    <3>2. CASE q = pdu
      <4>1. Genuine(q)' /\ q.so = seg.so /\ q.size = Front(seg, size).size
        BY <1>27, <3>2
      <4>2. q.id \in Numbered' /\ sdu'[q.id].sn = q.sn /\ q.so + q.size <= sdu'[q.id].size
        BY <4>1 DEF Genuine
      <4>3. 0 .. sdu'[q.id].size - 1 \subseteq SlotOf(q.sn).freed
        BY <1>4, <2>1, <2>2, <4>2
      <4>4. q.so \in Nat /\ q.size \in Nat /\ sdu'[q.id].size \in Nat
        <5>1. seg \in Segment /\ size \in Nat /\ Fits(seg, size)
          BY <1>3, <1>6 DEF SendsFrom
        <5>2. Front(seg, size) \in Segment /\ seg.so \in Nat /\ Front(seg, size).size \in Nat
          BY <5>1, PiecesOfSegment, SegmentsFinite
        <5>3. sdu \in [Ids -> SduType]
          BY <1>1, LinkTypeFacts
        <5>4. q.id \in Ids
          BY <1>5, <1>12, <1>14, <4>2
        <5>5. sdu'[q.id].size \in Nat
          BY <1>13, <5>3, <5>4, SizesAssumption DEF SduType
        <5> QED BY <4>1, <5>2, <5>5
      <4>5. Bytes(q) \subseteq 0 .. sdu'[q.id].size - 1
        BY <4>2, <4>4 DEF Bytes
      <4> QED BY <4>3, <4>5
    <3> QED BY <1>26, <3>1, <3>2
  <2> QED BY <1>4, <1>10, <2>1, <2>2 DEF DeliveredWhole
<1> QED
  BY <1>1, <1>4, <1>7, <1>20, <1>21, <1>22, <1>28, <1>29, <1>31, <1>32, <1>33, <1>34, <1>35, <1>36,
     <1>37 DEF LinkInv

\* The PDU that the receiver keeps, and where its window goes: m places up.
KeptAt(q, m) ==
  /\ Age(rx_next)' = Age(rx_next) - m /\ rx_next' \in SN
  /\ m > 0 => Completes(q) /\ q.sn = rx_next
  /\ \A k \in 0 .. m - 1 : FreedWith(q)[Sl(k)].delivered
  /\ \A k \in 0 .. W - 1 : rx_list'[Sl(k)] = IF k < m THEN EmptySlot ELSE FreedWith(q)[Sl(k)]
  /\ Age(rx_next_highest)' <= Age(rx_next) - m
  /\ hung' => /\ m = 0 /\ rx_next' = rx_next /\ rx_list' = FreedWith(q)
              /\ \A s \in Slots : FreedWith(q)[s].delivered

\* A PDU in the window whose SDU is not delivered is one of those that the transmitter
\* would send now.
LEMMA KeptIsGenuine ==
  ASSUME LinkInv, ~hung, NEW q \in air, ~Discarded(q), reception_actions(q)
  PROVE  /\ q \in DataPdu /\ q.sn \in SN /\ q.id \in Ids
         /\ Age(q.sn) \in 1 .. Age(rx_next) /\ Age(rx_next) \in Nat /\ Age(rx_next) <= W
         /\ delivered[q.id] = 0 /\ Genuine(q)
         /\ get_pos(q.sn) = Sl(Age(rx_next) - Age(q.sn)) /\ get_pos(q.sn) \in Slots
         /\ ~rx_list[get_pos(q.sn)].delivered
<1>1. /\ BothInv /\ RxInv /\ TxNextAckIsOldest /\ Nested /\ AirGenuine /\ tx_next \in SN /\ rx_next \in SN
      /\ tx_next_ack \in SN
      /\ q \in DataPdu /\ Age(tx_next_ack) <= W /\ delivered \in [Ids -> 0 .. 2]
  BY LinkTypeFacts DEF LinkInv
<1>2. q.sn \in SN /\ q.id \in Ids
  BY <1>1 DEF DataPdu
<1>3. /\ Age(rx_next) \in Nat /\ Age(tx_next_ack) \in Nat /\ Age(q.sn) \in Nat /\ W \in Nat
  BY <1>1, <1>2, AgeFacts, SizesAssumption
<1>4. Age(rx_next) <= W
  BY <1>1, <1>3 DEF Nested
<1>5. Age(q.sn) \in 1 .. W
  BY <1>1 DEF AirGenuine
<1>7. Dist(rx_next, q.sn) \in 0 .. W - 1
  <2>1. Dist(rx_next, q.sn) < W
    BY DEF Discarded, sn_in_recv_window
  <2> QED BY <1>1, <1>2, <1>3, <2>1, DistRange
<1>8. Age(q.sn) <= Age(rx_next)
  <2>1. CASE Age(q.sn) > Age(rx_next)
    <3>1. Dist(rx_next, q.sn) = Age(rx_next) - Age(q.sn) + sn_modulus
      BY <1>1, <1>2, <1>3, <2>1, DistIsAge
    <3> QED BY <1>3, <1>5, <1>7, <3>1 DEF sn_modulus
  <2> QED BY <1>3, <2>1
<1>10. delivered[q.id] = 0 /\ Genuine(q)
  <2>1. ~(delivered[q.id] > 0)
    <3> SUFFICES ASSUME delivered[q.id] > 0
                 PROVE  FALSE
      OBVIOUS
    <3>1. Bytes(q) \subseteq rx_list[get_pos(q.sn)].freed
      BY <1>8 DEF LinkInv, DeliveredWhole, SlotOf
    <3>2. segment_already_received(q)
      BY <3>1 DEF segment_already_received, Covered
    <3> QED BY <3>2 DEF Discarded
  <2>2. delivered[q.id] = 0
    BY <1>1, <1>2, <2>1
  <2> QED BY <1>1, <2>2 DEF AirGenuine
<1>11. get_pos(q.sn) = Sl(Age(rx_next) - Age(q.sn)) /\ get_pos(q.sn) \in Slots
  BY <1>1, <1>2, <1>3, <1>4, <1>5, <1>8, SlotInWindow
<1>12. ~rx_list[get_pos(q.sn)].delivered
  <2>1. q.id \in Numbered /\ sdu[q.id].sn = q.sn
    BY <1>10 DEF Genuine
  <2>2. ~Done(q.sn)
    BY <1>10, <2>1 DEF LinkInv, DoneIsDelivered
  <2> QED BY <2>2 DEF Done, SlotOf
<1> QED
  BY <1>1, <1>2, <1>3, <1>4, <1>5, <1>8, <1>10, <1>11, <1>12

\* What the receiver's window and buffer become.
LEMMA KeptMoves ==
  ASSUME LinkInv, ~hung, NEW q \in air, ~Discarded(q), reception_actions(q), tx_next' = tx_next
  PROVE  \E m \in 0 .. Age(rx_next) : KeptAt(q, m)
<1>1. /\ q \in DataPdu /\ q.sn \in SN /\ ~rx_list[get_pos(q.sn)].delivered
      /\ Age(q.sn) \in 1 .. Age(rx_next) /\ Age(rx_next) \in Nat /\ Age(rx_next) <= W
  BY KeptIsGenuine
<1>2. /\ RxInv /\ tx_next \in SN /\ rx_next \in SN /\ rx_next_highest \in SN
      /\ Age(rx_next_highest) <= Age(rx_next) /\ Age(rx_next_highest) \in Nat
  BY LinkTypeFacts, AgeFacts DEF LinkInv, Nested
<1>3. KeepEffect(q) /\ rx_next' \in SN /\ rx_next_highest' \in SN /\ hung' \in BOOLEAN
      /\ rx_list' \in BufferType
  BY <1>1, <1>2, KeepPdu
<1> DEFINE a == Age(rx_next)
           hi == HighestAfter(q.sn)
<1>4. hi \in SN /\ Age(hi) \in Nat /\ Age(hi) <= a
  <2>1. CASE hi = rx_next_highest
    BY <1>2, <2>1
  <2>2. CASE hi = Succ(q.sn)
    <3>1. Succ(q.sn) = Plus(q.sn, 1) /\ 1 \in 0 .. Age(q.sn) /\ Succ(q.sn) \in SN
      BY <1>1, SuccIsPlus
    <3>2. Age(Plus(q.sn, 1)) = Age(q.sn) - 1
      BY <1>1, <1>2, <3>1, AgeOfPlus
    <3> QED BY <1>1, <2>2, <3>1, <3>2
  <2> QED BY <2>1, <2>2 DEF HighestAfter
<1>5. rx_next_highest' = hi
  BY <1>3 DEF KeepEffect
<1>6. Dist(rx_next, hi) = a - Age(hi)
  BY <1>2, <1>4, DistIsAge
<1>7. Moves(q) \in 0 .. a /\ Age(hi) <= a - Moves(q)
  <2>1. Moves(q) \in 0 .. Dist(rx_next, hi)
    BY <1>3, <1>5 DEF KeepEffect
  <2> HIDE DEF a, hi
  <2> QED BY <1>1, <1>4, <1>6, <2>1 DEF a
<1>8. Age(rx_next_highest)' = Age(hi)
  BY <1>5 DEF Age
<1>9. CASE ~hung'
  <2>1. rx_next' = Plus(rx_next, Moves(q))
    BY <1>3, <1>9 DEF KeepEffect
  <2>2. Age(Plus(rx_next, Moves(q))) = a - Moves(q)
    BY <1>2, <1>7, AgeOfPlus
  <2>3. Age(rx_next)' = a - Moves(q)
    BY <2>1, <2>2 DEF Age
  <2>4. KeptAt(q, Moves(q))
    BY <1>3, <1>7, <1>8, <1>9, <2>3 DEF KeptAt, KeepEffect
  <2> QED BY <1>7, <2>4
<1>10. CASE hung'
  <2>1. rx_next' = rx_next /\ rx_list' = FreedWith(q) /\ \A s \in Slots : FreedWith(q)[s].delivered
    BY <1>3, <1>10 DEF KeepEffect
  <2>2. Age(rx_next)' = a - 0
    BY <1>1, <2>1 DEF Age
  <2>3. \A k \in 0 .. W - 1 : rx_list'[Sl(k)] = IF k < 0 THEN EmptySlot ELSE FreedWith(q)[Sl(k)]
    BY <2>1
  <2>4. Age(rx_next_highest)' <= a - 0
    BY <1>1, <1>4, <1>8
  <2>5. \A k \in 0 .. 0 - 1 : FALSE
    OBVIOUS
  <2>6. KeptAt(q, 0)
    BY <1>3, <2>1, <2>2, <2>3, <2>4, <2>5 DEF KeptAt
  <2> QED BY <1>1, <2>6
<1> QED
  BY <1>3, <1>9, <1>10

\* Each slot is emptied, or gets the PDU, or stays.
LEMMA KeptSlots ==
  ASSUME LinkInv, ~hung, NEW q \in air, ~Discarded(q), reception_actions(q),
         NEW m \in 0 .. Age(rx_next), KeptAt(q, m), NEW s \in Slots
  PROVE  \/ /\ rx_list'[s] = EmptySlot
            /\ rx_list[s].delivered \/ (s = get_pos(q.sn) /\ Completes(q))
         \/ s = get_pos(q.sn) /\ Completes(q) /\ rx_list'[s] = FreedSlot(SlotWith(q))
         \/ s = get_pos(q.sn) /\ ~Completes(q) /\ rx_list'[s] = SlotWith(q)
         \/ s # get_pos(q.sn) /\ rx_list'[s] = rx_list[s]
<1>1. rx_next \in SN /\ rx_list \in BufferType /\ get_pos(q.sn) \in Slots
  BY LinkTypeFacts, KeptIsGenuine DEF LinkInv
<1>2. PICK k \in 0 .. W - 1 : s = Sl(k)
  BY <1>1, SlotsOfWindow DEF Sl
<1>3. FreedWith(q)[s] = IF s = get_pos(q.sn) THEN IF Completes(q) THEN FreedSlot(SlotWith(q)) ELSE SlotWith(q)
                        ELSE rx_list[s]
  BY <1>1 DEF FreedWith, BufferType
<1>4. rx_list'[s] = IF k < m THEN EmptySlot ELSE FreedWith(q)[s]
  BY <1>2 DEF KeptAt
<1>5. CASE k < m
  <2>1. k \in 0 .. m - 1 /\ m > 0
    BY <1>5
  <2>2. FreedWith(q)[s].delivered /\ Completes(q)
    BY <1>2, <2>1 DEF KeptAt
  <2> QED BY <1>3, <1>4, <1>5, <2>2
<1>6. CASE ~(k < m)
  BY <1>3, <1>4, <1>6
<1> QED
  BY <1>5, <1>6

\* The PDUs of the buffer have the SN and the SDU of their slot.
LEMMA OneSduPerSlot ==
  ASSUME LinkInv, NEW q, Genuine(q), NEW r \in Buffered
  PROVE  /\ r.sn = q.sn <=> r.id = q.id
         /\ /\ Age(rx_next) \in 1 .. W /\ q.sn \in SN /\ Age(q.sn) \in 1 .. Age(rx_next)
            /\ get_pos(r.sn) = get_pos(q.sn)
            => r.sn = q.sn
<1>1. /\ BothInv /\ BufferGenuine /\ DistinctSns /\ RxInv /\ rx_next \in SN /\ tx_next \in SN
  BY LinkTypeFacts DEF LinkInv
<1>2. Genuine(r)
  BY <1>1 DEF BufferGenuine
<1>3. r.sn = q.sn <=> r.id = q.id
  BY <1>1, <1>2 DEF Genuine, DistinctSns
<1>4. ASSUME Age(rx_next) \in 1 .. W, q.sn \in SN, get_pos(r.sn) = get_pos(q.sn),
             Age(q.sn) \in 1 .. Age(rx_next)
      PROVE  r.sn = q.sn
  <2>1. PICK s \in Slots : r \in rx_list[s].pdus
    BY DEF Buffered
  <2>2. PICK k \in 0 .. W - 1 : s = get_pos(Plus(rx_next, k))
    BY <1>1, SlotsOfWindow
  <2>3. r.sn = Plus(rx_next, k)
    BY <1>1, <2>1, <2>2 DEF RxInv, OneSnPerSlot
  <2>4. /\ Age(rx_next) - Age(q.sn) \in 0 .. W - 1
        /\ q.sn = Plus(rx_next, Age(rx_next) - Age(q.sn))
    <3>1. Age(rx_next) <= W /\ Age(q.sn) >= 1 /\ Age(q.sn) <= Age(rx_next)
      BY <1>4, SizesAssumption
    <3> QED BY <1>1, <1>4, <3>1, SlotInWindow
  <2>5. k = Age(rx_next) - Age(q.sn)
    BY <1>1, <1>4, <2>3, <2>4, SlotsOfWindow
  <2> QED BY <2>3, <2>4, <2>5
<1> QED
  BY <1>3, <1>4

\* What the buffer holds afterwards.
LEMMA KeptBuffer ==
  ASSUME LinkInv, ~hung, NEW q \in air, ~Discarded(q), reception_actions(q),
         NEW m \in 0 .. Age(rx_next), KeptAt(q, m)
  PROVE  /\ \A r \in Buffered : r \in Buffered' \/ (Completes(q) /\ r.id = q.id)
         /\ \A r \in Buffered' : \/ r = [q EXCEPT !.p = FALSE] /\ ~Completes(q)
                                 \/ r \in Buffered /\ (Completes(q) => r.id # q.id)
<1>1. /\ q \in DataPdu /\ q.sn \in SN /\ q.id \in Ids
      /\ Age(q.sn) \in 1 .. Age(rx_next) /\ Age(rx_next) \in Nat /\ Age(rx_next) <= W
      /\ Genuine(q) /\ get_pos(q.sn) \in Slots /\ ~rx_list[get_pos(q.sn)].delivered
  BY KeptIsGenuine
<1>2. BothInv /\ RxTypeOK /\ DeliveredIsFreed
  BY LinkTypeFacts DEF LinkInv, RxInv, BufferGenuine
<1>3. SlotWith(q).pdus = rx_list[get_pos(q.sn)].pdus \cup {[q EXCEPT !.p = FALSE]}
  BY <1>1, <1>2, NewInSlot
<1>4. ASSUME NEW r \in Buffered, NEW s \in Slots, r \in rx_list[s].pdus, s = get_pos(q.sn)
      PROVE  r.id = q.id
  <2>1. Age(rx_next) \in 1 .. W
    BY <1>1, SizesAssumption
  <2>2. PICK k \in 0 .. W - 1 : s = get_pos(Plus(rx_next, k))
    BY <1>2, LinkTypeFacts, SlotsOfWindow
  <2>3. r.sn = Plus(rx_next, k)
    BY <1>2, <1>4, <2>2 DEF BothInv, RxInv, OneSnPerSlot
  <2>4. get_pos(r.sn) = get_pos(q.sn)
    BY <1>4, <2>2, <2>3
  <2> QED BY <1>1, <2>1, <2>4, OneSduPerSlot
<1>5. ASSUME NEW r \in Buffered
      PROVE  r \in Buffered' \/ (Completes(q) /\ r.id = q.id)
  <2>1. PICK s \in Slots : r \in rx_list[s].pdus
    BY DEF Buffered
  <2>2. CASE s = get_pos(q.sn)
    <3>1. r.id = q.id
      BY <1>4, <2>1, <2>2
    <3>2. CASE ~Completes(q)
      <4>1. rx_list'[s] = SlotWith(q)
        BY <1>1, <2>2, <3>2, KeptSlots
      <4>2. r \in rx_list'[s].pdus
        BY <1>3, <2>1, <2>2, <4>1
      <4> QED BY <4>2 DEF Buffered
    <3> QED BY <3>1, <3>2
  <2>3. CASE s # get_pos(q.sn)
    <3>1. ~rx_list[s].delivered
      BY <1>2, <2>1 DEF DeliveredIsFreed
    <3>2. rx_list'[s] = rx_list[s]
      BY <2>3, <3>1, KeptSlots
    <3> QED BY <2>1, <3>2 DEF Buffered
  <2> QED BY <2>2, <2>3
<1>6. ASSUME NEW r \in Buffered'
      PROVE  \/ r = [q EXCEPT !.p = FALSE] /\ ~Completes(q)
             \/ r \in Buffered /\ (Completes(q) => r.id # q.id)
  <2>1. PICK s \in Slots : r \in rx_list'[s].pdus
    BY DEF Buffered
  <2>2. rx_list'[s].pdus # {} /\ EmptySlot.pdus = {} /\ FreedSlot(SlotWith(q)).pdus = {}
    BY <2>1 DEF EmptySlot, FreedSlot
  <2>3. CASE s = get_pos(q.sn)
    <3>1. ~Completes(q) /\ rx_list'[s] = SlotWith(q)
      BY <2>2, <2>3, KeptSlots
    <3>2. r = [q EXCEPT !.p = FALSE] \/ r \in rx_list[s].pdus
      BY <1>3, <2>1, <2>3, <3>1
    <3> QED BY <3>1, <3>2 DEF Buffered
  <2>4. CASE s # get_pos(q.sn)
    <3>1. r \in rx_list[s].pdus
      BY <2>1, <2>2, <2>4, KeptSlots
    <3>2. r \in Buffered
      BY <3>1 DEF Buffered
    <3>3. r.id # q.id
      <4>1. r.id = q.id => r.sn = q.sn
        BY <1>1, <3>2, OneSduPerSlot
      <4>2. PICK k \in 0 .. W - 1 : s = get_pos(Plus(rx_next, k))
        BY <1>2, LinkTypeFacts, SlotsOfWindow
      <4>3. r.sn = Plus(rx_next, k)
        BY <1>2, <3>1, <4>2 DEF BothInv, RxInv, OneSnPerSlot
      <4> QED BY <2>4, <4>1, <4>2, <4>3
    <3> QED BY <3>2, <3>3
  <2> QED BY <2>3, <2>4
<1> QED
  BY <1>5, <1>6

\* Done with the SDU that the PDU completes, and with no other.
LEMMA KeptDone ==
  ASSUME LinkInv, ~hung, NEW q \in air, ~Discarded(q), reception_actions(q),
         NEW m \in 0 .. Age(rx_next), KeptAt(q, m), tx_next' = tx_next,
         NEW y \in SN, Age(y) \in 1 .. W
  PROVE  Done(y)' <=> Done(y) \/ (Completes(q) /\ y = q.sn)
<1>1. /\ q.sn \in SN /\ Age(q.sn) \in 1 .. Age(rx_next) /\ Age(rx_next) \in Nat /\ Age(rx_next) <= W
      /\ get_pos(q.sn) = Sl(Age(rx_next) - Age(q.sn)) /\ get_pos(q.sn) \in Slots
      /\ ~rx_list[get_pos(q.sn)].delivered
  BY KeptIsGenuine
<1>2. rx_next \in SN /\ tx_next \in SN /\ rx_list \in BufferType
  BY LinkTypeFacts DEF LinkInv
<1>3. Done(y)' <=> Age(y) > Age(rx_next) - m \/ rx_list'[get_pos(y)].delivered
  <2>1. Age(y)' = Age(y)
    BY DEF Age
  <2> QED BY <2>1 DEF Done, SlotOf, KeptAt
<1>4. Done(y) <=> Age(y) > Age(rx_next) \/ rx_list[get_pos(y)].delivered
  BY DEF Done, SlotOf
<1>5. CASE Age(y) > Age(rx_next)
  <2>1. Age(y) > Age(rx_next) - m
    BY <1>1, <1>5
  <2> QED BY <1>3, <1>4, <1>5, <2>1
<1>6. CASE Age(y) <= Age(rx_next)
  <2> DEFINE k == Age(rx_next) - Age(y)
             s == get_pos(y)
  <2>1. k \in 0 .. W - 1 /\ s = Sl(k) /\ s \in Slots
    BY <1>1, <1>2, <1>6, SlotInWindow
  <2>2. s = get_pos(q.sn) <=> y = q.sn
    <3>1. s = get_pos(q.sn) => k = Age(rx_next) - Age(q.sn)
      <4>1. Age(rx_next) - Age(q.sn) \in 0 .. W - 1
        BY <1>1, SizesAssumption
      <4> QED BY <1>1, <1>2, <2>1, <4>1, SlotsOfWindow DEF Sl
    <3>2. k = Age(rx_next) - Age(q.sn) => Age(y) = Age(q.sn)
      BY <1>1
    <3>3. Age(y) = Age(q.sn) => y = q.sn
      BY <1>1, <1>2, SameAge
    <3> QED BY <3>1, <3>2, <3>3
  <2>3. FreedWith(q)[s] = IF s = get_pos(q.sn) THEN IF Completes(q) THEN FreedSlot(SlotWith(q)) ELSE SlotWith(q)
                          ELSE rx_list[s]
    BY <1>1, <1>2, <2>1 DEF FreedWith, BufferType
  <2>4. FreedSlot(SlotWith(q)).delivered /\ ~EmptySlot.delivered
    BY DEF FreedSlot, EmptySlot
  <2>5. ~SlotWith(q).delivered
    <3>1. SlotWith(q).delivered = rx_list[get_pos(q.sn)].delivered
      BY <1>1, <1>2 DEF SlotWith, BufferType
    <3> QED BY <1>1, <3>1
  <2>6. FreedWith(q)[s].delivered <=> rx_list[s].delivered \/ (Completes(q) /\ y = q.sn)
    BY <1>1, <2>2, <2>3, <2>4, <2>5
  <2>7. CASE k < m
    <3>1. Age(y) > Age(rx_next) - m
      BY <1>1, <2>7
    <3>2. k \in 0 .. m - 1
      BY <2>1, <2>7
    <3>3. FreedWith(q)[s].delivered
      BY <2>1, <3>2 DEF KeptAt
    <3> QED BY <1>3, <1>4, <2>6, <3>1, <3>3
  <2>8. CASE ~(k < m)
    <3>1. ~(Age(y) > Age(rx_next) - m)
      BY <1>1, <2>8
    <3>2. rx_list'[s] = FreedWith(q)[s]
      BY <2>1, <2>8 DEF KeptAt
    <3>3. ~(Age(y) > Age(rx_next))
      BY <1>1, <1>6
    <3> QED BY <1>3, <1>4, <2>6, <3>1, <3>2, <3>3
  <2> QED BY <2>7, <2>8
<1> QED
  BY <1>1, <1>5, <1>6

\* The slot of a PDU that is kept holds PDUs of its SDU only; once they make the SDU,
\* they cover it and nothing else.
LEMMA WholeSlot ==
  ASSUME LinkInv, ~hung, NEW q \in air, ~Discarded(q), reception_actions(q)
  PROVE  /\ ~SlotWith(q).delivered /\ SlotWith(q).freed = {}
         /\ Completes(q) => /\ 0 .. sdu[q.id].size - 1 \subseteq Covered(SlotWith(q))
                            /\ Gaps(SlotWith(q)) = {}
<1>1. /\ q \in DataPdu /\ q.sn \in SN /\ q.id \in Ids /\ Genuine(q)
      /\ get_pos(q.sn) \in Slots /\ Age(rx_next) \in Nat /\ Age(rx_next) <= W
      /\ Age(q.sn) \in 1 .. Age(rx_next) /\ ~rx_list[get_pos(q.sn)].delivered
  BY KeptIsGenuine
<1>2. /\ BothInv /\ RxInv /\ RxTypeOK /\ rx_next \in SN /\ BufferGenuine /\ TxNextAckIsOldest
  BY LinkTypeFacts DEF LinkInv, RxInv
<1> DEFINE p == [q EXCEPT !.p = FALSE]
           size == sdu[q.id].size
<1>3. /\ SlotWith(q).pdus = rx_list[get_pos(q.sn)].pdus \cup {p}
      /\ SlotWith(q).delivered = rx_list[get_pos(q.sn)].delivered
      /\ SlotWith(q).freed = rx_list[get_pos(q.sn)].freed
  BY <1>1, <1>2, NewInSlot
<1>4. ~SlotWith(q).delivered /\ SlotWith(q).freed = {}
  BY <1>1, <1>2, <1>3 DEF BufferGenuine, DeliveredIsFreed
<1>5. size \in Nat
  BY <1>1, <1>2, NumberedFacts, SizesAssumption DEF Genuine
<1>6. ASSUME NEW r \in SlotWith(q).pdus
      PROVE  /\ r.so \in Nat /\ r.size \in Nat /\ r.so + r.size <= size
             /\ r.is_last <=> r.so + r.size = size
  <2>1. CASE r = p
    <3>1. r.so = q.so /\ r.size = q.size /\ r.is_last = q.is_last
      BY <1>1, <2>1 DEF DataPdu
    <3>2. q.so \in Nat /\ q.size \in Nat
      BY <1>1, SizesAssumption DEF DataPdu, Units
    <3> QED BY <1>1, <3>1, <3>2 DEF Genuine
  <2>2. CASE r \in rx_list[get_pos(q.sn)].pdus
    <3>1. r \in Buffered
      BY <1>1, <2>2 DEF Buffered
    <3>2. PICK k \in 0 .. W - 1 : get_pos(q.sn) = get_pos(Plus(rx_next, k))
      BY <1>1, <1>2, SlotsOfWindow
    <3>3. r.sn = Plus(rx_next, k)
      BY <1>2, <2>2, <3>2 DEF RxInv, OneSnPerSlot
    <3>4. Age(rx_next) \in 1 .. W
      BY <1>1, SizesAssumption
    <3>5. r.id = q.id
      BY <1>1, <3>1, <3>2, <3>3, <3>4, OneSduPerSlot
    <3>6. Genuine(r) /\ r.so \in Nat /\ r.size \in Nat
      BY <1>2, <3>1, BufferedSlot DEF BufferGenuine
    <3> QED BY <3>5, <3>6 DEF Genuine
  <2> QED BY <1>3, <2>1, <2>2
<1>7. \A v \in Covered(SlotWith(q)) : v \in 0 .. size - 1
  <2> HIDE DEF size
  <2> QED BY <1>4, <1>5, <1>6 DEF Covered, WithData, Bytes
<1>8. Completes(q) => 0 .. size - 1 \subseteq Covered(SlotWith(q))
  <2> HIDE DEF size
  <2> QED BY <1>6 DEF Completes, sdu_full
<1>9. Completes(q) => Gaps(SlotWith(q)) = {}
  <2> HIDE DEF size
  <2> QED BY <1>5, <1>7, <1>8 DEF Gaps, Units
<1> QED
  BY <1>4, <1>8, <1>9

\* reassemble_and_deliver makes one SDU: every PDU of the slot is of the SDU of q.
LEMMA KeptDelivers ==
  ASSUME LinkInv, ~hung, NEW q \in air, ~Discarded(q), reception_actions(q)
  PROVE  /\ garbled' = garbled
         /\ \A i \in Ids : delivered'[i] = IF Completes(q) /\ i = q.id THEN 1 ELSE delivered[i]
<1>1. /\ q \in DataPdu /\ q.sn \in SN /\ q.id \in Ids /\ delivered[q.id] = 0 /\ Genuine(q)
      /\ get_pos(q.sn) \in Slots /\ Age(rx_next) \in Nat /\ Age(rx_next) <= W
      /\ Age(q.sn) \in 1 .. Age(rx_next) /\ ~rx_list[get_pos(q.sn)].delivered
  BY KeptIsGenuine
<1>2. /\ BothInv /\ RxInv /\ RxTypeOK /\ rx_next \in SN /\ delivered \in [Ids -> 0 .. 2]
  BY LinkTypeFacts DEF LinkInv, RxInv
<1>3. IF Completes(q) THEN Deliver(SlotWith(q)) ELSE UNCHANGED <<delivered, garbled>>
  BY <1>1, <1>2, KeepPdu DEF KeepEffect
<1>4. CASE ~Completes(q)
  BY <1>3, <1>4
<1>5. CASE Completes(q)
  <2> DEFINE p   == [q EXCEPT !.p = FALSE]
             ids == {r.id : r \in SlotWith(q).pdus}
  <2>1. SlotWith(q).pdus = rx_list[get_pos(q.sn)].pdus \cup {p} /\ p.id = q.id
    <3>1. SlotWith(q).pdus = rx_list[get_pos(q.sn)].pdus \cup {p}
      BY <1>1, <1>2, NewInSlot
    <3>2. p.id = q.id
      BY <1>1 DEF DataPdu
    <3> QED BY <3>1, <3>2
  <2>2. ASSUME NEW r \in rx_list[get_pos(q.sn)].pdus
        PROVE  r.id = q.id
    <3>1. r \in Buffered
      BY <1>1 DEF Buffered
    <3>2. PICK k \in 0 .. W - 1 : get_pos(q.sn) = get_pos(Plus(rx_next, k))
      BY <1>1, <1>2, SlotsOfWindow
    <3>3. r.sn = Plus(rx_next, k)
      BY <1>2, <3>2 DEF RxInv, OneSnPerSlot
    <3>4. Age(rx_next) \in 1 .. W
      BY <1>1, SizesAssumption
    <3> QED BY <1>1, <3>1, <3>2, <3>3, <3>4, OneSduPerSlot
  <2>3. ids = {q.id}
    <3> HIDE DEF p
    <3> QED BY <2>1, <2>2
  <2>4. Cardinality(ids) = 1
    BY <2>3, FS_Singleton
  <2>5. Deliver(SlotWith(q))
    BY <1>3, <1>5
  <2>6. /\ delivered' = [i \in Ids |-> IF i \in ids /\ delivered[i] < 2
                                       THEN delivered[i] + 1 ELSE delivered[i]]
        /\ garbled' = garbled
    <3>1. Gaps(SlotWith(q)) = {}
      BY <1>5, WholeSlot
    <3> QED BY <2>4, <2>5, <3>1 DEF Deliver
  <2> HIDE DEF ids
  <2> QED BY <1>1, <1>5, <2>3, <2>6
<1> QED
  BY <1>4, <1>5

\* A PDU that the receiver keeps: what it has grows, and it is done with an SDU exactly
\* when it has delivered it.
LEMMA KeptStep ==
  ASSUME LinkInv, BothInv', ~hung, NEW q \in air, ~Discarded(q), reception_actions(q),
         air' \in SUBSET air, ctl' = ctl,
         UNCHANGED <<sdu, txlists, tx_next, tx_next_ack>>
  PROVE  LinkInv'
<1>1. /\ BothInv /\ TxNextAckIsOldest /\ DistinctSns /\ Nested /\ AirGenuine /\ BufferGenuine
      /\ DoneIsDelivered /\ MissingIsHeld /\ NothingLost /\ StatusTrue /\ FatesOk /\ ~garbled
      /\ DeliveredWhole
  BY DEF LinkInv
<1>2. /\ q \in DataPdu /\ q.sn \in SN /\ q.id \in Ids
      /\ Age(q.sn) \in 1 .. Age(rx_next) /\ Age(rx_next) \in Nat /\ Age(rx_next) <= W
      /\ delivered[q.id] = 0 /\ Genuine(q)
      /\ get_pos(q.sn) = Sl(Age(rx_next) - Age(q.sn)) /\ get_pos(q.sn) \in Slots
      /\ ~rx_list[get_pos(q.sn)].delivered
  BY KeptIsGenuine
<1>3. PICK m \in 0 .. Age(rx_next) : KeptAt(q, m)
  BY KeptMoves
<1>4. /\ garbled' = garbled
      /\ \A i \in Ids : delivered'[i] = IF Completes(q) /\ i = q.id THEN 1 ELSE delivered[i]
  BY KeptDelivers
<1>5. /\ \A r \in Buffered : r \in Buffered' \/ (Completes(q) /\ r.id = q.id)
      /\ \A r \in Buffered' : \/ r = [q EXCEPT !.p = FALSE] /\ ~Completes(q)
                              \/ r \in Buffered /\ (Completes(q) => r.id # q.id)
  BY <1>3, KeptBuffer
<1>6. /\ RxInv /\ rx_next \in SN /\ tx_next \in SN /\ tx_next_ack \in SN /\ delivered \in [Ids -> 0 .. 2]
      /\ air \in SUBSET DataPdu /\ W \in Nat /\ rx_list \in BufferType /\ Segments \in SUBSET Segment
  BY <1>1, LinkTypeFacts, SizesAssumption
<1>7. /\ Held' = Held /\ Numbered' = Numbered /\ Segments' = Segments
      /\ \A x : Age(x)' = Age(x)
      /\ \A r : Genuine(r)' <=> Genuine(r)
  BY DEF Held, Numbered, Segments, Queued, InFlight, Age, Genuine, txlists
<1>8. \A i \in Ids : delivered[i] > 0 => delivered'[i] > 0
  BY <1>4
<1>9. \A i \in Ids : \A u : Got(i, u) => Got(i, u)'
  <2> SUFFICES ASSUME NEW i \in Ids, NEW u, Got(i, u)
               PROVE  Got(i, u)'
    OBVIOUS
  <2>1. CASE delivered[i] > 0
    BY <1>8, <2>1 DEF Got
  <2>2. ASSUME NEW r \in Buffered, r.id = i, u \in Bytes(r)
        PROVE  Got(i, u)'
    <3>1. CASE r \in Buffered'
      BY <2>2, <3>1 DEF Got
    <3>2. CASE Completes(q) /\ r.id = q.id
      BY <1>4, <2>2, <3>2 DEF Got
    <3> QED BY <1>5, <3>1, <3>2
  <2> QED BY <2>1, <2>2 DEF Got
<1>10. \A y \in SN : Age(y) \in 1 .. W => (Done(y)' <=> Done(y) \/ (Completes(q) /\ y = q.sn))
  BY <1>3, KeptDone
<1>11. \A i \in Numbered : /\ sdu[i].sn \in SN /\ Age(sdu[i].sn) \in 1 .. W /\ i \in Ids /\ i \in Held
  BY <1>1, NumberedFacts
<1>12. q.id \in Numbered /\ \A i \in Numbered : sdu[i].sn = q.sn <=> i = q.id
  BY <1>1, <1>2 DEF Genuine, DistinctSns
<1>13. Nested'
  <2>1. Age(rx_next)' <= Age(rx_next) /\ Age(rx_next)' = Age(rx_next) - m
    BY <1>2, <1>3 DEF KeptAt
  <2>2. Age(rx_next) <= Age(tx_next_ack) /\ Age(tx_next_ack) \in Nat
    BY <1>1, <1>6, AgeFacts DEF Nested
  <2>3. Age(rx_next)' <= Age(tx_next_ack)
    BY <1>2, <2>1, <2>2
  <2>4. Age(tx_next_ack)' = Age(tx_next_ack)
    BY DEF Age
  <2>5. Age(rx_next_highest)' <= Age(rx_next)'
    BY <1>3, <2>1 DEF KeptAt
  <2> QED BY <2>3, <2>4, <2>5 DEF Nested
<1>14. AirGenuine'
  <2> SUFFICES ASSUME NEW r \in air
               PROVE  /\ Age(r.sn) \in 1 .. W
                      /\ delivered'[r.id] = 0 => Genuine(r)
                      /\ delivered'[r.id] > 0 => Done(r.sn)'
    BY <1>7 DEF AirGenuine
  <2>1. /\ Age(r.sn) \in 1 .. W
        /\ delivered[r.id] = 0 => Genuine(r)
        /\ delivered[r.id] > 0 => Done(r.sn)
        /\ r.sn \in SN /\ r.id \in Ids
    BY <1>1, <1>6 DEF AirGenuine, DataPdu
  <2>2. delivered'[r.id] = 0 => delivered[r.id] = 0
    BY <1>4, <2>1
  <2>3. CASE delivered[r.id] > 0
    BY <1>10, <2>1, <2>2, <2>3
  <2>4. CASE delivered[r.id] = 0
    <3>1. delivered'[r.id] > 0 => Completes(q) /\ r.id = q.id
      BY <1>4, <2>1, <2>4
    <3>2. r.id = q.id => r.sn = q.sn
      BY <1>12, <2>1, <2>4 DEF Genuine
    <3> QED BY <1>10, <2>1, <2>4, <3>1, <3>2
  <2> QED BY <1>6, <2>1, <2>3, <2>4
<1>15. BufferGenuine'
  <2>1. \A r \in Buffered' : delivered'[r.id] = 0 /\ Genuine(r)'
    <3> SUFFICES ASSUME NEW r \in Buffered'
                 PROVE  delivered'[r.id] = 0 /\ Genuine(r)
      BY <1>7
    <3>1. CASE r = [q EXCEPT !.p = FALSE] /\ ~Completes(q)
      <4>1. /\ r.id = q.id /\ r.sn = q.sn /\ r.so = q.so /\ r.size = q.size
            /\ r.is_last = q.is_last
        BY <1>2, <3>1 DEF DataPdu
      <4> QED BY <1>2, <1>4, <3>1, <4>1 DEF Genuine
    <3>2. CASE r \in Buffered /\ (Completes(q) => r.id # q.id)
      <4>1. delivered[r.id] = 0 /\ Genuine(r) /\ r.id \in Ids
        BY <1>1, <1>11, <3>2 DEF BufferGenuine, Genuine
      <4> QED BY <1>4, <3>2, <4>1
    <3> QED BY <1>5, <3>1, <3>2
  <2> DEFINE Ok(slot) == /\ ~sdu_full(slot)
                         /\ IF slot.delivered THEN slot.pdus = {} ELSE slot.freed = {}
  <2>2. ASSUME NEW s \in Slots
        PROVE  Ok(rx_list'[s])
    <3>1. Ok(EmptySlot) /\ Ok(FreedSlot(SlotWith(q)))
      BY DEF sdu_full, EmptySlot, FreedSlot
    <3>2. Ok(rx_list[s])
      BY <1>1 DEF BufferGenuine, DeliveredIsFreed
    <3>3. ~SlotWith(q).delivered /\ SlotWith(q).freed = {}
      BY <1>2, WholeSlot
    <3>4. ~Completes(q) => ~sdu_full(SlotWith(q))
      BY DEF Completes
    <3> QED BY <1>3, <3>1, <3>2, <3>3, <3>4, KeptSlots
  <2>3. (\A s \in Slots : ~sdu_full(rx_list[s]))' /\ DeliveredIsFreed'
    BY <2>2 DEF DeliveredIsFreed
  <2> QED BY <2>1, <2>3 DEF BufferGenuine
<1>16. DoneIsDelivered'
  <2> SUFFICES ASSUME NEW i \in Numbered
               PROVE  delivered'[i] > 0 <=> Done(sdu[i].sn)'
    BY <1>7 DEF DoneIsDelivered
  <2>1. PICK y \in SN : y = sdu[i].sn
    BY <1>11
  <2>2. Done(y)' <=> Done(y) \/ (Completes(q) /\ y = q.sn)
    BY <1>10, <1>11, <2>1
  <2>3. Done(y) <=> delivered[i] > 0
    BY <1>1, <2>1 DEF DoneIsDelivered
  <2>4. y = q.sn <=> i = q.id
    BY <1>12, <2>1
  <2>5. delivered'[i] > 0 <=> delivered[i] > 0 \/ (Completes(q) /\ i = q.id)
    BY <1>2, <1>4, <1>6, <1>11
  <2>6. sdu'[i].sn = y
    BY <2>1
  <2> QED BY <2>2, <2>3, <2>4, <2>5, <2>6
<1>17. MissingIsHeld'
  <2> SUFFICES ASSUME NEW k \in 0 .. Age(rx_next)' - 1, ~SlotOf(Plus(rx_next, k))'.delivered
               PROVE  \E i \in Numbered : sdu[i].sn = Plus(rx_next', k)
    BY <1>7 DEF MissingIsHeld, SlotOf
  <2>1. PICK r \in SN : r = rx_next'
    BY <1>3 DEF KeptAt
  <2>2. Age(r) = Age(rx_next) - m
    BY <1>3, <2>1 DEF KeptAt, Age
  <2>3. k \in 0 .. Age(r) - 1
    BY <2>1 DEF Age
  <2> DEFINE y == Plus(r, k)
  <2>4. y \in SN /\ Age(y) = Age(rx_next) - m - k
    BY <1>2, <1>6, <2>1, <2>2, <2>3, AgeOfPlus
  <2>5. m + k \in 0 .. Age(rx_next) - 1 /\ Age(y) \in 1 .. W
    BY <1>2, <1>6, <2>2, <2>3, <2>4
  <2>6. Plus(rx_next, m + k) \in SN /\ Age(Plus(rx_next, m + k)) = Age(rx_next) - (m + k)
    BY <1>2, <1>6, <2>5, AgeOfPlus
  <2>7. y = Plus(rx_next, m + k)
    BY <1>2, <1>6, <2>4, <2>5, <2>6, SameAge
  <2>8. ~Done(y)'
    <3>1. ~rx_list'[get_pos(y)].delivered
      BY <2>1 DEF SlotOf
    <3>2. ~(Age(y) > Age(r))
      BY <1>2, <2>2, <2>3, <2>4
    <3>3. Age(y)' = Age(y) /\ Age(rx_next)' = Age(r)
      BY <2>1 DEF Age
    <3> HIDE DEF y
    <3> QED BY <3>1, <3>2, <3>3 DEF Done, SlotOf
  <2> HIDE DEF y
  <2>9. ~Done(y)
    BY <1>10, <2>4, <2>5, <2>8
  <2>10. ~SlotOf(y).delivered
    BY <2>9 DEF Done
  <2> QED BY <1>1, <2>1, <2>5, <2>7, <2>10 DEF MissingIsHeld, y
<1>18. NothingLost'
  <2> SUFFICES ASSUME NEW i \in Held, NEW u \in 0 .. sdu[i].size - 1
               PROVE  (\E s \in Segments : s.id = i /\ u \in Bytes(s)) \/ Got(i, u)'
    BY <1>7 DEF NothingLost
  <2> QED BY <1>1, <1>9 DEF NothingLost, Held
<1>19. StatusTrue'
  <2>1. ASSUME NEW st, Truthful(st)
        PROVE  Truthful(st)'
    BY <1>7, <1>9, <1>11, <2>1 DEF Truthful
  <2> QED BY <1>1, <1>7, <2>1 DEF StatusTrue
<1>20. HungAtHead'
  <2> SUFFICES ASSUME hung'
               PROVE  Age(rx_next)' = W /\ HeadHeld' /\ \A s \in Slots : rx_list'[s].delivered
    BY DEF HungAtHead
  <2>1. /\ m = 0 /\ rx_next' = rx_next /\ rx_list' = FreedWith(q)
        /\ \A s \in Slots : FreedWith(q)[s].delivered
    BY <1>3 DEF KeptAt
  <2>2. Age(rx_next)' = Age(rx_next)
    BY <2>1 DEF Age
  <2>3. ~(Age(rx_next) < W)
    <3> SUFFICES ASSUME Age(rx_next) < W
                 PROVE  FALSE
      OBVIOUS
    <3> DEFINE a == Age(rx_next)
    <3>1. a \in Nat /\ a \in 0 .. W - 1 /\ Age(rx_next_highest) \in Nat /\ Age(rx_next_highest) <= a
          /\ rx_next_highest \in SN
      BY <1>1, <1>2, <1>6, LinkTypeFacts, AgeFacts DEF Nested
    <3>2. Dist(rx_next, rx_next_highest) = a - Age(rx_next_highest)
      BY <1>6, <3>1, DistIsAge
    <3>3. a \in Dist(rx_next, rx_next_highest) .. W - 1
      BY <1>6, <3>1, <3>2
    <3>4. IsEmpty(rx_list[Sl(a)])
      BY <1>6, <3>3, WindowFacts
    <3>5. Sl(a) # get_pos(q.sn) /\ Sl(a) \in Slots
      <4>1. a - Age(q.sn) \in 0 .. W - 1 /\ a - Age(q.sn) # a
        BY <1>2, <1>6, <3>1
      <4>2. a \in 0 .. sn_modulus
        BY <3>1, SizesAssumption DEF sn_modulus
      <4> HIDE DEF a
      <4> QED BY <1>2, <1>6, <3>1, <4>1, <4>2, SlotsOfWindow DEF Sl, a
    <3>6. FreedWith(q)[Sl(a)] = rx_list[Sl(a)]
      BY <1>2, <1>6, <3>5 DEF FreedWith, BufferType
    <3> QED BY <2>1, <3>4, <3>5, <3>6 DEF IsEmpty
  <2>4. HeadHeld
    BY <1>2, HeadIsHeld
  <2>5. HeadHeld'
    <3>1. \A s : SnOf(s)' = SnOf(s)
      BY DEF SnOf
    <3> QED BY <1>7, <2>1, <2>2, <2>4, <3>1 DEF HeadHeld
  <2> QED BY <1>2, <1>6, <2>1, <2>2, <2>3, <2>5
<1>21. FatesOk'
  <2> SUFFICES ASSUME NEW i \in Ids
               PROVE  /\ sdu[i].fate = "acked" => delivered'[i] > 0
                      /\ delivered'[i] > 0 => sdu[i].fate # "none"
                      /\ delivered'[i] < 2
                      /\ sdu[i].fate = "held" /\ sdu[i].sn = NoSn => delivered'[i] = 0
    BY DEF FatesOk
  <2>1. CASE i = q.id
    <3>1. sdu[i].fate = "held" /\ sdu[i].sn # NoSn
      BY <1>12, <2>1 DEF Numbered, Held
    <3>2. delivered'[i] \in {0, 1}
      BY <1>2, <1>4, <2>1
    <3> QED BY <3>1, <3>2
  <2>2. CASE i # q.id
    BY <1>1, <1>4, <2>2 DEF FatesOk
  <2> QED BY <2>1, <2>2
<1>22. TxNextAckIsOldest'
  BY <1>1, <1>7 DEF TxNextAckIsOldest, TxBefore
<1>23. DeliveredWhole'
  \* Above rx_next only the slot of q changes, and nothing was freed in it.
  <2>1. ASSUME NEW y \in SN, Age(y) \in 1 .. W, Age(y) <= Age(rx_next)'
        PROVE  /\ Age(y) <= Age(rx_next) /\ get_pos(y) \in Slots
               /\ rx_list'[get_pos(y)] = FreedWith(q)[get_pos(y)]
    <3>1. Age(y) <= Age(rx_next) - m /\ m \in 0 .. Age(rx_next)
      BY <1>3, <2>1 DEF KeptAt
    <3>2. Age(rx_next) - Age(y) \in 0 .. W - 1 /\ get_pos(y) = Sl(Age(rx_next) - Age(y))
          /\ get_pos(y) \in Slots
      BY <1>2, <1>6, <2>1, <3>1, SlotInWindow
    <3>3. ~(Age(rx_next) - Age(y) < m) /\ Age(y) <= Age(rx_next)
      BY <1>2, <2>1, <3>1
    <3> QED BY <1>3, <3>2, <3>3 DEF KeptAt
  <2>2. ASSUME NEW y \in SN, Age(y) \in 1 .. W, Age(y) <= Age(rx_next)', NEW B, B # {},
               B \subseteq SlotOf(y).freed
        PROVE  B \subseteq SlotOf(y)'.freed
    <3>1. get_pos(y) # get_pos(q.sn)
      BY <1>1, <1>2, <2>2 DEF BufferGenuine, DeliveredIsFreed, SlotOf
    <3>2. FreedWith(q)[get_pos(y)] = rx_list[get_pos(y)]
      BY <1>6, <2>1, <2>2, <3>1 DEF FreedWith, BufferType
    <3> QED BY <2>1, <2>2, <3>2 DEF SlotOf
  <2>3. ASSUME NEW i \in Numbered, delivered'[i] > 0, Age(sdu[i].sn) <= Age(rx_next)'
        PROVE  0 .. sdu[i].size - 1 \subseteq SlotOf(sdu[i].sn)'.freed
    <3>1. /\ i \in Ids /\ sdu[i].sn \in SN /\ Age(sdu[i].sn) \in 1 .. W
          /\ sdu[i].size \in 1 .. MaxLen
      BY <1>1, NumberedFacts
    <3>2. CASE delivered[i] > 0
      <4>1. 0 .. sdu[i].size - 1 # {}
        BY <3>1, SizesAssumption
      <4>2. 0 .. sdu[i].size - 1 \subseteq SlotOf(sdu[i].sn).freed
        BY <1>1, <2>1, <2>3, <3>1, <3>2 DEF DeliveredWhole
      <4> QED BY <2>2, <2>3, <3>1, <4>1, <4>2
    <3>3. CASE ~(delivered[i] > 0)
      <4>1. Completes(q) /\ i = q.id /\ sdu[i].sn = q.sn
        BY <1>4, <1>12, <2>3, <3>1, <3>3
      <4>2. rx_list'[get_pos(q.sn)] = FreedSlot(SlotWith(q))
        BY <1>2, <1>6, <2>1, <2>3, <3>1, <4>1 DEF FreedWith, BufferType
      <4>3. 0 .. sdu[i].size - 1 \subseteq Covered(SlotWith(q))
        BY <4>1, WholeSlot
      <4> QED BY <4>1, <4>2, <4>3 DEF SlotOf, FreedSlot
    <3> QED BY <3>2, <3>3
  <2>4. ASSUME NEW r \in air', delivered'[r.id] > 0, Age(r.sn) <= Age(rx_next)'
        PROVE  Bytes(r) \subseteq SlotOf(r.sn)'.freed
    <3>1. /\ r \in air /\ r \in DataPdu /\ r.sn \in SN /\ r.id \in Ids /\ Age(r.sn) \in 1 .. W
          /\ r.so \in Nat /\ r.size \in Nat \ {0}
      BY <1>1, <1>6, SizesAssumption DEF AirGenuine, DataPdu, Units
    <3>2. CASE delivered[r.id] > 0
      <4>1. Bytes(r) # {}
        BY <3>1 DEF Bytes
      <4>2. Bytes(r) \subseteq SlotOf(r.sn).freed
        BY <1>1, <2>1, <2>4, <3>1, <3>2 DEF DeliveredWhole
      <4> QED BY <2>2, <2>4, <3>1, <4>1, <4>2
    <3>3. CASE ~(delivered[r.id] > 0)
      <4>1. delivered[r.id] = 0
        BY <1>6, <3>1, <3>3
      <4>2. r.id \in Numbered /\ sdu[r.id].sn = r.sn /\ r.so + r.size <= sdu[r.id].size
        BY <1>1, <3>1, <4>1 DEF AirGenuine, Genuine
      <4>3. 0 .. sdu[r.id].size - 1 \subseteq SlotOf(r.sn)'.freed
        BY <2>3, <2>4, <4>2
      <4>4. sdu[r.id].size \in Nat
        BY <1>1, <4>2, NumberedFacts, SizesAssumption
      <4>5. Bytes(r) \subseteq 0 .. sdu[r.id].size - 1
        BY <3>1, <4>2, <4>4 DEF Bytes
      <4> QED BY <4>3, <4>5
    <3> QED BY <3>2, <3>3
  <2> QED BY <1>7, <2>3, <2>4 DEF DeliveredWhole
<1> QED
  BY <1>1, <1>4, <1>13, <1>14, <1>15, <1>16, <1>17, <1>18, <1>19, <1>20, <1>21, <1>22, <1>23,
     <1>7 DEF LinkInv, DistinctSns

\* A data PDU reaches the receiver, which keeps it or throws it away.
LEMMA ReceivePduStep ==
  ASSUME LinkInv, NEW q \in air, ReceivePdu(q)
  PROVE  LinkInv'
<1>1. BothInv /\ BothInv'
  BY BothStep DEF LinkInv, Next
<1>2. /\ ~hung /\ air' \in SUBSET air /\ ctl' = ctl
      /\ UNCHANGED <<sdu, txlists, tx_next, tx_next_ack>>
  BY DEF ReceivePdu, RecvDataPdu
<1>3. CASE Discarded(q)
  <2>1. UNCHANGED <<rx_next, rx_next_highest, rx_list, hung, delivered, garbled>>
    BY <1>3 DEF ReceivePdu, RecvDataPdu, rxptrs
  <2>2. Segments' = Segments
    BY <1>2 DEF Segments, Queued, InFlight, txlists
  <2> QED BY <1>1, <1>2, <2>1, <2>2, QuietStep
<1>4. CASE ~Discarded(q)
  <2>1. reception_actions(q)
    BY <1>4 DEF ReceivePdu, RecvDataPdu
  <2> QED BY <1>1, <1>2, <1>4, <2>1, KeptStep
<1> QED
  BY <1>3, <1>4

\* Re-establishment forgets every SN, on both sides.
LEMMA ReestablishStep ==
  ASSUME LinkInv, Reestablish
  PROVE  LinkInv'
<1>1. BothInv /\ BothInv'
  BY BothStep DEF LinkInv, Next
<1>2. /\ sdu \in [Ids -> SduType] /\ delivered \in [Ids -> 0 .. 2] /\ FatesOk /\ ~garbled
  BY <1>1, LinkTypeFacts DEF LinkInv
<1>3. /\ ~hung' /\ air' = {} /\ ctl' = {} /\ tx_next' = 0 /\ tx_next_ack' = 0 /\ rx_next' = 0
      /\ rx_next_highest' = 0 /\ rx_list' = [s \in Slots |-> EmptySlot]
      /\ sdu' = [i \in Ids |-> IF i \in Held THEN NoSdu("dropped") ELSE sdu[i]]
      /\ delivered' = delivered /\ garbled' = garbled
  BY DEF Reestablish, TxReestablish, RxReestablish
<1>4. Held' = {} /\ Numbered' = {}
  BY <1>3 DEF Held, Numbered, NoSdu
<1>5. Buffered' = {}
  <2>1. \A s \in Slots : rx_list'[s].pdus = {}
    BY <1>3 DEF EmptySlot
  <2> QED BY <2>1 DEF Buffered
<1>6. Age(rx_next)' = 0 /\ Age(tx_next_ack)' = 0 /\ Age(rx_next_highest)' = 0
  BY <1>3, SizesAssumption DEF Age, Dist
<1>7. BufferGenuine'
  <2>1. \A s \in Slots : ~sdu_full(rx_list'[s]) /\ ~rx_list'[s].delivered /\ rx_list'[s].freed = {}
    BY <1>3 DEF EmptySlot, sdu_full
  <2> QED BY <1>5, <2>1 DEF BufferGenuine, DeliveredIsFreed
<1>8. FatesOk'
  <2> SUFFICES ASSUME NEW i \in Ids
               PROVE  /\ sdu'[i].fate = "acked" => delivered[i] > 0
                      /\ delivered[i] > 0 => sdu'[i].fate # "none"
                      /\ delivered[i] < 2
                      /\ sdu'[i].fate = "held" /\ sdu'[i].sn = NoSn => delivered[i] = 0
    BY <1>3 DEF FatesOk
  <2>1. sdu'[i] = NoSdu("dropped") \/ sdu'[i] = sdu[i]
    BY <1>3
  <2>2. NoSdu("dropped").fate = "dropped"
    BY DEF NoSdu
  <2> QED BY <1>2, <2>1, <2>2 DEF FatesOk
<1>9. DistinctSns' /\ AirGenuine' /\ DoneIsDelivered' /\ NothingLost' /\ StatusTrue' /\ HungAtHead'
      /\ TxNextAckIsOldest' /\ DeliveredWhole'
  BY <1>3, <1>4 DEF DistinctSns, AirGenuine, DoneIsDelivered, NothingLost, StatusTrue, HungAtHead,
                    TxNextAckIsOldest, DeliveredWhole
<1>10. Nested' /\ MissingIsHeld'
  BY <1>6 DEF Nested, MissingIsHeld
<1> QED
  BY <1>1, <1>2, <1>3, <1>7, <1>8, <1>9, <1>10 DEF LinkInv

\* rx_highest_status is not above tx_next: what a STATUS PDU reports on was sent.
LEMMA ReportedWereSent ==
  ASSUME LinkInv, ~hung
  PROVE  /\ Age(rx_next) \in Nat /\ Age(rx_next) <= W /\ rx_next \in SN /\ tx_next \in SN
         /\ rx_highest_status \in SN
         /\ Dist(rx_next, rx_highest_status) \in 0 .. Age(rx_next)
         /\ Dist(rx_next, rx_highest_status) \in 0 .. W
         /\ Reported \subseteq SN /\ Missing \subseteq SN \X Units
<1>1. /\ RxInv /\ BothInv /\ rx_next \in SN /\ tx_next \in SN /\ tx_next_ack \in SN /\ rx_next_highest \in SN
      /\ Age(tx_next_ack) <= W /\ Nested
  BY LinkTypeFacts DEF LinkInv
<1>2. /\ Age(rx_next) \in Nat /\ Age(tx_next_ack) \in Nat /\ Age(rx_next_highest) \in Nat /\ W \in Nat
  BY <1>1, AgeFacts, SizesAssumption
<1>3. Age(rx_next) <= W /\ Age(rx_next_highest) <= Age(rx_next)
  BY <1>1, <1>2 DEF Nested
<1>4. Dist(rx_next, rx_next_highest) = Age(rx_next) - Age(rx_next_highest)
  BY <1>1, <1>3, DistIsAge
<1>5. /\ rx_highest_status \in SN
      /\ Dist(rx_next, rx_highest_status) \in 0 .. Dist(rx_next, rx_next_highest)
  BY <1>1, WindowFacts
<1>6. /\ Dist(rx_next, rx_highest_status) \in 0 .. Age(rx_next)
      /\ Dist(rx_next, rx_highest_status) \in 0 .. W
  BY <1>2, <1>3, <1>4, <1>5
<1> QED
  BY <1>1, <1>2, <1>3, <1>5, <1>6, ReportedSns

\* What is missing of an SDU that is reported on: every byte that the peer does not have.
LEMMA MissingIsTrue ==
  ASSUME LinkInv, ~hung, Missing # {}, NEW i \in Numbered,
         Dist(rx_next, sdu[i].sn) < Dist(rx_next, rx_highest_status),
         NEW u \in 0 .. sdu[i].size - 1, ~Got(i, u)
  PROVE  <<sdu[i].sn, u>> \in Missing
<1> DEFINE x == sdu[i].sn
           k == Dist(rx_next, x)
           slot == rx_list[get_pos(x)]
<1>1. /\ Age(rx_next) \in Nat /\ Age(rx_next) <= W /\ rx_next \in SN /\ tx_next \in SN
      /\ Dist(rx_next, rx_highest_status) \in 0 .. Age(rx_next)
      /\ Dist(rx_next, rx_highest_status) \in 0 .. W
  BY ReportedWereSent
<1>2. /\ BothInv /\ RxInv /\ TxNextAckIsOldest /\ BufferGenuine /\ DistinctSns /\ DoneIsDelivered
      /\ delivered \in [Ids -> 0 .. 2]
  BY LinkTypeFacts DEF LinkInv
<1>3. /\ i \in Ids /\ x \in SN /\ Age(x) \in 1 .. W /\ sdu[i].size \in 1 .. MaxLen
  BY <1>2, NumberedFacts
<1>4. k \in 0 .. W - 1 /\ k \in 0 .. Dist(rx_next, rx_highest_status) - 1 /\ Plus(rx_next, k) = x
      /\ get_pos(x) \in Slots
  <2>1. k \in Nat /\ Plus(rx_next, k) = x
    BY <1>1, <1>3, DistRange
  <2>2. k \in 0 .. W - 1 /\ k \in 0 .. Dist(rx_next, rx_highest_status) - 1
    BY <1>1, <2>1, SizesAssumption
  <2>3. get_pos(x) \in Slots
    BY <1>2, <1>3, LinkTypeFacts
  <2> QED BY <2>1, <2>2, <2>3
<1>5. x \in Reported
  BY <1>4 DEF Reported
<1>6. u \in Units /\ sdu[i].size \in Nat /\ u \in Nat
  BY <1>3, SizesAssumption DEF Units
<1>7. ~slot.delivered
  <2>1. delivered[i] = 0
    BY <1>2, <1>3 DEF Got
  <2>2. ~Done(x)
    BY <1>2, <2>1 DEF DoneIsDelivered
  <2> QED BY <2>2 DEF Done, SlotOf
<1>8. ASSUME NEW r \in slot.pdus
      PROVE  /\ r.id = i /\ Genuine(r) /\ r \in Buffered
             /\ r.so \in Nat /\ r.size \in Nat \ {0} /\ r.is_last \in BOOLEAN
             /\ u \notin Bytes(r)
  <2>1. r \in Buffered
    BY <1>4 DEF Buffered
  <2>2. r.sn = x
    BY <1>2, <1>4 DEF RxInv, OneSnPerSlot
  <2>3. Genuine(r)
    BY <1>2, <2>1 DEF BufferGenuine
  <2>4. r.id = i
    BY <1>2, <2>2, <2>3 DEF Genuine, DistinctSns
  <2>5. u \notin Bytes(r)
    BY <2>1, <2>4 DEF Got
  <2> QED BY <1>2, <2>1, <2>3, <2>4, <2>5, BufferedSlot
<1>9. u \notin Covered(slot)
  <2>1. slot.freed = {}
    BY <1>2, <1>4, <1>7 DEF BufferGenuine, DeliveredIsFreed
  <2> QED BY <1>8, <2>1 DEF Covered, WithData
<1>10. u \in MissingUnits(slot)
  <2>1. CASE \E q \in slot.pdus : q.is_last
    <3>1. PICK q \in slot.pdus : q.is_last
      BY <2>1
    <3>2. q.so + q.size = sdu[i].size
      BY <1>8, <3>1 DEF Genuine
    <3>3. q.so \in Nat /\ q.size \in Nat \ {0}
      BY <1>8, <3>1
    <3>4. sdu[i].size - 1 \in Bytes(q)
      BY <1>6, <3>2, <3>3 DEF Bytes
    <3>5. sdu[i].size - 1 \in Covered(slot)
      BY <3>1, <3>4 DEF Covered, WithData
    <3>6. u < sdu[i].size - 1
      BY <1>6, <1>9, <3>5
    <3> QED BY <1>6, <1>7, <1>9, <2>1, <3>5, <3>6 DEF MissingUnits, Gaps
  <2>2. CASE ~\E q \in slot.pdus : q.is_last
    BY <1>6, <1>7, <1>9, <2>2 DEF MissingUnits
  <2> QED BY <2>1, <2>2
<1>11. \E sn \in Reported \cup {rx_highest_status} : ~IsEmpty(rx_list[get_pos(sn)])
  BY DEF Missing
<1> HIDE DEF x, k, slot
<1>12. <<x, u>> \in Reported \X Units /\ <<x, u>>[1] = x /\ <<x, u>>[2] = u
  BY <1>5, <1>6
<1> QED
  BY <1>10, <1>11, <1>12 DEF Missing, x, slot

\* The last NACK put in a STATUS PDU is for the SN of the last byte missing that it tells.
LEMMA LastNackFacts ==
  ASSUME LinkInv, ~hung, NEW cut, NEW nack, nack = NacksUpTo(cut), nack # {}
  PROVE  /\ nack \subseteq SN \X Units /\ LastNack(nack) \in SN \X Units
         /\ \E y \in Missing : /\ y \in nack /\ y[1] = LastNack(nack)[1] /\ Position(y) < cut
                               /\ \A z \in Missing : Position(z) < cut => Position(z) <= Position(y)
         /\ Dist(rx_next, LastNack(nack)[1]) < Dist(rx_next, rx_highest_status)
<1> DEFINE put  == {x \in Missing : Position(x) < cut}
           last == {x \in put : \A y \in put : Position(y) <= Position(x)}
           ext  == {x \in SN \X Units : /\ \E y \in last : x[1] = y[1] /\ y[2] < x[2]
                                        /\ \E y \in Missing : Position(y) >= cut}
           top  == LastNack(nack)
<1>1. /\ rx_next \in SN /\ Missing \subseteq SN \X Units /\ rx_highest_status \in SN
      /\ Dist(rx_next, rx_highest_status) \in 0 .. W
  BY ReportedWereSent
<1>2. nack = put \cup ext
  BY DEF NacksUpTo
<1>3. nack \subseteq SN \X Units
  BY <1>1, <1>2
<1>4. top \in nack /\ \A y \in nack : Position(y) <= Position(top)
  BY <1>1, <1>3, LastNackOf
<1>5. \E y \in last : y[1] = top[1]
  <2>1. CASE top \in put
    BY <1>2, <1>4, <2>1
  <2>2. CASE top \in ext
    BY <2>2
  <2> QED BY <1>2, <1>4, <2>1, <2>2
<1>6. PICK y \in last : y[1] = top[1]
  BY <1>5
<1>7. /\ y \in Missing /\ y \in nack /\ Position(y) < cut
      /\ \A z \in Missing : Position(z) < cut => Position(z) <= Position(y)
  BY <1>2
<1>8. y[1] \in Reported
  BY <1>7 DEF Missing
<1>9. Dist(rx_next, y[1]) < Dist(rx_next, rx_highest_status)
  <2>1. PICK k \in 0 .. Dist(rx_next, rx_highest_status) - 1 : y[1] = Plus(rx_next, k)
    BY <1>8 DEF Reported
  <2>2. k \in 0 .. sn_modulus - 1
    BY <1>1, SizesAssumption DEF sn_modulus
  <2>3. Dist(rx_next, y[1]) = k
    BY <1>1, <2>1, <2>2, DistOfPlus
  <2> QED BY <1>1, <2>1, <2>3
<1> HIDE DEF put, last, ext, top
<1> QED
  BY <1>3, <1>4, <1>6, <1>7, <1>9 DEF top

\* A NACK of a lower SN comes before one of a higher SN.
LEMMA PositionOrder ==
  ASSUME rx_next \in SN, NEW x \in SN \X Units, NEW y \in SN \X Units
  PROVE  /\ Dist(rx_next, x[1]) < Dist(rx_next, y[1]) => Position(x) < Position(y)
         /\ x[1] = y[1] => (Position(x) < Position(y) <=> x[2] < y[2])
         /\ Position(x) \in Nat /\ x[2] \in Nat /\ Dist(rx_next, x[1]) \in Nat
<1>1. /\ Position(x) \in Nat /\ Position(y) \in Nat /\ MaxLen \in Nat \ {0}
      /\ Position(x) < (Dist(rx_next, x[1]) + 1) * MaxLen
      /\ Dist(rx_next, y[1]) * MaxLen <= Position(y)
  BY PositionRange, SizesAssumption
<1>2. /\ Dist(rx_next, x[1]) \in Nat /\ Dist(rx_next, y[1]) \in Nat
      /\ x[2] \in Nat /\ y[2] \in Nat
  BY DistRange, SizesAssumption DEF Units
<1>3. ASSUME Dist(rx_next, x[1]) < Dist(rx_next, y[1])
      PROVE  Position(x) < Position(y)
  <2>1. \A j, k, l \in Nat : j < k => (j + 1) * l <= k * l
    <3> SUFFICES ASSUME NEW j \in Nat, NEW k \in Nat, NEW l \in Nat, j < k
                 PROVE  (j + 1) * l <= k * l
      OBVIOUS
    <3>1. PICK e \in Nat : k = j + 1 + e
      <4>1. k - j - 1 \in Nat /\ k = j + 1 + (k - j - 1)
        OBVIOUS
      <4> QED BY <4>1
    <3>2. k * l = (j + 1) * l + e * l
      BY <3>1
    <3>3. e * l \in Nat /\ (j + 1) * l \in Nat
      OBVIOUS
    <3> QED BY <3>2, <3>3
  <2>2. (Dist(rx_next, x[1]) + 1) * MaxLen <= Dist(rx_next, y[1]) * MaxLen
    BY <1>1, <1>2, <1>3, <2>1
  <2>3. /\ (Dist(rx_next, x[1]) + 1) * MaxLen \in Nat
        /\ Dist(rx_next, y[1]) * MaxLen \in Nat
    BY <1>1, <1>2
  <2> QED BY <1>1, <2>2, <2>3
<1>4. ASSUME x[1] = y[1]
      PROVE  Position(x) < Position(y) <=> x[2] < y[2]
  <2>1. PICK p \in Nat : p = Dist(rx_next, x[1]) * MaxLen
    BY <1>1, <1>2
  <2>2. Position(x) = p + x[2] /\ Position(y) = p + y[2]
    BY <1>4, <2>1 DEF Position
  <2> QED BY <1>2, <2>1, <2>2
<1> QED
  BY <1>1, <1>2, <1>3, <1>4

\* A STATUS PDU, whole or cut short, acknowledges nothing that the peer does not have.
LEMMA StatusIsTrue ==
  ASSUME LinkInv, ~hung, NEW cut \in Nat
  PROVE  Age(StatusUpTo(cut).ack_sn) <= W /\ Truthful(StatusUpTo(cut))
<1> DEFINE nack == NacksUpTo(cut)
           top  == LastNack(nack)
<1>1. /\ Age(rx_next) \in Nat /\ Age(rx_next) <= W /\ rx_next \in SN /\ tx_next \in SN
      /\ Dist(rx_next, rx_highest_status) \in 0 .. Age(rx_next)
      /\ Dist(rx_next, rx_highest_status) \in 0 .. W
      /\ Missing \subseteq SN \X Units
  BY ReportedWereSent
<1>2. /\ BothInv /\ TxNextAckIsOldest /\ DoneIsDelivered /\ delivered \in [Ids -> 0 .. 2] /\ W \in Nat
  BY LinkTypeFacts, SizesAssumption DEF LinkInv
<1>3. StatusUpTo(cut).nack = nack
      /\ StatusUpTo(cut).ack_sn = IF nack = {} THEN rx_next ELSE Succ(top[1])
  BY DEF StatusUpTo
<1>4. ASSUME NEW i \in Numbered, Age(sdu[i].sn) > Age(rx_next)
      PROVE  \A u : Got(i, u)
  BY <1>2, <1>4 DEF DoneIsDelivered, Done, Got
<1>5. CASE nack = {}
  <2>1. StatusUpTo(cut).ack_sn = rx_next
    BY <1>3, <1>5
  <2> QED BY <1>1, <1>4, <2>1 DEF Truthful
<1>6. CASE nack # {}
  <2>1. /\ top \in SN \X Units /\ top[1] \in SN
        /\ Dist(rx_next, top[1]) < Dist(rx_next, rx_highest_status)
    <3>1. top \in SN \X Units /\ Dist(rx_next, top[1]) < Dist(rx_next, rx_highest_status)
      BY <1>6, LastNackFacts
    <3> HIDE DEF top
    <3> QED BY <3>1
  <2>2. PICK y \in Missing :
          /\ y \in nack /\ y[1] = top[1] /\ Position(y) < cut
          /\ \A z \in Missing : Position(z) < cut => Position(z) <= Position(y)
    BY <1>6, LastNackFacts
  <2> DEFINE k == Dist(rx_next, top[1])
  <2>3. k \in Nat /\ k <= Age(rx_next) - 1
    BY <1>1, <2>1, DistRange
  <2>4. Age(top[1]) = Age(rx_next) - k
    <3>1. top[1] = Plus(rx_next, k)
      BY <1>1, <2>1, DistRange
    <3>2. k \in 0 .. Age(rx_next)
      BY <1>1, <2>3
    <3> QED BY <1>1, <3>1, <3>2, AgeOfPlus
  <2> HIDE DEF top, k, nack
  <2>5. Age(Succ(top[1])) = Age(top[1]) - 1 /\ Succ(top[1]) \in SN
    <3>1. 1 \in 0 .. Age(top[1])
      BY <1>1, <2>3, <2>4
    <3> QED BY <1>1, <2>1, <3>1, SuccIsPlus, AgeOfPlus
  <2>6. Age(StatusUpTo(cut).ack_sn) = Age(rx_next) - k - 1
    BY <1>1, <1>3, <1>6, <2>3, <2>4, <2>5
  <2>7. ASSUME NEW i \in Numbered, Age(sdu[i].sn) > Age(rx_next) - k - 1,
               NEW u \in 0 .. sdu[i].size - 1, ~Got(i, u)
        PROVE  <<sdu[i].sn, u>> \in nack
    <3> DEFINE x == sdu[i].sn
               b == <<x, u>>
    <3>1. x \in SN /\ Age(x) \in 1 .. W /\ sdu[i].size \in 1 .. MaxLen
      BY <1>2, NumberedFacts
    <3>2. Age(x) <= Age(rx_next)
      BY <1>1, <1>4, <2>7, <3>1
    <3>3. Dist(rx_next, x) = Age(rx_next) - Age(x)
      BY <1>1, <3>1, <3>2, SlotInWindow
    <3>4. Dist(rx_next, x) <= k /\ Dist(rx_next, x) \in Nat
      BY <1>1, <2>3, <2>7, <3>1, <3>2, <3>3
    <3>5. Dist(rx_next, x) < Dist(rx_next, rx_highest_status)
      BY <1>1, <2>1, <2>3, <3>4 DEF k
    <3>6. b \in Missing
      <4>1. Missing # {}
        BY <2>2
      <4> QED BY <2>7, <3>5, <4>1, MissingIsTrue
    <3>7. u \in Units /\ b \in SN \X Units /\ b[1] = x /\ b[2] = u
      BY <1>1, <3>6
    <3> HIDE DEF x, b
    <3>8. CASE Position(b) < cut
      BY <3>6, <3>8 DEF NacksUpTo, nack, b, x
    <3>9. CASE ~(Position(b) < cut)
      <4>1. y \in SN \X Units /\ Position(y) \in Nat /\ Position(b) \in Nat
            /\ Dist(rx_next, y[1]) = k
        BY <1>1, <2>2, <3>7, PositionOrder DEF k
      <4>2. Position(y) < Position(b) /\ Position(b) >= cut
        BY <2>2, <3>9, <4>1
      <4>3. ~(Dist(rx_next, x) < k)
        <5>1. Dist(rx_next, b[1]) < Dist(rx_next, y[1]) => Position(b) < Position(y)
          BY <1>1, <3>7, <4>1, PositionOrder
        <5> QED BY <3>7, <4>1, <4>2, <5>1
      <4>4. y[1] = b[1]
        <5>1. Dist(rx_next, x) = Dist(rx_next, y[1])
          BY <2>3, <3>4, <4>1, <4>3
        <5>2. y[1] \in SN
          BY <4>1
        <5>3. Plus(rx_next, Dist(rx_next, x)) = x /\ Plus(rx_next, Dist(rx_next, y[1])) = y[1]
          BY <1>1, <3>1, <5>2, DistRange
        <5> QED BY <3>7, <5>1, <5>3
      <4>5. y[2] < b[2]
        BY <1>1, <3>7, <4>1, <4>2, <4>4, PositionOrder
      <4>6. /\ y \in {z \in Missing : Position(z) < cut}
            /\ \A z \in {w \in Missing : Position(w) < cut} : Position(z) <= Position(y)
        BY <2>2
      <4> QED BY <3>6, <3>7, <4>2, <4>4, <4>5, <4>6 DEF NacksUpTo, nack, b, x
    <3> QED BY <3>8, <3>9
  <2>8. Truthful(StatusUpTo(cut))
    BY <1>3, <2>6, <2>7 DEF Truthful
  <2> QED BY <1>1, <1>2, <2>3, <2>6, <2>8
<1> QED
  BY <1>5, <1>6

\* generate_status adds a STATUS PDU that tells the truth, or one that the peer throws away.
LEMMA SendStatusStep ==
  ASSUME LinkInv, SendStatus
  PROVE  LinkInv'
<1>1. BothInv /\ BothInv'
  BY BothStep DEF LinkInv, Next
<1>2. ~hung /\ hung' = hung
  BY DEF SendStatus, GenerateStatus
<1>3. PICK st \in {WholeStatus} \cup {StatusUpTo(Position(x)) : x \in NackStarts} :
        ctl' = ctl \cup {st}
  BY DEF SendStatus, GenerateStatus
<1>4. UNCHANGED <<sdu, txlists, tx_next, tx_next_ack, air, rx_next, rx_next_highest, rx_list,
                  delivered, garbled>>
  BY DEF SendStatus, GenerateStatus, txvars, rxptrs
<1>5. /\ Age(rx_next) \in Nat /\ Age(rx_next) <= W /\ rx_next \in SN /\ tx_next \in SN
      /\ rx_highest_status \in SN
      /\ Dist(rx_next, rx_highest_status) \in 0 .. Age(rx_next)
      /\ Missing \subseteq SN \X Units
  BY <1>2, ReportedWereSent
<1>6. Age(st.ack_sn) <= W /\ (~st.wraps => Truthful(st))
  <2>1. CASE RangeWraps /\ st = WholeStatus
    <3>1. st.ack_sn = Succ(rx_next) /\ st.wraps = TRUE
      BY <2>1 DEF WholeStatus
    <3>2. Dist(rx_next, rx_highest_status) = W
      <4>1. W \in 0 .. sn_modulus - 1
        BY SizesAssumption DEF sn_modulus
      <4> QED BY <1>5, <2>1, <4>1, DistOfPlus DEF RangeWraps
    <3>3. 1 \in 0 .. Age(rx_next)
      BY <1>5, <3>2, SizesAssumption
    <3>4. Age(Succ(rx_next)) = Age(rx_next) - 1
      BY <1>5, <3>3, SuccIsPlus, AgeOfPlus
    <3> QED BY <1>5, <3>1, <3>4, SizesAssumption
  <2>2. CASE ~(RangeWraps /\ st = WholeStatus)
    <3>1. \E cut \in Nat : st = StatusUpTo(cut)
      <4>1. 2 * W * MaxLen \in Nat
        BY SizesAssumption
      <4>2. \A x \in NackStarts : Position(x) \in Nat
        BY <1>5, PositionRange DEF NackStarts
      <4> QED BY <2>2, <4>1, <4>2 DEF WholeStatus
    <3>2. PICK cut \in Nat : st = StatusUpTo(cut)
      BY <3>1
    <3> QED BY <1>2, <3>2, StatusIsTrue
  <2> QED BY <2>1, <2>2
<1>7. /\ Held' = Held /\ Numbered' = Numbered /\ Segments' = Segments /\ Buffered' = Buffered
      /\ \A x : Age(x)' = Age(x)
      /\ \A x : SlotOf(x)' = SlotOf(x)
      /\ Age(rx_next)' = Age(rx_next)
  BY <1>4 DEF Held, Numbered, Segments, Queued, InFlight, Age, SlotOf, txlists, Buffered
<1>8. /\ \A q : Genuine(q)' <=> Genuine(q)
      /\ \A x : Done(x)' <=> Done(x)
      /\ \A i, u : Got(i, u)' <=> Got(i, u)
  BY <1>4, <1>7 DEF Genuine, Done, Got
<1>9. \A x : Truthful(x)' <=> Truthful(x)
  BY <1>4, <1>7, <1>8 DEF Truthful
<1>10. StatusTrue'
  BY <1>3, <1>6, <1>7, <1>9 DEF LinkInv, StatusTrue
<1>11. DistinctSns' /\ Nested' /\ AirGenuine' /\ DoneIsDelivered' /\ FatesOk' /\ ~garbled'
       /\ TxNextAckIsOldest'
  BY <1>4, <1>7, <1>8 DEF LinkInv, DistinctSns, Nested, AirGenuine, DoneIsDelivered,
                         FatesOk, TxNextAckIsOldest, TxBefore, Age
<1>12. BufferGenuine'
  BY <1>4, <1>7, <1>8 DEF LinkInv, BufferGenuine, DeliveredIsFreed
<1>13. MissingIsHeld' /\ NothingLost'
  BY <1>4, <1>7, <1>8 DEF LinkInv, MissingIsHeld, NothingLost
<1>14. HungAtHead' /\ DeliveredWhole'
  BY <1>2, <1>4, <1>7 DEF LinkInv, HungAtHead, DeliveredWhole
<1> QED
  BY <1>1, <1>10, <1>11, <1>12, <1>13, <1>14 DEF LinkInv

\* What is before tx_next on the way from a is no older than a.
LEMMA NearerIsYounger ==
  ASSUME tx_next \in SN, NEW x \in SN, NEW a \in SN, Dist(a, x) < Dist(a, tx_next)
  PROVE  Age(x) <= Dist(a, tx_next)
BY SizesAssumption DEF Age, Dist, SN, sn_modulus

\* A valid STATUS PDU frees segments of SNs above its ack_sn only, of which the peer has
\* every byte that is freed.
LEMMA FreedIsGot ==
  ASSUME LinkInv, NEW st \in ctl, StatusTakes(st), NEW s \in Segments, s \notin Segments'
  PROVE  /\ s.id \in Numbered /\ ~Nacked(s, st) /\ ~st.wraps /\ Age(SnOf(s)) > Age(st.ack_sn)
         /\ \A u \in Bytes(s) : Got(s.id, u)
<1>1. /\ BothInv /\ TxInv /\ TxNextAckIsOldest /\ StatusTrue /\ tx_next \in SN /\ tx_next_ack \in SN
      /\ Segments \in SUBSET Segment /\ ctl \in SUBSET StatusPdu /\ s.id \in Held
      /\ Age(tx_next_ack) <= W /\ W \in Nat
  BY LinkTypeFacts, SizesAssumption DEF LinkInv
<1>2. ValidStatus(st) /\ s \in InFlight /\ ~Nacked(s, st) /\ TxBefore(SnOf(s), st.ack_sn)
  BY DEF StatusTakes
<1>3. s.id \in Numbered
  BY <1>1, <1>2 DEF TxInv, Structure, SentHaveSn, SnOf, Numbered
<1>4. ~st.wraps /\ ~TxBefore(tx_next, st.ack_sn)
  BY <1>2 DEF ValidStatus
<1>5. st.ack_sn \in SN /\ SnOf(s) \in SN /\ Age(SnOf(s)) \in 1 .. Age(tx_next_ack)
  BY <1>1, <1>3, NumberedFacts DEF StatusPdu, SnOf
<1>6. Age(SnOf(s)) > Age(st.ack_sn)
  <2> DEFINE a == Age(tx_next_ack)
             k == Age(st.ack_sn)
             n == Age(SnOf(s))
  <2>1. a \in 0 .. sn_modulus - 1 /\ k \in 0 .. sn_modulus - 1 /\ n \in 1 .. a
    BY <1>1, <1>5, AgeFacts
  <2>2. Dist(tx_next_ack, SnOf(s)) = a - n
    BY <1>1, <1>5, <2>1, DistIsAge
  <2>3. Dist(tx_next_ack, st.ack_sn) = IF k <= a THEN a - k ELSE a - k + sn_modulus
    BY <1>1, <1>5, DistIsAge
  <2>4. Dist(tx_next_ack, tx_next) = a
    BY DEF Age
  <2>5. ~(a < Dist(tx_next_ack, st.ack_sn)) /\ a - n < Dist(tx_next_ack, st.ack_sn)
    BY <1>2, <1>4, <2>2, <2>4 DEF TxBefore
  <2>6. sn_modulus \in Nat
    BY <1>1 DEF sn_modulus
  <2> HIDE DEF a, k, n
  <2>7. k < n
    BY <2>1, <2>3, <2>5, <2>6
  <2> QED BY <2>1, <2>6, <2>7 DEF k, n
<1>7. ASSUME NEW u \in Bytes(s)
      PROVE  Got(s.id, u)
  <2>1. u \in 0 .. sdu[s.id].size - 1
    <3>1. s \in Segment /\ s.so + s.size <= sdu[s.id].size
      BY <1>1 DEF TxInv, Structure, SegmentsFit
    <3>2. s.so \in Nat /\ s.size \in Nat /\ sdu[s.id].size \in Nat
      <4>1. sdu[s.id].size \in 1 .. MaxLen
        BY <1>1, <1>3, NumberedFacts
      <4> QED BY <3>1, <4>1, SegmentsFinite, SizesAssumption
    <3> QED BY <3>1, <3>2 DEF Bytes
  <2>2. Truthful(st)
    BY <1>1, <1>4 DEF StatusTrue
  <2>3. <<sdu[s.id].sn, u>> \in st.nack \/ Got(s.id, u)
    BY <1>3, <1>6, <2>1, <2>2 DEF Truthful, SnOf
  <2> QED BY <1>2, <2>3 DEF Nacked, SnOf
<1> QED
  BY <1>2, <1>3, <1>4, <1>6, <1>7

\* A STATUS PDU confirms SDUs that the peer has delivered, and leaves the head of the
\* receive window to the transmitter.
LEMMA ReceiveStatusStep ==
  ASSUME LinkInv, TxNextAckIsOldest', NEW st \in ctl, ReceiveStatus(st)
  PROVE  LinkInv'
<1>1. BothInv /\ BothInv'
  BY BothStep DEF LinkInv, Next
<1>2. StatusTakes(st)
  <2>1. st \in StatusPdu /\ TxInv
    BY <1>1, LinkTypeFacts
  <2> QED BY <2>1, ProcessControlPduInv DEF ReceiveStatus
<1>3. /\ UNCHANGED <<rx_next, rx_next_highest, rx_list, hung, delivered, garbled>>
      /\ ctl' \in SUBSET ctl
  BY DEF ReceiveStatus, rxptrs
<1>4. /\ tx_next' = tx_next /\ air' = air /\ Segments' \subseteq Segments
      /\ \A i \in Ids : /\ sdu'[i].fate # sdu[i].fate =>
                             /\ sdu[i].fate = "held" /\ sdu'[i].fate = "acked"
                             /\ \A s \in Segments' : s.id # i
                        /\ sdu'[i].fate = sdu[i].fate => /\ sdu'[i].sn = sdu[i].sn
                                                         /\ sdu'[i].size = sdu[i].size
  BY <1>2 DEF StatusTakes
<1>5. /\ TxNextAckIsOldest /\ NothingLost /\ HungAtHead /\ FatesOk /\ Nested
      /\ delivered \in [Ids -> 0 .. 2] /\ \A s \in Segments : s.id \in Held
      /\ \A i \in Held : \E s \in Segments : s.id = i
      /\ tx_next \in SN /\ rx_next \in SN
  BY <1>1, LinkTypeFacts DEF LinkInv
<1>6. ASSUME NEW i \in Ids, sdu'[i].fate # sdu[i].fate
      PROVE  i \in Numbered /\ delivered[i] > 0
  <2>1. i \in Held
    BY <1>4, <1>6 DEF Held
  <2>2. ASSUME NEW s \in Segments, s.id = i
        PROVE  s \notin Segments'
    BY <1>4, <1>6, <2>2
  <2>3. i \in Numbered
    BY <1>2, <1>5, <2>1, <2>2, FreedIsGot
  <2>4. \A u \in 0 .. sdu[i].size - 1 : Got(i, u)
    <3> SUFFICES ASSUME NEW u \in 0 .. sdu[i].size - 1
                 PROVE  Got(i, u)
      OBVIOUS
    <3>1. CASE \E s \in Segments : s.id = i /\ u \in Bytes(s)
      BY <1>2, <2>2, <3>1, FreedIsGot
    <3> QED BY <1>5, <2>1, <3>1 DEF NothingLost
  <2>5. delivered[i] # 0
    BY <2>3, <2>4, SomethingIsMissing
  <2>6. delivered[i] \in 0 .. 2
    BY <1>5
  <2> QED BY <2>3, <2>5, <2>6
<1>7. Held' \subseteq Held /\ \A i \in Held' : i \in Ids /\ sdu'[i].fate = sdu[i].fate
  BY <1>4 DEF Held
<1>8. /\ Numbered' \in SUBSET Numbered
      /\ \A i \in Numbered : delivered[i] = 0 => i \in Numbered'
      /\ \A i \in Numbered' : sdu'[i].sn = sdu[i].sn /\ sdu'[i].size = sdu[i].size
  <2>1. \A i \in Numbered' : i \in Numbered /\ sdu'[i].sn = sdu[i].sn /\ sdu'[i].size = sdu[i].size
    BY <1>4, <1>7 DEF Numbered
  <2>2. ASSUME NEW i \in Numbered, delivered[i] = 0
        PROVE  i \in Numbered'
    <3>1. i \in Ids /\ i \in Held /\ sdu[i].sn # NoSn
      BY DEF Numbered, Held
    <3>2. sdu'[i].fate = sdu[i].fate
      BY <1>6, <2>2, <3>1
    <3> QED BY <1>4, <3>1, <3>2 DEF Numbered, Held
  <2> QED BY <2>1, <2>2
<1>9. /\ DistinctSns' /\ AirGenuine' /\ BufferGenuine' /\ DoneIsDelivered'
      /\ MissingIsHeld' /\ StatusTrue' /\ DeliveredWhole' /\ ~garbled'
  BY <1>3, <1>4, <1>8, SameNumbers
<1>10. /\ Buffered' = Buffered /\ \A i, u : Got(i, u)' <=> Got(i, u)
       /\ \A x : Age(x)' = Age(x)
       /\ Age(rx_next)' = Age(rx_next) /\ Age(rx_next_highest)' = Age(rx_next_highest)
  BY <1>3, <1>4 DEF Buffered, Got, Age
<1>11. NothingLost'
  <2> SUFFICES ASSUME NEW i \in Held', NEW u \in 0 .. sdu'[i].size - 1
               PROVE  (\E s \in Segments' : s.id = i /\ u \in Bytes(s)) \/ Got(i, u)
    BY <1>10 DEF NothingLost
  <2>1. i \in Held /\ i \in Ids /\ sdu'[i].size = sdu[i].size
    BY <1>4, <1>7
  <2>2. (\E s \in Segments : s.id = i /\ u \in Bytes(s)) \/ Got(i, u)
    BY <1>5, <2>1 DEF NothingLost
  <2> QED BY <1>2, <2>2, FreedIsGot
<1>12. HeadHeld => HeadHeld' /\ \E i \in Numbered' : sdu'[i].sn = rx_next
  <2> SUFFICES ASSUME HeadHeld
               PROVE  HeadHeld' /\ \E i \in Numbered' : sdu'[i].sn = rx_next
    OBVIOUS
  <2>1. PICK s \in Segments : \E v \in Bytes(s) :
          /\ SnOf(s) = rx_next
          /\ \A t \in ctl : ~t.wraps /\ Age(t.ack_sn) < Age(rx_next) => <<rx_next, v>> \in t.nack
    BY DEF HeadHeld
  <2>2. PICK u \in Bytes(s) :
          /\ SnOf(s) = rx_next
          /\ \A t \in ctl : ~t.wraps /\ Age(t.ack_sn) < Age(rx_next) => <<rx_next, u>> \in t.nack
    BY <2>1
  <2>3. s \in Segments'
    <3> SUFFICES ASSUME s \notin Segments'
                 PROVE  FALSE
      OBVIOUS
    <3>1. ~Nacked(s, st) /\ ~st.wraps /\ Age(SnOf(s)) > Age(st.ack_sn)
      BY <1>2, FreedIsGot
    <3>2. Age(rx_next) \in Nat /\ Age(st.ack_sn) \in Nat
      <4>1. st.ack_sn \in SN
        BY <1>1, LinkTypeFacts DEF StatusPdu
      <4> QED BY <1>5, <4>1, AgeFacts
    <3>3. Age(st.ack_sn) < Age(rx_next)
      BY <2>2, <3>1, <3>2
    <3>4. <<SnOf(s), u>> \in st.nack
      BY <2>2, <3>1, <3>3
    <3> QED BY <3>1, <3>4 DEF Nacked
  <2>4. s.id \in Held /\ s.id \in Ids /\ sdu'[s.id].fate = sdu[s.id].fate /\ sdu'[s.id].sn = rx_next
    <3>1. s.id \in Held /\ s.id \in Ids
      BY <1>5 DEF Held
    <3>2. sdu'[s.id].fate = sdu[s.id].fate
      BY <1>4, <2>3, <3>1
    <3> QED BY <1>4, <2>2, <3>1, <3>2 DEF SnOf
  <2>5. s.id \in Numbered'
    BY <1>5, <2>4, SizesAssumption DEF Numbered, Held, SN, NoSn, sn_modulus
  <2>6. SnOf(s)' = rx_next'
    BY <1>3, <2>4 DEF SnOf
  <2>7. HeadHeld'
    BY <1>3, <1>10, <2>2, <2>3, <2>6 DEF HeadHeld
  <2> QED BY <2>4, <2>5, <2>7
<1>13. HungAtHead'
  BY <1>3, <1>5, <1>10, <1>12 DEF HungAtHead
<1>14. Nested'
  <2>1. tx_next_ack' \in SN /\ Age(rx_next) \in Nat
    BY <1>1, <1>5, AgeFacts DEF BothInv, TxInv, TxTypeOK
  <2>2. Dist(tx_next_ack', tx_next) \in Nat
    BY <1>5, <2>1, DistRange
  <2>3. Age(rx_next) <= Dist(tx_next_ack', tx_next)
    <3>1. CASE Age(rx_next) = 0
      BY <2>2, <3>1
    <3>2. CASE Age(rx_next) > 0
      <4>1. PICK i \in Numbered' : sdu'[i].sn = rx_next
        BY <1>12, <3>2, HeadIsHeld
      <4>2. Dist(tx_next_ack', rx_next) < Dist(tx_next_ack', tx_next)
        BY <1>4, <4>1 DEF TxNextAckIsOldest, TxBefore, Numbered
      <4>3. PICK a \in SN : a = tx_next_ack'
        BY <2>1
      <4>4. Dist(a, rx_next) < Dist(a, tx_next)
        BY <4>2, <4>3
      <4>5. Age(rx_next) <= Dist(a, tx_next)
        BY <1>5, <4>3, <4>4, NearerIsYounger
      <4> QED BY <4>3, <4>5
    <3> QED BY <2>1, <3>1, <3>2
  <2>4. Age(tx_next_ack)' = Dist(tx_next_ack', tx_next)
    BY <1>4 DEF Age
  <2> QED BY <1>5, <1>10, <2>3, <2>4 DEF Nested
<1>15. FatesOk'
  <2> SUFFICES ASSUME NEW i \in Ids
               PROVE  /\ sdu'[i].fate = "acked" => delivered[i] > 0
                      /\ delivered[i] > 0 => sdu'[i].fate # "none"
                      /\ delivered[i] < 2
                      /\ sdu'[i].fate = "held" /\ sdu'[i].sn = NoSn => delivered[i] = 0
    BY <1>3 DEF FatesOk
  <2>1. CASE sdu'[i].fate = sdu[i].fate
    BY <1>4, <1>5, <2>1 DEF FatesOk
  <2>2. CASE sdu'[i].fate # sdu[i].fate
    BY <1>4, <1>5, <1>6, <2>2 DEF FatesOk
  <2> QED BY <2>1, <2>2
<1> QED
  BY <1>1, <1>9, <1>11, <1>13, <1>14, <1>15 DEF LinkInv

\* Every step keeps the invariant, while tx_next_ack is right.
LEMMA LinkStep ==
  ASSUME LinkInv, TxNextAckIsOldest', [Next]_vars
  PROVE  LinkInv'
BY SubmitStep, SendPduStep, DiscardStep, TimerAndLossSteps, SendStatusStep, ReceivePduStep,
   ReceiveStatusStep, ReestablishStep DEF Next

\* A bearer that has not started has promised nothing.
LEMMA LinkInitInv ==
  ASSUME Init
  PROVE  LinkInv
<1>1. BothInv
  BY TxInitInv, RxInitInv, LinkAssumption DEF Init, BothInv, Bounds
<1>2. /\ air = {} /\ ctl = {} /\ ~hung /\ ~garbled
      /\ rx_list = [s \in Slots |-> EmptySlot] /\ delivered = [i \in Ids |-> 0]
      /\ \A i \in Ids : sdu[i].fate = "none"
  BY DEF Init, TxInit, RxInit, NoSdu
<1>3. Held = {} /\ Numbered = {}
  BY <1>2 DEF Held, Numbered
<1>4. /\ Buffered = {}
      /\ \A s \in Slots : ~sdu_full(rx_list[s]) /\ ~rx_list[s].delivered /\ rx_list[s].freed = {}
  BY <1>2 DEF Buffered, EmptySlot, sdu_full
<1>5. Age(rx_next) = 0 /\ Age(tx_next_ack) = 0 /\ Age(rx_next_highest) = 0
  BY SizesAssumption DEF Init, TxInit, RxInit, Age, Dist
<1>6. BufferGenuine
  BY <1>4 DEF BufferGenuine, DeliveredIsFreed
<1>7. Nested /\ MissingIsHeld
  BY <1>5 DEF Nested, MissingIsHeld
<1>8. FatesOk
  BY <1>2 DEF FatesOk
<1>9. /\ TxNextAckIsOldest /\ DistinctSns /\ AirGenuine /\ DoneIsDelivered /\ NothingLost
      /\ StatusTrue /\ HungAtHead /\ DeliveredWhole
  BY <1>2, <1>3 DEF TxNextAckIsOldest, DistinctSns, AirGenuine, DoneIsDelivered, NothingLost,
                    StatusTrue, HungAtHead, DeliveredWhole
<1> QED
  BY <1>1, <1>2, <1>6, <1>7, <1>8, <1>9 DEF LinkInv

\* The invariant holds as long as process_control_pdu keeps tx_next_ack right.
THEOREM LinkInvHolds == Spec /\ []TxNextAckIsOldest => []LinkInv
<1>1. Init => LinkInv
  BY LinkInitInv
<1>2. LinkInv /\ TxNextAckIsOldest' /\ [Next]_vars => LinkInv'
  BY LinkStep
<1> QED
  BY <1>1, <1>2, PTL DEF Spec

-----------------------------------------------------------------------------
(***************************************************************************)
(* What the upper layers are promised                                      *)
(***************************************************************************)
\* No SDU is delivered twice, and nothing is delivered that is no SDU.
LEMMA OnceIfInv ==
  ASSUME LinkInv
  PROVE  AtMostOnce
BY DEF LinkInv, FatesOk, AtMostOnce

\* What the buffer holds is what rx_size counts.
SizeExact == SizeBounds /\ RxSizeExact

\* Every step keeps rx_size exact: nothing is held for an SDU that was delivered, so that
\* nothing is forgotten with its slot.
LEMMA SizeStep ==
  ASSUME LinkInv, BothInv', SizeExact, [Next]_vars
  PROVE  SizeExact'
<1>1. /\ RxInv /\ RxInv' /\ RxTypeOK /\ DeliveredIsFreed /\ air \in SUBSET DataPdu
      /\ SizeBounds /\ rx_size = SizeOf(HeldPdus) /\ rx_size \in Int
  BY LinkTypeFacts DEF LinkInv, BothInv, RxInv, BufferGenuine, SizeExact, SizeBounds, RxSizeExact
<1>2. Forgotten = {}
  BY <1>1 DEF Forgotten, HeldPdus, DeliveredIsFreed
<1>3. SizeOf(Forgotten) = 0 /\ SizeOf(HeldPdus) \in Nat /\ SizeOf(HeldPdus') \in Nat
  <2>1. {} \in SUBSET (Slots \X DataPdu)
    OBVIOUS
  <2>2. SizeOf({}) = Total(Sizes, {})
    BY <2>1, SizeIsTotal
  <2>3. RxTypeOK'
    BY <1>1 DEF RxInv
  <2> QED BY <1>1, <1>2, <2>2, <2>3, SizeIsTotal, TotalEmpty
<1>4. ASSUME [RxNext]_rxvars PROVE SizeExact'
  <2>1. SizeBounds' /\ AccountsStep
    BY <1>1, <1>4, RxSizeStep
  <2>2. CASE rx_size' = 0 /\ rx_list' = [s \in Slots |-> EmptySlot]
    <3>1. HeldPdus' = {}
      BY <2>2 DEF HeldPdus, EmptySlot
    <3>2. SizeOf(HeldPdus') = 0
      BY <1>2, <1>3, <3>1
    <3> QED BY <2>1, <2>2, <3>2 DEF SizeExact, RxSizeExact
  <2>3. CASE rx_size' - SizeOf(HeldPdus') = rx_size - SizeOf(HeldPdus) + SizeOf(Forgotten)
    <3>1. rx_size' \in Int
      BY <2>1 DEF SizeBounds
    <3>2. rx_size' = SizeOf(HeldPdus')
      <4>1. \A r0, r1, a, b \in Int : r1 - a = r0 - b + 0 /\ r0 = b => r1 = a
        OBVIOUS
      <4>2. rx_size' - SizeOf(HeldPdus') = rx_size - SizeOf(HeldPdus) + 0
        BY <1>3, <2>3
      <4>3. rx_size \in Int /\ SizeOf(HeldPdus) \in Int /\ SizeOf(HeldPdus') \in Int
            /\ rx_size = SizeOf(HeldPdus)
        BY <1>1, <1>3
      <4> QED BY <3>1, <4>1, <4>2, <4>3
    <3> QED BY <2>1, <3>2 DEF SizeExact, RxSizeExact
  <2> QED BY <2>1, <2>2, <2>3 DEF AccountsStep
<1>5. ASSUME UNCHANGED <<rx_list, rx_size>> PROVE SizeExact'
  <2>1. HeldPdus' = HeldPdus
    BY <1>5 DEF HeldPdus
  <2> QED BY <1>1, <1>5, <2>1 DEF SizeExact, SizeBounds, RxSizeExact
<1>6. CASE Submit \/ PollTimeout \/ Discard \/ LosePdu \/ UNCHANGED vars
  BY <1>4, <1>6 DEF Submit, PollTimeout, Discard, LosePdu, vars
<1>7. CASE SendPdu \/ LoseStatus \/ \E st \in ctl : ReceiveStatus(st)
  BY <1>5, <1>7 DEF SendPdu, LoseStatus, ReceiveStatus
<1>8. CASE ReassemblyTimeout \/ StatusProhibitTimeout \/ SendStatus \/ Reestablish
  BY <1>4, <1>8 DEF ReassemblyTimeout, StatusProhibitTimeout, SendStatus, Reestablish, RxNext
<1>9. ASSUME NEW q \in air, ReceivePdu(q) PROVE SizeExact'
  BY <1>1, <1>4, <1>9 DEF ReceivePdu, RxNext
<1> QED
  BY <1>6, <1>7, <1>8, <1>9 DEF Next

\* A PDU of an SDU that is not delivered is in the receive window.
LEMMA InWindowIfInv ==
  ASSUME LinkInv
  PROVE  NewSduInWindow
<1> SUFFICES ASSUME NEW q \in air, delivered[q.id] = 0
             PROVE  Dist(rx_next, q.sn) < W
  BY DEF NewSduInWindow, sn_in_recv_window
<1>1. /\ BothInv /\ TxNextAckIsOldest /\ Nested /\ DoneIsDelivered /\ tx_next \in SN /\ rx_next \in SN
      /\ tx_next_ack \in SN /\ Age(tx_next_ack) <= W /\ W \in Nat
  BY LinkTypeFacts, SizesAssumption DEF LinkInv
<1>2. Genuine(q)
  BY DEF LinkInv, AirGenuine
<1>3. q.id \in Numbered /\ sdu[q.id].sn = q.sn
  BY <1>2 DEF Genuine
<1>4. q.sn \in SN /\ Age(q.sn) \in 1 .. W
  BY <1>1, <1>3, NumberedFacts
<1>5. ~(Age(q.sn) > Age(rx_next))
  BY <1>1, <1>3 DEF DoneIsDelivered, Done
<1>6. Age(rx_next) \in Nat /\ Age(tx_next_ack) \in Nat /\ Age(rx_next) <= W /\ Age(q.sn) \in Nat
  BY <1>1, <1>4, AgeFacts DEF Nested
<1>7. Age(q.sn) >= 1 /\ Age(q.sn) <= Age(rx_next)
  BY <1>4, <1>5, <1>6
<1>8. Dist(rx_next, q.sn) \in 0 .. W - 1
  BY <1>1, <1>4, <1>6, <1>7, SlotInWindow
<1> QED BY <1>1, <1>8

\* No SDU is delivered twice or as something else, whatever the radio loses or reorders
\* and whatever is discarded, as long as tx_next_ack is right.
THEOREM LinkAtMostOnce == Spec /\ []TxNextAckIsOldest => []AtMostOnce
BY LinkInvHolds, OnceIfInv, PTL

\* With this transmitter rx_size is what the receiver holds, after any sequence of losses,
\* reorderings and re-establishments, as long as tx_next_ack is right: what it sends of an
\* SDU that was delivered is recognised as received, and the buffer does not close.
THEOREM LinkRxSizeExact == Spec /\ []TxNextAckIsOldest => []RxSizeExact
<1>1. Init => SizeExact
  <2> SUFFICES ASSUME Init PROVE SizeExact
    OBVIOUS
  <2>1. RxInit /\ RxInv /\ RxTypeOK
    BY RxInitInv DEF Init, RxInv
  <2>2. KeptIn(rx_list) = {} /\ rx_size = 0 /\ Total(Sizes, KeptIn(rx_list)) = 0
    BY <2>1, EmptyBuffer DEF RxInit
  <2>3. HeldPdus = {} /\ SizeOf(HeldPdus) = 0
    BY <2>1, <2>2, SizeIsTotal
  <2> QED BY <2>1, <2>2, <2>3, RxSizeInit DEF SizeExact, RxSizeExact
<1>2. LinkInv /\ BothInv' /\ SizeExact /\ [Next]_vars => SizeExact'
  BY SizeStep
<1>3. SizeExact => RxSizeExact
  BY DEF SizeExact
<1> QED
  BY <1>1, <1>2, <1>3, LinkInvHolds, LinkInvariant, PTL DEF Spec

\* A new SDU is never thrown away as out of window, as long as tx_next_ack is right.
THEOREM LinkNewSduInWindow == Spec /\ []TxNextAckIsOldest => []NewSduInWindow
BY LinkInvHolds, InWindowIfInv, PTL

\* What each step of the bearer does to the fate and to the delivery of the SDUs.
FatesStay      == \A i \in Ids : sdu'[i].fate = sdu[i].fate
DeliveriesStay == \A i \in Ids : delivered'[i] > 0 <=> delivered[i] > 0

Submits == /\ \E n \in Ids : /\ sdu[n].fate = "none" /\ sdu'[n].fate = "held"
                             /\ \A i \in Ids \ {n} : sdu'[i].fate = sdu[i].fate
           /\ DeliveriesStay

Delivers == /\ FatesStay
            /\ \E n \in Ids : /\ delivered[n] = 0 /\ delivered'[n] > 0 /\ sdu[n].fate # "none"
                              /\ \A i \in Ids \ {n} : delivered'[i] > 0 <=> delivered[i] > 0

Confirms == /\ \A i \in Ids : sdu'[i].fate # sdu[i].fate =>
                 sdu[i].fate = "held" /\ sdu'[i].fate = "acked" /\ delivered[i] > 0
            /\ DeliveriesStay

Drops == /\ \A i \in Ids : sdu'[i].fate # sdu[i].fate =>
              sdu[i].fate = "held" /\ sdu'[i].fate = "dropped"
         /\ DeliveriesStay

\* Every step submits, delivers, confirms or drops, or does nothing that the upper layers
\* see.
LEMMA StepEffect ==
  ASSUME LinkInv, LinkInv', [Next]_vars
  PROVE  Submits \/ Delivers \/ Confirms \/ Drops
<1>1. BothInv /\ BothInv'
  BY DEF LinkInv
<1>2. TxInv /\ sdu \in [Ids -> SduType] /\ delivered \in [Ids -> 0 .. 2]
  BY <1>1, LinkTypeFacts
<1>3. CASE Submit
  <2>1. PICK id \in Ids, size \in 1 .. MaxLen : RecvSdu(id, size)
    BY <1>3 DEF Submit
  <2>2. sdu[id].fate = "none" /\ sdu' = [sdu EXCEPT ![id] = NewSdu(size)]
    BY <2>1 DEF RecvSdu
  <2>3. NewSdu(size).fate = "held"
    BY DEF NewSdu
  <2>4. delivered' = delivered
    BY <1>3 DEF Submit, rxvars
  <2>5. sdu'[id].fate = "held" /\ \A i \in Ids \ {id} : sdu'[i].fate = sdu[i].fate
    BY <1>2, <2>2, <2>3
  <2> QED BY <2>2, <2>4, <2>5 DEF Submits, DeliveriesStay
<1>4. CASE SendPdu
  <2>1. PICK size \in TbSizes : GeneratePdu(size)
    BY <1>4 DEF SendPdu
  <2>2. PICK seg \in Segments : SendsFrom(seg, size)
    BY <1>2, <2>1, GenerateRetxPduInv, GenerateTxPduInv DEF GeneratePdu
  <2>3. FatesStay /\ delivered' = delivered
    BY <1>4, <2>2 DEF SendsFrom, FatesStay, SendPdu
  <2> QED BY <2>3 DEF FatesStay, Confirms, DeliveriesStay
<1>5. CASE PollTimeout
  <2>1. FatesStay /\ delivered' = delivered
    BY <1>2, <1>5, PollRetransmitExpiresInv DEF PollTimeout, FatesStay, rxvars
  <2> QED BY <2>1 DEF FatesStay, Confirms, DeliveriesStay
<1>6. CASE Discard
  <2>1. PICK id \in Ids : DiscardSdu(id)
    BY <1>6 DEF Discard
  <2>2. PICK seg \in Segments : seg.id = id
    BY <1>2, <2>1, DiscardSduInv
  <2>3. sdu[id].fate = "held"
    <3>1. seg.id \in Held
      BY <1>1, LinkTypeFacts
    <3> QED BY <2>2, <3>1 DEF Held
  <2>4. sdu' = [sdu EXCEPT ![id] = NoSdu("dropped")] /\ delivered' = delivered
    BY <1>6, <2>1 DEF DiscardSdu, Discard, rxvars
  <2>5. NoSdu("dropped").fate = "dropped"
    BY DEF NoSdu
  <2> QED BY <1>2, <2>3, <2>4, <2>5 DEF Drops, DeliveriesStay
<1>7. CASE ReassemblyTimeout \/ StatusProhibitTimeout \/ SendStatus \/ LosePdu \/ LoseStatus
           \/ UNCHANGED vars
  <2>1. sdu' = sdu /\ delivered' = delivered
    BY <1>7 DEF ReassemblyTimeout, StatusProhibitTimeout, SendStatus, LosePdu, LoseStatus, vars,
                txvars, rxvars, ReassemblyExpires, StatusProhibitExpires, GenerateStatus
  <2> QED BY <2>1 DEF Confirms, DeliveriesStay
<1>8. ASSUME NEW q \in air, ReceivePdu(q)
      PROVE  Submits \/ Delivers \/ Confirms \/ Drops
  <2>1. sdu' = sdu /\ ~hung
    BY <1>8 DEF ReceivePdu, RecvDataPdu
  <2>2. CASE Discarded(q)
    <3>1. delivered' = delivered
      BY <1>8, <2>2 DEF ReceivePdu, RecvDataPdu
    <3> QED BY <2>1, <3>1 DEF Confirms, DeliveriesStay
  <2>3. CASE ~Discarded(q)
    <3>1. reception_actions(q)
      BY <1>8, <2>3 DEF ReceivePdu, RecvDataPdu
    <3>2. \A i \in Ids : delivered'[i] = IF Completes(q) /\ i = q.id THEN 1 ELSE delivered[i]
      BY <2>1, <2>3, <3>1, KeptDelivers
    <3>3. q.id \in Ids /\ delivered[q.id] = 0 /\ Genuine(q)
      BY <2>1, <2>3, <3>1, KeptIsGenuine
    <3>4. sdu[q.id].fate # "none"
      BY <3>3 DEF Genuine, Numbered, Held
    <3>5. CASE Completes(q)
      BY <2>1, <3>2, <3>3, <3>4, <3>5 DEF Delivers, FatesStay
    <3>6. CASE ~Completes(q)
      BY <2>1, <3>2, <3>6 DEF Confirms, DeliveriesStay
    <3> QED BY <3>5, <3>6
  <2> QED BY <2>2, <2>3
<1>9. ASSUME NEW st \in ctl, ReceiveStatus(st)
      PROVE  Submits \/ Delivers \/ Confirms \/ Drops
  <2>1. StatusTakes(st) /\ delivered' = delivered
    <3>1. st \in StatusPdu
      BY <1>1, LinkTypeFacts
    <3> QED BY <1>2, <1>9, <3>1, ProcessControlPduInv DEF ReceiveStatus
  <2>2. \A i \in Ids : sdu'[i].fate # sdu[i].fate => sdu[i].fate = "held" /\ sdu'[i].fate = "acked"
    BY <2>1 DEF StatusTakes
  <2>3. \A i \in Ids : sdu'[i].fate = "acked" => delivered'[i] > 0
    BY DEF LinkInv, FatesOk
  <2> QED BY <2>1, <2>2, <2>3 DEF Confirms, DeliveriesStay
<1>10. CASE Reestablish
  <2>1. /\ sdu' = [i \in Ids |-> IF i \in Held THEN NoSdu("dropped") ELSE sdu[i]]
        /\ delivered' = delivered
    BY <1>10 DEF Reestablish, TxReestablish, RxReestablish
  <2>2. NoSdu("dropped").fate = "dropped"
    BY DEF NoSdu
  <2> QED BY <2>1, <2>2 DEF Drops, DeliveriesStay, Held
<1> QED
  BY <1>3, <1>4, <1>5, <1>6, <1>7, <1>8, <1>9, <1>10 DEF Next

\* Each of them is a step of the service.
LEMMA StepIsService ==
  ASSUME LinkInv, Submits \/ Delivers \/ Confirms \/ Drops
  PROVE  [Service!Next]_(Service!vars)
<1> DEFINE submitted == {i \in Ids : sdu[i].fate # "none"}
           up        == {i \in Ids : delivered[i] > 0}
           confirmed == {i \in Ids : sdu[i].fate = "acked"}
           dropped   == {i \in Ids : sdu[i].fate = "dropped"}
           submittedN == {i \in Ids : sdu'[i].fate # "none"}
           upN        == {i \in Ids : delivered'[i] > 0}
           confirmedN == {i \in Ids : sdu'[i].fate = "acked"}
           droppedN   == {i \in Ids : sdu'[i].fate = "dropped"}
<1>1. CASE Submits
  <2>1. PICK n \in Ids : /\ sdu[n].fate = "none" /\ sdu'[n].fate = "held"
                         /\ \A i \in Ids \ {n} : sdu'[i].fate = sdu[i].fate
    BY <1>1 DEF Submits
  <2>2. /\ n \notin submitted /\ submittedN = submitted \cup {n}
        /\ upN = up /\ confirmedN = confirmed /\ droppedN = dropped
    BY <1>1, <2>1 DEF Submits, DeliveriesStay
  <2>3. Service!Submit(n)
    BY <2>2 DEF Service!Submit
  <2> QED BY <2>3 DEF Service!Next
<1>2. CASE Delivers
  <2>1. PICK n \in Ids : /\ delivered[n] = 0 /\ delivered'[n] > 0 /\ sdu[n].fate # "none"
                         /\ \A i \in Ids \ {n} : delivered'[i] > 0 <=> delivered[i] > 0
    BY <1>2 DEF Delivers
  <2>2. /\ n \in submitted \ up /\ upN = up \cup {n}
        /\ submittedN = submitted /\ confirmedN = confirmed /\ droppedN = dropped
    BY <1>2, <2>1 DEF Delivers, FatesStay
  <2>3. Service!Deliver(n)
    BY <2>2 DEF Service!Deliver
  <2> QED BY <2>3 DEF Service!Next
<1>3. CASE Confirms
  <2>1. PICK S \in SUBSET Ids : S = {i \in Ids : sdu'[i].fate # sdu[i].fate}
    OBVIOUS
  <2>2. /\ S \subseteq up \ (confirmed \cup dropped) /\ confirmedN = confirmed \cup S
        /\ submittedN = submitted /\ upN = up /\ droppedN = dropped
    BY <1>3, <2>1 DEF Confirms, DeliveriesStay
  <2>3. Service!Confirm(S)
    BY <2>2 DEF Service!Confirm
  <2> QED BY <2>3 DEF Service!Next
<1>4. CASE Drops
  <2>1. PICK S \in SUBSET Ids : S = {i \in Ids : sdu'[i].fate # sdu[i].fate}
    OBVIOUS
  <2>2. /\ S \subseteq submitted \ confirmed /\ droppedN = dropped \cup S
        /\ submittedN = submitted /\ upN = up /\ confirmedN = confirmed
    BY <1>4, <2>1 DEF Drops, DeliveriesStay
  <2>3. Service!Drop(S)
    BY <2>2 DEF Service!Drop
  <2> QED BY <2>3 DEF Service!Next
<1> QED
  BY <1>1, <1>2, <1>3, <1>4

\* The bearer keeps the promise of RlcService to the upper layers, as long as tx_next_ack
\* is right: an SDU goes up once, after it was submitted, and is confirmed only when the
\* peer's upper layer has it.
THEOREM LinkImplementsService == Spec /\ []TxNextAckIsOldest => ImplementsService
<1>1. Init => Service!Init
  BY DEF Init, TxInit, RxInit, NoSdu, Service!Init
<1>2. LinkInv /\ LinkInv' /\ [Next]_vars => [Service!Next]_(Service!vars)
  BY StepEffect, StepIsService
<1> QED
  BY <1>1, <1>2, LinkInvHolds, PTL DEF Spec, ImplementsService, Service!Spec

-----------------------------------------------------------------------------
(***************************************************************************)
(* Without segmentation tx_next_ack is right                               *)
(*                                                                         *)
(* When every opportunity that has room for data has room for a whole SDU, *)
(* an SDU with an SN is in wait_list or retransmit_list, where             *)
(* process_control_pdu looks for the oldest one.                           *)
(***************************************************************************)
WholeSdus == \A n \in TbSizes : n > HDR_SIZE => n >= HDR_SIZE + MaxLen

AllWhole == \A s \in Segments : s.so = 0

\* generate_pdu cuts no SDU, and nothing else does.
LEMMA WholeStep ==
  ASSUME WholeSdus, LinkInv, AllWhole, [Next]_vars
  PROVE  AllWhole'
<1>1. BothInv /\ TxInv /\ Segments \in SUBSET Segment /\ ctl \in SUBSET StatusPdu
  BY LinkTypeFacts DEF LinkInv
<1>2. CASE Submit
  <2>1. PICK id \in Ids, size \in 1 .. MaxLen : RecvSdu(id, size)
    BY <1>2 DEF Submit
  <2>2. Segments' = Segments \cup {[id |-> id, so |-> 0, size |-> size]}
    BY <1>1, <2>1, RecvSduInv
  <2> QED BY <2>2 DEF AllWhole
<1>3. CASE SendPdu
  <2>1. PICK size \in TbSizes : GeneratePdu(size)
    BY <1>3 DEF SendPdu
  <2>2. PICK seg \in Segments : SendsFrom(seg, size)
    BY <1>1, <2>1, GenerateRetxPduInv, GenerateTxPduInv DEF GeneratePdu
  <2>3. /\ Segments' = (Segments \ {seg}) \cup Pieces(seg, size)
        /\ size \in Nat /\ Fits(seg, size) /\ seg \in Segment
    BY <1>1, <2>2 DEF SendsFrom
  <2>4. seg.so = 0 /\ seg.size \in 1 .. MaxLen
    BY <2>2, <2>3 DEF AllWhole, Segment
  <2>5. ~Split(seg, size)
    BY <2>3, <2>4, SizesAssumption
       DEF WholeSdus, Fits, Split, PduSize, compute_pdu_header_size, HDR_SIZE
  <2>6. Pieces(seg, size) = {seg}
    BY <2>5 DEF Pieces, Front
  <2> QED BY <2>3, <2>6 DEF AllWhole
<1>4. CASE PollTimeout
  <2>1. Segments' = Segments
    BY <1>1, <1>4, PollRetransmitExpiresInv DEF PollTimeout
  <2> QED BY <2>1 DEF AllWhole
<1>5. CASE Discard
  <2>1. Segments' \subseteq Segments
    BY <1>1, <1>5, DiscardSduInv DEF Discard
  <2> QED BY <2>1 DEF AllWhole
<1>6. CASE \/ ReassemblyTimeout \/ StatusProhibitTimeout \/ SendStatus \/ LosePdu \/ LoseStatus
           \/ UNCHANGED vars
  <2>1. UNCHANGED txlists
    BY <1>6 DEF ReassemblyTimeout, StatusProhibitTimeout, SendStatus, LosePdu, LoseStatus, vars,
                txvars
  <2>2. Segments' = Segments
    BY <2>1 DEF Segments, Queued, InFlight, txlists
  <2> QED BY <2>2 DEF AllWhole
<1>7. ASSUME NEW q \in air, ReceivePdu(q)
      PROVE  AllWhole'
  <2>1. Segments' = Segments
    BY <1>7 DEF ReceivePdu, Segments, Queued, InFlight, txlists
  <2> QED BY <2>1 DEF AllWhole
<1>8. ASSUME NEW st \in ctl, ReceiveStatus(st)
      PROVE  AllWhole'
  <2>1. st \in StatusPdu
    BY <1>1
  <2>2. Segments' \subseteq Segments
    BY <1>1, <1>8, <2>1, ProcessControlPduInv DEF ReceiveStatus, StatusTakes
  <2> QED BY <2>2 DEF AllWhole
<1>9. CASE Reestablish
  <2>1. tx_list' = <<>> /\ wait_list' = {} /\ retransmit_list' = {}
    BY <1>9 DEF Reestablish, TxReestablish
  <2>2. Segments' = {}
    BY <2>1 DEF Segments, Queued, InFlight
  <2> QED BY <2>2 DEF AllWhole
<1> QED
  BY <1>2, <1>3, <1>4, <1>5, <1>6, <1>7, <1>8, <1>9 DEF Next

\* An SN from a on, and before n, is before n seen from a too.
LEMMA StillBefore ==
  ASSUME NEW o \in SN, NEW a \in SN, NEW x \in SN, NEW n \in SN,
         Dist(o, a) <= Dist(o, x), Dist(o, x) < Dist(o, n)
  PROVE  Dist(a, x) < Dist(a, n)
BY SizesAssumption DEF Dist, SN, sn_modulus

HeldInLists == Segments \in SUBSET Segment /\ \A i \in Held : \E s \in Segments : s.id = i

\* An SDU that is held has a segment in a list.
LEMMA HeldAreInLists == BothInv => HeldInLists
BY LinkTypeFacts DEF HeldInLists

\* process_control_pdu finds the oldest SDU that is not acknowledged.
LEMMA AckStaysOldest ==
  ASSUME LinkInv, AllWhole, NEW st \in ctl, ReceiveStatus(st)
  PROVE  TxNextAckIsOldest'
<1>1. /\ BothInv /\ TxInv /\ TxNextAckIsOldest /\ tx_next \in SN /\ tx_next_ack \in SN
      /\ sdu \in [Ids -> SduType] /\ Segments \in SUBSET Segment
  BY LinkTypeFacts DEF LinkInv
<1>2. BothInv'
  BY BothStep DEF LinkInv, Next
<1>3. /\ tx_next_ack' \in SN
      /\ Segments' \in SUBSET Segment /\ \A i \in Held' : \E s \in Segments' : s.id = i
  <2>1. HeldInLists'
    BY <1>2, HeldAreInLists, PTL
  <2> QED BY <1>2, <2>1 DEF BothInv, TxInv, TxTypeOK, HeldInLists
<1>4. StatusTakes(st) /\ st \in StatusPdu
  <2>1. st \in StatusPdu
    BY <1>1, LinkTypeFacts
  <2> QED BY <1>1, <2>1, ProcessControlPduInv DEF ReceiveStatus
<1>5. CASE ~ValidStatus(st)
  BY <1>1, <1>5 DEF ReceiveStatus, ProcessControlPdu, TxNextAckIsOldest, Held, TxBefore
<1>6. CASE ValidStatus(st)
  <2>1. /\ tx_next_ack' = NextAck(st, wait_list', retransmit_list')
        /\ wait_list' \cup retransmit_list' \in SUBSET InFlight
        /\ tx_list' = tx_list /\ tx_next' = tx_next
    BY <1>6 DEF ReceiveStatus, ProcessControlPdu, InFlight
  <2>2. \A s \in wait_list' \cup retransmit_list' : ~TxBefore(SnOf(s), tx_next_ack')
    <3> DEFINE wl == wait_list'
               rtl == retransmit_list'
    <3>1. PICK w, r : w = wl /\ r = rtl
      OBVIOUS
    <3>2. \A s \in w \cup r : ~TxBefore(SnOf(s), NextAck(st, w, r))
      BY <1>1, <1>4, <2>1, <3>1, NextAckFacts
    <3> QED BY <2>1, <3>1, <3>2
  <2> SUFFICES ASSUME NEW i \in Held', sdu'[i].sn # NoSn
               PROVE  Dist(tx_next_ack', sdu'[i].sn) < Dist(tx_next_ack', tx_next)
    BY <2>1 DEF TxNextAckIsOldest, TxBefore
  <2>3. PICK s \in Segments' : s.id = i
    BY <1>3
  <2>4. /\ i \in Ids /\ i \in Held /\ sdu'[i].sn = sdu[i].sn /\ s \in Segments
    BY <1>4, <2>3 DEF StatusTakes, Held
  <2>5. i \in Numbered /\ sdu[i].sn \in SN
    BY <1>1, <2>4, NumberedFacts DEF Numbered
  <2>6. s \notin Queued
    BY <1>1, <2>3, <2>4 DEF AllWhole, TxInv, Structure, QueuedFresh, SnOf
  <2>7. s \in wait_list' \cup retransmit_list'
    BY <2>1, <2>3, <2>6 DEF Segments, Queued, InFlight
  <2>8. ~(Dist(tx_next_ack, sdu[i].sn) < Dist(tx_next_ack, tx_next_ack'))
    BY <2>2, <2>3, <2>7 DEF TxBefore, SnOf
  <2>9. Dist(tx_next_ack, sdu[i].sn) < Dist(tx_next_ack, tx_next)
    BY <1>1, <2>4, <2>5 DEF TxNextAckIsOldest, TxBefore, Numbered
  <2>10. PICK a \in SN : a = tx_next_ack'
    BY <1>3
  <2>11. Dist(tx_next_ack, a) <= Dist(tx_next_ack, sdu[i].sn)
    BY <1>1, <2>5, <2>8, <2>10, DistRange
  <2>12. Dist(a, sdu[i].sn) < Dist(a, tx_next)
    BY <1>1, <2>5, <2>9, <2>11, StillBefore
  <2> QED BY <2>4, <2>10, <2>12
<1> QED
  BY <1>5, <1>6

\* Nothing was cut, and the invariant holds.
LEMMA WholeInv ==
  ASSUME WholeSdus
  PROVE  Spec => [](LinkInv /\ AllWhole)
<1>1. Init => LinkInv /\ AllWhole
  <2> SUFFICES ASSUME Init PROVE LinkInv /\ AllWhole
    OBVIOUS
  <2>1. Segments = {}
    BY DEF Init, TxInit, Segments, Queued, InFlight
  <2> QED BY <2>1, LinkInitInv DEF AllWhole
<1>2. LinkInv /\ AllWhole /\ [Next]_vars => (LinkInv /\ AllWhole)'
  <2> SUFFICES ASSUME LinkInv, AllWhole, [Next]_vars PROVE LinkInv' /\ AllWhole'
    OBVIOUS
  <2>1. AllWhole'
    BY WholeStep
  <2>2. ASSUME NEW st \in ctl, ReceiveStatus(st)
        PROVE  LinkInv'
    BY <2>2, AckStaysOldest, ReceiveStatusStep
  <2>3. LinkInv'
    BY <2>2, SubmitStep, SendPduStep, DiscardStep, TimerAndLossSteps, SendStatusStep,
       ReceivePduStep, ReestablishStep DEF Next
  <2> QED BY <2>1, <2>3
<1> QED
  BY <1>1, <1>2, PTL DEF Spec

\* When no SDU is segmented, tx_next_ack is the SN of the oldest SDU that is not
\* acknowledged, after any sequence of losses, status reports and re-establishments.
THEOREM WholeTxNextAckIsOldest == WholeSdus => (Spec => []TxNextAckIsOldest)
<1> SUFFICES ASSUME WholeSdus PROVE Spec => []TxNextAckIsOldest
  OBVIOUS
<1>1. LinkInv => TxNextAckIsOldest
  BY DEF LinkInv
<1> QED
  BY <1>1, WholeInv, PTL

\* When no SDU is segmented, no SDU is delivered twice or as something else.
THEOREM WholeAtMostOnce == WholeSdus => (Spec => []AtMostOnce)
<1> SUFFICES ASSUME WholeSdus PROVE Spec => []AtMostOnce
  OBVIOUS
<1> QED
  BY WholeInv, OnceIfInv, PTL

\* When no SDU is segmented, rx_size is what the receiver holds.
THEOREM WholeRxSizeExact == WholeSdus => (Spec => []RxSizeExact)
<1> SUFFICES ASSUME WholeSdus PROVE Spec => []RxSizeExact
  OBVIOUS
<1> QED
  BY WholeTxNextAckIsOldest, LinkRxSizeExact, PTL

\* When no SDU is segmented, a new SDU is never thrown away as out of window.
THEOREM WholeNewSduInWindow == WholeSdus => (Spec => []NewSduInWindow)
<1> SUFFICES ASSUME WholeSdus PROVE Spec => []NewSduInWindow
  OBVIOUS
<1> QED
  BY WholeInv, InWindowIfInv, PTL

\* When no SDU is segmented, the bearer implements the service of RlcService.
THEOREM WholeImplementsService == WholeSdus => (Spec => ImplementsService)
<1> SUFFICES ASSUME WholeSdus PROVE Spec => ImplementsService
  OBVIOUS
<1> QED
  BY WholeTxNextAckIsOldest, LinkImplementsService, PTL

-----------------------------------------------------------------------------
(***************************************************************************)
(* A poll is pending                                                       *)
(*                                                                         *)
(* Without segmentation and without discards, once everything was sent     *)
(* the last poll was for the last SN.  The timer is stopped then only by   *)
(* a STATUS PDU that answers for everything, and when nothing polls, the   *)
(* youngest SDU is in retransmit_list: the PDU that empties it polls.      *)
(* (A discard may empty tx_list without a poll.)                           *)
(***************************************************************************)
\* What a STATUS PDU NACKs is below its ack_sn, by a window at most.
NackedBelow(st) == \A x \in st.nack : Dist(x[1], st.ack_sn) \in 1 .. W
StatusShape == \A st \in ctl : NackedBelow(st)

PollAtTop == tx_list = <<>> /\ t_poll_retransmit => poll_sn = Pred(tx_next)

WaitersBehind ==
  tx_list = <<>> /\ ~t_poll_retransmit /\ ~force_poll
    => \A w \in wait_list : \E r \in retransmit_list : Age(SnOf(r)) < Age(SnOf(w))

\* generate_status puts ack_sn after the last NACK.
LEMMA StatusIsBelow ==
  ASSUME LinkInv, ~hung, NEW cut
  PROVE  NackedBelow(StatusUpTo(cut))
<1> DEFINE nack == NacksUpTo(cut)
           top  == LastNack(nack)[1]
<1>1. /\ rx_next \in SN /\ Missing \subseteq SN \X Units /\ rx_highest_status \in SN
      /\ Dist(rx_next, rx_highest_status) \in 0 .. W
  BY ReportedWereSent
<1>2. StatusUpTo(cut).nack = nack /\ (nack # {} => StatusUpTo(cut).ack_sn = Succ(top))
  BY DEF StatusUpTo
<1> SUFFICES ASSUME NEW x \in nack
             PROVE  Dist(x[1], Succ(top)) \in 1 .. W
  BY <1>2 DEF NackedBelow
<1>3. /\ nack \subseteq SN \X Units /\ LastNack(nack) \in SN \X Units
      /\ Dist(rx_next, top) < Dist(rx_next, rx_highest_status)
  BY LastNackFacts
<1>4. \A y \in nack : Position(y) <= Position(LastNack(nack))
  BY <1>1, <1>3, LastNackOf
<1>5. x[1] \in SN /\ top \in SN
  BY <1>3
<1>6. ~(Dist(rx_next, top) < Dist(rx_next, x[1]))
  <2>1. Position(x) \in Nat /\ Position(LastNack(nack)) \in Nat
    BY <1>1, <1>3, PositionRange
  <2>2. ~(Position(LastNack(nack)) < Position(x))
    BY <1>4, <2>1
  <2> QED BY <1>1, <1>3, <2>2, PositionOrder
<1> HIDE DEF nack, top
<1> QED
  BY <1>1, <1>3, <1>5, <1>6, SizesAssumption DEF Dist, SN, sn_modulus, Succ

\* Every step keeps the STATUS PDUs that are under way in this form.
LEMMA StatusShapeStep ==
  ASSUME LinkInv, StatusShape, [Next]_vars
  PROVE  StatusShape'
<1>1. CASE SendStatus
  <2>1. ~hung
    BY <1>1 DEF SendStatus, GenerateStatus
  <2>2. PICK st \in {WholeStatus} \cup {StatusUpTo(Position(x)) : x \in NackStarts} :
          ctl' = ctl \cup {st}
    BY <1>1 DEF SendStatus, GenerateStatus
  <2>3. NackedBelow(st)
    <3>1. CASE RangeWraps /\ st = WholeStatus
      BY <3>1 DEF WholeStatus, NackedBelow
    <3>2. CASE ~(RangeWraps /\ st = WholeStatus)
      BY <2>1, <2>2, <3>2, StatusIsBelow DEF WholeStatus
    <3> QED BY <3>1, <3>2
  <2> QED BY <2>2, <2>3 DEF StatusShape
<1>2. CASE ~SendStatus
  <2>1. ctl' \subseteq ctl
    BY <1>2 DEF Next, Submit, SendPdu, PollTimeout, Discard, ReassemblyTimeout,
       StatusProhibitTimeout, ReceivePdu, ReceiveStatus, LosePdu, LoseStatus, Reestablish, vars,
       rxvars, ReassemblyExpires, StatusProhibitExpires, RecvDataPdu, RxReestablish
  <2> QED BY <2>1 DEF StatusShape
<1> QED
  BY <1>1, <1>2

\* A valid STATUS PDU that acknowledges the last SN, or NACKs it, ends at tx_next.
LEMMA AnswersAll ==
  ASSUME NEW a \in SN, NEW n \in SN, NEW k \in SN, Dist(a, n) <= W,
         ~(Dist(a, n) < Dist(a, k)),
         \/ Dist(a, Pred(n)) < Dist(a, k)
         \/ Dist(Pred(n), k) \in 1 .. W /\ ~(Dist(a, k) < Dist(a, Pred(n)))
  PROVE  k = n
BY SizesAssumption DEF Dist, SN, sn_modulus, Pred

\* The STATUS PDU that stops the timer of the last poll leaves nothing waiting.
LEMMA NothingWaits ==
  ASSUME LinkInv, StatusShape, NEW st \in ctl, ReceiveStatus(st),
         poll_sn = Pred(tx_next), t_poll_retransmit, ~t_poll_retransmit'
  PROVE  wait_list' = {}
<1>1. /\ BothInv /\ TxInv /\ TxNextAckIsOldest /\ tx_next \in SN /\ tx_next_ack \in SN
      /\ st \in StatusPdu /\ Dist(tx_next_ack, tx_next) <= W
  BY LinkTypeFacts DEF LinkInv, Age
<1>2. ValidStatus(st)
  BY DEF ReceiveStatus, ProcessControlPdu, txpoll
<1>3. /\ wait_list' = wait_list \ ({s \in wait_list : Nacked(s, st)} \cup
                          {s \in wait_list \cup retransmit_list :
                             ~Nacked(s, st) /\ TxBefore(SnOf(s), st.ack_sn)})
      /\ t_poll_retransmit' = (t_poll_retransmit /\ ~TxBefore(poll_sn, st.ack_sn)
                                                 /\ poll_sn \notin NackedSns(st))
  BY <1>2 DEF ReceiveStatus, ProcessControlPdu
<1>4. TxBefore(poll_sn, st.ack_sn) \/ poll_sn \in NackedSns(st)
  BY <1>3
<1>5. st.ack_sn \in SN /\ ~TxBefore(tx_next, st.ack_sn)
  BY <1>1, <1>2 DEF ValidStatus, StatusPdu
<1>6. st.ack_sn = tx_next
  <2>1. CASE TxBefore(poll_sn, st.ack_sn)
    BY <1>1, <1>5, <2>1, AnswersAll DEF TxBefore
  <2>2. CASE poll_sn \in NackedSns(st)
    <3>1. Dist(Pred(tx_next), st.ack_sn) \in 1 .. W
      BY <2>2 DEF StatusShape, NackedBelow, NackedSns
    <3>2. ~TxBefore(st.ack_sn, Pred(tx_next))
      BY <1>2, <2>2 DEF ValidStatus
    <3> QED BY <1>1, <1>5, <3>1, <3>2, AnswersAll DEF TxBefore
  <2> QED BY <1>4, <2>1, <2>2
<1>7. \A s \in wait_list : TxBefore(SnOf(s), tx_next)
  <2> SUFFICES ASSUME NEW s \in wait_list PROVE TxBefore(SnOf(s), tx_next)
    OBVIOUS
  <2>1. s.id \in Held /\ SnOf(s) # NoSn
    BY <1>1, LinkTypeFacts DEF TxInv, Structure, SentHaveSn, InFlight, Segments
  <2> QED BY <1>1, <2>1 DEF TxNextAckIsOldest, SnOf
<1> QED
  BY <1>3, <1>6, <1>7

\* An opportunity with room for a byte of an SDU has room for all of it.
LEMMA WholeFits ==
  ASSUME WholeSdus, NEW size \in TbSizes, NEW seg \in Segment, seg.so = 0, Fits(seg, size),
         NEW t \in Segment, t.so = 0
  PROVE  ~Split(seg, size) /\ Fits(t, size)
<1>1. seg.size \in 1 .. MaxLen /\ size \in Int
  BY TxAssumption DEF Segment
<1> QED
  BY <1>1, SizesAssumption
     DEF WholeSdus, Fits, Split, PduSize, compute_pdu_header_size, HDR_SIZE

\* A STATUS PDU leaves an SDU that answers for those that wait.
LEMMA StatusKeepsPoll ==
  ASSUME LinkInv, StatusShape, PollAtTop, WaitersBehind, NEW st \in ctl, ReceiveStatus(st)
  PROVE  PollAtTop' /\ WaitersBehind'
<1>1. /\ tx_list' = tx_list /\ tx_next' = tx_next /\ poll_sn' = poll_sn
      /\ force_poll' = force_poll /\ (t_poll_retransmit' => t_poll_retransmit)
  BY DEF ReceiveStatus, ProcessControlPdu, txlists, txpoll
<1>2. PollAtTop'
  BY <1>1 DEF PollAtTop
<1>3. ASSUME tx_list = <<>>, ~t_poll_retransmit', ~force_poll, NEW w \in wait_list'
      PROVE  \E r \in retransmit_list' : Age(SnOf(r))' < Age(SnOf(w))'
  <2>1. CASE t_poll_retransmit
    <3>1. poll_sn = Pred(tx_next)
      BY <1>3, <2>1 DEF PollAtTop
    <3> QED BY <1>3, <2>1, <3>1, NothingWaits
  <2>2. CASE ~t_poll_retransmit /\ ~ValidStatus(st)
    <3>1. UNCHANGED <<sdu, wait_list, retransmit_list>>
      BY <2>2 DEF ReceiveStatus, ProcessControlPdu, txlists
    <3>2. PICK r \in retransmit_list : Age(SnOf(r)) < Age(SnOf(w))
      BY <1>3, <2>2, <3>1 DEF WaitersBehind
    <3> QED BY <1>1, <3>1, <3>2 DEF Age, SnOf
  <2>3. CASE ~t_poll_retransmit /\ ValidStatus(st)
    <3> DEFINE again == {s \in wait_list : Nacked(s, st)}
               gone  == {s \in wait_list \cup retransmit_list :
                           ~Nacked(s, st) /\ TxBefore(SnOf(s), st.ack_sn)}
    <3>1. /\ wait_list' = wait_list \ (again \cup gone)
          /\ retransmit_list' = (retransmit_list \ gone) \cup again
      BY <2>3 DEF ReceiveStatus, ProcessControlPdu
    <3>2. w \in wait_list /\ ~TxBefore(SnOf(w), st.ack_sn)
      BY <1>3, <3>1
    <3>3. PICK r \in retransmit_list : Age(SnOf(r)) < Age(SnOf(w))
      BY <1>3, <2>3, <3>2 DEF WaitersBehind
    <3>4. /\ BothInv /\ TxInv /\ TxNextAckIsOldest /\ tx_next \in SN /\ tx_next_ack \in SN
          /\ st \in StatusPdu
      BY LinkTypeFacts DEF LinkInv
    <3>5. w \in Segments /\ w.id \in Numbered /\ r \in Segments /\ r.id \in Numbered
      BY <3>2, <3>3, <3>4, LinkTypeFacts
         DEF TxInv, Structure, SentHaveSn, InFlight, Segments, Numbered, SnOf
    <3>6. /\ SnOf(w) \in SN /\ Age(SnOf(w)) \in 1 .. Age(tx_next_ack)
          /\ SnOf(r) \in SN /\ Age(SnOf(r)) \in 1 .. Age(tx_next_ack)
      BY <3>4, <3>5, NumberedFacts DEF SnOf
    <3>7. Age(tx_next_ack) \in Nat
      BY <3>4, AgeFacts
    <3>8. /\ Dist(tx_next_ack, SnOf(w)) = Age(tx_next_ack) - Age(SnOf(w))
          /\ Dist(tx_next_ack, SnOf(r)) = Age(tx_next_ack) - Age(SnOf(r))
      BY <3>4, <3>6, <3>7, DistIsAge
    <3>9. st.ack_sn \in SN /\ Dist(tx_next_ack, st.ack_sn) \in Nat
      BY <3>4, DistRange DEF StatusPdu
    <3>10. ~TxBefore(SnOf(r), st.ack_sn)
      BY <3>2, <3>3, <3>6, <3>7, <3>8, <3>9 DEF TxBefore
    <3>11. r \in retransmit_list'
      BY <3>1, <3>10
    <3>12. StatusTakes(st)
      BY <3>4, ProcessControlPduInv DEF ReceiveStatus
    <3>13. ASSUME NEW s \in wait_list' \cup retransmit_list', s.id \in Ids
           PROVE  Age(SnOf(s))' = Age(SnOf(s))
      <4>1. s \in Segments'
        BY DEF Segments, InFlight
      <4>2. sdu'[s.id].sn = sdu[s.id].sn
        BY <3>12, <3>13, <4>1 DEF StatusTakes
      <4> QED BY <1>1, <4>2 DEF Age, SnOf
    <3>14. w.id \in Ids /\ r.id \in Ids
      BY <3>5 DEF Numbered, Held
    <3>15. Age(SnOf(w))' = Age(SnOf(w)) /\ Age(SnOf(r))' = Age(SnOf(r))
      BY <1>3, <3>11, <3>13, <3>14
    <3> QED BY <3>3, <3>11, <3>15
  <2> QED BY <2>1, <2>2, <2>3
<1> QED
  BY <1>1, <1>2, <1>3 DEF WaitersBehind

\* generate_pdu polls with the last PDU.
LEMMA SendKeepsPoll ==
  ASSUME WholeSdus, LinkInv, AllWhole, PollAtTop, WaitersBehind, SendPdu
  PROVE  PollAtTop' /\ WaitersBehind'
<1>1. /\ BothInv /\ TxInv /\ TxNextAckIsOldest /\ DistinctSns /\ tx_next \in SN /\ tx_next_ack \in SN
      /\ Segments \in SUBSET Segment
  BY LinkTypeFacts DEF LinkInv
<1>2. PICK size \in TbSizes : GeneratePdu(size)
  BY DEF SendPdu
<1>3. CASE GenerateRetxPdu(size)
  <2> DEFINE seg == HeadSeg(retransmit_list)
  <2>1. seg \in retransmit_list /\ seg \in Segment /\ SnOf(seg) \in SN
        /\ \A t \in retransmit_list : Place(seg) <= Place(t)
    <3>1. retransmit_list # {} /\ retransmit_list \in SUBSET InFlight
      BY <1>3 DEF GenerateRetxPdu, RetxFits, InFlight
    <3> QED BY <1>1, <3>1, HeadSegIn
  <2>2. ~Split(seg, size)
    <3>1. seg.so = 0
      BY <2>1 DEF AllWhole, Segments, InFlight
    <3>2. Fits(seg, size)
      BY <1>3 DEF GenerateRetxPdu, RetxFits
    <3> QED BY <2>1, <3>1, <3>2, WholeFits
  <2> DEFINE rtl  == retransmit_list \ {seg}
             poll == force_poll \/ check_poll_after_pdu_assembly(tx_list, rtl, tx_next)
  <2>3. /\ retransmit_list' = rtl /\ wait_list' = wait_list \cup {seg}
        /\ sdu' = [sdu EXCEPT ![seg.id].ref_count = @ + Cardinality({})]
        /\ serialize_sdu(seg, SnOf(seg), poll, tx_next, pdu_without_poll, byte_without_poll)
        /\ tx_list' = tx_list /\ tx_next' = tx_next
    BY <1>3, <2>2 DEF GenerateRetxPdu, Front
  <2>4. CASE poll
    BY <2>3, <2>4 DEF serialize_sdu, PollAtTop, WaitersBehind
  <2>5. CASE ~poll
    <3>1. /\ poll_sn' = poll_sn /\ t_poll_retransmit' = t_poll_retransmit /\ ~force_poll
      BY <2>3, <2>5 DEF serialize_sdu
    <3>2. tx_list = <<>> => rtl # {}
      BY <2>5 DEF check_poll_after_pdu_assembly
    <3>3. PollAtTop'
      BY <2>3, <3>1 DEF PollAtTop
    <3>4. ASSUME NEW r \in rtl
          PROVE  Age(SnOf(r)) < Age(SnOf(seg)) /\ Age(SnOf(seg)) \in Nat /\ Age(SnOf(r)) \in Nat
      <4>1. r \in Segments /\ seg \in Segments /\ r # seg /\ r \in InFlight /\ seg \in InFlight
        BY <2>1 DEF Segments, InFlight
      <4>2. r.so = 0 /\ seg.so = 0 /\ r \in Segment
        BY <1>1, <4>1 DEF AllWhole
      <4>3. r.id # seg.id
        <5>1. Apart(Segments)
          BY <1>1, TxFacts DEF TxInv
        <5>2. 0 \in Bytes(r) /\ 0 \in Bytes(seg)
          BY <2>1, <4>2, SegmentsFinite, SizesAssumption DEF Bytes, Segment
        <5> QED BY <4>1, <5>1, <5>2 DEF Apart
      <4>4. r.id \in Numbered /\ seg.id \in Numbered
        BY <1>1, <4>1, LinkTypeFacts DEF TxInv, Structure, SentHaveSn, Numbered, SnOf
      <4>5. SnOf(r) # SnOf(seg)
        BY <1>1, <4>3, <4>4 DEF DistinctSns, SnOf
      <4>6. /\ SnOf(r) \in SN /\ Age(SnOf(r)) \in 1 .. Age(tx_next_ack)
            /\ Age(SnOf(seg)) \in 1 .. Age(tx_next_ack)
        BY <1>1, <4>4, NumberedFacts DEF SnOf
      <4>7. Age(tx_next_ack) \in Nat
        BY <1>1, AgeFacts
      <4>8. /\ Dist(tx_next_ack, SnOf(r)) = Age(tx_next_ack) - Age(SnOf(r))
            /\ Dist(tx_next_ack, SnOf(seg)) = Age(tx_next_ack) - Age(SnOf(seg))
        BY <1>1, <2>1, <4>6, <4>7, DistIsAge
      <4>9. Dist(tx_next_ack, SnOf(seg)) <= Dist(tx_next_ack, SnOf(r))
        <5>1. Dist(tx_next_ack, SnOf(seg)) \in Nat /\ Dist(tx_next_ack, SnOf(r)) \in Nat
          BY <1>1, <2>1, <4>6, DistRange
        <5>2. Place(seg) <= Place(r)
          BY <2>1
        <5>3. Dist(tx_next_ack, SnOf(seg)) * MaxLen <= Dist(tx_next_ack, SnOf(r)) * MaxLen
          BY <4>2, <5>1, <5>2, SizesAssumption DEF Place
        <5>4. \A x, y \in Nat : x * MaxLen <= y * MaxLen => x <= y
          BY SizesAssumption
        <5> QED BY <5>1, <5>3, <5>4
      <4>10. Age(SnOf(r)) # Age(SnOf(seg))
        BY <1>1, <2>1, <4>5, <4>6, SameAge
      <4> QED BY <4>6, <4>7, <4>8, <4>9, <4>10
    <3>5. \A s \in Segments : Age(SnOf(s))' = Age(SnOf(s))
      <4>1. \A s \in Segments : s.id \in Ids
        BY <1>1 DEF Segment
      <4>2. \A i \in Ids : sdu'[i].sn = sdu[i].sn
        BY <1>1, <2>3 DEF TxInv, TxTypeOK
      <4> QED BY <2>3, <4>1, <4>2 DEF Age, SnOf
    <3>6. ASSUME tx_list = <<>>, ~t_poll_retransmit, NEW w \in wait_list \cup {seg}
          PROVE  \E r \in rtl : Age(SnOf(r)) < Age(SnOf(w))
      <4>1. PICK r0 \in rtl : TRUE
        BY <3>2, <3>6
      <4>2. CASE w = seg
        BY <3>4, <4>1, <4>2
      <4>3. CASE w \in wait_list
        <5>1. PICK r \in retransmit_list : Age(SnOf(r)) < Age(SnOf(w))
          BY <3>1, <3>6, <4>3 DEF WaitersBehind
        <5>2. CASE r \in rtl
          BY <5>1, <5>2
        <5>3. CASE r = seg
          <6>1. Age(SnOf(r0)) < Age(SnOf(seg)) /\ Age(SnOf(seg)) \in Nat /\ Age(SnOf(r0)) \in Nat
            BY <3>4, <4>1
          <6>2. Age(SnOf(w)) \in Int
            <7>1. w \in InFlight /\ w \in Segments
              BY <4>3 DEF InFlight, Segments
            <7>2. w.id \in Numbered
              BY <1>1, <7>1, LinkTypeFacts DEF TxInv, Structure, SentHaveSn, Numbered, SnOf
            <7>3. SnOf(w) \in SN
              BY <1>1, <7>2, NumberedFacts DEF SnOf
            <7> QED BY <1>1, <7>3, AgeFacts
          <6> QED BY <4>1, <5>1, <5>3, <6>1, <6>2
        <5> QED BY <5>1, <5>2, <5>3
      <4> QED BY <3>6, <4>2, <4>3
    <3>7. WaitersBehind'
      <4>1. \A r \in rtl : r \in Segments
        BY DEF Segments, InFlight
      <4>2. \A w \in wait_list \cup {seg} : w \in Segments
        BY <2>1 DEF Segments, InFlight
      <4> HIDE DEF seg, rtl
      <4> QED BY <2>3, <3>1, <3>5, <3>6, <4>1, <4>2 DEF WaitersBehind
    <3> QED BY <3>3, <3>7
  <2> QED BY <2>4, <2>5
<1>4. CASE GenerateTxPdu(size)
  <2> DEFINE seg == Head(tx_list)
  <2>1. tx_list # <<>> /\ Fits(seg, size) /\ ~RetxFits(size)
        /\ retransmit_list' = retransmit_list
    BY <1>4 DEF GenerateTxPdu
  <2>2. seg \in Segments /\ seg \in Segment
    <3>1. tx_list \in Seq(Segment) /\ Queued = Elements(tx_list)
      BY <1>1, TxFacts DEF TxInv
    <3>2. Head(tx_list) = tx_list[1] /\ 1 \in DOMAIN tx_list
      BY <2>1, <3>1
    <3> QED BY <1>1, <3>2 DEF Queued, Segments
  <2>3. retransmit_list = {}
    <3> SUFFICES ASSUME retransmit_list # {}
                 PROVE  FALSE
      OBVIOUS
    <3>1. HeadSeg(retransmit_list) \in retransmit_list /\ HeadSeg(retransmit_list) \in Segment
      BY <1>1, HeadSegIn DEF InFlight
    <3>2. seg.so = 0 /\ HeadSeg(retransmit_list).so = 0
      BY <2>2, <3>1 DEF AllWhole, Segments, InFlight
    <3>3. Fits(HeadSeg(retransmit_list), size)
      BY <2>1, <2>2, <3>1, <3>2, WholeFits
    <3> QED BY <2>1, <3>3 DEF RetxFits
  <2>4. ASSUME tx_list' = <<>>
        PROVE  t_poll_retransmit' = TRUE /\ poll_sn' = Pred(tx_next')
    BY <1>4, <2>3, <2>4 DEF GenerateTxPdu, serialize_sdu, check_poll_after_pdu_assembly
  <2> QED BY <2>4 DEF PollAtTop, WaitersBehind
<1> QED
  BY <1>2, <1>3, <1>4 DEF GeneratePdu

\* Every step keeps a poll pending.
LEMMA PollStep ==
  ASSUME WholeSdus, ~Discards, LinkInv, AllWhole, StatusShape, PollAtTop, WaitersBehind,
         [Next]_vars
  PROVE  PollAtTop' /\ WaitersBehind'
<1>1. CASE Submit
  <2>1. PICK id \in Ids, size \in 1 .. MaxLen : RecvSdu(id, size)
    BY <1>1 DEF Submit
  <2>2. tx_list' = Append(tx_list, [id |-> id, so |-> 0, size |-> size])
    BY <2>1 DEF RecvSdu
  <2>3. tx_list \in Seq(Segment)
    BY LinkTypeFacts DEF LinkInv, TxInv, TxTypeOK
  <2>4. tx_list' # <<>>
    <3>1. [id |-> id, so |-> 0, size |-> size] \in Segment
      BY SizesAssumption DEF Segment, Units
    <3> QED BY <2>2, <2>3, <3>1
  <2> QED BY <2>4 DEF PollAtTop, WaitersBehind
<1>2. CASE SendPdu
  BY <1>2, SendKeepsPoll
<1>3. CASE PollTimeout
  <2>1. t_poll_retransmit' = FALSE /\ force_poll' = TRUE
    BY <1>3 DEF PollTimeout, PollRetransmitExpires
  <2> QED BY <2>1 DEF PollAtTop, WaitersBehind
<1>4. CASE Discard
  BY <1>4 DEF Discard
<1>5. CASE \/ ReassemblyTimeout \/ StatusProhibitTimeout \/ SendStatus \/ LosePdu \/ LoseStatus
           \/ UNCHANGED vars
  <2>1. UNCHANGED <<sdu, tx_list, wait_list, retransmit_list, tx_next, poll_sn, force_poll,
                    t_poll_retransmit>>
    BY <1>5 DEF ReassemblyTimeout, StatusProhibitTimeout, SendStatus, LosePdu, LoseStatus, vars,
                txvars, txlists, txpoll
  <2> QED BY <2>1 DEF PollAtTop, WaitersBehind, Age, SnOf
<1>6. ASSUME NEW q \in air, ReceivePdu(q)
      PROVE  PollAtTop' /\ WaitersBehind'
  <2>1. UNCHANGED <<sdu, tx_list, wait_list, retransmit_list, tx_next, poll_sn, force_poll,
                    t_poll_retransmit>>
    BY <1>6 DEF ReceivePdu, txlists, txpoll
  <2> QED BY <2>1 DEF PollAtTop, WaitersBehind, Age, SnOf
<1>7. ASSUME NEW st \in ctl, ReceiveStatus(st)
      PROVE  PollAtTop' /\ WaitersBehind'
  BY <1>7, StatusKeepsPoll
<1>8. CASE Reestablish
  <2>1. wait_list' = {} /\ t_poll_retransmit' = FALSE
    BY <1>8 DEF Reestablish, TxReestablish
  <2> QED BY <2>1 DEF PollAtTop, WaitersBehind
<1> QED
  BY <1>1, <1>2, <1>3, <1>4, <1>5, <1>6, <1>7, <1>8 DEF Next

\* When everything was sent and nothing is to be sent again, the poll timer runs or the
\* next PDU polls, as long as no SDU is segmented or discarded.
THEOREM WholePollPending == WholeSdus /\ ~Discards => (Spec => []PollPending)
<1> SUFFICES ASSUME WholeSdus, ~Discards PROVE Spec => []PollPending
  OBVIOUS
<1>1. Init => StatusShape /\ PollAtTop /\ WaitersBehind
  BY DEF Init, TxInit, RxInit, StatusShape, PollAtTop, WaitersBehind
<1>2. LinkInv /\ AllWhole /\ StatusShape /\ PollAtTop /\ WaitersBehind /\ [Next]_vars
        => StatusShape' /\ PollAtTop' /\ WaitersBehind'
  BY StatusShapeStep, PollStep
<1>3. WaitersBehind => PollPending
  BY DEF WaitersBehind, PollPending
<1> QED
  BY <1>1, <1>2, <1>3, WholeInv, PTL DEF Spec
=============================================================================
