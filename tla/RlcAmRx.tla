------------------------------- MODULE RlcAmRx -------------------------------
(***************************************************************************)
(* The receiving side of an RLC AM entity (nr_rlc_entity_am.c) with its    *)
(* reception buffer (nr_rlc_rx_manager.c).                                 *)
(*                                                                         *)
(* The buffer has as many slots as the window has sequence numbers.  Its   *)
(* `start` and `sn_start` advance together, so that an SN is kept in slot  *)
(* sn % W: the SN one window above another one is kept in the same slot.   *)
(***************************************************************************)
EXTENDS RlcAmSn, FiniteSetsExt

CONSTANTS
  RxMax,     \* rx_maxsize, in data units
  MaxStatus  \* bound: STATUS PDUs in flight at the same time

ASSUME RxAssumption == RxMax \in Nat /\ MaxStatus \in Nat \ {0}

VARIABLES
  rx_next, rx_next_status_trigger, rx_highest_status, rx_next_highest,
  rx_list,            \* rx manager: slot -> [pdus, delivered, freed]
  rx_size,            \* data units the entity counts as held
  status_triggered,
  t_reassembly,       \* is the timer running?
  t_status_prohibit,  \* does the timer still forbid a STATUS PDU?
  hung,               \* does a loop of reception_actions never end?
  delivered,          \* deliver_sdu calls for each SDU (2 stands for more)
  garbled,            \* was something delivered that is no SDU?
  ctl                 \* STATUS PDUs given to the MAC, not yet received or lost

rxptrs == <<rx_next, rx_next_status_trigger, rx_highest_status, rx_next_highest>>
rxvars == <<rxptrs, rx_list, rx_size, status_triggered, t_reassembly,
            t_status_prohibit, hung, delivered, garbled, ctl>>

-----------------------------------------------------------------------------
Slots == 0 .. W - 1

\* A slot's list of PDUs: those that have their data, whether its SDU was delivered
\* (the head of the list has no data), and the units of the PDUs without data, which
\* stay in the list until the window moves past them.
Slot == [pdus : SUBSET DataPdu, delivered : BOOLEAN, freed : SUBSET Units]

EmptySlot == [pdus |-> {}, delivered |-> FALSE, freed |-> {}]

get_pos(sn) == IF sn < W THEN sn ELSE sn - W

\* sn_compare_rx(a, b) < 0, and sn_in_recv_window
RxBefore(a, b) == Dist(rx_next, a) < Dist(rx_next, b)
sn_in_recv_windowIncl(next, sn) == Dist(next, sn) <= W  \* mutant: one SN too many
sn_in_recv_window(next, sn) == Dist(next, sn) < W

WithData(slot) == UNION {Bytes(q) : q \in slot.pdus}
Covered(slot)  == WithData(slot) \cup slot.freed

IsEmpty(slot) == slot.pdus = {} /\ ~slot.delivered

\* The slot once its SDU is delivered: the data of all its PDUs is freed.  (Mutant:
\* the PDUs are.)
FreedSlotEmpty(slot) == EmptySlot
FreedSlot(slot) == [pdus |-> {}, delivered |-> TRUE, freed |-> Covered(slot)]

\* mutant: forgets the PDUs whose data is freed
segment_already_receivedData(q) == Bytes(q) \subseteq WithData(rx_list[get_pos(q.sn)])

\* The byte ranges of the list are all that counts, delivered or not: a PDU that goes
\* past the end of a delivered SDU is new.
segment_already_received(q) == Bytes(q) \subseteq Covered(rx_list[get_pos(q.sn)])

\* every unit up to the end of the SDU is there, and it was not delivered
sdu_full(slot) ==
  /\ ~slot.delivered
  /\ \E q \in slot.pdus : q.is_last /\ 0 .. (q.so + q.size - 1) \subseteq Covered(slot)

Gaps(slot) == {u \in Units : u \notin Covered(slot) /\ \E v \in Covered(slot) : u < v}

\* a unit is missing before one that was received
sdu_has_missing_bytes(slot) == ~slot.delivered /\ Gaps(slot) # {}

\* The units of a slot that a NACK reports: gaps, and what follows the last unit
\* received when the end of the SDU is not known.
MissingUnits(slot) ==
  IF slot.delivered \/ \E q \in slot.pdus : q.is_last
  THEN Gaps(slot) ELSE Units \ Covered(slot)

\* Number of consecutive delivered slots from `sn` on, at most W.
DeliveredRun(list, sn) ==
  CHOOSE k \in 0 .. W :
    /\ \A j \in 0 .. k - 1 : list[get_pos(Plus(sn, j))].delivered
    /\ k < W => ~list[get_pos(Plus(sn, k))].delivered

-----------------------------------------------------------------------------
RxInit ==
  /\ rx_next = 0 /\ rx_next_status_trigger = 0
  /\ rx_highest_status = 0 /\ rx_next_highest = 0
  /\ rx_list = [s \in Slots |-> EmptySlot]
  /\ rx_size = 0
  /\ status_triggered = FALSE /\ t_reassembly = FALSE /\ t_status_prohibit = FALSE
  /\ hung = FALSE
  /\ delivered = [i \in Ids |-> 0] /\ garbled = FALSE
  /\ ctl = {}

\* The timer has nothing left to wait for.  (Mutant: it goes on when rx_next has
\* passed the trigger.)
StopReassemblyAhead(next, list) ==
  \/ rx_next_status_trigger = next
  \/ /\ rx_next_status_trigger = Succ(next)
     /\ ~sdu_has_missing_bytes(list[get_pos(next)])

StopReassembly(next, list) ==
  \/ rx_next_status_trigger = next
  \/ /\ rx_next_status_trigger = Succ(next)
     /\ ~sdu_has_missing_bytes(list[get_pos(next)])
  \/ /\ ~sn_in_recv_window(next, rx_next_status_trigger)
     /\ rx_next_status_trigger # Plus(next, W)

\* Something is missing in `first` .. `highest` - 1, seen from base `next`.
StartReassembly(next, first, highest, list) ==
  \/ Dist(next, highest) > Dist(next, Succ(first))
  \/ /\ highest = Succ(first)
     /\ sdu_has_missing_bytes(list[get_pos(first)])

\* reassemble_and_deliver: the payloads of the slot make one SDU, or garbage. Nothing
\* is delivered when there is a gap, past what the peer marked as the end of the SDU.
Deliver(slot) ==
  LET ids == {q.id : q \in slot.pdus}
  IN  IF Gaps(slot) # {}
      THEN UNCHANGED <<delivered, garbled>>
      ELSE IF Cardinality(ids) = 1
      THEN /\ delivered' = [i \in Ids |-> IF i \in ids /\ delivered[i] < 2
                                          THEN delivered[i] + 1 ELSE delivered[i]]
           /\ UNCHANGED garbled
      ELSE garbled' = TRUE /\ UNCHANGED delivered

\* rx_next_highest once SN x is received.  (Mutant: x itself.)
HighestSelf(x)  == IF RxBefore(x, rx_next_highest) THEN rx_next_highest ELSE x
HighestAfter(x) == IF RxBefore(x, rx_next_highest) THEN rx_next_highest ELSE Succ(x)

\* What reassembly gives back of rx_size.  (Mutant: only one PDU's data.)
FreedOne(slot)  == (CHOOSE q \in slot.pdus : q.is_last).size
FreedSize(slot) == MapThenSumSet(LAMBDA q : q.size, slot.pdus)

\* recv_pdu keeps the PDU q: rx manager's add_pdu, then reception_actions.
reception_actions(q) ==
  LET x       == q.sn
      list    == [rx_list EXCEPT ![get_pos(x)].pdus = @ \cup {[q EXCEPT !.p = FALSE]}]
      highest == HighestAfter(x)
      slot    == list[get_pos(x)]
      full    == sdu_full(slot)
      freed   == IF full THEN [list EXCEPT ![get_pos(x)] = FreedSlot(slot)] ELSE list
      status  == IF full /\ x = rx_highest_status
                 THEN Plus(x, DeliveredRun(freed, x)) ELSE rx_highest_status
      count   == IF full /\ x = rx_next THEN DeliveredRun(freed, x) ELSE 0
      next    == Plus(rx_next, count)
      final   == [s \in Slots |-> IF \E k \in 0 .. count - 1 : s = get_pos(Plus(rx_next, k))
                                  THEN EmptySlot ELSE freed[s]]
      \* every slot is delivered: the search for the next SN not delivered
      \* comes back to x and goes on for ever
      endless == full /\ x = rx_highest_status /\ \A s \in Slots : freed[s].delivered
      running == t_reassembly /\ ~StopReassembly(next, final)
      start   == ~running /\ StartReassembly(next, next, highest, final)
  IN  /\ IF full THEN Deliver(slot) ELSE UNCHANGED <<delivered, garbled>>
      /\ hung' = endless
      /\ rx_size' = rx_size + q.size - (IF full THEN FreedSize(slot) ELSE 0)
      /\ rx_next_highest' = highest
      /\ IF endless
         THEN /\ rx_list' = freed
              /\ UNCHANGED <<rx_highest_status, rx_next, t_reassembly, rx_next_status_trigger>>
         ELSE /\ rx_list' = final
              /\ rx_highest_status' = status
              /\ rx_next' = next
              /\ t_reassembly' = (running \/ start)
              /\ rx_next_status_trigger' = IF start THEN highest ELSE rx_next_status_trigger

\* recv_pdu throws a data PDU away.
Discarded(q) ==
  \/ rx_size + q.size > RxMax
  \/ ~sn_in_recv_window(rx_next, q.sn)
  \/ segment_already_received(q)

\* A poll asks for a status report even when the PDU is thrown away.  (Mutant: it
\* does not.)
TriggersIfKept(q) == q.p /\ ~Discarded(q)
Triggers(q)       == q.p

\* recv_pdu of a data PDU
RecvDataPdu(q) ==
  /\ ~hung
  /\ IF Discarded(q)
     THEN UNCHANGED <<rxptrs, rx_list, rx_size, t_reassembly, hung, delivered, garbled>>
     ELSE reception_actions(q)
  /\ status_triggered' = (status_triggered \/ Triggers(q))
  /\ UNCHANGED <<t_status_prohibit, ctl>>

\* set_time finds t_reassembly expired.
ReassemblyExpires ==
  /\ ~hung
  /\ t_reassembly
  /\ LET sn    == rx_next_status_trigger
         new   == Plus(sn, DeliveredRun(rx_list, sn))
         again == StartReassembly(rx_next, new, rx_next_highest, rx_list)
     IN  /\ rx_highest_status' = new
         /\ t_reassembly' = again
         /\ rx_next_status_trigger' = IF again THEN rx_next_highest ELSE sn
  /\ status_triggered' = TRUE
  /\ UNCHANGED <<rx_next, rx_next_highest, rx_list, rx_size, t_status_prohibit,
                 hung, delivered, garbled, ctl>>

StatusProhibitExpires ==
  /\ ~hung
  /\ t_status_prohibit
  /\ t_status_prohibit' = FALSE
  /\ UNCHANGED <<rxptrs, rx_list, rx_size, status_triggered, t_reassembly, hung,
                 delivered, garbled, ctl>>

-----------------------------------------------------------------------------
\* SNs that a STATUS PDU reports on, and the units it may NACK.
Reported == {Plus(rx_next, k) : k \in 0 .. Dist(rx_next, rx_highest_status) - 1}

\* Nothing is NACKed while no PDU is held (get_first_rx_pdu finds none).
Missing ==
  {x \in Reported \X Units :
     /\ x[2] \in MissingUnits(rx_list[get_pos(x[1])])
     /\ \E sn \in Reported \cup {rx_highest_status} : ~IsEmpty(rx_list[get_pos(sn)])}

\* Position of a unit in the window, to order NACKs.
Position(x) == Dist(rx_next, x[1]) * MaxLen + x[2]

\* Where a maximal run of missing units begins: each run is one NACK.
NackStarts == {x \in Missing : \A y \in Missing : Position(y) + 1 # Position(x)}

\* The search for missing data meets the slot of rx_next again, one window
\* above, and takes a PDU of rx_next that is not the first of its SDU for data
\* that follows what is missing.
RangeWraps ==
  LET top == Plus(rx_next, W - 1)
  IN  /\ rx_highest_status = Plus(rx_next, W)
      /\ rx_list[get_pos(rx_next)].pdus # {}
      /\ 0 \notin Covered(rx_list[get_pos(rx_next)])
      /\ <<top, MaxLen - 1>> \in Missing

\* The NACKs that come before position `cut`: the PDU ends where the MAC gives no
\* more room (generate_missing).  When some are left out, the last one put is made
\* to run to the end of its SDU (so_end is forced to 0xffff).
NacksUpTo(cut) ==
  LET put   == {x \in Missing : Position(x) < cut}
      last  == {x \in put : \A y \in put : Position(y) <= Position(x)}
  IN  put \cup {x \in SN \X Units :
                 /\ \E y \in last : x[1] = y[1] /\ y[2] < x[2]
                 /\ \E y \in Missing : Position(y) >= cut}

LastNack(nack) == CHOOSE x \in nack : \A y \in nack : Position(y) <= Position(x)

\* generate_status: without NACK, ack_sn is rx_next.  (Mutant: what is above
\* rx_next is acknowledged too when nothing is NACKed.)
StatusUpToHighest(cut) ==
  LET nack == NacksUpTo(cut)
  IN  [ack_sn |-> IF nack = {} THEN rx_highest_status ELSE Succ(LastNack(nack)[1]),
       nack |-> nack, wraps |-> FALSE]

StatusUpTo(cut) ==
  LET nack == NacksUpTo(cut)
  IN  [ack_sn |-> IF nack = {} THEN rx_next ELSE Succ(LastNack(nack)[1]),
       nack |-> nack, wraps |-> FALSE]

WholeStatus ==
  IF RangeWraps THEN [ack_sn |-> Succ(rx_next), nack |-> {}, wraps |-> TRUE]
                ELSE StatusUpTo(2 * W * MaxLen)

GenerateStatus ==
  /\ ~hung
  /\ status_triggered /\ ~t_status_prohibit
  /\ Cardinality(ctl) < MaxStatus
  /\ \E st \in {WholeStatus} \cup {StatusUpTo(Position(x)) : x \in NackStarts} :
       ctl' = ctl \cup {st}
  /\ status_triggered' = FALSE
  /\ t_status_prohibit' = TRUE
  /\ UNCHANGED <<rxptrs, rx_list, rx_size, t_reassembly, hung, delivered, garbled>>

\* reestablishment (clear_entity)
RxReestablish ==
  /\ ~hung
  /\ rx_next' = 0 /\ rx_next_status_trigger' = 0
  /\ rx_highest_status' = 0 /\ rx_next_highest' = 0
  /\ rx_list' = [s \in Slots |-> EmptySlot]
  /\ rx_size' = 0
  /\ status_triggered' = FALSE /\ t_reassembly' = FALSE /\ t_status_prohibit' = FALSE
  /\ ctl' = {}
  /\ UNCHANGED <<hung, delivered, garbled>>

-----------------------------------------------------------------------------
\* The receiving side with any peer and any radio link: whatever data PDU can be
\* decoded may come next.
CollectStatus ==
  /\ \E st \in ctl : ctl' = ctl \ {st}
  /\ UNCHANGED <<rxptrs, rx_list, rx_size, status_triggered, t_reassembly,
                 t_status_prohibit, hung, delivered, garbled>>

RxNext ==
  \/ \E q \in DataPdu : RecvDataPdu(q)
  \/ ReassemblyExpires \/ StatusProhibitExpires
  \/ GenerateStatus \/ CollectStatus
  \/ RxReestablish

RxSpec == RxInit /\ [][RxNext]_rxvars

RxTypeOK ==
  /\ rx_next \in SN /\ rx_next_status_trigger \in SN
  /\ rx_highest_status \in SN /\ rx_next_highest \in SN
  /\ rx_list \in [Slots -> Slot]
  /\ status_triggered \in BOOLEAN /\ t_reassembly \in BOOLEAN /\ t_status_prohibit \in BOOLEAN
  /\ hung \in BOOLEAN /\ garbled \in BOOLEAN
  /\ delivered \in [Ids -> 0 .. 2]
  /\ ctl \subseteq StatusPdu

\* The receive pointers are in order, rx_next <= rx_highest_status <=
\* rx_next_highest <= rx_next + W; nothing is held at or above rx_next_highest,
\* so that the slot shared with the SN one window below is free when the window
\* moves; and neither the SDU at rx_next nor the one at rx_highest_status is one
\* that was delivered.
PointersOrdered ==
  ~hung =>
  /\ Dist(rx_next, rx_highest_status) <= Dist(rx_next, rx_next_highest)
  /\ Dist(rx_next, rx_next_highest) <= W
  /\ \A k \in Dist(rx_next, rx_next_highest) .. W - 1 :
       IsEmpty(rx_list[get_pos(Plus(rx_next, k))])
  /\ ~rx_list[get_pos(rx_next)].delivered
  /\ ~rx_list[get_pos(rx_highest_status)].delivered

\* A running t_reassembly waits for an SDU between rx_next and rx_next_highest:
\* when it expires, rx_highest_status does not leave the window.
TriggerInWindow ==
  ~hung /\ t_reassembly =>
  /\ rx_next_status_trigger # rx_next
  /\ Dist(rx_next, rx_next_status_trigger) <= Dist(rx_next, rx_next_highest)

\* A slot holds PDUs of one SN, the one the window gives it: the bytes of two
\* SDUs one window apart are never put together.
OneSnPerSlot ==
  \A k \in 0 .. W - 1 :
    \A q \in rx_list[get_pos(Plus(rx_next, k))].pdus : q.sn = Plus(rx_next, k)

\* 'update rx_next and free all delivered SDUs at the head of the RX list':
\* what is at the head is not delivered.
HeadNotDelivered == ~rx_list[get_pos(rx_next)].delivered

HeldPdus == UNION {{<<s, q>> : q \in rx_list[s].pdus} : s \in Slots}

SizeOf(pairs) == MapThenSumSet(LAMBDA x : x[2].size, pairs)

\* The PDUs a step throws away with a slot whose SDU was delivered before: the window
\* moves past the slot and their data is lost.
Forgotten == {x \in HeldPdus : rx_list[x[1]].delivered /\ ~rx_list'[x[1]].delivered}

\* rx_size changes as what is held does, but for one thing: the window moves past PDUs
\* that came for an SDU already delivered, with bytes past its end, and their size stays
\* counted until the entity is re-established. So rx_size is never less than what is
\* held, and a peer that sends such PDUs may close the buffer.
RxSizeAccounts ==
  [][\/ rx_size' = 0 /\ rx_list' = [s \in Slots |-> EmptySlot]
     \/ rx_size' - SizeOf(HeldPdus') = rx_size - SizeOf(HeldPdus) + SizeOf(Forgotten)]_rxvars
=============================================================================
