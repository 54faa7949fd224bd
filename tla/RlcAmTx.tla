------------------------------- MODULE RlcAmTx -------------------------------
(***************************************************************************)
(* The transmitting side of an RLC AM entity (nr_rlc_entity_am.c).         *)
(*                                                                         *)
(* wait_list and retransmit_list are kept sorted by (sn, so) in the code   *)
(* and are always consumed from their head or filtered, so each is a set   *)
(* here, with HeadSeg for its head; tx_list is a FIFO.  An operation runs  *)
(* to completion under the lock of nr_rlc_ue_manager, so it is one action. *)
(***************************************************************************)
EXTENDS RlcAmSn, Sequences, FiniteSetsExt

CONSTANTS
  TxMax,      \* tx_maxsize, in data units
  PollPdu,    \* poll_pdu, -1 for infinity
  PollByte,   \* poll_byte in data units, -1 for infinity
  MaxRetx,    \* max_retx_threshold
  RetxCap,    \* bound: retx_count is not counted further than this
  TbSizes,    \* bound: sizes the MAC asks for
  MaxAir      \* bound: PDUs in flight at the same time

ASSUME TxAssumption ==
  /\ TxMax \in Nat
  /\ PollPdu \in Int /\ PollByte \in Int
  /\ MaxRetx \in Nat \ {0}
  /\ RetxCap \in Int /\ RetxCap >= -1
  /\ TbSizes \subseteq Nat
  /\ MaxAir \in Nat \ {0}

VARIABLES
  sdu,               \* nr_rlc_sdu_t of each id
  tx_list,           \* segments never sent, in order of submission
  wait_list,         \* segments sent, waiting for a STATUS PDU
  retransmit_list,   \* segments to send again
  tx_next, tx_next_ack,
  poll_sn, pdu_without_poll, byte_without_poll, force_poll,
  t_poll_retransmit, \* is the timer running (t_poll_retransmit_start # 0)?
  tx_size,           \* data units held by the entity
  bstatus,           \* bytes announced to the MAC: [tx, retx]
  max_retx_reached,  \* did the entity report too many retransmissions?
  crashed,           \* was a NULL pointer dereferenced?
  air                \* data PDUs given to the MAC and not yet received or lost

txlists == <<tx_list, wait_list, retransmit_list>>
txpoll  == <<poll_sn, pdu_without_poll, byte_without_poll, force_poll, t_poll_retransmit>>
txstat  == <<tx_size, bstatus, max_retx_reached>>
txvars  == <<sdu, txlists, tx_next, tx_next_ack, txpoll, txstat, crashed, air>>

-----------------------------------------------------------------------------
\* An SDU that the entity does not hold (any longer).
NoSdu(fate) == [sn |-> NoSn, size |-> 0, ref_count |-> 0, free_count |-> 0,
                retx_count |-> -1, fate |-> fate]

NewSdu(size) == [sn |-> NoSn, size |-> size, ref_count |-> 1, free_count |-> 0,
                 retx_count |-> -1, fate |-> "held"]

Held == {i \in Ids : sdu[i].fate = "held"}

SnOf(seg) == sdu[seg.id].sn

\* sn_compare_tx(a, b) < 0
TxBefore(a, b) == Dist(tx_next_ack, a) < Dist(tx_next_ack, b)

\* place of a segment in the lists: by sn, then by so
Place(s) == Dist(tx_next_ack, SnOf(s)) * MaxLen + s.so

HeadSeg(S) == CHOOSE s \in S : \A t \in S : Place(s) <= Place(t)

is_window_stallingLate(next) == Dist(tx_next_ack, next) > W  \* mutant: one SN too late
is_window_stalling(next) == Dist(tx_next_ack, next) >= W

\* after a PDU is built, with the lists and tx_next as they are then
\* (mutant: only window stalling polls)
check_poll_window_only(txl, rtl, next) == is_window_stalling(next)

check_poll_after_pdu_assembly(txl, rtl, next) ==
  \/ txl = <<>> /\ rtl = {}
  \/ is_window_stalling(next)

\* What resegment leaves in the PDU and what it gives back to the list when the
\* MAC asks for `size` units.  (Mutants: the PDU keeps all the bytes; the header
\* is counted as data.)
Fits(seg, size)  == compute_pdu_header_size(seg) + 1 <= size
Split(seg, size) == PduSize(seg) > size

FrontWhole(seg, size) == seg
Front(seg, size) == IF Split(seg, size)
                    THEN [seg EXCEPT !.size = size - compute_pdu_header_size(seg)]
                    ELSE seg

BackLate(seg, size)   == [seg EXCEPT !.so = seg.so + size, !.size = PduSize(seg) - size]
Back(seg, size)       == [seg EXCEPT !.so = seg.so + size - compute_pdu_header_size(seg),
                                     !.size = PduSize(seg) - size]

-----------------------------------------------------------------------------
TxInit ==
  /\ sdu = [i \in Ids |-> NoSdu("none")]
  /\ tx_list = <<>> /\ wait_list = {} /\ retransmit_list = {}
  /\ tx_next = 0 /\ tx_next_ack = 0
  /\ poll_sn = 0 /\ pdu_without_poll = 0 /\ byte_without_poll = 0
  /\ force_poll = FALSE /\ t_poll_retransmit = FALSE
  /\ tx_size = 0 /\ bstatus = [tx |-> 0, retx |-> 0]
  /\ max_retx_reached = FALSE /\ crashed = FALSE
  /\ air = {}

\* The upper layer submits its next SDU; a full buffer rejects it (no step).
RecvSdu(id, size) ==
  /\ ~crashed
  /\ sdu[id].fate = "none" /\ \A j \in Ids : j < id => sdu[j].fate # "none"
  /\ tx_size + size <= TxMax
  /\ LET seg == [id |-> id, so |-> 0, size |-> size]
     IN  /\ tx_list' = Append(tx_list, seg)
         /\ bstatus' = [bstatus EXCEPT !.tx = @ + PduSize(seg)]
  /\ sdu' = [sdu EXCEPT ![id] = NewSdu(size)]
  /\ tx_size' = tx_size + size
  /\ UNCHANGED <<wait_list, retransmit_list, tx_next, tx_next_ack, txpoll,
                 max_retx_reached, crashed, air>>

\* PDUs older than one window are no longer under way in the lower layers (the
\* HARQ processes hold a PDU for a few slots): `next` is the new tx_next.
Young(next) == {q \in air : Dist(q.sn, next) <= W}

\* serialize_sdu and include_poll: hand the PDU down, with or without a poll.
serialize_sdu(seg, sn, poll, next, pdus, bytes) ==
  /\ air' = Young(next) \cup
            {[id |-> seg.id, sn |-> sn, so |-> seg.so, size |-> seg.size,
              is_last |-> seg.so + seg.size = sdu[seg.id].size, p |-> poll]}
  /\ force_poll' = FALSE
  /\ IF poll
     THEN /\ pdu_without_poll' = 0 /\ byte_without_poll' = 0
          /\ poll_sn' = Pred(next)
          /\ t_poll_retransmit' = TRUE
     ELSE /\ pdu_without_poll' = pdus /\ byte_without_poll' = bytes
          /\ UNCHANGED <<poll_sn, t_poll_retransmit>>

RetxFits(size) == retransmit_list # {} /\ Fits(HeadSeg(retransmit_list), size)

\* generate_pdu sends again the head of retransmit_list.
GenerateRetxPdu(size) ==
  /\ ~crashed
  /\ Cardinality(air) < MaxAir
  /\ RetxFits(size)
  /\ LET seg  == HeadSeg(retransmit_list)
         back == IF Split(seg, size) THEN {Back(seg, size)} ELSE {}
         rtl  == (retransmit_list \ {seg}) \cup back
         poll == force_poll \/ check_poll_after_pdu_assembly(tx_list, rtl, tx_next)
     IN  /\ retransmit_list' = rtl
         /\ wait_list' = wait_list \cup {Front(seg, size)}
         /\ sdu' = [sdu EXCEPT ![seg.id].ref_count = @ + Cardinality(back)]
         /\ bstatus' = [bstatus EXCEPT
                          !.retx = @ - PduSize(seg)
                                     + (IF back = {} THEN 0 ELSE PduSize(Back(seg, size)))]
         /\ serialize_sdu(Front(seg, size), SnOf(seg), poll, tx_next,
                          pdu_without_poll, byte_without_poll)
  /\ UNCHANGED <<tx_list, tx_next, tx_next_ack, tx_size, max_retx_reached, crashed>>

\* generate_pdu sends a new segment: there is nothing to retransmit, or no room
\* for a byte of it.
GenerateTxPdu(size) ==
  /\ ~crashed
  /\ Cardinality(air) < MaxAir
  /\ ~RetxFits(size)
  /\ ~is_window_stalling(tx_next)
  /\ tx_list # <<>> /\ Fits(Head(tx_list), size)
  /\ LET seg   == Head(tx_list)
         new   == sdu[seg.id].sn = NoSn
         sn    == IF new THEN tx_next ELSE sdu[seg.id].sn
         next  == IF new THEN Succ(tx_next) ELSE tx_next
         txl   == IF Split(seg, size) THEN <<Back(seg, size)>> \o Tail(tx_list)
                                      ELSE Tail(tx_list)
         front == Front(seg, size)
         pdus  == pdu_without_poll + 1
         bytes == byte_without_poll + front.size
         poll  == \/ force_poll
                  \/ PollPdu # -1 /\ pdus >= PollPdu
                  \/ PollByte # -1 /\ bytes >= PollByte
                  \/ check_poll_after_pdu_assembly(txl, retransmit_list, next)
     IN  /\ tx_list' = txl
         /\ tx_next' = next
         /\ wait_list' = wait_list \cup {front}
         /\ sdu' = [sdu EXCEPT ![seg.id].sn = sn,
                               ![seg.id].ref_count = @ + (IF Split(seg, size) THEN 1 ELSE 0)]
         /\ bstatus' = [bstatus EXCEPT
                          !.tx = @ - PduSize(seg)
                                   + (IF Split(seg, size) THEN PduSize(Back(seg, size)) ELSE 0)]
         /\ serialize_sdu(front, sn, poll, next, pdus, bytes)
  /\ UNCHANGED <<retransmit_list, tx_next_ack, tx_size, max_retx_reached, crashed>>

GeneratePdu(size) == GenerateRetxPdu(size) \/ GenerateTxPdu(size)

-----------------------------------------------------------------------------
\* so_overlap of a segment with one of the NACKed ranges
Nacked(seg, st) == \E u \in Bytes(seg) : <<SnOf(seg), u>> \in st.nack

NackedSns(st) == {x[1] : x \in st.nack}

\* The checks that make process_control_pdu throw a whole STATUS PDU away.
ValidStatus(st) ==
  /\ ~st.wraps
  /\ ~TxBefore(tx_next, st.ack_sn)
  /\ \A sn \in NackedSns(st) : ~TxBefore(st.ack_sn, sn)

Capped(n) == IF n > RetxCap THEN RetxCap ELSE n

\* What is left of SDU i when `gone` are the segments freed and `again` the
\* segments that go from wait_list to retransmit_list.  (Mutant: the first segment
\* freed frees the SDU.)
AfterStatusFirst(i, gone, again) ==
  LET nfree == Cardinality({s \in gone : s.id = i})
      nretx == Cardinality({s \in again : s.id = i})
  IN  IF sdu[i].fate = "held" /\ nfree > 0
      THEN NoSdu("acked")
      ELSE [sdu[i] EXCEPT !.free_count = @ + nfree, !.retx_count = Capped(@ + nretx)]

AfterStatus(i, gone, again) ==
  LET nfree == Cardinality({s \in gone : s.id = i})
      nretx == Cardinality({s \in again : s.id = i})
  IN  IF sdu[i].fate = "held" /\ nfree > 0 /\ sdu[i].free_count + nfree = sdu[i].ref_count
      THEN NoSdu("acked")
      ELSE [sdu[i] EXCEPT !.free_count = @ + nfree, !.retx_count = Capped(@ + nretx)]

\* Change of bstatus.retx_size.  (Mutant: what is acknowledged while it waits to
\* be sent again stays counted.)
RetxGainOnly(again, gone)  == MapThenSumSet(PduSize, again)
RetxBalance(again, gone)   == MapThenSumSet(PduSize, again) - MapThenSumSet(PduSize, gone \cap retransmit_list)

\* The smallest SN not acknowledged, looked for in the lists that wait for an
\* acknowledgement and in the STATUS PDU.
NextAckWaiting(st, wl, rtl) ==  \* mutant: retransmit_list is forgotten
  LET cands == {tx_next, st.ack_sn} \cup {SnOf(s) : s \in wl}
  IN  CHOOSE sn \in cands : \A t \in cands : ~TxBefore(t, sn)

NextAck(st, wl, rtl) ==
  LET cands == {tx_next, st.ack_sn} \cup {SnOf(s) : s \in wl \cup rtl}
  IN  CHOOSE sn \in cands : \A t \in cands : ~TxBefore(t, sn)

\* process_control_pdu
ProcessControlPdu(st) ==
  /\ ~crashed
  /\ IF ~ValidStatus(st)
     THEN UNCHANGED <<sdu, txlists, tx_next_ack, txpoll, txstat>>
     ELSE LET sent   == wait_list \cup retransmit_list
              again  == {s \in wait_list : Nacked(s, st)}
              gone   == {s \in sent : ~Nacked(s, st) /\ TxBefore(SnOf(s), st.ack_sn)}
              wl     == wait_list \ (again \cup gone)
              rtl    == (retransmit_list \ gone) \cup again
              after  == [i \in Ids |-> AfterStatus(i, gone, again)]
              acked  == {i \in Held : after[i].fate = "acked"}
          IN  /\ wait_list' = wl
              /\ retransmit_list' = rtl
              /\ sdu' = after
              /\ tx_size' = tx_size - MapThenSumSet(LAMBDA i : sdu[i].size, acked)
              /\ bstatus' = [bstatus EXCEPT
                               !.retx = @ + RetxBalance(again, gone)]
              /\ max_retx_reached' =
                   (max_retx_reached \/ \E s \in again :
                      after[s.id].retx_count >= MaxRetx * sdu[s.id].ref_count)
              /\ t_poll_retransmit' =
                   (t_poll_retransmit /\ ~TxBefore(poll_sn, st.ack_sn)
                                      /\ poll_sn \notin NackedSns(st))
              /\ tx_next_ack' = NextAck(st, wl, rtl)
              /\ UNCHANGED <<tx_list, poll_sn, pdu_without_poll, byte_without_poll, force_poll>>
  /\ UNCHANGED <<tx_next, crashed, air>>

\* set_time finds t_poll_retransmit expired.  wait_list is dereferenced without
\* a test when everything that was sent is in retransmit_list.
PollRetransmitExpires ==
  /\ ~crashed
  /\ t_poll_retransmit
  /\ t_poll_retransmit' = FALSE
  /\ force_poll' = TRUE
  /\ IF ~check_poll_after_pdu_assembly(tx_list, retransmit_list, tx_next)
     THEN UNCHANGED <<sdu, wait_list, retransmit_list, bstatus, max_retx_reached, crashed>>
     ELSE IF wait_list = {}
     THEN /\ crashed' = TRUE
          /\ UNCHANGED <<sdu, wait_list, retransmit_list, bstatus, max_retx_reached>>
     ELSE LET head  == HeadSeg(wait_list)
              again == {s \in wait_list : SnOf(s) = SnOf(head)}
              count == Capped(sdu[head.id].retx_count + 1)
          IN  /\ sdu' = [sdu EXCEPT ![head.id].retx_count = count]
              /\ wait_list' = wait_list \ again
              /\ retransmit_list' = retransmit_list \cup again
              /\ bstatus' = [bstatus EXCEPT !.retx = @ + MapThenSumSet(PduSize, again)]
              /\ max_retx_reached' = (max_retx_reached \/ count >= MaxRetx)
              /\ UNCHANGED crashed
  /\ UNCHANGED <<tx_list, tx_next, tx_next_ack, poll_sn, pdu_without_poll,
                 byte_without_poll, tx_size, air>>

\* discard_sdu: only an SDU of which nothing has been sent goes away.
DiscardSdu(id) ==
  /\ ~crashed
  /\ \E k \in DOMAIN tx_list :
       /\ tx_list[k].id = id /\ tx_list[k].so = 0 /\ tx_list[k].size = sdu[id].size
       /\ tx_list' = SubSeq(tx_list, 1, k - 1) \o SubSeq(tx_list, k + 1, Len(tx_list))
       /\ bstatus' = [bstatus EXCEPT !.tx = @ - PduSize(tx_list[k])]
  /\ tx_size' = tx_size - sdu[id].size
  /\ sdu' = [sdu EXCEPT ![id] = NoSdu("dropped")]
  /\ UNCHANGED <<wait_list, retransmit_list, tx_next, tx_next_ack, txpoll,
                 max_retx_reached, crashed, air>>

\* reestablishment (clear_entity); the MAC is reset at the same time, so nothing
\* stays in flight.
TxReestablish ==
  /\ ~crashed
  /\ sdu' = [i \in Ids |-> IF i \in Held THEN NoSdu("dropped") ELSE sdu[i]]
  /\ tx_list' = <<>> /\ wait_list' = {} /\ retransmit_list' = {}
  /\ tx_next' = 0 /\ tx_next_ack' = 0
  /\ poll_sn' = 0 /\ pdu_without_poll' = 0 /\ byte_without_poll' = 0
  /\ force_poll' = FALSE /\ t_poll_retransmit' = FALSE
  /\ tx_size' = 0 /\ bstatus' = [tx |-> 0, retx |-> 0]
  /\ air' = {}
  /\ UNCHANGED <<max_retx_reached, crashed>>

-----------------------------------------------------------------------------
TxTypeOK ==
  /\ sdu \in [Ids -> [sn : SN \cup {NoSn}, size : 0 .. MaxLen, ref_count : Nat,
                      free_count : Nat, retx_count : Int,
                      fate : {"none", "held", "acked", "dropped"}]]
  /\ tx_list \in Seq(Segment)
  /\ wait_list \subseteq Segment /\ retransmit_list \subseteq Segment
  /\ tx_next \in SN /\ tx_next_ack \in SN /\ poll_sn \in SN
  /\ pdu_without_poll \in Nat /\ byte_without_poll \in Nat
  /\ force_poll \in BOOLEAN /\ t_poll_retransmit \in BOOLEAN
  /\ tx_size \in Int /\ bstatus \in [tx : Int, retx : Int]
  /\ max_retx_reached \in BOOLEAN /\ crashed \in BOOLEAN
  /\ air \subseteq DataPdu

InFlight == wait_list \cup retransmit_list
Queued   == {tx_list[k] : k \in DOMAIN tx_list}
Segments == Queued \cup InFlight

\* No byte of an SDU is in two segments, an SDU is freed with its last segment
\* and not before, and free_count is what the segments left say: otherwise an
\* SDU is freed twice, used after it was freed, or never confirmed.
SegmentsPartition ==
  /\ wait_list \cap retransmit_list = {} /\ Queued \cap InFlight = {}
  /\ Cardinality(Queued) = Len(tx_list)
  /\ \A s, t \in Segments : s # t /\ s.id = t.id => Bytes(s) \cap Bytes(t) = {}
  /\ \A i \in Ids :
       LET left == Cardinality({s \in Segments : s.id = i})
       IN  /\ left = sdu[i].ref_count - sdu[i].free_count
           /\ sdu[i].fate = "held" <=> left > 0

\* What buffer_status tells the MAC is what there is to send, headers included,
\* and tx_size is what is held: a drift starves the bearer or closes its buffer.
AccountsExact ==
  /\ bstatus.tx = MapThenSumSet(PduSize, Queued)
  /\ bstatus.retx = MapThenSumSet(PduSize, retransmit_list)
  /\ tx_size = MapThenSumSet(LAMBDA i : sdu[i].size, Held)

\* When everything was sent and nothing is to be sent again, either the poll
\* timer runs or the next PDU will poll, as long as something is not
\* acknowledged.
PollPending ==
  tx_list = <<>> /\ retransmit_list = {} /\ wait_list # {} /\ ~crashed
    => t_poll_retransmit \/ force_poll

\* 38.322 5.2.3.1.1, as process_control_pdu quotes it: tx_next_ack is the SN of
\* the oldest SDU for which no positive acknowledgement has been received.
TxNextAckIsOldest ==
  \A i \in Held : sdu[i].sn # NoSn => TxBefore(sdu[i].sn, tx_next)

\* 'It seems that no, the wait list should not be empty here, but not sure.'
WaitListNotEmpty == ~crashed
=============================================================================
