------------------------------ MODULE RlcAmLink ------------------------------
(***************************************************************************)
(* An RLC AM bearer in one direction: the transmitting side of one entity, *)
(* the receiving side of its peer, and the MAC between them, which loses   *)
(* and reorders what it carries.  (The other direction is the same and     *)
(* shares only the lock and the transmission opportunities.)               *)
(***************************************************************************)
EXTENDS RlcAmTx, RlcAmRx

CONSTANTS
  MaxLoss,    \* bound: PDUs the MAC loses
  MaxReest,   \* bound: reestablishments
  Discards    \* may the upper layer discard SDUs?

ASSUME LinkAssumption == MaxLoss \in Nat /\ MaxReest \in Nat /\ Discards \in BOOLEAN

VARIABLES losses, reests

vars == <<txvars, rxvars, losses, reests>>

-----------------------------------------------------------------------------
Init == TxInit /\ RxInit /\ losses = 0 /\ reests = 0

Submit ==
  /\ \E id \in Ids, size \in 1 .. MaxLen : RecvSdu(id, size)
  /\ UNCHANGED <<rxvars, losses, reests>>

\* STATUS PDUs are no longer under way than data PDUs are (Young).
SendPdu ==
  /\ \E size \in TbSizes : GeneratePdu(size)
  /\ ctl' = {st \in ctl : Dist(st.ack_sn, tx_next') <= W}
  /\ UNCHANGED <<rxptrs, rx_list, rx_size, status_triggered, t_reassembly,
                 t_status_prohibit, hung, delivered, garbled, losses, reests>>

PollTimeout ==
  /\ PollRetransmitExpires
  /\ UNCHANGED <<rxvars, losses, reests>>

Discard ==
  /\ Discards
  /\ \E id \in Ids : DiscardSdu(id)
  /\ UNCHANGED <<rxvars, losses, reests>>

ReceivePdu(q) ==
  /\ q \in air
  /\ RecvDataPdu(q)
  /\ air' = air \ {q}
  /\ UNCHANGED <<sdu, txlists, tx_next, tx_next_ack, txpoll, txstat, crashed, losses, reests>>

LosePdu ==
  /\ losses < MaxLoss
  /\ \E q \in air : air' = air \ {q}
  /\ losses' = losses + 1
  /\ UNCHANGED <<sdu, txlists, tx_next, tx_next_ack, txpoll, txstat, crashed, rxvars, reests>>

ReassemblyTimeout ==
  /\ ReassemblyExpires
  /\ UNCHANGED <<txvars, losses, reests>>

StatusProhibitTimeout ==
  /\ StatusProhibitExpires
  /\ UNCHANGED <<txvars, losses, reests>>

SendStatus ==
  /\ GenerateStatus
  /\ UNCHANGED <<txvars, losses, reests>>

ReceiveStatus(st) ==
  /\ st \in ctl
  /\ ProcessControlPdu(st)
  /\ ctl' = ctl \ {st}
  /\ UNCHANGED <<rxptrs, rx_list, rx_size, status_triggered, t_reassembly,
                 t_status_prohibit, hung, delivered, garbled, losses, reests>>

LoseStatus ==
  /\ losses < MaxLoss
  /\ \E st \in ctl : ctl' = ctl \ {st}
  /\ losses' = losses + 1
  /\ UNCHANGED <<txvars, rxptrs, rx_list, rx_size, status_triggered, t_reassembly,
                 t_status_prohibit, hung, delivered, garbled, reests>>

Reestablish ==
  /\ reests < MaxReest
  /\ TxReestablish
  /\ RxReestablish
  /\ reests' = reests + 1
  /\ UNCHANGED losses

Next ==
  \/ Submit \/ SendPdu \/ PollTimeout \/ Discard
  \/ ReassemblyTimeout \/ StatusProhibitTimeout \/ SendStatus
  \/ \E q \in air : ReceivePdu(q)
  \/ \E st \in ctl : ReceiveStatus(st)
  \/ LosePdu \/ LoseStatus \/ Reestablish

Spec == Init /\ [][Next]_vars

\* The MAC goes on asking for PDUs and status reports, the slots go on ticking,
\* and a PDU that is not lost comes out of the HARQ processes.  Nothing obliges
\* the upper layer to submit an SDU.
Fairness ==
  /\ WF_vars(SendPdu) /\ WF_vars(SendStatus)
  /\ WF_vars(PollTimeout) /\ WF_vars(ReassemblyTimeout) /\ WF_vars(StatusProhibitTimeout)
  /\ \A q \in DataPdu : WF_vars(ReceivePdu(q))
  /\ WF_vars(\E st \in ctl : ReceiveStatus(st))

FairSpec == Spec /\ Fairness

-----------------------------------------------------------------------------
TypeOK ==
  /\ TxTypeOK /\ RxTypeOK
  /\ losses \in 0 .. MaxLoss /\ reests \in 0 .. MaxReest

\* A new SDU is never thrown away as out of window.
NewSduInWindow ==
  \A q \in air : delivered[q.id] = 0 /\ sdu[q.id].fate = "held"
                   => sn_in_recv_window(rx_next, q.sn)

Service == INSTANCE RlcService WITH
  submitted <- {i \in Ids : sdu[i].fate # "none"},
  delivered <- {i \in Ids : delivered[i] > 0},
  confirmed <- {i \in Ids : sdu[i].fate = "acked"},
  dropped   <- {i \in Ids : sdu[i].fate = "dropped"}

\* With a transmitter that keeps to the protocol rx_size is what is held: nothing is
\* ever kept for an SDU that was delivered, and the buffer does not close.
RxSizeExact == rx_size = SizeOf(HeldPdus)

AtMostOnce == ~garbled /\ \A i \in Ids : delivered[i] < 2
ImplementsService == Service!Spec

\* Everything was sent, nothing is to be sent again, the poll timer is stopped:
\* the entity waits for a new SDU to send the poll it owes.
OwesPoll == /\ tx_list = <<>> /\ retransmit_list = {} /\ wait_list # {}
            /\ ~t_poll_retransmit /\ force_poll

\* Whatever is lost (finitely often), an SDU the entity accepted is confirmed in
\* the end, unless the entity comes to wait for its upper layer, or stops.
EventuallyConfirmed ==
  \A i \in Ids : sdu[i].fate = "held" ~> (sdu[i].fate # "held" \/ OwesPoll \/ crashed \/ hung)

\* A test of the entity expects that t_poll_retransmit leads to the retransmission
\* of a PDU that was lost, and that every SDU is then confirmed.
LostPduIsRepaired ==
  \A i \in Ids : sdu[i].fate = "held" ~> (sdu[i].fate # "held" \/ crashed \/ hung)
=============================================================================
