------------------------------- MODULE NrPdcp --------------------------------
(***************************************************************************)
(* A PDCP bearer in one direction (nr_pdcp_entity.c): the transmitting     *)
(* side of one entity, which numbers SDUs with a COUNT and sends only its  *)
(* low bits (the SN), the receiving side of its peer, which infers the     *)
(* COUNT from the SN and delivers in order, and the RLC bearer between     *)
(* them, which loses and, inside its window, reorders.                     *)
(***************************************************************************)
EXTENDS Integers, FiniteSets

CONSTANTS
  W,          \* window_size = 2^(sn_size - 1); the SN space is 2 * W
  Hfns,       \* number of hyper frame numbers: a COUNT is less than 2 * W * Hfns
  L,          \* how far the RLC bearer may deliver ahead of a PDU it still owes
  Burst,      \* PDUs that may arrive while t_reordering runs
  Types,      \* the types of bearers to consider
  MaxSend,    \* bound: COUNTs the transmitting side uses
  MaxAir,     \* bound: PDUs in the RLC bearer
  MaxLoss,    \* bound: PDUs the RLC bearer loses
  MaxReest    \* bound: re-establishments

sn_modulus == 2 * W
CountMod   == sn_modulus * Hfns

ASSUME PdcpAssumption ==
  /\ W \in Nat \ {0} /\ Hfns \in Nat \ {0} /\ L \in 1 .. W
  /\ Types \subseteq {"DRB_AM", "DRB_UM", "SRB"}
  /\ Burst \in Nat /\ MaxAir \in Nat /\ MaxLoss \in Nat /\ MaxReest \in Nat
  /\ MaxSend \in Nat /\ MaxSend < CountMod

VARIABLES
  type, has_integrity,           \* configuration of the bearer, both ends
  tx_next, tx_key,               \* transmitting side; keys are numbered by re-establishment
  rx_next, rx_deliv, rx_reord,   \* receiving side
  rx_list,                       \* SDUs kept, with the COUNT inferred for them
  t_reordering,                  \* is the timer running?
  rx_key,
  air,                           \* PDUs in the RLC bearer
  losses,
  since,                         \* PDUs received since t_reordering was started
  last,                          \* the last SDU delivered, if any
  misordered,                    \* was an SDU delivered late or twice?
  inStep                         \* did every PDU arrive in the window of rx_deliv?

config  == <<type, has_integrity>>
txvars  == <<tx_next, tx_key>>
rxptrs  == <<rx_next, rx_deliv, rx_reord>>
rxstate == <<rxptrs, rx_list, t_reordering, since>>
outcome == <<last, misordered>>
vars == <<config, txvars, rxstate, rx_key, air, losses, outcome, inStep>>

Count == 0 .. CountMod - 1
Keys  == 0 .. MaxReest

\* On the air only the SN of the COUNT is sent. The key and the whole COUNT are
\* what the payload was ciphered and protected with.
Pdu == [key : Keys, count : Count]
SnOf(q) == q.count % sn_modulus

\* comes before every SDU
NoSdu == [key |-> -1, count |-> 0]

\* An SDU in rx_list, with the COUNT that was inferred for it.
Kept == [count : Count, pdu : Pdu]

\* p was submitted before q
Before(p, q) == p.key < q.key \/ (p.key = q.key /\ p.count < q.count)

-----------------------------------------------------------------------------
Init ==
  /\ type \in Types
  /\ has_integrity \in BOOLEAN /\ (type = "SRB" => has_integrity)
  /\ tx_next = 0 /\ tx_key = 0
  /\ rx_next = 0 /\ rx_deliv = 0 /\ rx_reord = 0 /\ rx_list = {}
  /\ t_reordering = FALSE /\ rx_key = 0 /\ since = 0
  /\ air = {} /\ losses = 0
  /\ last = NoSdu /\ misordered = FALSE /\ inStep = TRUE

-----------------------------------------------------------------------------
\* nr_pdcp_entity_process_sdu, and the PDU is handed to RLC.
ProcessSdu ==
  /\ tx_next < MaxSend /\ Cardinality(air) < MaxAir
  /\ air' = air \cup {[key |-> tx_key, count |-> tx_next]}
  /\ tx_next' = tx_next + 1
  /\ UNCHANGED <<config, tx_key, rxstate, rx_key, losses, outcome, inStep>>

-----------------------------------------------------------------------------
\* mutant: an SN below that of rx_deliv is taken for the next cycle, without a window
RcvdHfnAnyLower(sn) ==
  rx_deliv \div sn_modulus + IF sn < rx_deliv % sn_modulus THEN 1 ELSE 0

\* The COUNT that a received SN stands for.
RcvdHfn(sn) ==
  LET rx_deliv_sn  == rx_deliv % sn_modulus
      rx_deliv_hfn == rx_deliv \div sn_modulus
  IN  IF sn < rx_deliv_sn - W THEN rx_deliv_hfn + 1
      ELSE IF sn >= rx_deliv_sn + W THEN rx_deliv_hfn - 1
      ELSE rx_deliv_hfn

\* mutant: the cycle is shifted by one bit too many, out of the bits of a COUNT
RcvdCountShifted(sn) == RcvdHfn(sn) * 2 * sn_modulus + sn

RcvdCount(sn) == (RcvdHfn(sn) * sn_modulus + sn) % CountMod

IntegrityOk(q, count) == ~has_integrity \/ (q.key = rx_key /\ q.count = count)

\* The first COUNT from c on that is not kept in `list`.
FirstMissing(list, c) ==
  LET kept == {e.count : e \in list}
  IN  CHOOSE k \in c .. CountMod : c .. k - 1 \subseteq kept /\ k \notin kept

\* The SDUs of `batch` go up, in the order of the COUNTs inferred for them.
DeliverSdus(batch) ==
  /\ IF batch = {} THEN last' = last
     ELSE \E e \in batch : (\A f \in batch : f.count <= e.count) /\ last' = e.pdu
  /\ misordered' =
       \/ misordered
       \/ \E e \in batch : ~Before(last, e.pdu)
       \/ \E e, f \in batch : e.count < f.count /\ ~Before(e.pdu, f.pdu)

\* The end of reception and of the expiry: start the timer while an SDU is missing.
StartReordering(running) ==
  IF ~running /\ rx_deliv' < rx_next'
  THEN rx_reord' = rx_next' /\ t_reordering' = TRUE /\ since' = 0
  ELSE rx_reord' = rx_reord /\ t_reordering' = running /\ since' = IF running THEN since + 1 ELSE 0

\* mutant: t_reordering is not stopped when rx_deliv reaches rx_reord
StoreSduNoStop(q, count) ==
  LET list  == rx_list \cup {[count |-> count, pdu |-> q]}
      deliv == IF count = rx_deliv THEN FirstMissing(list, count) ELSE rx_deliv
      batch == IF count = rx_deliv THEN {e \in list : e.count < deliv} ELSE {}
  IN  /\ rx_next' = IF count >= rx_next THEN (count + 1) % CountMod ELSE rx_next
      /\ rx_deliv' = deliv % CountMod
      /\ rx_list' = list \ batch
      /\ DeliverSdus(batch)
      /\ StartReordering(t_reordering)

StoreSdu(q, count) ==
  LET list  == rx_list \cup {[count |-> count, pdu |-> q]}
      deliv == IF count = rx_deliv THEN FirstMissing(list, count) ELSE rx_deliv
      batch == IF count = rx_deliv THEN {e \in list : e.count < deliv} ELSE {}
  IN  /\ rx_next' = IF count >= rx_next THEN (count + 1) % CountMod ELSE rx_next
      /\ rx_deliv' = deliv % CountMod
      /\ rx_list' = list \ batch
      /\ DeliverSdus(batch)
      /\ StartReordering(t_reordering /\ rx_deliv' < rx_reord)

\* mutant: a PDU below rx_deliv is not thrown away
RecvPduLate(q) ==
  LET count == RcvdCount(SnOf(q))
  IN  IF ~IntegrityOk(q, count) \/ \E e \in rx_list : e.count = count
      THEN UNCHANGED <<rxstate, outcome>>
      ELSE StoreSdu(q, count)

\* nr_pdcp_entity_recv_pdu
RecvPdu(q) ==
  LET count == RcvdCount(SnOf(q))
  IN  IF \/ ~IntegrityOk(q, count)
         \/ count < rx_deliv
         \/ \E e \in rx_list : e.count = count
      THEN UNCHANGED <<rxstate, outcome>>
      ELSE StoreSdu(q, count)

\* RLC hands up a PDU. Between the re-establishments of its two ends a DRB is not
\* resumed and receives nothing; on an SRB a PDU that comes too early fails the
\* integrity check, and is bounded like any other loss. t_reordering is short
\* compared with the traffic, which Burst says.
Receive(q) ==
  /\ q \in air
  /\ \A r \in air : q.count < r.count + L
  /\ \/ q.key = rx_key /\ losses' = losses
     \/ q.key # rx_key /\ type = "SRB" /\ losses < MaxLoss /\ losses' = losses + 1
  /\ t_reordering => since < Burst
  /\ air' = air \ {q}
  /\ inStep' = (inStep /\ (q.key = rx_key => q.count < rx_deliv + W))
  /\ RecvPdu(q)
  /\ UNCHANGED <<config, txvars, rx_key>>

\* mutant: rx_deliv stays where it was
ReorderingExpiresStays ==
  LET deliv == FirstMissing(rx_list, rx_reord)
      batch == {e \in rx_list : e.count < deliv}
  IN  /\ t_reordering
      /\ rx_deliv' = rx_deliv
      /\ rx_list' = rx_list \ batch
      /\ DeliverSdus(batch)
      /\ rx_next' = rx_next
      /\ StartReordering(FALSE)
      /\ UNCHANGED <<config, txvars, rx_key, air, losses, inStep>>

\* mutant: the timer is not started again
ReorderingExpiresOnce ==
  LET deliv == FirstMissing(rx_list, rx_reord)
      batch == {e \in rx_list : e.count < deliv}
  IN  /\ t_reordering
      /\ rx_deliv' = deliv % CountMod
      /\ rx_list' = rx_list \ batch
      /\ DeliverSdus(batch)
      /\ t_reordering' = FALSE /\ since' = 0
      /\ UNCHANGED <<config, txvars, rx_next, rx_reord, rx_key, air, losses, inStep>>

\* check_t_reordering, once the timer has expired
ReorderingExpires ==
  LET deliv == FirstMissing(rx_list, rx_reord)
      batch == {e \in rx_list : e.count < deliv}
  IN  /\ t_reordering
      /\ rx_deliv' = deliv % CountMod
      /\ rx_list' = rx_list \ batch
      /\ DeliverSdus(batch)
      /\ rx_next' = rx_next
      /\ StartReordering(FALSE)
      /\ UNCHANGED <<config, txvars, rx_key, air, losses, inStep>>

LosePdu ==
  /\ losses < MaxLoss
  /\ \E q \in air : air' = air \ {q}
  /\ losses' = losses + 1
  /\ UNCHANGED <<config, txvars, rxstate, rx_key, outcome, inStep>>

-----------------------------------------------------------------------------
\* nr_pdcp_reestablishment at the transmitting end. The RLC entity re-establishes
\* too and drops what it holds, which the PDCP entity of an AM bearer does not
\* send again.
TxReestablish ==
  /\ tx_key < MaxReest /\ tx_key <= rx_key
  /\ tx_key' = tx_key + 1
  /\ air' = {}
  /\ \/ /\ type = "DRB_AM"
        /\ losses + Cardinality(air) <= MaxLoss
        /\ losses' = losses + Cardinality(air)
        /\ tx_next' = tx_next
     \/ /\ type # "DRB_AM"
        /\ tx_next' = 0
        /\ losses' = losses
  /\ UNCHANGED <<config, rxstate, rx_key, outcome, inStep>>

\* nr_pdcp_reestablishment at the receiving end.
RxReestablish ==
  /\ rx_key < MaxReest /\ rx_key <= tx_key
  /\ rx_key' = rx_key + 1
  /\ \/ /\ type = "DRB_AM"
        /\ UNCHANGED <<rxstate, outcome>>
     \/ /\ type # "DRB_AM"
        /\ IF type = "DRB_UM" /\ t_reordering THEN DeliverSdus(rx_list) ELSE UNCHANGED outcome
        /\ rx_list' = IF type = "SRB" \/ t_reordering THEN {} ELSE rx_list
        /\ rx_next' = 0 /\ rx_deliv' = 0 /\ rx_reord' = rx_reord
        /\ t_reordering' = FALSE /\ since' = 0
  /\ UNCHANGED <<config, txvars, air, losses, inStep>>

-----------------------------------------------------------------------------
Next ==
  \/ ProcessSdu
  \/ \E q \in air : Receive(q)
  \/ ReorderingExpires
  \/ LosePdu
  \/ TxReestablish \/ RxReestablish

Spec == Init /\ [][Next]_vars

\* The tick thread gives the time to every entity each millisecond.
FairSpec == Spec /\ WF_vars(ReorderingExpires)

-----------------------------------------------------------------------------
PdcpTypeOK ==
  /\ type \in Types /\ has_integrity \in BOOLEAN
  /\ tx_next \in 0 .. MaxSend /\ tx_key \in Keys
  /\ rx_next \in Count /\ rx_deliv \in Count /\ rx_reord \in Count
  /\ rx_list \subseteq Kept /\ t_reordering \in BOOLEAN /\ since \in 0 .. Burst
  /\ rx_key \in Keys /\ air \subseteq Pdu /\ losses \in 0 .. MaxLoss
  /\ last \in Pdu \cup {NoSdu} /\ misordered \in BOOLEAN /\ inStep \in BOOLEAN

\* The reordering timer runs exactly while a COUNT below rx_next is missing, and it
\* waits for a COUNT that is still to be delivered: an SDU in the list is never
\* forgotten, and an expiry never moves rx_deliv back.
TimerGuardsGap ==
  inStep => /\ rx_deliv <= rx_next
            /\ t_reordering <=> rx_deliv < rx_next
            /\ t_reordering => rx_deliv < rx_reord /\ rx_reord <= rx_next
            /\ \A e \in rx_list : rx_deliv < e.count /\ e.count < rx_next

\* The COUNT inferred is the sender's, across the borders of the SN space.
CountAgrees == inStep => \A e \in rx_list : e.count = e.pdu.count

\* SDUs go up in the order of their submission and at most once, whatever is lost
\* or late, and across re-establishments.
InOrder == inStep => ~misordered

\* A hole in what arrives closes before the SN space is used up: the receiver never
\* has to infer a COUNT it would infer wrong.
KeepsInStep == inStep

\* What the receiver keeps goes up in the end, but what the re-establishment of an
\* SRB throws away.
KeptIsDelivered ==
  \A p \in Pdu : p \in {e.pdu : e \in rx_list}
                    ~> (~Before(last, p) \/ (type = "SRB" /\ p.key # rx_key))
=============================================================================
