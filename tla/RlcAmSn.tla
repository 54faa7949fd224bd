------------------------------- MODULE RlcAmSn -------------------------------
(***************************************************************************)
(* Sequence numbers and segments of an RLC AM entity: the arithmetic that  *)
(* the transmitting side (RlcAmTx) and the receiving side (RlcAmRx) of     *)
(* nr_rlc_entity_am.c share.                                               *)
(*                                                                         *)
(* Sizes are counted in abstract data units (a unit stands for any run of  *)
(* bytes that is never split); a PDU header costs HDR_SIZE units and the   *)
(* segment offset field SO_SIZE units, so that a header grows when an SDU  *)
(* is segmented, as it does in the code.                                   *)
(***************************************************************************)
EXTENDS Integers, FiniteSets

CONSTANTS
  W,        \* window_size; the code uses 2^(sn_field_length - 1)
  MaxSdu,   \* bound: number of SDUs the upper layer submits in a behaviour
  MaxLen    \* bound: largest SDU, in data units

ASSUME SizesAssumption == W \in Nat \ {0, 1} /\ MaxSdu \in Nat \ {0} /\ MaxLen \in Nat \ {0}

HDR_SIZE == 1
SO_SIZE  == 1

sn_modulus == 2 * W

SN    == 0 .. sn_modulus - 1
Ids   == 1 .. MaxSdu        \* upper_layer_id of an SDU, in order of submission
Units == 0 .. MaxLen - 1    \* offsets in an SDU

NoSn == -1

\* (x + 1) % sn_modulus and (x - 1 + sn_modulus) % sn_modulus, for x in SN
SuccNoWrap(x) == x + 1    \* mutant: forgets the modulus
Succ(x) == IF x + 1 = sn_modulus THEN 0 ELSE x + 1
Pred(x) == IF x = 0 THEN sn_modulus - 1 ELSE x - 1

\* (x + k) % sn_modulus, for x in SN and k in 0 .. sn_modulus
Plus(x, k) == IF x + k < sn_modulus THEN x + k ELSE x + k - sn_modulus

\* modulus_rx with base rx_next, modulus_tx with base tx_next_ack
Dist(base, a) == IF a >= base THEN a - base ELSE a - base + sn_modulus

\* A segment is the bytes so .. so + size - 1 of the SDU `id`; it is the first
\* one (is_first) when so = 0.
Segment == {s \in [id : Ids, so : Units, size : 1 .. MaxLen] : s.so + s.size <= MaxLen}

Bytes(seg) == seg.so .. seg.so + seg.size - 1

compute_pdu_header_size(seg) == IF seg.so = 0 THEN HDR_SIZE ELSE HDR_SIZE + SO_SIZE

PduSize(seg) == compute_pdu_header_size(seg) + seg.size

\* A data PDU on the air. `id` is not a field of the header: it stands for the
\* bytes of the payload, so that the model can tell whose bytes are delivered.
DataPdu ==
  {q \in [id : Ids, sn : SN, so : Units, size : 1 .. MaxLen, is_last : BOOLEAN, p : BOOLEAN] :
     q.so + q.size <= MaxLen}

\* A STATUS PDU: everything below ack_sn is acknowledged but the units in nack.
\* A NACK 'to the end of the SDU' (0xffff) holds every unit up to MaxLen - 1.
\* wraps marks a PDU with a NACK range that runs past the receive window.
StatusPdu == [ack_sn : SN, nack : SUBSET (SN \X Units), wraps : BOOLEAN]
=============================================================================
