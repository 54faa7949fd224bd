---------------------------- MODULE NrPdcpProofs -----------------------------
(***************************************************************************)
(* Proofs about a PDCP bearer, for every window size, every number of      *)
(* hyper frames, every RLC window not larger than PDCP's, and whatever is  *)
(* lost, late or re-established.                                           *)
(***************************************************************************)
EXTENDS NrPdcp, FiniteSetTheorems, WellFoundedInduction, TLAPS

-----------------------------------------------------------------------------
(***************************************************************************)
(* Numbers                                                                 *)
(***************************************************************************)

\* A set of natural numbers that is not empty has a smallest element.
LEMMA Smallest ==
  ASSUME NEW T \in SUBSET Nat, T # {}
  PROVE  \E m \in T : \A k \in T : m <= k
<1>1. PICK m \in T : \A k \in T : <<k, m>> \notin OpToRel(<, Nat)
  BY NatLessThanWellFounded, WFMin
<1>2. ASSUME NEW k \in T PROVE m <= k
  <2>1. ~(k < m)
    BY <1>1 DEF OpToRel
  <2> QED BY <2>1
<1> QED
  BY <1>2

\* Division with remainder.
LEMMA DivMod ==
  ASSUME NEW N \in Nat \ {0}, NEW c \in Nat
  PROVE  c = (c \div N) * N + (c % N) /\ c % N \in 0 .. N - 1 /\ c \div N \in Nat
BY SMT

\* A multiple of N strictly between -2N and 2N is -N, 0 or N.
LEMMA NearMultiple ==
  ASSUME NEW N \in Nat \ {0}, NEW k \in Int, k * N < 2 * N, k * N > -(2 * N)
  PROVE  k \in {-1, 0, 1}
<1>1. ~(k >= 2)
  <2> SUFFICES ASSUME k >= 2 PROVE FALSE
    OBVIOUS
  <2>1. (k - 2) * N >= 0
    BY SMT
  <2> QED BY <2>1, SMT
<1>2. ~(k <= -2)
  <2> SUFFICES ASSUME k <= -2 PROVE FALSE
    OBVIOUS
  <2>1. (-2 - k) * N >= 0
    BY SMT
  <2> QED BY <2>1, SMT
<1> QED
  BY <1>1, <1>2

\* What the assumptions say about the constants.
LEMMA Sizes ==
  /\ sn_modulus = 2 * W /\ sn_modulus \in Nat \ {0} /\ CountMod \in Nat \ {0}
  /\ W \in Nat \ {0} /\ L \in Nat /\ L <= W
  /\ MaxSend \in Nat /\ MaxSend < CountMod
  /\ Burst \in Nat /\ MaxLoss \in Nat /\ MaxReest \in Nat
<1>1. sn_modulus \in Nat \ {0}
  BY PdcpAssumption DEF sn_modulus
<1>2. CountMod \in Nat \ {0}
  BY <1>1, PdcpAssumption DEF CountMod
<1> QED
  BY <1>1, <1>2, PdcpAssumption DEF sn_modulus

\* A COUNT in the window around rx_deliv is the one inferred from its SN: the
\* window is closed below and open above, as the comparisons of the code are.
LEMMA CountInferred ==
  ASSUME rx_deliv \in Count, NEW c \in Count,
         rx_deliv - W <= c, c < rx_deliv + W
  PROVE  RcvdCount(c % sn_modulus) = c
<1> DEFINE N  == sn_modulus
           s  == c % N
           h  == c \div N
           ds == rx_deliv % N
           dh == rx_deliv \div N
<1>1. N \in Nat \ {0} /\ N = 2 * W /\ W \in Nat \ {0} /\ rx_deliv \in Nat /\ c \in Nat
  BY Sizes DEF Count
<1>2. c = h * N + s /\ s \in 0 .. N - 1 /\ h \in Nat
  BY <1>1, DivMod
<1>3. rx_deliv = dh * N + ds /\ ds \in 0 .. N - 1 /\ dh \in Nat
  BY <1>1, DivMod
<1> HIDE DEF s, h, ds, dh, N
<1>4. (h - dh) * N = (c - rx_deliv) - (s - ds)
  BY <1>1, <1>2, <1>3, SMT
<1>5. (h - dh) \in {-1, 0, 1}
  BY <1>1, <1>2, <1>3, <1>4, NearMultiple
<1>6. RcvdHfn(s) = h
  <2>1. CASE h - dh = 1
    <3>1. s < ds - W
      BY <1>1, <1>2, <1>3, <1>4, <2>1
    <3> QED BY <3>1, <2>1, <1>2, <1>3 DEF RcvdHfn, ds, dh, N
  <2>2. CASE h - dh = 0
    <3>1. ~(s < ds - W) /\ ~(s >= ds + W)
      BY <1>1, <1>2, <1>3, <1>4, <2>2
    <3> QED BY <3>1, <2>2, <1>2, <1>3 DEF RcvdHfn, ds, dh, N
  <2>3. CASE h - dh = -1
    <3>1. ~(s < ds - W) /\ s >= ds + W
      BY <1>1, <1>2, <1>3, <1>4, <2>3
    <3> QED BY <3>1, <2>3, <1>2, <1>3 DEF RcvdHfn, ds, dh, N
  <2> QED BY <2>1, <2>2, <2>3, <1>5
<1>7. RcvdCount(s) = c % CountMod
  BY <1>2, <1>6 DEF RcvdCount, N
<1>8. c % CountMod = c
  BY Sizes DEF Count
<1> QED
  BY <1>7, <1>8 DEF s, N

-----------------------------------------------------------------------------
(***************************************************************************)
(* The list of SDUs kept                                                   *)
(***************************************************************************)

\* FirstMissing is the end of the run of kept COUNTs that starts at c.
LEMMA RunOfCounts ==
  ASSUME NEW list \in SUBSET Kept, NEW c \in Count, NEW k, k = FirstMissing(list, c)
  PROVE  /\ k \in c .. CountMod
         /\ \A j \in c .. k - 1 : \E e \in list : e.count = j
         /\ \A e \in list : e.count # k
<1> DEFINE kept == {e.count : e \in list}
           T    == {j \in c .. CountMod : j \notin kept}
<1>1. c \in Nat /\ CountMod \in Nat /\ c <= CountMod
  BY Sizes DEF Count
<1>2. kept \subseteq Count
  BY DEF Kept
<1>3. CountMod \in T
  BY <1>1, <1>2 DEF Count
<1>4. T \in SUBSET Nat /\ T # {}
  BY <1>1, <1>3
<1>5. PICK m \in T : \A j \in T : m <= j
  <2> HIDE DEF T
  <2> QED BY <1>4, Smallest
<1>6. m \in c .. CountMod /\ m \notin kept
  BY <1>5
<1>7. c .. m - 1 \subseteq kept
  <2> SUFFICES ASSUME NEW j \in c .. m - 1, j \notin kept PROVE FALSE
    OBVIOUS
  <2>1. j \in T
    BY <1>1, <1>6
  <2> QED BY <2>1, <1>5, <1>1, <1>6
<1>8. k \in c .. CountMod /\ c .. k - 1 \subseteq kept /\ k \notin kept
  <2> HIDE DEF kept
  <2> QED BY <1>6, <1>7 DEF FirstMissing, kept
<1> QED
  BY <1>8

-----------------------------------------------------------------------------
(***************************************************************************)
(* The inductive invariant                                                 *)
(***************************************************************************)

\* What the receiver keeps: genuine COUNTs, one SDU for each, keys that do not go
\* down when COUNTs go up.
ListOk ==
  /\ \A e \in rx_list : /\ e.count = e.pdu.count
                        /\ e.pdu.key <= rx_key /\ e.pdu.key <= tx_key
                        /\ type # "DRB_AM" => e.pdu.key = rx_key
  /\ \A e, f \in rx_list : e.count = f.count => e = f
  /\ \A e, f \in rx_list : e.count < f.count => e.pdu.key <= f.pdu.key

\* What was delivered comes before what can still be.
LastOk ==
  /\ last.key <= rx_key /\ last.key <= tx_key
  /\ \A e \in rx_list : last.key <= e.pdu.key
  /\ \/ last = NoSdu
     \/ type # "DRB_AM" /\ last.key < rx_key
     \/ last.count < rx_deliv

\* The numbers of the two ends can be compared, unless only the sender was reset.
Comparable == type = "DRB_AM" \/ tx_key <= rx_key

\* The receiver is never a window ahead of a PDU that may still arrive.
LinkOk ==
  /\ Comparable => rx_next <= tx_next /\ \A q \in air : rx_next <= q.count + L
  /\ type # "DRB_AM" /\ tx_key < rx_key => rx_next = 0
  /\ type = "DRB_AM" => \A e \in rx_list, q \in air : e.pdu.key < q.key => e.count < q.count

\* The part that does not depend on the COUNTs inferred.
AirOk ==
  /\ IsFiniteSet(air)
  /\ \A q \in air : q.key = tx_key /\ q.count < tx_next
  /\ tx_key <= rx_key + 1 /\ rx_key <= tx_key + 1
  /\ type = "SRB" => has_integrity

Steady == ListOk /\ LastOk /\ LinkOk /\ ~misordered

PdcpInv == PdcpTypeOK /\ AirOk /\ TimerGuardsGap /\ (inStep => Steady)

\* It holds at the start, where nothing was sent.
LEMMA PdcpInitially == Init => PdcpInv
<1> SUFFICES ASSUME Init PROVE PdcpInv
  OBVIOUS
<1>1. PdcpTypeOK
  <2>1. 0 \in Count /\ 0 \in Keys /\ 0 \in 0 .. MaxSend /\ 0 \in 0 .. Burst /\ 0 \in 0 .. MaxLoss
    BY Sizes DEF Count, Keys
  <2> QED BY <2>1, Zenon DEF Init, PdcpTypeOK
<1>2. AirOk
  <2>1. IsFiniteSet(air) /\ \A q \in air : q.key = tx_key /\ q.count < tx_next
    BY FS_EmptySet DEF Init
  <2>2. tx_key <= rx_key + 1 /\ rx_key <= tx_key + 1
    BY DEF Init
  <2>3. type = "SRB" => has_integrity
    BY Zenon DEF Init
  <2> QED BY <2>1, <2>2, <2>3, Zenon DEF AirOk
<1>3. TimerGuardsGap
  BY DEF Init, TimerGuardsGap
<1>4. Steady
  BY Sizes DEF Init, Steady, ListOk, LastOk, LinkOk, NoSdu
<1> QED
  BY <1>1, <1>2, <1>3, <1>4 DEF PdcpInv

-----------------------------------------------------------------------------
(***************************************************************************)
(* Delivery                                                                *)
(***************************************************************************)

\* A delivery changes the outcome to one of its type.
LEMMA DeliverTypes ==
  ASSUME NEW batch \in SUBSET Kept, last \in Pdu \cup {NoSdu}, misordered \in BOOLEAN,
         DeliverSdus(batch)
  PROVE  last' \in Pdu \cup {NoSdu} /\ misordered' \in BOOLEAN
<1>1. last' \in Pdu \cup {NoSdu}
  BY DEF DeliverSdus, Kept
<1>2. misordered' \in BOOLEAN
  BY Zenon DEF DeliverSdus
<1> QED
  BY <1>1, <1>2

\* A batch of genuine SDUs that all come after the last one goes up in order, and
\* its highest becomes the last.
LEMMA DeliverInOrder ==
  ASSUME NEW batch \in SUBSET Kept, last \in Pdu \cup {NoSdu}, ~misordered,
         \A e \in batch : e.count = e.pdu.count /\ Before(last, e.pdu),
         \A e, f \in batch : e.count < f.count => e.pdu.key <= f.pdu.key,
         DeliverSdus(batch)
  PROVE  /\ ~misordered'
         /\ \/ batch = {} /\ last' = last
            \/ \E e \in batch : last' = e.pdu /\ \A f \in batch : f.count <= e.count
<1>1. \A e, f \in batch : e.count < f.count => Before(e.pdu, f.pdu)
  <2> SUFFICES ASSUME NEW e \in batch, NEW f \in batch, e.count < f.count
               PROVE  Before(e.pdu, f.pdu)
    OBVIOUS
  <2>1. e.pdu.key \in Int /\ f.pdu.key \in Int
    BY Sizes DEF Kept, Pdu, Keys
  <2> QED BY <2>1 DEF Before
<1>2. ~misordered'
  BY <1>1, Zenon DEF DeliverSdus
<1>3. \/ batch = {} /\ last' = last
      \/ \E e \in batch : last' = e.pdu /\ \A f \in batch : f.count <= e.count
  BY Zenon DEF DeliverSdus
<1> QED
  BY <1>2, <1>3

\* What LastOk says is what an SDU needs to come after the last one.
LEMMA LastBeforeKept ==
  ASSUME PdcpTypeOK, NEW e \in Kept, LastOk, last.key <= e.pdu.key,
         e.count = e.pdu.count, rx_deliv <= e.count,
         type # "DRB_AM" => e.pdu.key = rx_key
  PROVE  Before(last, e.pdu)
<1>1. /\ e.pdu.key \in Nat /\ e.pdu.count \in Nat /\ rx_deliv \in Nat /\ rx_key \in Nat
      /\ last.key \in Int /\ last.count \in Nat
  BY Sizes DEF PdcpTypeOK, Kept, Pdu, Keys, Count, NoSdu
<1>2. CASE last = NoSdu
  BY <1>1, <1>2 DEF Before, NoSdu
<1>3. CASE type # "DRB_AM" /\ last.key < rx_key
  BY <1>1, <1>3 DEF Before
<1>4. CASE last.count < rx_deliv
  BY <1>1, <1>4 DEF Before
<1> QED
  BY <1>2, <1>3, <1>4 DEF LastOk

-----------------------------------------------------------------------------
(***************************************************************************)
(* Reception                                                               *)
(***************************************************************************)

\* Keeping an SDU, and what goes up with it, changes the state to one of its type.
LEMMA StoreTypes ==
  ASSUME PdcpTypeOK, NEW q \in Pdu, NEW count \in Count, StoreSdu(q, count),
         t_reordering => since < Burst
  PROVE  /\ rx_next' \in Count /\ rx_deliv' \in Count /\ rx_reord' \in Count
         /\ rx_list' \subseteq Kept /\ t_reordering' \in BOOLEAN /\ since' \in 0 .. Burst
         /\ last' \in Pdu \cup {NoSdu} /\ misordered' \in BOOLEAN
<1> DEFINE list  == rx_list \cup {[count |-> count, pdu |-> q]}
           deliv == IF count = rx_deliv THEN FirstMissing(list, count) ELSE rx_deliv
           batch == IF count = rx_deliv THEN {e \in list : e.count < deliv} ELSE {}
           run   == t_reordering /\ rx_deliv' < rx_reord
<1>1. /\ rx_next' = IF count >= rx_next THEN (count + 1) % CountMod ELSE rx_next
      /\ rx_deliv' = deliv % CountMod
      /\ rx_list' = list \ batch
      /\ DeliverSdus(batch)
      /\ StartReordering(run)
  BY Zenon DEF StoreSdu
<1>2. list \in SUBSET Kept
  BY DEF PdcpTypeOK, Kept
<1>3. deliv \in Nat
  <2>1. FirstMissing(list, count) \in count .. CountMod
    <3> HIDE DEF list
    <3> QED BY <1>2, RunOfCounts
  <2>2. rx_deliv \in Nat /\ count \in Nat
    BY Sizes DEF PdcpTypeOK, Count
  <2> QED BY <2>1, <2>2, Sizes
<1>4. rx_next' \in Count /\ rx_deliv' \in Count
  <2> HIDE DEF deliv
  <2>1. \A n \in Nat : n % CountMod \in Count
    BY Sizes DEF Count
  <2>2. count + 1 \in Nat
    BY Sizes DEF Count
  <2> QED BY <1>1, <1>3, <2>1, <2>2 DEF PdcpTypeOK
<1>5. batch \in SUBSET Kept /\ rx_list' \subseteq Kept
  BY <1>1, <1>2
<1>6. last' \in Pdu \cup {NoSdu} /\ misordered' \in BOOLEAN
  <2> HIDE DEF batch
  <2> QED BY <1>1, <1>5, DeliverTypes DEF PdcpTypeOK
<1>7. run \in BOOLEAN /\ (run => since < Burst)
  BY Zenon
<1>8. rx_reord' \in Count /\ t_reordering' \in BOOLEAN /\ since' \in 0 .. Burst
  <2> HIDE DEF run
  <2>1. rx_reord' \in Count /\ t_reordering' \in BOOLEAN
    BY <1>1, <1>4, <1>7, Zenon DEF StartReordering, PdcpTypeOK
  <2>2. since' \in {0, IF run THEN since + 1 ELSE 0}
    BY <1>1 DEF StartReordering
  <2>3. since' \in 0 .. Burst
    BY <2>2, <1>7, Sizes DEF PdcpTypeOK
  <2> QED BY <2>1, <2>3
<1> QED
  BY <1>4, <1>5, <1>6, <1>8

\* What the window of the receiver says about a PDU that arrives with its key.
LEMMA ArrivesInWindow ==
  ASSUME PdcpTypeOK, AirOk, TimerGuardsGap, inStep, Steady,
         NEW q \in air, q.key = rx_key, q.count < rx_deliv + W
  PROVE  RcvdCount(SnOf(q)) = q.count
<1>1. q \in Pdu /\ q.key = tx_key /\ Comparable
  BY Sizes DEF PdcpTypeOK, AirOk, Comparable, Keys
<1>2. rx_next <= q.count + L /\ rx_deliv <= rx_next
  BY <1>1 DEF Steady, LinkOk, TimerGuardsGap
<1>3. q.count \in Count /\ rx_deliv \in Count /\ rx_next \in Nat /\ rx_deliv \in Nat /\ q.count \in Nat
  BY <1>1, Sizes DEF Pdu, PdcpTypeOK, Count
<1>4. rx_deliv - W <= q.count
  BY <1>2, <1>3, Sizes
<1> QED
  BY <1>3, <1>4, CountInferred DEF SnOf

\* An SDU that is kept leaves the receiver in order: the timer guards the gap, what
\* is kept is genuine, and what went up went up in order.
LEMMA StoreKeeps ==
  ASSUME PdcpTypeOK, AirOk, TimerGuardsGap, Steady, inStep,
         NEW q \in air, q.key = rx_key, q.count >= rx_deliv,
         \A e \in rx_list : e.count # q.count,
         StoreSdu(q, q.count), \A r \in air : q.count < r.count + L,
         UNCHANGED <<config, txvars, rx_key>>, air' = air \ {q}
  PROVE  TimerGuardsGap' /\ Steady'
<1> DEFINE new   == [count |-> q.count, pdu |-> q]
           list  == rx_list \cup {new}
           deliv == IF q.count = rx_deliv THEN FirstMissing(list, q.count) ELSE rx_deliv
           batch == IF q.count = rx_deliv THEN {e \in list : e.count < deliv} ELSE {}
           run   == t_reordering /\ rx_deliv' < rx_reord
<1>1. /\ rx_next' = IF q.count >= rx_next THEN (q.count + 1) % CountMod ELSE rx_next
      /\ rx_deliv' = deliv % CountMod
      /\ rx_list' = list \ batch
      /\ DeliverSdus(batch)
      /\ StartReordering(run)
  BY Zenon DEF StoreSdu
<1>2. /\ q \in Pdu /\ q.count \in Count /\ q.count \in Nat /\ q.key \in Nat
      /\ q.key = tx_key /\ q.count < tx_next /\ Comparable
      /\ rx_next \in Nat /\ rx_deliv \in Nat /\ tx_next \in Nat /\ tx_next <= MaxSend
      /\ rx_key \in Nat /\ tx_key \in Nat /\ rx_reord \in Nat
  BY Sizes DEF PdcpTypeOK, AirOk, Comparable, Keys, Count, Pdu
<1>3. new \in Kept /\ list \in SUBSET Kept /\ new.count = q.count /\ new.pdu = q
  BY <1>2 DEF PdcpTypeOK, Kept
<1>4. \A e \in list : e.count \in Nat /\ e.pdu.count \in Nat /\ e.pdu.key \in Nat
  BY <1>3, Sizes DEF Kept, Pdu, Count, Keys
<1>5. rx_next <= tx_next /\ \A r \in air : rx_next <= r.count + L
  BY <1>2 DEF Steady, LinkOk
<1>6. rx_next' = IF q.count >= rx_next THEN q.count + 1 ELSE rx_next
  <2>1. (q.count + 1) % CountMod = q.count + 1
    BY <1>2, Sizes
  <2> QED BY <1>1, <2>1
<1>7. rx_next' \in Nat /\ rx_next' <= tx_next /\ rx_next <= rx_next' /\ q.count < rx_next'
  BY <1>2, <1>5, <1>6
<1>8. \A e \in list : rx_deliv <= e.count /\ e.count < rx_next'
  BY <1>2, <1>3, <1>4, <1>7 DEF TimerGuardsGap
<1>9. /\ deliv \in Nat /\ rx_deliv <= deliv /\ deliv <= rx_next'
      /\ \A e \in list \ batch : deliv < e.count
      /\ \A e \in batch : e.count < deliv
      /\ batch \subseteq list
  <2>1. CASE q.count = rx_deliv
    <3>0. deliv = FirstMissing(list, q.count)
      BY <2>1
    <3>1. deliv \in q.count .. CountMod /\ \A e \in list : e.count # deliv
      <4> HIDE DEF list, deliv
      <4> QED BY <1>2, <1>3, <3>0, RunOfCounts
    <3>2. \A j \in q.count .. deliv - 1 : \E e \in list : e.count = j
      <4> HIDE DEF list, deliv
      <4> QED BY <1>2, <1>3, <3>0, RunOfCounts
    <3>3. deliv \in Nat /\ q.count <= deliv
      BY <3>1, <1>2, Sizes
    <3>4. deliv <= rx_next'
      <4> SUFFICES ASSUME rx_next' < deliv PROVE FALSE
        BY <3>3, <1>7
      <4>1. PICK e \in list : e.count = rx_next'
        <5> HIDE DEF list, deliv
        <5> QED BY <3>2, <3>3, <1>2, <1>7
      <4> QED BY <4>1, <1>8, <1>7
    <3>5. batch = {e \in list : e.count < deliv}
      BY <2>1
    <3> HIDE DEF list, deliv, batch
    <3> QED BY <3>1, <3>3, <3>4, <3>5, <2>1, <1>4
  <2>2. CASE q.count # rx_deliv
    <3>1. deliv = rx_deliv /\ batch = {}
      BY <2>2
    <3>2. \A e \in list : rx_deliv < e.count
      BY <2>2, <1>2, <1>3 DEF TimerGuardsGap
    <3> HIDE DEF list, deliv, batch
    <3> QED BY <3>1, <3>2, <1>2, <1>7
  <2> QED BY <2>1, <2>2
<1> HIDE DEF deliv, batch, run
<1>10. rx_deliv' = deliv
  <2>1. deliv % CountMod = deliv
    BY <1>9, <1>7, <1>2, Sizes
  <2> QED BY <1>1, <2>1
<1>11. run <=> t_reordering /\ deliv < rx_reord
  BY <1>10, Zenon DEF run
<1>12. TimerGuardsGap'
  <2>1. CASE run
    <3>1. t_reordering' = TRUE /\ rx_reord' = rx_reord
      BY <2>1, <1>1, Zenon DEF StartReordering
    <3>2. deliv < rx_reord /\ rx_reord <= rx_next
      BY <2>1, <1>11 DEF TimerGuardsGap
    <3> QED BY <3>1, <3>2, <1>1, <1>2, <1>7, <1>8, <1>9, <1>10 DEF TimerGuardsGap
  <2>2. CASE ~run /\ deliv < rx_next'
    <3>1. t_reordering' = TRUE /\ rx_reord' = rx_next'
      BY <2>2, <1>1, <1>10, Zenon DEF StartReordering
    <3> QED BY <3>1, <2>2, <1>1, <1>2, <1>7, <1>8, <1>9, <1>10 DEF TimerGuardsGap
  <2>3. CASE ~run /\ ~(deliv < rx_next')
    <3>1. ~t_reordering'
      <4>1. t_reordering' = run
        BY <2>3, <1>1, <1>10, Zenon DEF StartReordering
      <4> QED BY <4>1, <2>3, Zenon
    <3>2. list \ batch = {}
      BY <2>3, <1>4, <1>7, <1>8, <1>9
    <3> QED BY <3>1, <3>2, <2>3, <1>1, <1>7, <1>9, <1>10 DEF TimerGuardsGap
  <2> QED BY <2>1, <2>2, <2>3
<1>13. /\ \A e \in list : /\ e.count = e.pdu.count
                          /\ e.pdu.key <= rx_key /\ e.pdu.key <= tx_key
                          /\ type # "DRB_AM" => e.pdu.key = rx_key
       /\ \A e, f \in list : e.count = f.count => e = f
       /\ \A e, f \in list : e.count < f.count => e.pdu.key <= f.pdu.key
  <2>1. \A e \in list : /\ e.count = e.pdu.count
                        /\ e.pdu.key <= rx_key /\ e.pdu.key <= tx_key
                        /\ type # "DRB_AM" => e.pdu.key = rx_key
    BY <1>2, <1>3 DEF Steady, ListOk
  <2>2. \A e, f \in list : e.count = f.count => e = f
    BY <1>3 DEF Steady, ListOk
  <2>3. ASSUME NEW e \in list, NEW f \in list, e.count < f.count
        PROVE  e.pdu.key <= f.pdu.key
    <3>1. CASE e \in rx_list /\ f \in rx_list
      BY <3>1, <2>3 DEF Steady, ListOk
    <3>2. CASE f = new
      BY <3>2, <2>1, <1>2, <1>3
    <3>3. CASE e = new /\ f \in rx_list
      <4>1. f.pdu.key = rx_key \/ (type = "DRB_AM" /\ ~(f.pdu.key < q.key))
        <5>1. type = "DRB_AM" /\ f.pdu.key < q.key => f.count < q.count
          BY <3>3 DEF Steady, LinkOk
        <5> QED BY <5>1, <3>3, <2>1, <2>3, <1>2, <1>3, <1>4
      <4> QED BY <4>1, <3>3, <1>2, <1>3, <1>4
    <3> QED BY <3>1, <3>2, <3>3
  <2> QED BY <2>1, <2>2, <2>3
<1>14. \A e \in list : last.key <= e.pdu.key
  BY <1>2, <1>3 DEF Steady, LastOk
<1>15. \A e \in list : Before(last, e.pdu)
  <2> SUFFICES ASSUME NEW e \in list PROVE Before(last, e.pdu)
    OBVIOUS
  <2>1. LastOk /\ e \in Kept
    BY <1>3 DEF Steady
  <2> HIDE DEF list
  <2> QED BY <2>1, <1>8, <1>13, <1>14, LastBeforeKept
<1>16. /\ ~misordered'
       /\ \/ batch = {} /\ last' = last
          \/ \E e \in batch : last' = e.pdu /\ \A f \in batch : f.count <= e.count
  <2>1. batch \in SUBSET Kept
    BY <1>3, <1>9
  <2>2. last \in Pdu \cup {NoSdu} /\ ~misordered
    BY DEF Steady, PdcpTypeOK
  <2>3. /\ \A e \in batch : e.count = e.pdu.count /\ Before(last, e.pdu)
        /\ \A e, f \in batch : e.count < f.count => e.pdu.key <= f.pdu.key
    BY <1>9, <1>13, <1>15
  <2> HIDE DEF list
  <2> QED BY <1>1, <2>1, <2>2, <2>3, DeliverInOrder
<1>17. ListOk'
  BY <1>1, <1>13 DEF ListOk, config, txvars
<1>18. LastOk'
  <2>1. CASE batch = {} /\ last' = last
    BY <2>1, <1>1, <1>2, <1>9, <1>10, <1>14, Sizes DEF LastOk, Steady, config, txvars, PdcpTypeOK, Pdu, NoSdu, Count
  <2>2. CASE \E e \in batch : last' = e.pdu /\ \A f \in batch : f.count <= e.count
    <3>1. PICK e \in batch : last' = e.pdu
      BY <2>2
    <3>2. e \in list /\ e.count < deliv /\ e.count = e.pdu.count
      BY <1>9, <1>13
    <3>3. \A f \in rx_list' : e.count < f.count
      BY <3>2, <1>1, <1>4, <1>9
    <3>4. \A f \in rx_list' : last'.key <= f.pdu.key
      BY <3>1, <3>2, <3>3, <1>1, <1>13
    <3>5. last'.key <= rx_key' /\ last'.key <= tx_key' /\ last'.count < rx_deliv'
      BY <3>1, <3>2, <1>10, <1>13 DEF txvars
    <3> QED BY <3>4, <3>5 DEF LastOk
  <2> QED BY <2>1, <2>2, <1>16
<1>19. LinkOk'
  <2>1. rx_next' <= tx_next' /\ \A r \in air' : rx_next' <= r.count + L
    <3>1. \A r \in air : r.count \in Nat
      BY Sizes DEF PdcpTypeOK, Pdu, Count
    <3> QED BY <3>1, <1>2, <1>5, <1>6, <1>7, Sizes DEF txvars
  <2>2. ~(tx_key' < rx_key')
    BY <1>2 DEF txvars
  <2>3. \A e \in rx_list', r \in air' : type = "DRB_AM" /\ e.pdu.key < r.key => e.count < r.count
    <3>1. \A r \in air' : r \in air /\ r.key = tx_key
      BY DEF AirOk
    <3> QED BY <3>1, <1>1, <1>2, <1>3 DEF Steady, LinkOk
  <2> QED BY <2>1, <2>2, <2>3 DEF LinkOk, Comparable, config, txvars
<1> QED
  BY <1>12, <1>16, <1>17, <1>18, <1>19 DEF Steady

\* Reception preserves the invariant, whether the PDU is kept or thrown away.
LEMMA ReceiveStep ==
  ASSUME PdcpInv, NEW q \in air, Receive(q)
  PROVE  PdcpInv'
<1> DEFINE count == RcvdCount(SnOf(q))
           thrown == \/ ~IntegrityOk(q, count)
                     \/ count < rx_deliv
                     \/ \E e \in rx_list : e.count = count
<1>1. /\ PdcpTypeOK /\ AirOk /\ TimerGuardsGap /\ (inStep => Steady)
      /\ q \in Pdu
  BY DEF PdcpInv, PdcpTypeOK
<1>2. /\ \A r \in air : q.count < r.count + L
      /\ \/ q.key = rx_key /\ losses' = losses
         \/ q.key # rx_key /\ type = "SRB" /\ losses < MaxLoss /\ losses' = losses + 1
      /\ t_reordering => since < Burst
      /\ air' = air \ {q}
      /\ inStep' = (inStep /\ (q.key = rx_key => q.count < rx_deliv + W))
      /\ RecvPdu(q)
      /\ UNCHANGED <<config, txvars, rx_key>>
  BY DEF Receive
<1>3. count \in Count
  <2>1. SnOf(q) \in Nat
    BY <1>1, Sizes DEF SnOf, Pdu, Count
  <2>2. rx_deliv \in Nat
    BY <1>1, Sizes DEF PdcpTypeOK, Count
  <2>3. rx_deliv \div sn_modulus \in Nat /\ rx_deliv % sn_modulus \in Nat
    BY <2>2, Sizes, DivMod
  <2>4. RcvdHfn(SnOf(q)) \in Int
    BY <2>1, <2>3 DEF RcvdHfn
  <2>5. RcvdHfn(SnOf(q)) * sn_modulus + SnOf(q) \in Int
    BY <2>1, <2>4, Sizes
  <2>6. \A n \in Int : n % CountMod \in Count
    BY Sizes DEF Count
  <2> QED BY <2>5, <2>6 DEF RcvdCount
<1> HIDE DEF count, thrown
<1>4. /\ thrown => UNCHANGED <<rxstate, outcome>>
      /\ ~thrown => StoreSdu(q, count)
  BY <1>2, Zenon DEF RecvPdu, thrown, count
<1>5. inStep' \in BOOLEAN /\ (inStep' => inStep)
  BY <1>1, <1>2, Zenon DEF PdcpTypeOK
<1>6. losses' \in 0 .. MaxLoss
  BY <1>1, <1>2, Sizes DEF PdcpTypeOK
<1>7. PdcpTypeOK'
  <2>1. /\ rx_next' \in Count /\ rx_deliv' \in Count /\ rx_reord' \in Count
        /\ rx_list' \subseteq Kept /\ t_reordering' \in BOOLEAN /\ since' \in 0 .. Burst
        /\ last' \in Pdu \cup {NoSdu} /\ misordered' \in BOOLEAN
    <3>1. CASE thrown
      BY <3>1, <1>1, <1>4, Zenon DEF PdcpTypeOK, rxstate, rxptrs, outcome
    <3>2. CASE ~thrown
      BY <3>2, <1>1, <1>2, <1>3, <1>4, StoreTypes
    <3> QED BY <3>1, <3>2
  <2>2. air' \subseteq Pdu
    BY <1>1, <1>2 DEF PdcpTypeOK
  <2> QED BY <2>1, <2>2, <1>1, <1>2, <1>5, <1>6, Zenon DEF PdcpTypeOK, config, txvars
<1>8. AirOk'
  <2>1. IsFiniteSet(air') /\ \A r \in air' : r.key = tx_key /\ r.count < tx_next
    BY <1>1, <1>2, FS_Subset DEF AirOk
  <2> QED BY <2>1, <1>1, <1>2, Zenon DEF AirOk, config, txvars
<1>9. ASSUME inStep' PROVE TimerGuardsGap' /\ Steady'
  <2>1. inStep /\ Steady
    BY <1>1, <1>5, <1>9
  <2>2. CASE thrown
    <3>1. UNCHANGED <<rxstate, outcome, config, txvars, rx_key>> /\ air' \subseteq air
      BY <2>2, <1>2, <1>4
    <3>2. TimerGuardsGap'
      BY <3>1, <2>1, <1>1 DEF TimerGuardsGap, rxstate, rxptrs
    <3>3. ListOk' /\ LastOk' /\ ~misordered'
      BY <3>1, <2>1 DEF Steady, ListOk, LastOk, rxstate, rxptrs, outcome, config, txvars
    <3>4. LinkOk'
      BY <3>1, <2>1 DEF Steady, LinkOk, Comparable, rxstate, rxptrs, config, txvars
    <3> QED BY <3>2, <3>3, <3>4 DEF Steady
  <2>3. CASE ~thrown
    <3>1. q.key = rx_key
      <4>1. type = "SRB" => has_integrity
        BY <1>1 DEF AirOk
      <4>2. ~has_integrity \/ q.key = rx_key
        BY <2>3, Zenon DEF thrown, IntegrityOk
      <4> QED BY <4>1, <4>2, <1>2, Zenon
    <3>2. q.count < rx_deliv + W
      BY <3>1, <1>2, <1>9, Zenon
    <3>3. count = q.count
      BY <3>1, <3>2, <2>1, <1>1, ArrivesInWindow DEF count
    <3>4. q.count >= rx_deliv /\ \A e \in rx_list : e.count # q.count
      <4>1. ~(count < rx_deliv) /\ ~\E e \in rx_list : e.count = count
        BY <2>3, Zenon DEF thrown
      <4>2. count \in Nat /\ rx_deliv \in Nat
        BY <1>1, <1>3, Sizes DEF PdcpTypeOK, Count
      <4> QED BY <4>1, <4>2, <3>3
    <3>5. StoreSdu(q, q.count)
      BY <2>3, <3>3, <1>4
    <3> QED BY <3>1, <3>4, <3>5, <2>1, <1>1, <1>2, StoreKeeps
  <2> QED BY <2>2, <2>3
<1> QED
  BY <1>7, <1>8, <1>9 DEF PdcpInv, TimerGuardsGap

-----------------------------------------------------------------------------
(***************************************************************************)
(* Expiry of t_reordering                                                  *)
(***************************************************************************)

\* The expiry preserves the invariant: it moves rx_deliv up to a COUNT that is
\* missing, at most to rx_next, and starts the timer again for what is still kept.
LEMMA ExpiryStep ==
  ASSUME PdcpInv, ReorderingExpires
  PROVE  PdcpInv'
<1> DEFINE deliv == FirstMissing(rx_list, rx_reord)
           batch == {e \in rx_list : e.count < deliv}
<1>1. /\ t_reordering
      /\ rx_deliv' = deliv % CountMod
      /\ rx_list' = rx_list \ batch
      /\ DeliverSdus(batch)
      /\ rx_next' = rx_next
      /\ StartReordering(FALSE)
      /\ UNCHANGED <<config, txvars, rx_key, air, losses, inStep>>
  BY Zenon DEF ReorderingExpires
<1>2. PdcpTypeOK /\ AirOk /\ TimerGuardsGap /\ (inStep => Steady)
  BY DEF PdcpInv
<1>3. /\ rx_list \in SUBSET Kept /\ rx_reord \in Count /\ rx_reord \in Nat
      /\ rx_next \in Count /\ rx_next \in Nat /\ rx_deliv \in Nat
      /\ \A e \in rx_list : e.count \in Nat
  BY <1>2, Sizes DEF PdcpTypeOK, Count, Kept
<1>4. /\ deliv \in rx_reord .. CountMod
      /\ \A j \in rx_reord .. deliv - 1 : \E e \in rx_list : e.count = j
      /\ \A e \in rx_list : e.count # deliv
  <2> HIDE DEF deliv
  <2>1. deliv = FirstMissing(rx_list, rx_reord)
    BY DEF deliv
  <2> QED BY <2>1, <1>3, RunOfCounts
<1> HIDE DEF deliv
<1>5. deliv \in Nat /\ rx_reord <= deliv /\ batch \in SUBSET Kept
  BY <1>3, <1>4, Sizes
<1>6. /\ \A e \in rx_list \ batch : deliv < e.count
      /\ \A e \in batch : e.count < deliv
  BY <1>3, <1>4, <1>5
<1>7. PdcpTypeOK'
  <2>1. rx_deliv' \in Count /\ rx_next' \in Count /\ rx_list' \subseteq Kept
    BY <1>1, <1>3, <1>5, Sizes DEF Count
  <2>2. last' \in Pdu \cup {NoSdu} /\ misordered' \in BOOLEAN
    <3> HIDE DEF batch
    <3> QED BY <1>1, <1>2, <1>5, DeliverTypes DEF PdcpTypeOK
  <2>3. rx_reord' \in Count /\ t_reordering' \in BOOLEAN
    BY <1>1, <1>3, <2>1, Zenon DEF StartReordering
  <2>4. since' \in 0 .. Burst
    <3>1. since' = 0
      BY <1>1, Zenon DEF StartReordering
    <3> QED BY <3>1, Sizes
  <2> QED BY <2>1, <2>2, <2>3, <2>4, <1>1, <1>2, Zenon DEF PdcpTypeOK, config, txvars
<1>8. AirOk'
  BY <1>1, <1>2, Zenon DEF AirOk, config, txvars
<1>9. ASSUME inStep PROVE TimerGuardsGap' /\ Steady'
  <2>1. /\ Steady /\ rx_deliv < rx_reord /\ rx_reord <= rx_next
        /\ \A e \in rx_list : rx_deliv < e.count /\ e.count < rx_next
    BY <1>1, <1>2, <1>9 DEF TimerGuardsGap
  <2>2. deliv <= rx_next
    <3> SUFFICES ASSUME rx_next < deliv PROVE FALSE
      BY <1>3, <1>5
    <3>1. PICK e \in rx_list : e.count = rx_next
      BY <1>3, <1>4, <1>5, <2>1
    <3> QED BY <3>1, <2>1, <1>3
  <2>3. rx_deliv' = deliv
    <3>1. deliv % CountMod = deliv
      BY <2>2, <1>3, <1>5, Sizes DEF Count
    <3> QED BY <3>1, <1>1
  <2>4. TimerGuardsGap'
    <3>1. CASE deliv < rx_next
      <4>1. t_reordering' = TRUE /\ rx_reord' = rx_next
        BY <3>1, <2>3, <1>1, Zenon DEF StartReordering
      <4>2. \A e \in rx_list' : rx_deliv' < e.count /\ e.count < rx_next'
        BY <2>1, <2>3, <1>1, <1>6
      <4> QED BY <4>1, <4>2, <3>1, <2>3, <1>1, <1>3 DEF TimerGuardsGap
    <3>2. CASE ~(deliv < rx_next)
      <4>1. ~t_reordering'
        BY <3>2, <2>3, <1>1, Zenon DEF StartReordering
      <4>2. rx_list \ batch = {}
        BY <3>2, <2>1, <1>3, <1>5, <1>6
      <4> QED BY <4>1, <4>2, <3>2, <2>2, <2>3, <1>1, <1>3, <1>5 DEF TimerGuardsGap
    <3> QED BY <3>1, <3>2
  <2>5. \A e \in rx_list : Before(last, e.pdu)
    <3> SUFFICES ASSUME NEW e \in rx_list PROVE Before(last, e.pdu)
      OBVIOUS
    <3>1. /\ e \in Kept /\ LastOk /\ last.key <= e.pdu.key /\ e.count = e.pdu.count
          /\ rx_deliv <= e.count
          /\ type # "DRB_AM" => e.pdu.key = rx_key
      BY <2>1, <1>3 DEF Steady, ListOk, LastOk
    <3> QED BY <3>1, <1>2, LastBeforeKept
  <2>6. /\ ~misordered'
        /\ \/ batch = {} /\ last' = last
           \/ \E e \in batch : last' = e.pdu /\ \A f \in batch : f.count <= e.count
    <3>1. last \in Pdu \cup {NoSdu} /\ ~misordered
      BY <2>1, <1>2 DEF Steady, PdcpTypeOK
    <3>2. /\ \A e \in batch : e.count = e.pdu.count /\ Before(last, e.pdu)
          /\ \A e, f \in batch : e.count < f.count => e.pdu.key <= f.pdu.key
      BY <2>1, <2>5 DEF Steady, ListOk
    <3> HIDE DEF batch
    <3> QED BY <3>1, <3>2, <1>1, <1>5, DeliverInOrder
  <2>7. ListOk'
    BY <1>1, <2>1 DEF Steady, ListOk, config, txvars
  <2>8. LastOk'
    <3>1. CASE batch = {} /\ last' = last
      <4>1. last.count \in Nat
        BY <1>2, Sizes DEF PdcpTypeOK, Pdu, Count, NoSdu
      <4> QED BY <4>1, <3>1, <2>1, <2>3, <1>1, <1>3, <1>5 DEF Steady, LastOk, config, txvars
    <3>2. CASE \E e \in batch : last' = e.pdu /\ \A f \in batch : f.count <= e.count
      <4>1. PICK e \in batch : last' = e.pdu
        BY <3>2
      <4>2. /\ e \in rx_list /\ e.count < deliv /\ e.count = e.pdu.count
            /\ e.pdu.key <= rx_key /\ e.pdu.key <= tx_key
        BY <2>1, <1>6 DEF Steady, ListOk
      <4>3. \A f \in rx_list' : f \in rx_list /\ e.count < f.count
        BY <4>2, <1>1, <1>3, <1>5, <1>6
      <4>4. \A f \in rx_list' : last'.key <= f.pdu.key
        BY <4>1, <4>2, <4>3, <2>1 DEF Steady, ListOk
      <4>5. last'.key <= rx_key' /\ last'.key <= tx_key' /\ last'.count < rx_deliv'
        BY <4>1, <4>2, <2>3, <1>1 DEF txvars
      <4> QED BY <4>4, <4>5 DEF LastOk
    <3> QED BY <3>1, <3>2, <2>6
  <2>9. LinkOk'
    BY <1>1, <2>1 DEF Steady, LinkOk, Comparable, config, txvars
  <2> QED BY <2>4, <2>6, <2>7, <2>8, <2>9 DEF Steady
<1>10. inStep' = inStep
  BY <1>1
<1> QED
  BY <1>7, <1>8, <1>9, <1>10 DEF PdcpInv, TimerGuardsGap

-----------------------------------------------------------------------------
(***************************************************************************)
(* The other steps                                                         *)
(***************************************************************************)

\* A new PDU has the highest COUNT and the sender's key.
LEMMA ProcessStep ==
  ASSUME PdcpInv, ProcessSdu
  PROVE  PdcpInv'
<1> DEFINE new == [key |-> tx_key, count |-> tx_next]
<1>1. /\ tx_next < MaxSend
      /\ air' = air \cup {new}
      /\ tx_next' = tx_next + 1
      /\ UNCHANGED <<config, tx_key, rxstate, rx_key, losses, outcome, inStep>>
  BY DEF ProcessSdu
<1>2. PdcpTypeOK /\ AirOk /\ TimerGuardsGap /\ (inStep => Steady)
  BY DEF PdcpInv
<1>3. tx_next \in Nat /\ tx_next \in Count /\ new \in Pdu
  BY <1>1, <1>2, Sizes DEF PdcpTypeOK, Count, Pdu
<1>4. PdcpTypeOK'
  <2>1. tx_next' \in 0 .. MaxSend /\ air' \subseteq Pdu
    BY <1>1, <1>2, <1>3, Sizes DEF PdcpTypeOK
  <2> QED BY <2>1, <1>1, <1>2, Zenon DEF PdcpTypeOK, config, rxstate, rxptrs, outcome
<1>5. AirOk'
  <2>1. IsFiniteSet(air')
    BY <1>1, <1>2, FS_AddElement DEF AirOk
  <2>2. \A q \in air' : q.key = tx_key' /\ q.count < tx_next'
    <3>1. \A q \in air : q.count \in Nat
      BY <1>2, Sizes DEF PdcpTypeOK, Pdu, Count
    <3> QED BY <3>1, <1>1, <1>2, <1>3 DEF AirOk
  <2> QED BY <2>1, <2>2, <1>1, <1>2, Zenon DEF AirOk, config
<1>6. TimerGuardsGap'
  BY <1>1, <1>2 DEF TimerGuardsGap, rxstate, rxptrs
<1>7. ASSUME inStep PROVE Steady'
  <2>1. Steady
    BY <1>2, <1>7
  <2>2. ListOk' /\ LastOk' /\ ~misordered'
    BY <2>1, <1>1 DEF Steady, ListOk, LastOk, config, rxstate, rxptrs, outcome
  <2>3. LinkOk'
    <3>1. rx_next \in Nat
      BY <1>2, Sizes DEF PdcpTypeOK, Count
    <3>2. Comparable => rx_next <= tx_next + 1 /\ rx_next <= new.count + L
      BY <2>1, <3>1, <1>3, Sizes DEF Steady, LinkOk
    <3>3. type = "DRB_AM" => \A e \in rx_list : e.count < new.count
      <4> SUFFICES ASSUME type = "DRB_AM", NEW e \in rx_list PROVE e.count < tx_next
        OBVIOUS
      <4>1. e.count < rx_next /\ rx_next <= tx_next
        BY <2>1, <1>2, <1>7 DEF TimerGuardsGap, Steady, LinkOk, Comparable
      <4>2. e.count \in Nat
        BY <1>2, Sizes DEF PdcpTypeOK, Kept, Count
      <4> QED BY <4>1, <4>2, <3>1, <1>3
    <3> HIDE DEF new
    <3> QED BY <3>2, <3>3, <2>1, <1>1 DEF Steady, LinkOk, Comparable, config, rxstate, rxptrs
  <2> QED BY <2>2, <2>3 DEF Steady
<1>8. inStep' = inStep
  BY <1>1
<1> QED
  BY <1>4, <1>5, <1>6, <1>7, <1>8 DEF PdcpInv

\* A PDU less.
LEMMA LoseStep ==
  ASSUME PdcpInv, LosePdu
  PROVE  PdcpInv'
<1>1. /\ air' \subseteq air /\ losses < MaxLoss /\ losses' = losses + 1
      /\ UNCHANGED <<config, txvars, rxstate, rx_key, outcome, inStep>>
  BY DEF LosePdu
<1>2. PdcpTypeOK /\ AirOk /\ TimerGuardsGap /\ (inStep => Steady)
  BY DEF PdcpInv
<1>3. PdcpTypeOK'
  <2>1. losses' \in 0 .. MaxLoss
    BY <1>1, <1>2, Sizes DEF PdcpTypeOK
  <2>2. air' \subseteq Pdu
    BY <1>1, <1>2 DEF PdcpTypeOK
  <2> QED BY <2>1, <2>2, <1>1, <1>2, Zenon DEF PdcpTypeOK, config, txvars, rxstate, rxptrs, outcome
<1>4. AirOk'
  <2>1. IsFiniteSet(air') /\ \A q \in air' : q.key = tx_key /\ q.count < tx_next
    BY <1>1, <1>2, FS_Subset DEF AirOk
  <2> QED BY <2>1, <1>1, <1>2, Zenon DEF AirOk, config, txvars
<1>5. TimerGuardsGap'
  BY <1>1, <1>2 DEF TimerGuardsGap, rxstate, rxptrs
<1>6. ASSUME inStep PROVE Steady'
  <2>1. ListOk' /\ LastOk' /\ ~misordered'
    BY <1>1, <1>2, <1>6 DEF Steady, ListOk, LastOk, config, txvars, rxstate, rxptrs, outcome
  <2>2. LinkOk'
    BY <1>1, <1>2, <1>6 DEF Steady, LinkOk, Comparable, config, txvars, rxstate, rxptrs
  <2> QED BY <2>1, <2>2 DEF Steady
<1>7. inStep' = inStep
  BY <1>1
<1> QED
  BY <1>3, <1>4, <1>5, <1>6, <1>7 DEF PdcpInv

\* The sender starts again with a new key and nothing in the air.
LEMMA TxReestablishStep ==
  ASSUME PdcpInv, TxReestablish
  PROVE  PdcpInv'
<1>1. /\ tx_key < MaxReest /\ tx_key <= rx_key /\ tx_key' = tx_key + 1 /\ air' = {}
      /\ \/ /\ type = "DRB_AM" /\ tx_next' = tx_next
            /\ losses + Cardinality(air) <= MaxLoss /\ losses' = losses + Cardinality(air)
         \/ type # "DRB_AM" /\ tx_next' = 0 /\ losses' = losses
      /\ UNCHANGED <<config, rxstate, rx_key, outcome, inStep>>
  BY DEF TxReestablish
<1>2. PdcpTypeOK /\ AirOk /\ TimerGuardsGap /\ (inStep => Steady)
  BY DEF PdcpInv
<1>3. tx_key \in Nat /\ rx_key \in Nat /\ tx_next \in Nat /\ rx_next \in Nat
  BY <1>2, Sizes DEF PdcpTypeOK, Keys, Count
<1>4. PdcpTypeOK'
  <2>1. losses' \in 0 .. MaxLoss
    <3>1. Cardinality(air) \in Nat
      BY <1>2, FS_CardinalityType DEF AirOk
    <3> QED BY <3>1, <1>1, <1>2, Sizes DEF PdcpTypeOK
  <2>2. tx_key' \in Keys /\ tx_next' \in 0 .. MaxSend /\ air' \subseteq Pdu
    BY <1>1, <1>2, Sizes DEF PdcpTypeOK, Keys
  <2> QED BY <2>1, <2>2, <1>1, <1>2, Zenon DEF PdcpTypeOK, config, rxstate, rxptrs, outcome
<1>5. AirOk'
  <2>1. IsFiniteSet(air') /\ \A q \in air' : q.key = tx_key' /\ q.count < tx_next'
    BY <1>1, FS_EmptySet
  <2>2. tx_key' <= rx_key + 1 /\ rx_key <= tx_key' + 1
    BY <1>1, <1>2, <1>3 DEF AirOk
  <2> QED BY <2>1, <2>2, <1>1, <1>2, Zenon DEF AirOk, config
<1>6. TimerGuardsGap'
  BY <1>1, <1>2 DEF TimerGuardsGap, rxstate, rxptrs
<1>7. ASSUME inStep PROVE Steady'
  <2>1. Steady
    BY <1>2, <1>7
  <2>2. ListOk'
    <3>1. \A e \in rx_list : e.pdu.key \in Nat
      BY <1>2, Sizes DEF PdcpTypeOK, Kept, Pdu, Keys
    <3> QED BY <3>1, <2>1, <1>1, <1>3 DEF Steady, ListOk, config, rxstate
  <2>3. LastOk' /\ ~misordered'
    <3>1. last.key \in Int
      BY <1>2, Sizes DEF PdcpTypeOK, Pdu, Keys, NoSdu
    <3> QED BY <3>1, <2>1, <1>1, <1>3 DEF Steady, LastOk, config, rxstate, rxptrs, outcome
  <2>4. LinkOk'
    <3>1. CASE type = "DRB_AM"
      BY <3>1, <2>1, <1>1 DEF Steady, LinkOk, Comparable, config, rxstate, rxptrs
    <3>2. CASE type # "DRB_AM"
      <4>1. tx_key + 1 <= rx_key => rx_next = 0
        BY <3>2, <2>1, <1>3 DEF Steady, LinkOk
      <4>2. ~(tx_key + 1 < rx_key)
        BY <1>2, <1>3 DEF AirOk
      <4> QED BY <4>1, <4>2, <3>2, <1>1, <1>3 DEF LinkOk, Comparable, config, rxstate, rxptrs
    <3> QED BY <3>1, <3>2
  <2> QED BY <2>2, <2>3, <2>4 DEF Steady
<1>8. inStep' = inStep
  BY <1>1
<1> QED
  BY <1>4, <1>5, <1>6, <1>7, <1>8 DEF PdcpInv

\* The receiver starts again: what it kept went up in order or is thrown away, and
\* what went up has an older key.
LEMMA RxReestablishStep ==
  ASSUME PdcpInv, RxReestablish
  PROVE  PdcpInv'
<1>1. /\ rx_key < MaxReest /\ rx_key <= tx_key /\ rx_key' = rx_key + 1
      /\ UNCHANGED <<config, txvars, air, losses, inStep>>
  BY DEF RxReestablish
<1>2. PdcpTypeOK /\ AirOk /\ TimerGuardsGap /\ (inStep => Steady)
  BY DEF PdcpInv
<1>3. /\ tx_key \in Nat /\ rx_key \in Nat /\ tx_next \in Nat /\ last.key \in Int
      /\ rx_list \in SUBSET Kept /\ rx_deliv \in Nat
      /\ \A e \in rx_list : e.pdu.key \in Nat /\ e.count \in Nat
      /\ \A q \in air : q.count \in Nat
  BY <1>2, Sizes DEF PdcpTypeOK, Keys, Count, Kept, Pdu, NoSdu
<1>4. rx_key' \in Keys
  BY <1>1, <1>3, Sizes DEF Keys
<1>5. AirOk'
  <2>1. tx_key <= rx_key' + 1 /\ rx_key' <= tx_key + 1
    BY <1>1, <1>2, <1>3 DEF AirOk
  <2> QED BY <2>1, <1>1, <1>2, Zenon DEF AirOk, config, txvars
<1>6. CASE type = "DRB_AM"
  <2>1. UNCHANGED <<rxstate, outcome>>
    BY <1>6, Zenon DEF RxReestablish
  <2>2. PdcpTypeOK'
    BY <2>1, <1>1, <1>2, <1>4, Zenon DEF PdcpTypeOK, config, txvars, rxstate, rxptrs, outcome
  <2>3. TimerGuardsGap'
    BY <2>1, <1>1, <1>2 DEF TimerGuardsGap, rxstate, rxptrs
  <2>4. ASSUME inStep PROVE Steady'
    <3>1. Steady
      BY <1>2, <2>4
    <3>2. ListOk' /\ LastOk' /\ ~misordered'
      BY <3>1, <2>1, <1>1, <1>3, <1>6 DEF Steady, ListOk, LastOk, config, txvars, rxstate, rxptrs, outcome
    <3>3. LinkOk'
      BY <3>1, <2>1, <1>1, <1>6 DEF Steady, LinkOk, Comparable, config, txvars, rxstate, rxptrs
    <3> QED BY <3>2, <3>3 DEF Steady
  <2> QED BY <2>2, <2>3, <2>4, <1>1, <1>5 DEF PdcpInv
<1>7. CASE type # "DRB_AM"
  <2>1. /\ IF type = "DRB_UM" /\ t_reordering THEN DeliverSdus(rx_list) ELSE UNCHANGED outcome
        /\ rx_list' = IF type = "SRB" \/ t_reordering THEN {} ELSE rx_list
        /\ rx_next' = 0 /\ rx_deliv' = 0 /\ rx_reord' = rx_reord
        /\ t_reordering' = FALSE /\ since' = 0
    BY <1>7, Zenon DEF RxReestablish
  <2>2. PdcpTypeOK'
    <3>1. 0 \in Count /\ 0 \in 0 .. Burst
      BY Sizes DEF Count
    <3>2. rx_list' \subseteq Kept
      BY <2>1, <1>3
    <3>3. last' \in Pdu \cup {NoSdu} /\ misordered' \in BOOLEAN
      <4>1. CASE type = "DRB_UM" /\ t_reordering
        BY <4>1, <2>1, <1>2, <1>3, DeliverTypes DEF PdcpTypeOK
      <4>2. CASE ~(type = "DRB_UM" /\ t_reordering)
        BY <4>2, <2>1, <1>2, Zenon DEF PdcpTypeOK, outcome
      <4> QED BY <4>1, <4>2
    <3> QED BY <3>1, <3>2, <3>3, <2>1, <1>1, <1>2, <1>4, Zenon DEF PdcpTypeOK, config, txvars
  <2>3. ASSUME inStep PROVE TimerGuardsGap' /\ Steady'
    <3>1. Steady
      BY <1>2, <2>3
    <3>2. rx_list' = {}
      <4>1. ~t_reordering => rx_list = {}
        <5> SUFFICES ASSUME ~t_reordering, NEW e \in rx_list PROVE FALSE
          OBVIOUS
        <5>1. rx_deliv < e.count /\ e.count < rx_next /\ ~(rx_deliv < rx_next)
          BY <1>2, <2>3 DEF TimerGuardsGap
        <5>2. rx_next \in Nat
          BY <1>2, Sizes DEF PdcpTypeOK, Count
        <5> QED BY <5>1, <5>2, <1>3
      <4> QED BY <4>1, <2>1
    <3>3. TimerGuardsGap'
      BY <3>2, <2>1 DEF TimerGuardsGap
    <3>4. ~misordered' /\ last'.key <= rx_key /\ last'.key <= tx_key
      <4>1. CASE type = "DRB_UM" /\ t_reordering
        <5>1. \A e \in rx_list : Before(last, e.pdu)
          <6> SUFFICES ASSUME NEW e \in rx_list PROVE Before(last, e.pdu)
            OBVIOUS
          <6>1. /\ e \in Kept /\ LastOk /\ last.key <= e.pdu.key /\ e.count = e.pdu.count
                /\ type # "DRB_AM" => e.pdu.key = rx_key
            BY <3>1, <1>3 DEF Steady, ListOk, LastOk
          <6>2. rx_deliv <= e.count
            BY <1>2, <1>3, <2>3 DEF TimerGuardsGap
          <6> QED BY <6>1, <6>2, <1>2, LastBeforeKept
        <5>2. /\ last \in Pdu \cup {NoSdu} /\ ~misordered
              /\ \A e \in rx_list : e.count = e.pdu.count
              /\ \A e, f \in rx_list : e.count < f.count => e.pdu.key <= f.pdu.key
          BY <3>1, <1>2 DEF Steady, ListOk, PdcpTypeOK
        <5>3. /\ ~misordered'
              /\ \/ rx_list = {} /\ last' = last
                 \/ \E e \in rx_list : last' = e.pdu /\ \A f \in rx_list : f.count <= e.count
          BY <5>1, <5>2, <4>1, <2>1, <1>3, DeliverInOrder
        <5> QED BY <5>3, <3>1 DEF Steady, ListOk, LastOk
      <4>2. CASE ~(type = "DRB_UM" /\ t_reordering)
        BY <4>2, <3>1, <2>1 DEF Steady, LastOk, outcome
      <4> QED BY <4>1, <4>2
    <3>5. ListOk'
      BY <3>2 DEF ListOk
    <3>6. LastOk'
      <4>1. last'.key \in Int
        BY <2>2, Sizes DEF PdcpTypeOK, Pdu, Keys, NoSdu
      <4> QED BY <4>1, <3>2, <3>4, <1>1, <1>3, <1>7 DEF LastOk, config, txvars
    <3>7. LinkOk'
      BY <3>2, <2>1, <1>1, <1>3, <1>7, Sizes DEF LinkOk, config, txvars
    <3> QED BY <3>3, <3>4, <3>5, <3>6, <3>7 DEF Steady
  <2> QED BY <2>2, <2>3, <1>1, <1>5 DEF PdcpInv, TimerGuardsGap
<1> QED
  BY <1>6, <1>7

-----------------------------------------------------------------------------
(***************************************************************************)
(* The theorems                                                            *)
(***************************************************************************)

\* Every step of the bearer preserves the invariant.
LEMMA PdcpStep == PdcpInv /\ [Next]_vars => PdcpInv'
<1> SUFFICES ASSUME PdcpInv, [Next]_vars PROVE PdcpInv'
  OBVIOUS
<1>1. CASE ProcessSdu
  BY <1>1, ProcessStep
<1>2. ASSUME NEW q \in air, Receive(q) PROVE PdcpInv'
  BY <1>2, ReceiveStep
<1>3. CASE ReorderingExpires
  BY <1>3, ExpiryStep
<1>4. CASE LosePdu
  BY <1>4, LoseStep
<1>5. CASE TxReestablish
  BY <1>5, TxReestablishStep
<1>6. CASE RxReestablish
  BY <1>6, RxReestablishStep
<1>7. CASE UNCHANGED vars
  BY <1>7 DEF vars, config, txvars, rxptrs, rxstate, outcome, PdcpInv, PdcpTypeOK, AirOk,
              TimerGuardsGap, Steady, ListOk, LastOk, LinkOk, Comparable
<1> QED
  BY <1>1, <1>2, <1>3, <1>4, <1>5, <1>6, <1>7 DEF Next

\* The inductive invariant of a PDCP bearer.
THEOREM PdcpInvariant == Spec => []PdcpInv
BY PdcpInitially, PdcpStep, PTL DEF Spec

\* Every variable keeps its type; counters keep their 32 bits.
THEOREM PdcpTypes == Spec => []PdcpTypeOK
<1>1. PdcpInv => PdcpTypeOK
  BY DEF PdcpInv
<1> QED
  BY <1>1, PdcpInvariant, PTL

\* The reordering timer runs exactly while a COUNT is missing.
THEOREM PdcpTimer == Spec => []TimerGuardsGap
<1>1. PdcpInv => TimerGuardsGap
  BY DEF PdcpInv
<1> QED
  BY <1>1, PdcpInvariant, PTL

\* The COUNT of every SDU kept is the one its sender gave it.
THEOREM PdcpCounts == Spec => []CountAgrees
<1>1. PdcpInv => CountAgrees
  BY DEF PdcpInv, Steady, ListOk, CountAgrees
<1> QED
  BY <1>1, PdcpInvariant, PTL

\* SDUs go up in order and at most once.
THEOREM PdcpOrder == Spec => []InOrder
<1>1. PdcpInv => InOrder
  BY DEF PdcpInv, Steady, InOrder
<1> QED
  BY <1>1, PdcpInvariant, PTL

-----------------------------------------------------------------------------
(***************************************************************************)
(* The receiver keeps in step                                              *)
(*                                                                         *)
(* A PDU is ahead of rx_deliv by what was kept since, what was lost, and   *)
(* what RLC still owes.  While the timer runs at most Burst PDUs arrive,   *)
(* and when it is started again what is kept already arrived during the    *)
(* run before: hence twice Burst, and not once.                            *)
(***************************************************************************)
ShortBursts == L + MaxLoss + (IF Burst = 0 THEN 0 ELSE 2 * Burst - 1) <= W

\* Both ends use the same numbering.
Same == type = "DRB_AM" \/ tx_key = rx_key

\* The COUNTs sent that the receiver still waits for, and that nobody has.
Sent == IF Same THEN rx_deliv .. tx_next - 1 ELSE 0 .. tx_next - 1
Gone == {c \in Sent : /\ \A q \in air : q.count # c
                      /\ Same => \A e \in rx_list : e.count # c}

LostOk == type = "DRB_AM" \/ rx_key <= tx_key => Cardinality(Gone) <= losses

\* What is kept when the timer is started.
First == IF Burst = 0 THEN 1 ELSE Burst
Fresh == {e \in rx_list : e.count >= rx_reord}

KeptOk ==
  /\ IsFiniteSet(rx_list)
  /\ t_reordering => /\ Cardinality(rx_list) <= First + since
                     /\ Cardinality(Fresh) <= since

InStepInv == PdcpInv /\ inStep /\ LostOk /\ KeptOk

\* A part of a set with one element more.
LEMMA OneMore ==
  ASSUME NEW S, IsFiniteSet(S), NEW x, NEW T \in SUBSET (S \cup {x})
  PROVE  /\ IsFiniteSet(T) /\ Cardinality(T) \in Nat /\ Cardinality(S) \in Nat
         /\ Cardinality(T) <= Cardinality(S) + 1
<1>1. IsFiniteSet(S \cup {x}) /\ Cardinality(S \cup {x}) <= Cardinality(S) + 1
  <2>1. Cardinality(S) \in Nat
    BY FS_CardinalityType
  <2> QED BY <2>1, FS_AddElement
<1>2. IsFiniteSet(T) /\ Cardinality(T) <= Cardinality(S \cup {x})
  BY <1>1, FS_Subset
<1>3. Cardinality(S) \in Nat /\ Cardinality(T) \in Nat /\ Cardinality(S \cup {x}) \in Nat
  BY <1>1, <1>2, FS_CardinalityType
<1> QED
  BY <1>1, <1>2, <1>3

\* A part of a set.
LEMMA NoMore ==
  ASSUME NEW S, IsFiniteSet(S), NEW T \in SUBSET S
  PROVE  /\ IsFiniteSet(T) /\ Cardinality(T) \in Nat /\ Cardinality(S) \in Nat
         /\ Cardinality(T) <= Cardinality(S)
BY FS_Subset, FS_CardinalityType

\* PDUs or SDUs have at most as many COUNTs as there are of them.
LEMMA CountsOf ==
  ASSUME NEW S, IsFiniteSet(S)
  PROVE  /\ IsFiniteSet({e.count : e \in S})
         /\ Cardinality({e.count : e \in S}) <= Cardinality(S)
<1> DEFINE T == {e.count : e \in S}
           f == [e \in S |-> e.count]
<1>1. f \in Surjection(S, T)
  BY DEF Surjection
<1> HIDE DEF f, T
<1>2. IsFiniteSet(T) /\ Cardinality(T) <= Cardinality(S)
  BY <1>1, FS_Surjection
<1> QED
  BY <1>2 DEF T

\* Two finite sets have at most as many elements together as each by itself.
LEMMA UnionOf ==
  ASSUME NEW S, IsFiniteSet(S), NEW T, IsFiniteSet(T)
  PROVE  /\ IsFiniteSet(S \cup T)
         /\ Cardinality(S) \in Nat /\ Cardinality(T) \in Nat /\ Cardinality(S \cup T) \in Nat
         /\ Cardinality(S \cup T) <= Cardinality(S) + Cardinality(T)
<1>1. /\ IsFiniteSet(S \cup T)
      /\ Cardinality(S \cup T) = Cardinality(S) + Cardinality(T) - Cardinality(S \cap T)
  BY FS_Union
<1>2. IsFiniteSet(S \cap T)
  BY FS_Intersection
<1>3. /\ Cardinality(S) \in Nat /\ Cardinality(T) \in Nat
      /\ Cardinality(S \cap T) \in Nat /\ Cardinality(S \cup T) \in Nat
  BY <1>1, <1>2, FS_CardinalityType
<1> QED
  BY <1>1, <1>3

\* What nobody has is finite.
LEMMA GoneFinite ==
  ASSUME PdcpTypeOK
  PROVE  IsFiniteSet(Gone) /\ Cardinality(Gone) \in Nat
<1>1. rx_deliv \in Int /\ tx_next - 1 \in Int
  BY Sizes DEF PdcpTypeOK, Count
<1>2. IsFiniteSet(Sent)
  BY <1>1, FS_Interval DEF Sent
<1>3. Gone \in SUBSET Sent
  BY DEF Gone
<1> QED
  BY <1>2, <1>3, NoMore

\* Without the timer nothing is kept.
LEMMA KeptNeedsTimer ==
  ASSUME PdcpTypeOK, TimerGuardsGap, inStep, ~t_reordering
  PROVE  rx_list = {}
<1> SUFFICES ASSUME NEW e \in rx_list PROVE FALSE
  OBVIOUS
<1>1. rx_deliv < e.count /\ e.count < rx_next /\ ~(rx_deliv < rx_next)
  BY DEF TimerGuardsGap
<1>2. rx_next \in Nat /\ rx_deliv \in Nat /\ e.count \in Nat
  BY Sizes DEF PdcpTypeOK, Count, Kept
<1> QED
  BY <1>1, <1>2

\* A PDU that arrives is less than a window ahead of rx_deliv.
LEMMA ArrivalInStep ==
  ASSUME ShortBursts, InStepInv, NEW q \in air, Receive(q)
  PROVE  inStep'
<1>1. /\ PdcpTypeOK /\ AirOk /\ TimerGuardsGap /\ inStep /\ Steady /\ LostOk /\ KeptOk
      /\ q \in Pdu
  BY DEF InStepInv, PdcpInv, PdcpTypeOK
<1>2. /\ \A r \in air : q.count < r.count + L
      /\ t_reordering => since < Burst
      /\ inStep' = (inStep /\ (q.key = rx_key => q.count < rx_deliv + W))
  BY DEF Receive
<1>3. SUFFICES ASSUME q.key = rx_key, q.count >= rx_deliv + W PROVE FALSE
  <2>1. q.count \in Nat /\ rx_deliv + W \in Nat
    BY <1>1, Sizes DEF Pdu, Count, PdcpTypeOK
  <2>2. q.key = rx_key => q.count < rx_deliv + W
    BY <1>3, <2>1
  <2> QED BY <2>2, <1>1, <1>2
<1> DEFINE kept == {e.count : e \in rx_list}
           near == q.count - L + 1 .. q.count - 1
           hole == rx_deliv .. q.count - 1
<1>4. /\ Same /\ rx_key <= tx_key /\ q.count < tx_next
      /\ q.count \in Nat /\ rx_deliv \in Nat /\ tx_next \in Nat /\ since \in Nat
      /\ losses \in Nat /\ losses <= MaxLoss
  BY <1>1, <1>3, Sizes DEF AirOk, Same, Pdu, Keys, PdcpTypeOK, Count
<1>5. hole \subseteq (kept \cup Gone) \cup near
  <2> SUFFICES ASSUME NEW x \in hole, x \notin kept, x \notin Gone PROVE x \in near
    OBVIOUS
  <2>1. x \in Sent
    BY <1>4 DEF Sent
  <2>2. \A e \in rx_list : e.count # x
    OBVIOUS
  <2>3. PICK r \in air : r.count = x
    <3> HIDE DEF hole, kept
    <3> QED BY <2>1, <2>2 DEF Gone
  <2>4. q.count < x + L
    BY <2>3, <1>2
  <2> QED BY <2>4, <1>4, Sizes
<1>6. Cardinality(hole) = q.count - rx_deliv /\ q.count - rx_deliv >= W
  <2>1. rx_deliv <= q.count - 1 /\ q.count - rx_deliv >= W
    BY <1>3, <1>4, Sizes
  <2>2. Cardinality(hole) = q.count - 1 - rx_deliv + 1
    BY <2>1, <1>4, FS_Interval
  <2> QED BY <2>1, <2>2, <1>4
<1>7. IsFiniteSet(near) /\ Cardinality(near) = L - 1
  <2>1. q.count - L + 1 \in Int /\ q.count - 1 \in Int
    BY <1>4, Sizes
  <2>2. /\ IsFiniteSet(near)
        /\ Cardinality(near) = IF q.count - L + 1 > q.count - 1 THEN 0
                               ELSE (q.count - 1) - (q.count - L + 1) + 1
    BY <2>1, FS_Interval
  <2>3. L \in Nat /\ L >= 1
    BY PdcpAssumption
  <2> HIDE DEF near
  <2> QED BY <2>2, <2>3, <1>4
<1>8. IsFiniteSet(Gone) /\ Cardinality(Gone) \in Nat /\ Cardinality(Gone) <= MaxLoss
  BY <1>1, <1>4, GoneFinite, Sizes DEF LostOk
<1>9. /\ IsFiniteSet(kept) /\ Cardinality(kept) \in Nat
      /\ Cardinality(kept) <= IF Burst = 0 THEN 0 ELSE 2 * Burst - 1
  <2>1. /\ IsFiniteSet(rx_list) /\ Cardinality(rx_list) \in Nat
        /\ IsFiniteSet(kept) /\ Cardinality(kept) \in Nat
        /\ Cardinality(kept) <= Cardinality(rx_list)
    <3>1. IsFiniteSet(rx_list)
      BY <1>1 DEF KeptOk
    <3>2. IsFiniteSet(kept) /\ Cardinality(kept) <= Cardinality(rx_list)
      BY <3>1, CountsOf
    <3> HIDE DEF kept
    <3> QED BY <3>1, <3>2, FS_CardinalityType
  <2> HIDE DEF kept
  <2>2. CASE t_reordering
    <3>1. since < Burst /\ Cardinality(rx_list) <= First + since
      BY <2>2, <1>1, <1>2 DEF KeptOk
    <3> QED BY <3>1, <2>1, <1>4, Sizes DEF First
  <2>3. CASE ~t_reordering
    <3>1. Cardinality(rx_list) = 0
      BY <2>3, <1>1, KeptNeedsTimer, FS_EmptySet
    <3> QED BY <3>1, <2>1, Sizes
  <2> QED BY <2>2, <2>3
<1> HIDE DEF kept, near, hole
<1>10. /\ IsFiniteSet((kept \cup Gone) \cup near)
       /\ Cardinality((kept \cup Gone) \cup near) \in Nat
       /\ Cardinality((kept \cup Gone) \cup near)
            <= Cardinality(kept) + Cardinality(Gone) + Cardinality(near)
  <2>1. /\ IsFiniteSet(kept \cup Gone) /\ Cardinality(kept \cup Gone) \in Nat
        /\ Cardinality(kept \cup Gone) <= Cardinality(kept) + Cardinality(Gone)
    BY <1>8, <1>9, UnionOf
  <2>2. /\ IsFiniteSet((kept \cup Gone) \cup near)
        /\ Cardinality((kept \cup Gone) \cup near) \in Nat /\ Cardinality(near) \in Nat
        /\ Cardinality((kept \cup Gone) \cup near) <= Cardinality(kept \cup Gone) + Cardinality(near)
    BY <2>1, <1>7, UnionOf
  <2> QED BY <2>1, <2>2, <1>8, <1>9
<1>11. Cardinality(hole) <= Cardinality((kept \cup Gone) \cup near)
  BY <1>5, <1>10, FS_Subset
<1> QED
  BY <1>4, <1>6, <1>7, <1>8, <1>9, <1>10, <1>11, Sizes DEF ShortBursts

\* What happens to a COUNT that is kept: delivery goes up to the next one that is
\* missing, and what is left is above it.
LEMMA StoreMoves ==
  ASSUME PdcpTypeOK, AirOk, TimerGuardsGap, Steady, inStep,
         NEW q \in air, q.key = rx_key, q.count >= rx_deliv, StoreSdu(q, q.count)
  PROVE  /\ rx_list' \subseteq rx_list \cup {[count |-> q.count, pdu |-> q]}
         /\ \A e \in rx_list \cup {[count |-> q.count, pdu |-> q]} :
              e \in rx_list' \/ e.count < rx_deliv'
         /\ rx_deliv' \in Nat /\ rx_deliv <= rx_deliv'
         /\ rx_deliv' = rx_deliv \/ (q.count = rx_deliv /\ q.count < rx_deliv')
         /\ StartReordering(t_reordering /\ rx_deliv' < rx_reord)
<1> DEFINE new   == [count |-> q.count, pdu |-> q]
           list  == rx_list \cup {new}
           deliv == IF q.count = rx_deliv THEN FirstMissing(list, q.count) ELSE rx_deliv
           batch == IF q.count = rx_deliv THEN {e \in list : e.count < deliv} ELSE {}
           run   == t_reordering /\ rx_deliv' < rx_reord
<1>1. /\ rx_deliv' = deliv % CountMod
      /\ rx_list' = list \ batch
      /\ StartReordering(run)
  BY Zenon DEF StoreSdu
<1>2. /\ q \in Pdu /\ q.count \in Count /\ q.count \in Nat /\ q.count < tx_next /\ Comparable
      /\ rx_next \in Nat /\ rx_deliv \in Nat /\ tx_next \in Nat /\ tx_next <= MaxSend
      /\ rx_next <= tx_next /\ rx_deliv < CountMod
  BY Sizes DEF PdcpTypeOK, AirOk, Comparable, Keys, Count, Pdu, Steady, LinkOk
<1>3. list \in SUBSET Kept /\ new \in list /\ new.count = q.count
  BY <1>2 DEF PdcpTypeOK, Kept
<1>4. \A e \in list : e.count \in Nat /\ e.count < CountMod - 1
  <2>1. \A e \in rx_list : e.count < rx_next
    BY DEF TimerGuardsGap
  <2>2. \A e \in list : e.count \in Nat
    BY <1>3, Sizes DEF Kept, Count
  <2>3. \A e \in list : e.count < tx_next
    BY <2>1, <2>2, <1>2
  <2> HIDE DEF list
  <2> QED BY <2>2, <2>3, <1>2, Sizes
<1>5. q.count = rx_deliv => deliv \in Nat /\ q.count < deliv /\ deliv < CountMod
  <2> SUFFICES ASSUME q.count = rx_deliv PROVE deliv \in Nat /\ q.count < deliv /\ deliv < CountMod
    OBVIOUS
  <2>0. deliv = FirstMissing(list, q.count)
    OBVIOUS
  <2> HIDE DEF list, deliv, new
  <2>5. list \in SUBSET Kept /\ q.count \in Count
    BY <1>2, <1>3
  <2>6. deliv \in q.count .. CountMod
    BY <2>0, <2>5, RunOfCounts
  <2>1. deliv \in q.count .. CountMod /\ \A e \in list : e.count # deliv
    <3>1. \A e \in list : e.count # deliv
      BY <2>0, <2>5, RunOfCounts
    <3> QED BY <3>1, <2>6
  <2>4. \A j \in q.count .. deliv - 1 : \E e \in list : e.count = j
    BY <2>0, <1>2, <1>3, RunOfCounts
  <2>2. deliv \in Nat /\ q.count < deliv
    BY <2>1, <1>2, <1>3, Sizes
  <2>3. deliv # CountMod
    BY <2>1, <2>2, <2>4, <1>2, <1>4, Sizes
  <2> QED BY <2>1, <2>2, <2>3, <1>2, Sizes
<1>6. rx_deliv' = deliv
  <2>1. deliv \in Nat /\ deliv < CountMod
    BY <1>2, <1>5
  <2> HIDE DEF deliv
  <2>2. deliv % CountMod = deliv
    BY <2>1, Sizes
  <2> QED BY <2>2, <1>1
<1>7. \A e \in list : e \in list \ batch \/ e.count < deliv
  OBVIOUS
<1> QED
  BY <1>1, <1>2, <1>5, <1>6, <1>7

\* The bounds survive an SDU that is kept.
LEMMA StoreInStep ==
  ASSUME InStepInv, PdcpInv', inStep', NEW q \in air, q.key = rx_key, q.count >= rx_deliv,
         StoreSdu(q, q.count), t_reordering => since < Burst, air' = air \ {q},
         UNCHANGED <<config, txvars, rx_key, losses>>
  PROVE  LostOk' /\ KeptOk'
<1> DEFINE new == [count |-> q.count, pdu |-> q]
<1>1. /\ PdcpTypeOK /\ AirOk /\ TimerGuardsGap /\ inStep /\ Steady /\ LostOk /\ KeptOk
      /\ TimerGuardsGap' /\ PdcpTypeOK'
  BY DEF InStepInv, PdcpInv
<1>2. /\ rx_list' \subseteq rx_list \cup {new}
      /\ \A e \in rx_list \cup {new} : e \in rx_list' \/ e.count < rx_deliv'
      /\ rx_deliv' \in Nat /\ rx_deliv <= rx_deliv'
      /\ rx_deliv' = rx_deliv \/ (q.count = rx_deliv /\ q.count < rx_deliv')
      /\ StartReordering(t_reordering /\ rx_deliv' < rx_reord)
  BY <1>1, StoreMoves, Zenon
<1>3. /\ rx_deliv \in Nat /\ rx_reord \in Nat /\ rx_next' \in Nat /\ tx_next \in Nat
      /\ since \in Nat /\ since <= Burst /\ q.count \in Nat
      /\ \A e \in rx_list' : e.count \in Nat
      /\ tx_key = rx_key
  BY <1>1, Sizes DEF PdcpTypeOK, Count, Kept, Pdu, AirOk
<1>4. /\ IsFiniteSet(rx_list') /\ Cardinality(rx_list') \in Nat /\ Cardinality(rx_list) \in Nat
      /\ Cardinality(rx_list') <= Cardinality(rx_list) + 1
  <2>1. IsFiniteSet(rx_list)
    BY <1>1 DEF KeptOk
  <2> HIDE DEF new
  <2> QED BY <2>1, <1>2, OneMore
<1>5. LostOk'
  <2>1. Gone' \subseteq Gone
    <3> SUFFICES ASSUME NEW c \in Gone' PROVE c \in Gone
      OBVIOUS
    <3>1. Same /\ Same' /\ Sent = rx_deliv .. tx_next - 1 /\ Sent' = rx_deliv' .. tx_next - 1
      BY <1>3 DEF Same, Sent, config, txvars
    <3>2. /\ c \in rx_deliv' .. tx_next - 1
          /\ \A r \in air \ {q} : r.count # c
          /\ \A e \in rx_list' : e.count # c
      BY <3>1 DEF Gone
    <3>3. \A e \in rx_list \cup {new} : e.count # c
      BY <3>2, <1>2
    <3>4. q.count # c /\ \A e \in rx_list : e.count # c
      <4>1. new.count = q.count
        OBVIOUS
      <4> HIDE DEF new
      <4> QED BY <3>3, <4>1
    <3> QED BY <3>1, <3>2, <3>4, <1>2, <1>3 DEF Gone
  <2>2. Cardinality(Gone') <= Cardinality(Gone) /\ Cardinality(Gone') \in Nat /\ Cardinality(Gone) \in Nat
    BY <2>1, <1>1, GoneFinite, NoMore
  <2>3. losses \in Nat
    BY <1>1, Sizes DEF PdcpTypeOK
  <2> QED BY <2>2, <2>3, <1>1, <1>3 DEF LostOk, config, txvars
<1>6. ASSUME t_reordering'
      PROVE  Cardinality(rx_list') <= First + since' /\ Cardinality(Fresh') <= since'
  <2>1. CASE t_reordering /\ rx_deliv' < rx_reord
    <3>1. rx_reord' = rx_reord /\ since' = since + 1
      BY <2>1, <1>2 DEF StartReordering
    <3>2. Cardinality(rx_list) <= First + since /\ Cardinality(Fresh) <= since /\ IsFiniteSet(rx_list)
      BY <2>1, <1>1 DEF KeptOk
    <3>3. Fresh' \in SUBSET (Fresh \cup {new})
      BY <3>1, <1>2 DEF Fresh
    <3>4. IsFiniteSet(Fresh)
      BY <3>2, NoMore DEF Fresh
    <3>5. /\ Cardinality(Fresh') <= Cardinality(Fresh) + 1
          /\ Cardinality(Fresh') \in Nat /\ Cardinality(Fresh) \in Nat
      <4> HIDE DEF new
      <4> QED BY <3>3, <3>4, OneMore
    <3>6. First \in Nat
      BY Sizes DEF First
    <3> QED BY <3>1, <3>2, <3>5, <3>6, <1>3, <1>4
  <2>2. CASE ~(t_reordering /\ rx_deliv' < rx_reord)
    <3>1. rx_reord' = rx_next' /\ since' = 0
      BY <2>2, <1>2, <1>6 DEF StartReordering
    <3>2. Fresh' = {}
      BY <3>1, <1>1, <1>3, <1>6 DEF Fresh, TimerGuardsGap
    <3>3. Cardinality(rx_list') <= First
      <4>1. CASE t_reordering
        <5>1. rx_deliv < rx_reord /\ rx_deliv' >= rx_reord
          BY <4>1, <2>2, <1>1, <1>2, <1>3 DEF TimerGuardsGap
        <5>2. \A e \in rx_list' : rx_deliv' < e.count
          BY <1>1, <1>6 DEF TimerGuardsGap
        <5>3. new \notin rx_list'
          BY <5>1, <5>2, <1>2, <1>3
        <5>4. rx_list' \in SUBSET Fresh
          BY <5>1, <5>2, <5>3, <1>2, <1>3 DEF Fresh
        <5>5. IsFiniteSet(Fresh) /\ Cardinality(Fresh) <= since
          BY <4>1, <1>1, NoMore DEF KeptOk, Fresh
        <5>6. Cardinality(rx_list') <= Cardinality(Fresh) /\ Cardinality(Fresh) \in Nat
          BY <5>4, <5>5, NoMore
        <5> QED BY <5>5, <5>6, <1>3, <1>4, Sizes DEF First
      <4>2. CASE ~t_reordering
        <5>1. Cardinality(rx_list) = 0
          BY <4>2, <1>1, KeptNeedsTimer, FS_EmptySet
        <5> QED BY <5>1, <1>4, Sizes DEF First
      <4> QED BY <4>1, <4>2
    <3> QED BY <3>1, <3>2, <3>3, <1>4, FS_EmptySet, Sizes DEF First
  <2> QED BY <2>1, <2>2
<1> QED
  BY <1>4, <1>5, <1>6 DEF KeptOk

-----------------------------------------------------------------------------
(***************************************************************************)
(* The other steps keep the bounds                                         *)
(***************************************************************************)

\* At the start nothing was sent.
LEMMA InStepInitially == Init => InStepInv
<1> SUFFICES ASSUME Init PROVE InStepInv
  OBVIOUS
<1>1. PdcpInv
  BY PdcpInitially
<1>2. inStep /\ ~t_reordering /\ rx_list = {} /\ rx_deliv = 0 /\ tx_next = 0 /\ losses = 0
  BY DEF Init
<1>3. Gone = {}
  BY <1>2 DEF Gone, Sent
<1>4. LostOk
  BY <1>2, <1>3, FS_EmptySet DEF LostOk
<1>5. KeptOk
  BY <1>2, FS_EmptySet DEF KeptOk
<1> QED
  BY <1>1, <1>2, <1>4, <1>5 DEF InStepInv

\* A PDU that arrives: it is kept, or was not owed, or is a loss.
LEMMA ReceiveInStep ==
  ASSUME ShortBursts, InStepInv, NEW q \in air, Receive(q)
  PROVE  InStepInv'
<1>1. PdcpInv' /\ inStep'
  BY ArrivalInStep, ReceiveStep DEF InStepInv
<1>2. /\ PdcpTypeOK /\ AirOk /\ TimerGuardsGap /\ inStep /\ Steady /\ LostOk /\ KeptOk
      /\ q \in Pdu
  BY DEF InStepInv, PdcpInv, PdcpTypeOK
<1>3. /\ \/ q.key = rx_key /\ losses' = losses
         \/ q.key # rx_key /\ type = "SRB" /\ losses < MaxLoss /\ losses' = losses + 1
      /\ t_reordering => since < Burst
      /\ air' = air \ {q}
      /\ inStep' = (inStep /\ (q.key = rx_key => q.count < rx_deliv + W))
      /\ RecvPdu(q)
      /\ UNCHANGED <<config, txvars, rx_key>>
  BY DEF Receive
<1>4. /\ rx_deliv \in Nat /\ q.count \in Nat /\ q.key \in Nat /\ rx_key \in Nat
      /\ tx_key = q.key /\ losses \in Nat
  BY <1>2, Sizes DEF PdcpTypeOK, Count, Keys, Pdu, AirOk
<1>5. CASE q.key = rx_key
  <2>1. q.count < rx_deliv + W
    BY <1>1, <1>3, <1>5
  <2>2. RcvdCount(SnOf(q)) = q.count
    BY <2>1, <1>2, <1>5, ArrivesInWindow
  <2>3. IntegrityOk(q, q.count)
    BY <1>5 DEF IntegrityOk
  <2>4. CASE q.count < rx_deliv \/ \E e \in rx_list : e.count = q.count
    <3>1. UNCHANGED <<rxstate, outcome>>
      BY <2>2, <2>4, <1>3, Zenon DEF RecvPdu
    <3>2. UNCHANGED <<rx_deliv, rx_reord, rx_list, t_reordering, since, type, tx_key, rx_key, tx_next, losses>>
      BY <3>1, <1>3, <1>5 DEF rxstate, rxptrs, config, txvars
    <3>3. KeptOk'
      BY <3>2, <1>2 DEF KeptOk, Fresh
    <3>4. Gone' \subseteq Gone
      BY <3>2, <2>4, <1>2, <1>3, <1>4, <1>5, Sizes DEF Gone, Sent, Same, PdcpTypeOK
    <3>5. LostOk'
      <4>1. /\ Cardinality(Gone') <= Cardinality(Gone)
            /\ Cardinality(Gone') \in Nat /\ Cardinality(Gone) \in Nat
        BY <3>4, <1>2, GoneFinite, NoMore
      <4> QED BY <4>1, <3>2, <1>2, <1>4 DEF LostOk
    <3> QED BY <3>3, <3>5, <1>1 DEF InStepInv
  <2>5. CASE ~(q.count < rx_deliv \/ \E e \in rx_list : e.count = q.count)
    <3>1. StoreSdu(q, q.count)
      BY <2>2, <2>3, <2>5, <1>3, Zenon DEF RecvPdu
    <3>2. q.count >= rx_deliv /\ UNCHANGED <<config, txvars, rx_key, losses>>
      BY <2>5, <1>3, <1>4, <1>5
    <3>3. LostOk' /\ KeptOk'
      BY <3>1, <3>2, <1>1, <1>3, <1>5, StoreInStep
    <3> QED BY <3>3, <1>1 DEF InStepInv
  <2> QED BY <2>4, <2>5
<1>6. CASE q.key # rx_key
  <2>1. type = "SRB" /\ losses' = losses + 1 /\ has_integrity
    BY <1>2, <1>3, <1>6 DEF AirOk
  <2>2. ~IntegrityOk(q, RcvdCount(SnOf(q)))
    BY <2>1, <1>6, Zenon DEF IntegrityOk
  <2>3. UNCHANGED <<rxstate, outcome>>
    BY <2>2, <1>3, Zenon DEF RecvPdu
  <2>4. UNCHANGED <<rx_deliv, rx_reord, rx_list, t_reordering, since, type, tx_key, rx_key, tx_next>>
    BY <2>3, <1>3 DEF rxstate, rxptrs, config, txvars
  <2>5. KeptOk'
    BY <2>4, <1>2 DEF KeptOk, Fresh
  <2>6. Gone' \subseteq Gone \cup {q.count}
    BY <2>4, <1>3 DEF Gone, Sent, Same
  <2>7. LostOk'
    <3>1. /\ Cardinality(Gone') <= Cardinality(Gone) + 1
          /\ Cardinality(Gone') \in Nat /\ Cardinality(Gone) \in Nat
      BY <2>6, <1>2, GoneFinite, OneMore
    <3> QED BY <3>1, <2>1, <2>4, <1>2, <1>4 DEF LostOk
  <2> QED BY <2>5, <2>7, <1>1 DEF InStepInv
<1> QED
  BY <1>5, <1>6

\* At the expiry, what is left is what arrived since the timer was started.
LEMMA ExpiryInStep ==
  ASSUME InStepInv, ReorderingExpires
  PROVE  InStepInv'
<1> DEFINE deliv == FirstMissing(rx_list, rx_reord)
           batch == {e \in rx_list : e.count < deliv}
<1>1. /\ t_reordering
      /\ rx_deliv' = deliv % CountMod
      /\ rx_list' = rx_list \ batch
      /\ StartReordering(FALSE)
      /\ UNCHANGED <<config, txvars, rx_key, air, losses, inStep>>
  BY Zenon DEF ReorderingExpires
<1>2. /\ PdcpTypeOK /\ TimerGuardsGap /\ inStep /\ LostOk /\ KeptOk /\ PdcpInv'
  BY ExpiryStep DEF InStepInv, PdcpInv
<1>3. inStep' /\ TimerGuardsGap' /\ PdcpTypeOK'
  BY <1>1, <1>2 DEF PdcpInv
<1>4. /\ rx_list \in SUBSET Kept /\ rx_reord \in Count /\ rx_reord \in Nat
      /\ rx_next \in Nat /\ rx_next < CountMod /\ rx_deliv \in Nat /\ rx_next' \in Nat
      /\ since \in Nat /\ since <= Burst /\ losses \in Nat /\ tx_next \in Nat
      /\ \A e \in rx_list : e.count \in Nat /\ e.count < rx_next
      /\ rx_deliv < rx_reord
  BY <1>1, <1>2, <1>3, Sizes DEF PdcpTypeOK, Count, Kept, TimerGuardsGap
<1>5. /\ deliv \in rx_reord .. CountMod
      /\ \A j \in rx_reord .. deliv - 1 : \E e \in rx_list : e.count = j
  <2> HIDE DEF deliv
  <2>1. deliv = FirstMissing(rx_list, rx_reord)
    BY DEF deliv
  <2> QED BY <2>1, <1>4, RunOfCounts
<1> HIDE DEF deliv
<1>6. deliv \in Nat /\ rx_reord <= deliv /\ deliv < CountMod
  <2>1. deliv \in Nat /\ rx_reord <= deliv /\ deliv <= CountMod
    BY <1>4, <1>5, Sizes
  <2>2. rx_reord <= rx_next
    BY <1>1, <1>2 DEF TimerGuardsGap
  <2>3. ~(rx_next < deliv)
    <3> SUFFICES ASSUME rx_next < deliv PROVE FALSE
      OBVIOUS
    <3>1. PICK e \in rx_list : e.count = rx_next
      BY <2>1, <2>2, <1>4, <1>5
    <3> QED BY <3>1, <1>4
  <2> QED BY <2>1, <2>3, <1>4, Sizes
<1>7. rx_deliv' = deliv
  <2>1. deliv % CountMod = deliv
    BY <1>6, Sizes
  <2> QED BY <2>1, <1>1
<1>8. rx_list' \in SUBSET Fresh
  BY <1>1, <1>4, <1>6 DEF Fresh
<1>9. IsFiniteSet(Fresh) /\ Cardinality(Fresh) <= since
  BY <1>1, <1>2, NoMore DEF KeptOk, Fresh
<1>10. /\ IsFiniteSet(rx_list') /\ Cardinality(rx_list') \in Nat
       /\ Cardinality(rx_list') <= Cardinality(Fresh) /\ Cardinality(Fresh) \in Nat
  BY <1>8, <1>9, NoMore
<1>11. KeptOk'
  <2> SUFFICES ASSUME t_reordering'
               PROVE  Cardinality(rx_list') <= First + since' /\ Cardinality(Fresh') <= since'
    BY <1>10 DEF KeptOk
  <2>1. rx_reord' = rx_next' /\ since' = 0
    BY <1>1 DEF StartReordering
  <2>2. Fresh' = {}
    <3>1. \A e \in rx_list' : e.count \in Nat /\ e.count < rx_next'
      BY <1>1, <1>3, <1>4 DEF TimerGuardsGap
    <3> QED BY <3>1, <2>1, <1>4 DEF Fresh
  <2> QED BY <2>1, <2>2, <1>4, <1>9, <1>10, FS_EmptySet, Sizes DEF First
<1>12. LostOk'
  <2>1. Gone' \subseteq Gone
    <3> SUFFICES ASSUME NEW c \in Gone' PROVE c \in Gone
      OBVIOUS
    <3>1. Same' = Same /\ air' = air /\ tx_next' = tx_next
      BY <1>1 DEF Same, config, txvars
    <3>2. c \in Sent
      BY <3>1, <1>4, <1>6, <1>7 DEF Gone, Sent
    <3>3. ASSUME Same, NEW e \in rx_list PROVE e.count # c
      <4>1. c \in rx_deliv' .. tx_next - 1 /\ \A f \in rx_list' : f.count # c
        BY <3>1, <3>3 DEF Gone, Sent
      <4>2. e \in rx_list' \/ e.count < deliv
        BY <1>1
      <4> QED BY <4>1, <4>2, <1>4, <1>6, <1>7
    <3> QED BY <3>1, <3>2, <3>3 DEF Gone
  <2>2. /\ Cardinality(Gone') <= Cardinality(Gone)
        /\ Cardinality(Gone') \in Nat /\ Cardinality(Gone) \in Nat
    BY <2>1, <1>2, GoneFinite, NoMore
  <2> QED BY <2>2, <1>1, <1>2, <1>4 DEF LostOk, config, txvars
<1> QED
  BY <1>2, <1>3, <1>11, <1>12 DEF InStepInv

\* A new PDU is in the air.
LEMMA ProcessInStep ==
  ASSUME InStepInv, ProcessSdu
  PROVE  InStepInv'
<1> DEFINE new == [key |-> tx_key, count |-> tx_next]
<1>1. /\ air' = air \cup {new} /\ tx_next' = tx_next + 1
      /\ UNCHANGED <<config, tx_key, rxstate, rx_key, losses, inStep>>
  BY DEF ProcessSdu
<1>2. PdcpInv' /\ PdcpTypeOK /\ inStep /\ LostOk /\ KeptOk
  BY ProcessStep DEF InStepInv, PdcpInv
<1>3. UNCHANGED <<type, rx_key, tx_key, rx_deliv, rx_reord, rx_list, t_reordering, since, losses, inStep>>
  BY <1>1 DEF config, rxstate, rxptrs
<1>4. KeptOk'
  BY <1>2, <1>3 DEF KeptOk, Fresh
<1>5. Gone' \subseteq Gone
  <2> SUFFICES ASSUME NEW c \in Gone' PROVE c \in Gone
    OBVIOUS
  <2>1. Same' = Same /\ tx_next \in Nat /\ rx_deliv \in Nat
    BY <1>2, <1>3, Sizes DEF Same, PdcpTypeOK, Count
  <2>2. \A r \in air \cup {new} : r.count # c
    BY <1>1 DEF Gone
  <2>3. c # tx_next
    <3>1. new.count = tx_next
      OBVIOUS
    <3> HIDE DEF new
    <3> QED BY <3>1, <2>2
  <2>4. c \in Sent
    BY <2>1, <2>3, <1>1, <1>3 DEF Gone, Sent
  <2> QED BY <2>1, <2>2, <2>4, <1>3 DEF Gone
<1>6. LostOk'
  <2>1. /\ Cardinality(Gone') <= Cardinality(Gone)
        /\ Cardinality(Gone') \in Nat /\ Cardinality(Gone) \in Nat
    BY <1>2, <1>5, GoneFinite, NoMore
  <2>2. losses \in Nat
    BY <1>2, Sizes DEF PdcpTypeOK
  <2> QED BY <2>1, <2>2, <1>2, <1>3 DEF LostOk
<1> QED
  BY <1>2, <1>3, <1>4, <1>6 DEF InStepInv

\* A loss counts for one COUNT.
LEMMA LoseInStep ==
  ASSUME InStepInv, LosePdu
  PROVE  InStepInv'
<1>1. PICK q \in air : air' = air \ {q}
  BY DEF LosePdu
<1>2. losses' = losses + 1 /\ UNCHANGED <<config, txvars, rxstate, rx_key, inStep>>
  BY DEF LosePdu
<1>3. PdcpInv' /\ PdcpTypeOK /\ inStep /\ LostOk /\ KeptOk
  BY LoseStep DEF InStepInv, PdcpInv
<1>4. UNCHANGED <<type, rx_key, tx_key, tx_next, rx_deliv, rx_reord, rx_list, t_reordering, since, inStep>>
  BY <1>2 DEF config, txvars, rxstate, rxptrs
<1>5. KeptOk'
  BY <1>3, <1>4 DEF KeptOk, Fresh
<1>6. Gone' \subseteq Gone \cup {q.count}
  BY <1>1, <1>4 DEF Gone, Sent, Same
<1>7. LostOk'
  <2>1. /\ Cardinality(Gone') <= Cardinality(Gone) + 1
        /\ Cardinality(Gone') \in Nat /\ Cardinality(Gone) \in Nat
    BY <1>3, <1>6, GoneFinite, OneMore
  <2>2. losses \in Nat
    BY <1>3, Sizes DEF PdcpTypeOK
  <2> QED BY <2>1, <2>2, <1>2, <1>3, <1>4 DEF LostOk
<1> QED
  BY <1>3, <1>4, <1>5, <1>7 DEF InStepInv

\* What RLC drops are losses on an AM bearer, and of no number on the others.
LEMMA TxReestablishInStep ==
  ASSUME InStepInv, TxReestablish
  PROVE  InStepInv'
<1>1. /\ air' = {} /\ tx_key' = tx_key + 1
      /\ \/ /\ type = "DRB_AM" /\ tx_next' = tx_next
            /\ losses' = losses + Cardinality(air)
         \/ type # "DRB_AM" /\ tx_next' = 0 /\ losses' = losses
      /\ UNCHANGED <<config, rxstate, rx_key, inStep>>
  BY DEF TxReestablish
<1>2. PdcpInv' /\ PdcpTypeOK /\ AirOk /\ inStep /\ LostOk /\ KeptOk
  BY TxReestablishStep DEF InStepInv, PdcpInv
<1>3. UNCHANGED <<type, rx_key, rx_deliv, rx_reord, rx_list, t_reordering, since, inStep>>
  BY <1>1 DEF config, rxstate, rxptrs
<1>4. KeptOk'
  BY <1>2, <1>3 DEF KeptOk, Fresh
<1>5. losses \in Nat /\ rx_deliv \in Nat
  BY <1>2, Sizes DEF PdcpTypeOK, Count
<1>6. CASE type = "DRB_AM"
  <2> DEFINE dropped == {r.count : r \in air}
  <2>1. /\ IsFiniteSet(dropped) /\ Cardinality(dropped) \in Nat /\ Cardinality(air) \in Nat
        /\ Cardinality(dropped) <= Cardinality(air)
    <3>1. IsFiniteSet(air)
      BY <1>2 DEF AirOk
    <3>2. IsFiniteSet(dropped) /\ Cardinality(dropped) <= Cardinality(air)
      BY <3>1, CountsOf
    <3> HIDE DEF dropped
    <3> QED BY <3>1, <3>2, FS_CardinalityType
  <2>2. Gone' \subseteq Gone \cup dropped
    BY <1>1, <1>3, <1>6 DEF Gone, Sent, Same
  <2> HIDE DEF dropped
  <2>3. /\ IsFiniteSet(Gone \cup dropped)
        /\ Cardinality(Gone) \in Nat /\ Cardinality(Gone \cup dropped) \in Nat
        /\ Cardinality(Gone \cup dropped) <= Cardinality(Gone) + Cardinality(dropped)
    BY <2>1, <1>2, GoneFinite, UnionOf
  <2>4. Cardinality(Gone') \in Nat /\ Cardinality(Gone') <= Cardinality(Gone \cup dropped)
    BY <2>2, <2>3, NoMore
  <2>5. LostOk'
    BY <2>1, <2>3, <2>4, <1>1, <1>2, <1>5, <1>6 DEF LostOk
  <2> QED BY <2>5, <1>2, <1>3, <1>4 DEF InStepInv
<1>7. CASE type # "DRB_AM"
  <2>1. Gone' = {}
    BY <1>1, <1>3, <1>5, <1>7 DEF Gone, Sent
  <2>2. LostOk'
    BY <2>1, <1>1, <1>5, <1>7, FS_EmptySet DEF LostOk
  <2> QED BY <2>2, <1>2, <1>3, <1>4 DEF InStepInv
<1> QED
  BY <1>6, <1>7

\* The receiver begins with the numbering that the sender began before.
LEMMA RxReestablishInStep ==
  ASSUME InStepInv, RxReestablish
  PROVE  InStepInv'
<1>1. /\ rx_key <= tx_key /\ rx_key' = rx_key + 1
      /\ UNCHANGED <<type, tx_next, tx_key, air, losses, inStep>>
  BY DEF RxReestablish, config, txvars
<1>2. PdcpInv' /\ PdcpTypeOK /\ AirOk /\ TimerGuardsGap /\ inStep /\ LostOk /\ KeptOk
  BY RxReestablishStep DEF InStepInv, PdcpInv
<1>3. CASE type = "DRB_AM"
  <2>1. UNCHANGED <<rx_deliv, rx_reord, rx_list, t_reordering, since>>
    BY <1>3, Zenon DEF RxReestablish, rxstate, rxptrs
  <2>2. KeptOk'
    BY <2>1, <1>2 DEF KeptOk, Fresh
  <2>3. LostOk'
    BY <2>1, <1>1, <1>2, <1>3 DEF LostOk, Gone, Sent, Same
  <2> QED BY <2>2, <2>3, <1>1, <1>2 DEF InStepInv
<1>4. CASE type # "DRB_AM"
  <2>1. /\ rx_list' = IF type = "SRB" \/ t_reordering THEN {} ELSE rx_list
        /\ rx_deliv' = 0 /\ t_reordering' = FALSE
    BY <1>4, Zenon DEF RxReestablish
  <2>2. rx_list' = {}
    BY <2>1, <1>2, KeptNeedsTimer
  <2>3. KeptOk'
    BY <2>1, <2>2, FS_EmptySet DEF KeptOk
  <2>4. LostOk'
    <3> SUFFICES ASSUME rx_key' <= tx_key' PROVE Cardinality(Gone') <= losses'
      BY <1>1, <1>4 DEF LostOk
    <3>1. tx_key \in Nat /\ rx_key \in Nat /\ tx_key <= rx_key + 1
      BY <1>2, Sizes DEF PdcpTypeOK, Keys, AirOk
    <3>2. ~Same /\ Same' /\ rx_key <= tx_key
      BY <3>1, <1>1, <1>4 DEF Same
    <3>3. Gone' = Gone
      BY <3>2, <2>1, <2>2, <1>1 DEF Gone, Sent
    <3> QED BY <3>2, <3>3, <1>1, <1>2 DEF LostOk
  <2> QED BY <2>3, <2>4, <1>1, <1>2 DEF InStepInv
<1> QED
  BY <1>3, <1>4

\* Every step keeps the receiver in step.
LEMMA InStepStep == ShortBursts /\ InStepInv /\ [Next]_vars => InStepInv'
<1> SUFFICES ASSUME ShortBursts, InStepInv, [Next]_vars PROVE InStepInv'
  OBVIOUS
<1>1. CASE ProcessSdu
  BY <1>1, ProcessInStep
<1>2. ASSUME NEW q \in air, Receive(q) PROVE InStepInv'
  BY <1>2, ReceiveInStep
<1>3. CASE ReorderingExpires
  BY <1>3, ExpiryInStep
<1>4. CASE LosePdu
  BY <1>4, LoseInStep
<1>5. CASE TxReestablish
  BY <1>5, TxReestablishInStep
<1>6. CASE RxReestablish
  BY <1>6, RxReestablishInStep
<1>7. CASE UNCHANGED vars
  <2>1. PdcpInv'
    BY <1>7, PdcpStep DEF InStepInv
  <2>2. UNCHANGED <<type, tx_next, tx_key, rx_key, rx_deliv, rx_reord, rx_list, t_reordering,
                    since, air, losses, inStep>>
    BY <1>7 DEF vars, config, txvars, rxstate, rxptrs
  <2>3. LostOk' /\ KeptOk'
    BY <2>2 DEF InStepInv, LostOk, Gone, Sent, Same, KeptOk, Fresh
  <2> QED BY <2>1, <2>2, <2>3 DEF InStepInv
<1> QED
  BY <1>1, <1>2, <1>3, <1>4, <1>5, <1>6, <1>7 DEF Next

\* When the timer is short compared with a window, every PDU arrives in the window
\* of rx_deliv: the receiver never infers a COUNT it would infer wrong.
THEOREM PdcpKeepsInStep == ShortBursts => (Spec => []KeepsInStep)
<1> SUFFICES ASSUME ShortBursts PROVE Spec => []KeepsInStep
  OBVIOUS
<1>1. InStepInv /\ [Next]_vars => InStepInv'
  BY InStepStep
<1>2. InStepInv => KeepsInStep
  BY DEF InStepInv, KeepsInStep
<1> QED
  BY <1>1, <1>2, InStepInitially, PTL DEF Spec

\* Hence, when bursts are short, SDUs go up in order and at most once and every COUNT
\* inferred is the sender's, in every reachable state.
THEOREM PdcpKeepsOrder ==
  ShortBursts => (Spec => [](~misordered /\ \A e \in rx_list : e.count = e.pdu.count))
<1> SUFFICES ASSUME ShortBursts
             PROVE  Spec => [](~misordered /\ \A e \in rx_list : e.count = e.pdu.count)
  OBVIOUS
<1>1. KeepsInStep /\ InOrder /\ CountAgrees => ~misordered /\ \A e \in rx_list : e.count = e.pdu.count
  BY DEF KeepsInStep, InOrder, CountAgrees
<1> QED
  BY <1>1, PdcpKeepsInStep, PdcpOrder, PdcpCounts, PTL
=============================================================================
