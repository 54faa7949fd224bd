--------------------------- MODULE PdcpQueuesProofs ---------------------------
(***************************************************************************)
(* Proofs about the two queues between PDCP and RLC, for every number of   *)
(* threads, every size of the queues that leaves a slot for each thread,   *)
(* and any number of PDUs.                                                 *)
(***************************************************************************)
EXTENDS PdcpQueues, FiniteSetTheorems, SequenceTheorems, TLAPS

-----------------------------------------------------------------------------
(***************************************************************************)
(* Threads and slots                                                       *)
(***************************************************************************)

LEMMA Sizes ==
  ASSUME NEW q \in Queues
  PROVE  /\ Size(q) \in Nat \ {0}
         /\ ConsumerOf(q) \in Consumers /\ ConsumerOf(q) \notin ProducersOf(q)
         /\ ProducersOf(q) \subseteq Threads
         /\ IsFiniteSet(ProducersOf(q)) /\ Cardinality(ProducersOf(q)) <= Size(q)
<1>1. Size(q) \in Nat \ {0} /\ Cardinality(ProducersOf(q)) <= Size(q)
  BY QueuesAssumption
<1>2. /\ ConsumerOf(q) \in Consumers /\ ConsumerOf(q) \notin ProducersOf(q)
      /\ ProducersOf(q) \subseteq Threads
  BY QueuesAssumption DEF ConsumerOf, ProducersOf, Consumers, Deliverers, Threads, Queues
<1>3. IsFiniteSet(ProducersOf(q))
  <2>1. IsFiniteSet(Senders) /\ IsFiniteSet(Macs)
    BY QueuesAssumption
  <2>2. IsFiniteSet((Senders \cup {PdcpThread}) \cup {TimerThread})
    BY <2>1, FS_AddElement
  <2>3. Senders \cup Deliverers = (Senders \cup {PdcpThread}) \cup {TimerThread}
    BY DEF Deliverers
  <2> QED BY <2>1, <2>2, <2>3 DEF ProducersOf
<1> QED BY <1>1, <1>2, <1>3

\* The kinds of threads have nothing in common, but that the thread of one queue may
\* be a producer of the other.
LEMMA Kinds ==
  /\ Senders \cap Macs = {} /\ Deliverers \cap (Senders \cup Macs) = {}
  /\ RlcThread \notin Senders \cup Macs \cup Deliverers
  /\ RlcThread \in Threads /\ PdcpThread \in Deliverers /\ TimerThread \in Deliverers
  /\ PdcpThread # TimerThread
  /\ Senders \subseteq Threads /\ Macs \subseteq Threads /\ Deliverers \subseteq Threads
  /\ Deliverers = {PdcpThread, TimerThread} /\ Consumers = {RlcThread, PdcpThread}
  /\ Nobody \notin Threads
  /\ Queues = {"rlc", "pdcp"}
  /\ ProducersOf("rlc") = Senders \cup Deliverers /\ ProducersOf("pdcp") = Macs
  /\ ConsumerOf("rlc") = RlcThread /\ ConsumerOf("pdcp") = PdcpThread
BY QueuesAssumption
   DEF Threads, Consumers, Deliverers, Queues, ProducersOf, ConsumerOf

\* The slot k places after slot s of a ring of N.
After(s, k, N) == (s + k) % N

LEMMA SlotAfter ==
  ASSUME NEW N \in Nat \ {0}, NEW s \in 0 .. N - 1, NEW k \in 0 .. N
  PROVE  After(s, k, N) = IF s + k < N THEN s + k ELSE s + k - N
BY SMT DEF After

-----------------------------------------------------------------------------
(***************************************************************************)
(* Where the threads are                                                   *)
(***************************************************************************)

Places(t) == CASE t \in Senders -> {"idle", "enqueue"}
               [] t \in Macs -> {"idle", "rx", "enqueue"}
               [] t = TimerThread -> {"idle", "deliver", "enqueue"}
               [] t = RlcThread -> {"take", "handle", "release"}
               [] OTHER -> {"take", "handle", "deliver", "enqueue", "release"}

\* Each thread is at a place of its own code, and who holds a lock is where it is held.
LocksHeld ==
  /\ \A t \in Threads : pc[t] \in Places(t)
  /\ \A m \in Macs : pc[m] # "idle" <=> rlc_lock = m
  /\ \A t \in Deliverers : pc[t] \in {"deliver", "enqueue"} <=> pdcp_lock = t
  /\ \A t \in Deliverers : pc[t] = "enqueue" => role = "ue"

\* A thread sleeps where it waits, and the slot in hand counts as used.
SleepersWait ==
  /\ \A q \in Queues : \A t \in asleep[q] :
       \/ t = ConsumerOf(q) /\ pc[t] = "take"
       \/ t \in ProducersOf(q) /\ pc[t] = "enqueue"
  /\ \A q \in Queues : pc[ConsumerOf(q)] # "take" => length[q] # 0

ItemsReady == \A t \in Threads : pc[t] = "enqueue" => item[t] \in Items /\ item[t].from = t

Control == LocksHeld /\ SleepersWait /\ ItemsReady

RingOk == RingHoldsTheRest /\ \A q \in Queues : length[q] <= Len(entered[q])

\* The steps, one by one.
LEMMA Steps ==
  ASSUME [Next]_vars
  PROVE  \/ \E t \in Senders : SendSdu(t)
         \/ \E q \in Queues : \E t \in ProducersOf(q) : WaitNotFull(q, t) \/ Enqueue(q, t)
         \/ \E m \in Macs : MacRx(m) \/ DeliverSdu(m) \/ MacRxEnd(m)
         \/ \E t \in Deliverers : SubmitControlPdu(t)
         \/ RlcDataReq \/ PdcpDataInd \/ PdcpDataIndEnd \/ TimerTick \/ TimerTickEnd
         \/ \E q \in Queues : \/ WaitNotEmpty(q) \/ Take(q) \/ Release(q)
                              \/ \E t \in asleep[q] : SpuriousWakeup(q, t)
         \/ UNCHANGED vars
<1>1. ASSUME NEW t \in Senders, SenderStep(t)
      PROVE  SendSdu(t) \/ (\E q \in Queues : t \in ProducersOf(q) /\ (WaitNotFull(q, t) \/ Enqueue(q, t)))
  BY <1>1, Kinds DEF SenderStep
<1>2. ASSUME NEW t \in Macs, MacStep(t)
      PROVE  \/ MacRx(t) \/ DeliverSdu(t) \/ MacRxEnd(t)
             \/ \E q \in Queues : t \in ProducersOf(q) /\ (WaitNotFull(q, t) \/ Enqueue(q, t))
  BY <1>2, Kinds DEF MacStep
<1>3. ASSUME NEW t \in Deliverers, DelivererStep(t)
      PROVE  \/ SubmitControlPdu(t)
             \/ \E q \in Queues : t \in ProducersOf(q) /\ (WaitNotFull(q, t) \/ Enqueue(q, t))
  BY <1>3, Kinds DEF DelivererStep
<1> QED BY <1>1, <1>2, <1>3 DEF Next

LEMMA InitControl ==
  ASSUME Init PROVE Control
<1>1. \A t \in Threads : pc[t] = (IF t \in Consumers THEN "take" ELSE "idle")
  BY DEF Init
<1>2. \A t \in Threads : pc[t] \in Places(t)
  BY <1>1, Kinds DEF Places, Threads
<1>3. \A q \in Queues : pc[ConsumerOf(q)] = "take" /\ asleep[q] = {}
  BY <1>1, Sizes, Kinds DEF Init
<1> QED BY <1>1, <1>2, <1>3, Kinds DEF Init, Control, LocksHeld, SleepersWait, ItemsReady

LEMMA InitTypes ==
  ASSUME Init PROVE TypeOK
<1>1. \A q \in Queues : /\ ring[q] \in [0 .. Size(q) - 1 -> Items \cup {Zeroed}]
                        /\ start[q] \in 0 .. Size(q) - 1 /\ length[q] \in 0 .. Size(q)
  BY Sizes DEF Init
<1>2. MaxSent \in Nat /\ MaxReceived \in Nat
  BY QueuesAssumption
<1> QED BY <1>1, <1>2 DEF Init, TypeOK

\* Types without the variables that are functions of the queue.
LEMMA Slots ==
  ASSUME TypeOK, NEW q \in Queues, NEW k \in 0 .. Size(q)
  PROVE  Slot(q, k) \in 0 .. Size(q) - 1
<1>1. start[q] \in Int /\ k \in Int /\ Size(q) \in Nat \ {0}
  BY Sizes DEF TypeOK
<1> QED BY <1>1, SMT DEF Slot

\* What is at the head of a queue that is not empty.
LEMMA HeadOfRing ==
  ASSUME TypeOK, RingOk, NEW q \in Queues, length[q] # 0
  PROVE  /\ Len(entered[q]) - length[q] + 1 \in 1 .. Len(entered[q])
         /\ ring[q][start[q]] = entered[q][Len(entered[q]) - length[q] + 1]
         /\ ring[q][start[q]] \in Items
<1>1. /\ length[q] \in 1 .. Size(q) /\ start[q] \in 0 .. Size(q) - 1
      /\ Len(entered[q]) \in Nat /\ entered[q] \in Seq(Items)
  BY Sizes DEF TypeOK
<1>2. Slot(q, 0) = start[q]
  <2>1. Slot(q, 0) = After(start[q], 0, Size(q))
    BY DEF Slot, After
  <2> QED BY <2>1, <1>1, Sizes, SlotAfter
<1>3. ring[q][Slot(q, 0)] = entered[q][Len(entered[q]) - length[q] + 0 + 1]
  BY <1>1 DEF RingOk, RingHoldsTheRest
<1>4. length[q] <= Len(entered[q])
  BY DEF RingOk
<1> QED BY <1>1, <1>2, <1>3, <1>4

LEMMA TypesKept ==
  ASSUME TypeOK, Control, RingOk, [Next]_vars PROVE TypeOK'
<1> USE DEF TypeOK
<1>s. /\ MaxSent \in Nat /\ MaxReceived \in Nat
      /\ \A q \in Queues : Size(q) \in Nat \ {0}
  BY QueuesAssumption
<1>a. ASSUME NEW q \in Queues, asleep' = [asleep EXCEPT ![q] = @] \/ Signal(q)
      PROVE  asleep' \in [Queues -> SUBSET Threads]
  BY <1>a DEF Signal
<1>1. ASSUME NEW t \in Threads, AssignCount(t)
      PROVE  /\ tx_next' \in 0 .. MaxSent /\ item' \in [Threads -> Items \cup {Zeroed}]
             /\ pc' \in [Threads -> {"idle", "enqueue", "rx", "take", "handle", "deliver", "release"}]
  BY <1>1, <1>s DEF AssignCount, Goto, Items
<1>2. ASSUME NEW t \in Senders, SendSdu(t) PROVE TypeOK'
  BY <1>2, <1>1, Kinds DEF SendSdu, rings, locks, hist
<1>3. ASSUME NEW q \in Queues, NEW t \in Threads, Sleep(q, t) PROVE TypeOK'
  BY <1>3 DEF Sleep, rings, locks, hist, nums
<1>4. ASSUME NEW q \in Queues, NEW t \in ProducersOf(q), Enqueue(q, t) PROVE TypeOK'
  <2>1. length[q] \in 0 .. Size(q) - 1 /\ item[t] \in Items /\ t \in Threads
    BY <1>4, <1>s, Sizes DEF Enqueue, Enqueuing, Control, ItemsReady
  <2>2. Slot(q, length[q]) \in 0 .. Size(q) - 1
    BY Slots
  <2>3. /\ DOMAIN ring' = Queues /\ DOMAIN start' = Queues /\ DOMAIN length' = Queues
        /\ \A p \in Queues : /\ ring'[p] \in [0 .. Size(p) - 1 -> Items \cup {Zeroed}]
                             /\ start'[p] \in 0 .. Size(p) - 1
                             /\ length'[p] \in 0 .. Size(p)
    <3>1. /\ ring' = [ring EXCEPT ![q][Slot(q, length[q])] = item[t]]
          /\ length' = [length EXCEPT ![q] = @ + 1] /\ start' = start
      BY <1>4 DEF Enqueue
    <3>2. DOMAIN ring' = Queues /\ DOMAIN start' = Queues /\ DOMAIN length' = Queues
      BY <3>1
    <3>3. ring'[q] = [ring[q] EXCEPT ![Slot(q, length[q])] = item[t]] /\ length'[q] = length[q] + 1
      BY <3>1
    <3>4. \A p \in Queues \ {q} : ring'[p] = ring[p] /\ length'[p] = length[p]
      BY <3>1
    <3>5. ring'[q] \in [0 .. Size(q) - 1 -> Items \cup {Zeroed}] /\ length'[q] \in 0 .. Size(q)
      BY <3>3, <2>1, <2>2, <1>s
    <3> QED BY <3>1, <3>2, <3>4, <3>5
  <2>4. entered' \in [Queues -> Seq(Items)]
    BY <1>4, <2>1 DEF Enqueue
  <2>5. /\ pc' \in [Threads -> {"idle", "enqueue", "rx", "take", "handle", "deliver", "release"}]
        /\ item' \in [Threads -> Items \cup {Zeroed}]
    BY <1>4, <2>1 DEF Enqueue, Goto, Back
  <2> QED BY <1>4, <1>a, <2>3, <2>4, <2>5 DEF Enqueue, locks, nums
<1>5. ASSUME NEW m \in Macs, MacRx(m) PROVE TypeOK'
  BY <1>5, Kinds DEF MacRx, Goto, rings, hist, nums
<1>6. ASSUME NEW m \in Macs, DeliverSdu(m) PROVE TypeOK'
  BY <1>6, <1>s, Kinds DEF DeliverSdu, Goto, rings, hist, locks, Items
<1>7. ASSUME NEW m \in Macs, MacRxEnd(m) PROVE TypeOK'
  BY <1>7, Kinds DEF MacRxEnd, Goto, rings, hist, nums
<1>8. ASSUME NEW t \in Deliverers, SubmitControlPdu(t) PROVE TypeOK'
  BY <1>8, <1>1, Kinds DEF SubmitControlPdu, rings, locks, hist
<1>9. ASSUME NEW q \in Queues, HandOver(q), pc[ConsumerOf(q)] = "handle"
      PROVE  handed' \in [Queues -> Seq(Items)]
  <2>1. length[q] # 0
    BY <1>9 DEF Control, SleepersWait
  <2> QED BY <1>9, <2>1, HeadOfRing DEF HandOver
<1>10. CASE RlcDataReq
  BY <1>10, <1>9, Kinds DEF RlcDataReq, Goto, rings, locks, nums
<1>11. CASE PdcpDataInd
  BY <1>11, <1>9, Kinds DEF PdcpDataInd, Goto, rings, nums
<1>12. CASE PdcpDataIndEnd \/ TimerTick \/ TimerTickEnd
  <2>1. /\ UNCHANGED <<role, ring, start, length, asleep, item, rlc_lock, tx_next, rx_next, entered, handed>>
        /\ pdcp_lock' \in {Nobody, TimerThread}
        /\ \E t \in Threads, l \in {"idle", "release", "deliver"} : pc' = [pc EXCEPT ![t] = l]
    BY <1>12, Kinds DEF PdcpDataIndEnd, TimerTick, TimerTickEnd, Goto, rings, nums, hist
  <2> QED BY <2>1, Kinds
<1>13. ASSUME NEW q \in Queues, Take(q) PROVE TypeOK'
  BY <1>13 DEF Take, Goto, rings, locks, nums, hist
<1>14. ASSUME NEW q \in Queues, Release(q) PROVE TypeOK'
  <2>1. length[q] \in 1 .. Size(q) /\ start[q] \in Nat
    BY <1>14, <1>s DEF Release, Control, SleepersWait
  <2>2. (start[q] + 1) % Size(q) \in 0 .. Size(q) - 1
    BY <2>1, <1>s, SMT
  <2>3. /\ DOMAIN ring' = Queues /\ DOMAIN start' = Queues /\ DOMAIN length' = Queues
        /\ \A p \in Queues : /\ ring'[p] \in [0 .. Size(p) - 1 -> Items \cup {Zeroed}]
                             /\ start'[p] \in 0 .. Size(p) - 1
                             /\ length'[p] \in 0 .. Size(p)
    BY <1>14, <1>s, <2>1, <2>2 DEF Release
  <2> QED BY <1>14, <1>a, <2>3 DEF Release, Goto, locks, nums, hist
<1>15. ASSUME NEW q \in Queues, WaitNotEmpty(q) PROVE TypeOK'
  BY <1>15, <1>3, Sizes, Kinds DEF WaitNotEmpty
<1>16. ASSUME NEW q \in Queues, NEW t \in asleep[q], SpuriousWakeup(q, t) PROVE TypeOK'
  BY <1>16 DEF SpuriousWakeup, rings, locks, nums, hist
<1>17. CASE UNCHANGED vars
  BY <1>17 DEF vars, rings, locks, nums, hist
<1>18. ASSUME NEW q \in Queues, NEW t \in ProducersOf(q), WaitNotFull(q, t) PROVE TypeOK'
  BY <1>18, <1>3, Sizes DEF WaitNotFull
<1> QED BY <1>2, <1>4, <1>5, <1>6, <1>7, <1>8, <1>10, <1>11, <1>12, <1>13, <1>14, <1>15,
           <1>16, <1>17, <1>18, Steps

-----------------------------------------------------------------------------
(***************************************************************************)
(* The threads keep to their places                                        *)
(***************************************************************************)

LEMMA LocksKept ==
  ASSUME TypeOK, Control, [Next]_vars PROVE LocksHeld'
<1> USE DEF LocksHeld, Control
<1>t. pc \in [Threads -> {"idle", "enqueue", "rx", "take", "handle", "deliver", "release"}]
  BY DEF TypeOK
<1>1. ASSUME NEW t \in Senders, SendSdu(t) PROVE LocksHeld'
  BY <1>1, <1>t, Kinds DEF SendSdu, AssignCount, Goto, Places, locks
<1>2. ASSUME NEW q \in Queues, NEW t \in ProducersOf(q), Enqueue(q, t) PROVE LocksHeld'
  <2>1. /\ pc[t] = "enqueue" /\ t \in Threads /\ pc' = [pc EXCEPT ![t] = Back(t)]
        /\ UNCHANGED <<rlc_lock, pdcp_lock, role>>
        /\ t \in Senders \cup Deliverers \cup Macs
    BY <1>2, Sizes, Kinds DEF Enqueue, Enqueuing, Goto, locks
  <2> QED BY <2>1, <1>t, Kinds DEF Back, Places
<1>3. ASSUME NEW m \in Macs, MacRx(m) PROVE LocksHeld'
  BY <1>3, <1>t, Kinds DEF MacRx, Goto, Places
<1>4. ASSUME NEW m \in Macs, DeliverSdu(m) PROVE LocksHeld'
  BY <1>4, <1>t, Kinds DEF DeliverSdu, Goto, Places, locks
<1>5. ASSUME NEW m \in Macs, MacRxEnd(m) PROVE LocksHeld'
  BY <1>5, <1>t, Kinds DEF MacRxEnd, Goto, Places
<1>6. ASSUME NEW t \in Deliverers, SubmitControlPdu(t) PROVE LocksHeld'
  BY <1>6, <1>t, Kinds DEF SubmitControlPdu, AssignCount, Goto, Places, locks
<1>7. CASE RlcDataReq
  BY <1>7, <1>t, Kinds DEF RlcDataReq, Goto, Places, locks
<1>8. CASE PdcpDataInd
  BY <1>8, <1>t, Kinds DEF PdcpDataInd, Goto, Places
<1>9. CASE PdcpDataIndEnd
  BY <1>9, <1>t, Kinds DEF PdcpDataIndEnd, Goto, Places
<1>10. CASE TimerTick
  BY <1>10, <1>t, Kinds DEF TimerTick, Goto, Places
<1>11. CASE TimerTickEnd
  BY <1>11, <1>t, Kinds DEF TimerTickEnd, Goto, Places
<1>12. ASSUME NEW q \in Queues, Take(q) \/ Release(q) PROVE LocksHeld'
  <2>1. /\ pc[ConsumerOf(q)] \in {"take", "release"}
        /\ \/ pc' = [pc EXCEPT ![ConsumerOf(q)] = "take"]
           \/ pc' = [pc EXCEPT ![ConsumerOf(q)] = "handle"]
        /\ UNCHANGED <<rlc_lock, pdcp_lock, role>>
    BY <1>12 DEF Take, Release, Goto, locks
  <2> QED BY <2>1, <1>t, Sizes, Kinds DEF Places
<1>13. ASSUME UNCHANGED <<pc, role, locks>> PROVE LocksHeld'
  BY <1>13 DEF Places, locks
<1>14. ASSUME NEW q \in Queues, NEW t \in Threads,
              WaitNotFull(q, t) \/ WaitNotEmpty(q) \/ SpuriousWakeup(q, t)
       PROVE  LocksHeld'
  BY <1>14, <1>13 DEF WaitNotFull, WaitNotEmpty, SpuriousWakeup, Sleep
<1>15. \A q \in Queues : asleep[q] \subseteq Threads /\ ProducersOf(q) \subseteq Threads
  BY Sizes DEF TypeOK
<1>16. RlcThread \in Threads
  BY Kinds
<1> QED BY <1>1, <1>2, <1>3, <1>4, <1>5, <1>6, <1>7, <1>8, <1>9, <1>10, <1>11, <1>12, <1>13,
           <1>14, <1>15, <1>16, Steps DEF vars

LEMMA ItemsKept ==
  ASSUME TypeOK, Control, [Next]_vars PROVE ItemsReady'
<1> USE DEF ItemsReady, Control
<1>t. /\ pc \in [Threads -> {"idle", "enqueue", "rx", "take", "handle", "deliver", "release"}]
      /\ item \in [Threads -> Items \cup {Zeroed}]
      /\ tx_next \in Nat /\ rx_next \in Nat /\ MaxSent \in Nat /\ MaxReceived \in Nat
  BY QueuesAssumption DEF TypeOK
<1>1. ASSUME NEW t \in Threads, AssignCount(t) PROVE ItemsReady'
  BY <1>1, <1>t DEF AssignCount, Goto, Items
<1>2. ASSUME NEW q \in Queues, NEW t \in ProducersOf(q), Enqueue(q, t) PROVE ItemsReady'
  <2>1. t \in Threads /\ Back(t) # "enqueue"
    BY Sizes DEF Back
  <2> QED BY <1>2, <2>1, <1>t DEF Enqueue, Goto
<1>3. ASSUME NEW m \in Macs, MacRx(m) \/ MacRxEnd(m) PROVE ItemsReady'
  BY <1>3, <1>t, Kinds DEF MacRx, MacRxEnd, Goto
<1>4. ASSUME NEW m \in Macs, DeliverSdu(m) PROVE ItemsReady'
  BY <1>4, <1>t, Kinds DEF DeliverSdu, Goto, Items
<1>5. CASE RlcDataReq \/ PdcpDataInd \/ PdcpDataIndEnd \/ TimerTick \/ TimerTickEnd
  BY <1>5, <1>t, Kinds DEF RlcDataReq, PdcpDataInd, PdcpDataIndEnd, TimerTick, TimerTickEnd, Goto
<1>6. ASSUME NEW q \in Queues, Take(q) \/ Release(q) PROVE ItemsReady'
  BY <1>6, <1>t DEF Take, Release, Goto
<1>7. ASSUME UNCHANGED <<pc, item>> PROVE ItemsReady'
  BY <1>7
<1>8. ASSUME NEW q \in Queues, NEW t, WaitNotFull(q, t) \/ WaitNotEmpty(q) \/ SpuriousWakeup(q, t)
      PROVE  ItemsReady'
  BY <1>8, <1>7 DEF WaitNotFull, WaitNotEmpty, SpuriousWakeup, Sleep
<1>9. ASSUME NEW t \in Threads, SendSdu(t) \/ SubmitControlPdu(t) PROVE ItemsReady'
  BY <1>9, <1>1 DEF SendSdu, SubmitControlPdu
<1>10. WaitNotEmpty("rlc") \/ WaitNotEmpty("pdcp") => ItemsReady'
  BY <1>8, Kinds
<1> QED BY <1>2, <1>3, <1>4, <1>5, <1>6, <1>7, <1>8, <1>9, <1>10, Steps, Kinds DEF vars

\* A signal wakes up a thread or finds none.
LEMMA SignalWakes ==
  ASSUME TypeOK, NEW q \in Queues, Signal(q)
  PROVE  /\ asleep' \in [Queues -> SUBSET Threads]
         /\ \A p \in Queues : asleep'[p] \subseteq asleep[p]
         /\ \A p \in Queues \ {q} : asleep'[p] = asleep[p]
         /\ \/ asleep[q] = {} /\ asleep'[q] = {}
            \/ \E t \in asleep[q] : asleep'[q] = asleep[q] \ {t}
BY DEF TypeOK, Signal

LEMMA SleepersKept ==
  ASSUME TypeOK, Control, [Next]_vars PROVE SleepersWait'
<1> USE DEF SleepersWait, Control
<1>t. /\ pc \in [Threads -> {"idle", "enqueue", "rx", "take", "handle", "deliver", "release"}]
      /\ asleep \in [Queues -> SUBSET Threads]
      /\ \A q \in Queues : length[q] \in Nat /\ Size(q) \in Nat
      /\ DOMAIN length = Queues
  BY Sizes DEF TypeOK
<1>c. \A q \in Queues : ConsumerOf(q) \in Threads /\ ProducersOf(q) \subseteq Threads
  BY Sizes, Kinds
\* A thread that is not asleep moves, and not from where the queue was empty.
<1>m. ASSUME NEW t \in Threads, NEW l, pc' = [pc EXCEPT ![t] = l], pc[t] # "take", l # "take",
             \A q \in Queues : t \notin asleep[q],
             \A q \in Queues : asleep'[q] \subseteq asleep[q],
             \A q \in Queues : length[q] # 0 => length'[q] # 0
      PROVE  SleepersWait'
  BY <1>m, <1>t, <1>c
<1>n. \A t \in Threads : pc[t] \notin {"take", "enqueue"} => \A q \in Queues : t \notin asleep[q]
  BY <1>t
<1>1. ASSUME NEW t \in Senders, SendSdu(t) PROVE SleepersWait'
  BY <1>1, <1>m, <1>n, <1>t, Kinds DEF SendSdu, AssignCount, Goto, rings
<1>2. ASSUME NEW q \in Queues, NEW t \in ProducersOf(q), Enqueue(q, t) PROVE SleepersWait'
  <2>1. /\ pc' = [pc EXCEPT ![t] = Back(t)] /\ pc[t] = "enqueue" /\ Back(t) # "take" /\ t \in Threads
        /\ \A p \in Queues : t \notin asleep[p]
    BY <1>2, <1>c DEF Enqueue, Enqueuing, Goto, Back, Awake
  <2>2. \A p \in Queues : asleep'[p] \subseteq asleep[p]
    BY <1>2, SignalWakes DEF Enqueue
  <2>3. \A p \in Queues : length'[p] = IF p = q THEN length[p] + 1 ELSE length[p]
    BY <1>2, <1>t DEF Enqueue
  <2>4. \A p \in Queues : length[p] # 0 => length'[p] # 0
    BY <2>3, <1>t
  <2> QED BY <2>1, <2>2, <2>4, <1>m
<1>3. ASSUME NEW t \in Macs, MacRx(t) \/ DeliverSdu(t) \/ MacRxEnd(t) PROVE SleepersWait'
  <2>1. /\ UNCHANGED <<length, asleep>> /\ pc[t] \in {"idle", "rx"} /\ t \in Threads
        /\ \E l \in {"idle", "rx", "enqueue"} : pc' = [pc EXCEPT ![t] = l]
    BY <1>3, Kinds DEF MacRx, DeliverSdu, MacRxEnd, Goto, rings
  <2> QED BY <2>1, <1>m, <1>n
<1>4. ASSUME NEW t \in Deliverers, SubmitControlPdu(t) PROVE SleepersWait'
  BY <1>4, <1>m, <1>n, <1>t, Kinds DEF SubmitControlPdu, AssignCount, Goto, rings
<1>5. CASE RlcDataReq \/ PdcpDataInd \/ PdcpDataIndEnd \/ TimerTick \/ TimerTickEnd
  <2>1. /\ UNCHANGED <<length, asleep>>
        /\ \E t \in Threads, l \in {"idle", "deliver", "release"} :
             pc[t] \in {"idle", "handle", "deliver"} /\ pc' = [pc EXCEPT ![t] = l]
    BY <1>5, Kinds DEF RlcDataReq, PdcpDataInd, PdcpDataIndEnd, TimerTick, TimerTickEnd, Goto, rings
  <2> QED BY <2>1, <1>m, <1>n
<1>6. ASSUME NEW q \in Queues, Take(q) PROVE SleepersWait'
  <2>1. /\ UNCHANGED <<length, asleep>> /\ length[q] # 0
        /\ pc' = [pc EXCEPT ![ConsumerOf(q)] = "handle"] /\ pc[ConsumerOf(q)] = "take"
        /\ \A p \in Queues : ConsumerOf(q) \notin asleep[p]
    BY <1>6 DEF Take, Goto, rings, Awake
  <2>2. \A p \in Queues : p # q => ConsumerOf(p) # ConsumerOf(q)
    BY Kinds
  <2> QED BY <2>1, <2>2, <1>t, <1>c
<1>7. ASSUME NEW q \in Queues, Release(q) PROVE SleepersWait'
  <2>1. /\ pc' = [pc EXCEPT ![ConsumerOf(q)] = "take"] /\ pc[ConsumerOf(q)] = "release"
        /\ \A p \in Queues \ {q} : length'[p] = length[p]
    BY <1>7, <1>t DEF Release, Goto
  <2>2. \A p \in Queues : asleep'[p] \subseteq asleep[p]
    BY <1>7, SignalWakes DEF Release
  <2>3. \A p \in Queues : p # q => ConsumerOf(p) # ConsumerOf(q)
    BY Kinds
  <2> QED BY <2>1, <2>2, <2>3, <1>n, <1>t, <1>c
<1>8. ASSUME UNCHANGED <<pc, length>>,
             NEW q \in Queues, NEW t \in Threads, asleep' = [asleep EXCEPT ![q] = @ \cup {t}],
             \/ t = ConsumerOf(q) /\ pc[t] = "take"
             \/ t \in ProducersOf(q) /\ pc[t] = "enqueue"
      PROVE  SleepersWait'
  BY <1>8, <1>t
<1>9. ASSUME NEW q \in Queues, NEW t \in ProducersOf(q), WaitNotFull(q, t) PROVE SleepersWait'
  BY <1>9, <1>8, <1>c DEF WaitNotFull, Sleep, Enqueuing, rings
<1>10. ASSUME NEW q \in Queues, WaitNotEmpty(q) PROVE SleepersWait'
  BY <1>10, <1>8, <1>c DEF WaitNotEmpty, Sleep, rings
<1>11. ASSUME NEW q \in Queues, NEW t \in asleep[q], SpuriousWakeup(q, t) PROVE SleepersWait'
  BY <1>11, <1>t DEF SpuriousWakeup, rings
<1>12. CASE UNCHANGED vars
  BY <1>12 DEF vars, rings
<1> QED BY <1>1, <1>2, <1>3, <1>4, <1>5, <1>6, <1>7, <1>9, <1>10, <1>11, <1>12, Steps

LEMMA ControlKept ==
  ASSUME TypeOK, Control, [Next]_vars PROVE Control'
BY LocksKept, ItemsKept, SleepersKept DEF Control

-----------------------------------------------------------------------------
(***************************************************************************)
(* What a step does to one queue                                           *)
(***************************************************************************)

Untouched(q) ==
  UNCHANGED <<ring[q], start[q], length[q], entered[q], handed[q], HeadDone(q)>>

Entering(q) == /\ \E t \in ProducersOf(q) : Enqueue(q, t)
               /\ HeadDone(q)' = HeadDone(q)

Handling(q) == /\ HandOver(q)
               /\ HeadDone(q) = 0 /\ HeadDone(q)' = 1 /\ length[q] # 0
               /\ UNCHANGED <<ring[q], start[q], length[q], entered[q]>>

Removing(q) == Release(q) /\ HeadDone(q) = 1 /\ HeadDone(q)' = 0

LEMMA QueueStep ==
  ASSUME TypeOK, Control, [Next]_vars, NEW q \in Queues
  PROVE  Untouched(q) \/ Entering(q) \/ Handling(q) \/ Removing(q)
<1> USE DEF Untouched
<1>t. /\ pc \in [Threads -> {"idle", "enqueue", "rx", "take", "handle", "deliver", "release"}]
      /\ DOMAIN ring = Queues /\ DOMAIN start = Queues /\ DOMAIN length = Queues
      /\ entered \in [Queues -> Seq(Items)] /\ handed \in [Queues -> Seq(Items)]
  BY DEF TypeOK
<1>c. /\ ConsumerOf(q) \in Threads /\ PdcpThread \in Threads
      /\ \A p \in Queues : p # q => ConsumerOf(p) # ConsumerOf(q)
  BY Kinds
<1>p. pc[RlcThread] \in {"take", "handle", "release"}
  BY Kinds DEF Control, LocksHeld, Places
<1>0. ASSUME UNCHANGED <<rings, hist, pc>> PROVE Untouched(q)
  BY <1>0 DEF rings, hist, HeadDone
<1>1. ASSUME NEW t \in Threads, NEW l, pc' = [pc EXCEPT ![t] = l], UNCHANGED <<rings, hist>>,
             \/ t # ConsumerOf(q)
             \/ pc[t] = "take" /\ l = "handle"
             \/ q = "pdcp" /\ {pc[t], l} \subseteq {"deliver", "enqueue", "release"}
      PROVE  Untouched(q)
  <2>1. HeadDone(q)' = HeadDone(q)
    BY <1>1, <1>t, <1>c, <1>p, Kinds DEF HeadDone
  <2> QED BY <2>1, <1>1 DEF rings, hist
<1>2. ASSUME NEW t \in Senders, SendSdu(t) PROVE Untouched(q)
  BY <1>2, <1>1, <1>c, Kinds DEF SendSdu, AssignCount, Goto
<1>3. ASSUME NEW t \in Macs, MacRx(t) \/ DeliverSdu(t) \/ MacRxEnd(t) PROVE Untouched(q)
  BY <1>3, <1>1, <1>c, Kinds DEF MacRx, DeliverSdu, MacRxEnd, Goto
<1>4. ASSUME NEW t \in Deliverers, SubmitControlPdu(t) PROVE Untouched(q)
  BY <1>4, <1>1, <1>c, Kinds DEF SubmitControlPdu, AssignCount, Goto
<1>5. CASE PdcpDataIndEnd \/ TimerTick \/ TimerTickEnd
  BY <1>5, <1>1, <1>c, Kinds DEF PdcpDataIndEnd, TimerTick, TimerTickEnd, Goto
<1>6. ASSUME NEW p \in Queues, Take(p) PROVE Untouched(q)
  BY <1>6, <1>1, <1>c, Kinds DEF Take, Goto
<1>7. ASSUME NEW p \in Queues, NEW t, WaitNotFull(p, t) \/ WaitNotEmpty(p) \/ SpuriousWakeup(p, t)
      PROVE  Untouched(q)
  BY <1>7, <1>0 DEF WaitNotFull, WaitNotEmpty, SpuriousWakeup, Sleep
<1>8. CASE UNCHANGED vars
  BY <1>8, <1>0 DEF vars
<1>9. ASSUME NEW p \in Queues, NEW t \in ProducersOf(p), Enqueue(p, t)
      PROVE  Untouched(q) \/ Entering(q)
  <2>1. /\ pc' = [pc EXCEPT ![t] = Back(t)] /\ pc[t] = "enqueue" /\ t \in Threads
        /\ start' = start /\ handed' = handed
    BY <1>9, Sizes DEF Enqueue, Enqueuing, Goto
  <2>2. HeadDone(q)' = HeadDone(q)
    BY <2>1, <1>t, <1>c, <1>p, Kinds DEF HeadDone, Back
  <2>3. CASE p = q
    BY <2>3, <2>2, <1>9 DEF Entering
  <2>4. CASE p # q
    <3>1. ring'[q] = ring[q] /\ length'[q] = length[q] /\ entered'[q] = entered[q]
      BY <2>4, <1>9, <1>t DEF Enqueue
    <3> QED BY <3>1, <2>1, <2>2
  <2> QED BY <2>3, <2>4
<1>10. ASSUME NEW p \in Queues, HandOver(p), pc[ConsumerOf(p)] = "handle",
              NEW l, pc' = [pc EXCEPT ![ConsumerOf(p)] = l], UNCHANGED <<rings, entered>>,
              l = IF p = "rlc" THEN "release" ELSE "deliver"
       PROVE  Untouched(q) \/ Handling(q)
  <2>1. CASE p = q
    <3>1. length[q] # 0
      BY <2>1, <1>10 DEF Control, SleepersWait
    <3>2. HeadDone(q) = 0 /\ HeadDone(q)' = 1
      BY <2>1, <1>10, <1>t, <1>c, Kinds DEF HeadDone
    <3> QED BY <2>1, <3>1, <3>2, <1>10 DEF Handling, rings
  <2>2. CASE p # q
    <3>1. HeadDone(q)' = HeadDone(q)
      BY <2>2, <1>10, <1>t, <1>c, Kinds DEF HeadDone
    <3>2. handed'[q] = handed[q]
      BY <2>2, <1>10, <1>t DEF HandOver
    <3> QED BY <3>1, <3>2, <1>10 DEF rings
  <2> QED BY <2>1, <2>2
<1>11. CASE RlcDataReq
  BY <1>11, <1>10, Kinds DEF RlcDataReq, Goto
<1>12. CASE PdcpDataInd
  BY <1>12, <1>10, Kinds DEF PdcpDataInd, Goto
<1>13. ASSUME NEW p \in Queues, Release(p) PROVE Untouched(q) \/ Removing(q)
  <2>1. /\ pc' = [pc EXCEPT ![ConsumerOf(p)] = "take"] /\ pc[ConsumerOf(p)] = "release"
        /\ UNCHANGED <<ring, entered, handed>>
    BY <1>13 DEF Release, Goto, hist
  <2>2. CASE p = q
    <3>1. HeadDone(q) = 1 /\ HeadDone(q)' = 0
      BY <2>2, <2>1, <1>t, <1>c, Kinds DEF HeadDone
    <3> QED BY <2>2, <3>1, <1>13 DEF Removing
  <2>3. CASE p # q
    <3>1. HeadDone(q)' = HeadDone(q)
      BY <2>3, <2>1, <1>t, <1>c, Kinds DEF HeadDone
    <3>2. start'[q] = start[q] /\ length'[q] = length[q]
      BY <2>3, <1>13, <1>t DEF Release
    <3> QED BY <3>1, <3>2, <2>1
  <2> QED BY <2>2, <2>3
<1> QED BY <1>2, <1>3, <1>4, <1>5, <1>6, <1>7, <1>8, <1>9, <1>11, <1>12, <1>13, Steps

-----------------------------------------------------------------------------
(***************************************************************************)
(* The ring holds what entered and was not removed                         *)
(***************************************************************************)

Removed(q) == Len(entered[q]) - length[q]

\* RingOk, for one queue.
RestHeld(q) ==
  /\ length[q] <= Len(entered[q])
  /\ \A k \in 0 .. length[q] - 1 : ring[q][Slot(q, k)] = entered[q][Removed(q) + k + 1]
  /\ Len(handed[q]) = Removed(q) + HeadDone(q)
  /\ \A k \in 1 .. Len(handed[q]) : handed[q][k] = entered[q][k]

LEMMA RestOfEach == RingOk <=> \A q \in Queues : RestHeld(q)
BY DEF RingOk, RingHoldsTheRest, RestHeld, Removed

LEMMA InitRing ==
  ASSUME Init PROVE RingOk
<1>1. ASSUME NEW q \in Queues PROVE RestHeld(q)
  <2>1. /\ entered[q] = <<>> /\ handed[q] = <<>> /\ length[q] = 0
    BY DEF Init
  <2>2. HeadDone(q) = 0
    BY Kinds DEF Init, HeadDone
  <2> QED BY <2>1, <2>2 DEF RestHeld, Removed
<1> QED BY <1>1, RestOfEach

\* Different places of the ring are in different slots.
LEMMA SlotsDiffer ==
  ASSUME TypeOK, NEW q \in Queues, NEW j \in 0 .. Size(q) - 1, NEW k \in 0 .. Size(q) - 1, j < k
  PROVE  Slot(q, j) # Slot(q, k)
<1>1. start[q] \in 0 .. Size(q) - 1 /\ Size(q) \in Nat \ {0}
  BY Sizes DEF TypeOK
<1>2. /\ Slot(q, j) = After(start[q], j, Size(q))
      /\ Slot(q, k) = After(start[q], k, Size(q))
  BY DEF Slot, After
<1>3. /\ Slot(q, j) = IF start[q] + j < Size(q) THEN start[q] + j ELSE start[q] + j - Size(q)
      /\ Slot(q, k) = IF start[q] + k < Size(q) THEN start[q] + k ELSE start[q] + k - Size(q)
  BY <1>1, <1>2, SlotAfter
<1> QED BY <1>1, <1>3

LEMMA RestKept ==
  ASSUME TypeOK, Control, RingOk, [Next]_vars, NEW q \in Queues
  PROVE  RestHeld(q)'
<1>t. /\ Size(q) \in Nat \ {0} /\ length[q] \in 0 .. Size(q) /\ start[q] \in 0 .. Size(q) - 1
      /\ entered[q] \in Seq(Items) /\ handed[q] \in Seq(Items)
      /\ Len(entered[q]) \in Nat /\ Len(handed[q]) \in Nat
      /\ DOMAIN ring = Queues /\ DOMAIN start = Queues /\ DOMAIN length = Queues
      /\ DOMAIN ring[q] = 0 .. Size(q) - 1
      /\ DOMAIN entered = Queues /\ DOMAIN handed = Queues
  BY Sizes DEF TypeOK
<1>r. RestHeld(q)
  BY RestOfEach
<1>1. CASE Untouched(q)
  BY <1>1, <1>r DEF Untouched, RestHeld, Removed, Slot
<1>2. CASE Entering(q)
  <2> PICK t \in ProducersOf(q) : Enqueue(q, t)
    BY <1>2 DEF Entering
  <2> DEFINE n == length[q]
  <2>1. /\ n \in 0 .. Size(q) - 1 /\ item[t] \in Items
        /\ ring'[q] = [ring[q] EXCEPT ![Slot(q, n)] = item[t]]
        /\ length'[q] = n + 1 /\ start'[q] = start[q]
        /\ entered'[q] = Append(entered[q], item[t]) /\ handed'[q] = handed[q]
        /\ HeadDone(q)' = HeadDone(q)
    BY <1>t, <1>2, Sizes DEF Enqueue, Enqueuing, Control, ItemsReady, Entering
  <2>2. Len(entered'[q]) = Len(entered[q]) + 1 /\ Removed(q)' = Removed(q)
    BY <2>1, <1>t DEF Removed
  <2>3. /\ \A k \in 1 .. Len(entered[q]) : entered'[q][k] = entered[q][k]
        /\ entered'[q][Len(entered[q]) + 1] = item[t]
    BY <2>1, <1>t
  <2>4. ASSUME NEW k \in 0 .. n
        PROVE  ring'[q][Slot(q, k)'] = entered'[q][Removed(q) + k + 1]
    <3>1. Slot(q, k)' = Slot(q, k) /\ Slot(q, n) \in DOMAIN ring[q]
      BY <2>1, <1>t, Slots DEF Slot
    <3>2. CASE k = n
      BY <3>1, <3>2, <2>1, <2>3, <1>t DEF Removed
    <3>3. CASE k < n
      <4>1. Slot(q, k) # Slot(q, n)
        <5>1. k \in 0 .. Size(q) - 1 /\ n \in 0 .. Size(q) - 1
          BY <2>1, <1>t
        <5> QED BY <5>1, <3>3, SlotsDiffer
      <4>2. ring[q][Slot(q, k)] = entered[q][Removed(q) + k + 1]
        BY <3>3, <1>r, <1>t DEF RestHeld
      <4>3. Removed(q) + k + 1 \in 1 .. Len(entered[q])
        BY <3>3, <1>r, <1>t DEF RestHeld, Removed
      <4> QED BY <4>1, <4>2, <4>3, <3>1, <2>1, <2>3
    <3> QED BY <3>2, <3>3, <1>t
  <2>5. /\ Len(handed'[q]) = Removed(q)' + HeadDone(q)'
        /\ length'[q] <= Len(entered'[q])
    BY <2>1, <2>2, <1>r, <1>t DEF RestHeld
  <2>6. Len(handed[q]) <= Len(entered[q])
    <3>1. HeadDone(q) \in {0, 1} /\ (HeadDone(q) = 1 => n # 0)
      <4>1. HeadDone(q) = 1 => pc[ConsumerOf(q)] # "take"
        BY Kinds DEF HeadDone
      <4> QED BY <4>1 DEF HeadDone, Control, SleepersWait
    <3> QED BY <3>1, <1>r, <1>t DEF RestHeld, Removed
  <2>7. \A k \in 1 .. Len(handed'[q]) : handed'[q][k] = entered'[q][k]
    BY <2>1, <2>3, <2>6, <1>r, <1>t DEF RestHeld
  <2>8. \A k \in 0 .. length'[q] - 1 : ring'[q][Slot(q, k)'] = entered'[q][Removed(q)' + k + 1]
    <3>1. length'[q] - 1 = n
      BY <2>1, <1>t
    <3> QED BY <3>1, <2>2, <2>4
  <2> QED BY <2>5, <2>7, <2>8 DEF RestHeld
<1>3. CASE Handling(q)
  <2>1. /\ ring[q][start[q]] = entered[q][Removed(q) + 1] /\ ring[q][start[q]] \in Items
    BY <1>3, HeadOfRing DEF Handling, Removed
  <2>2. /\ handed'[q] = Append(handed[q], ring[q][start[q]])
        /\ HeadDone(q) = 0 /\ HeadDone(q)' = 1
        /\ ring'[q] = ring[q] /\ start'[q] = start[q] /\ length'[q] = length[q]
        /\ entered'[q] = entered[q]
    BY <1>3, <1>t DEF Handling, HandOver
  <2>3. Len(handed[q]) = Removed(q) /\ Removed(q)' = Removed(q)
    BY <2>2, <1>r, <1>t DEF RestHeld, Removed
  <2>4. Len(handed'[q]) = Removed(q)' + HeadDone(q)'
    BY <2>1, <2>2, <2>3, <1>t
  <2>5. \A k \in 1 .. Len(handed'[q]) : handed'[q][k] = entered'[q][k]
    BY <2>1, <2>2, <2>3, <1>r, <1>t DEF RestHeld
  <2> QED BY <2>2, <2>3, <2>4, <2>5, <1>r DEF RestHeld, Slot
<1>4. CASE Removing(q)
  <2> DEFINE n == length[q]
  <2>1. /\ length'[q] = n - 1 /\ start'[q] = (start[q] + 1) % Size(q)
        /\ ring'[q] = ring[q] /\ entered'[q] = entered[q] /\ handed'[q] = handed[q]
        /\ HeadDone(q) = 1 /\ HeadDone(q)' = 0 /\ n \in 1 .. Size(q)
    BY <1>4, <1>t DEF Removing, Release, hist, Control, SleepersWait
  <2>2. Removed(q)' = Removed(q) + 1
    BY <2>1, <1>t DEF Removed
  <2>3. ASSUME NEW k \in 0 .. n - 2
        PROVE  ring'[q][Slot(q, k)'] = entered'[q][Removed(q)' + k + 1]
    <3>1. start'[q] = IF start[q] + 1 < Size(q) THEN start[q] + 1 ELSE 0
      <4>1. start'[q] = After(start[q], 1, Size(q))
        BY <2>1 DEF After
      <4> QED BY <4>1, <1>t, SlotAfter
    <3>2. Slot(q, k)' = Slot(q, k + 1)
      <4>1. /\ Slot(q, k)' = After(start'[q], k, Size(q))
            /\ Slot(q, k + 1) = After(start[q], k + 1, Size(q))
        BY DEF Slot, After
      <4>2. /\ start'[q] \in 0 .. Size(q) - 1 /\ k \in 0 .. Size(q) /\ k + 1 \in 0 .. Size(q)
            /\ Size(q) \in Nat \ {0}
        BY <3>1, <2>1, <1>t
      <4>3. After(start[q], k + 1, Size(q)) = IF start[q] + (k + 1) < Size(q) THEN start[q] + (k + 1)
                                              ELSE start[q] + (k + 1) - Size(q)
        BY <4>2, <1>t, SlotAfter
      <4>4. After(start'[q], k, Size(q)) = IF start'[q] + k < Size(q) THEN start'[q] + k
                                           ELSE start'[q] + k - Size(q)
        BY <4>2, SlotAfter
      <4> QED BY <4>1, <4>2, <4>3, <4>4, <3>1, <1>t
    <3>3. ring[q][Slot(q, k + 1)] = entered[q][Removed(q) + (k + 1) + 1]
      <4>1. \A j \in 0 .. length[q] - 1 : ring[q][Slot(q, j)] = entered[q][Removed(q) + j + 1]
        BY <1>r DEF RestHeld
      <4>2. k + 1 \in 0 .. length[q] - 1
        BY <2>1, <1>t
      <4> QED BY <4>1, <4>2
    <3>4. Removed(q) + (k + 1) + 1 = Removed(q)' + k + 1
      BY <2>2, <1>t DEF Removed
    <3> QED BY <3>2, <3>3, <3>4, <2>1
  <2>4. \A k \in 0 .. length'[q] - 1 : ring'[q][Slot(q, k)'] = entered'[q][Removed(q)' + k + 1]
    BY <2>1, <2>3, <1>t
  <2>5. /\ Len(handed'[q]) = Removed(q)' + HeadDone(q)'
        /\ length'[q] <= Len(entered'[q])
        /\ \A k \in 1 .. Len(handed'[q]) : handed'[q][k] = entered'[q][k]
    BY <2>1, <2>2, <1>r, <1>t DEF RestHeld, Removed
  <2> QED BY <2>4, <2>5 DEF RestHeld
<1> QED BY <1>1, <1>2, <1>3, <1>4, QueueStep

LEMMA RingKept ==
  ASSUME TypeOK, Control, RingOk, [Next]_vars PROVE RingOk'
<1>1. \A q \in Queues : RestHeld(q)'
  BY RestKept
<1>2. RingOk' <=> \A q \in Queues : RestHeld(q)'
  BY DEF RingOk, RingHoldsTheRest, RestHeld, Removed
<1> QED BY <1>1, <1>2

-----------------------------------------------------------------------------
(***************************************************************************)
(* No wakeup is lost                                                       *)
(***************************************************************************)

\* Producers that are about to put an item in the queue, or to see that it is full.
Awakened(q) == {t \in ProducersOf(q) : Enqueuing(q, t)}

\* NoLostWakeup, for one queue.
Wakeful(q) ==
  /\ ConsumerOf(q) \in asleep[q] => length[q] = 0 /\ asleep[q] = {ConsumerOf(q)}
  /\ asleep[q] \cap ProducersOf(q) # {} => length[q] + Cardinality(Awakened(q)) >= Size(q)

LEMMA AwakenedFinite ==
  ASSUME NEW q \in Queues
  PROVE  IsFiniteSet(Awakened(q)) /\ Cardinality(Awakened(q)) \in Nat
<1>1. Awakened(q) \subseteq ProducersOf(q)
  BY DEF Awakened
<1> QED BY <1>1, Sizes, FS_Subset, FS_CardinalityType

\* A thread that is about to use a queue can only be asleep in that queue.
LEMMA AwakenedIs ==
  ASSUME SleepersWait, NEW q \in Queues
  PROVE  Awakened(q) = {t \in ProducersOf(q) : pc[t] = "enqueue" /\ t \notin asleep[q]}
<1>1. ASSUME NEW t \in ProducersOf(q), pc[t] = "enqueue", t \notin asleep[q],
             NEW p \in Queues, t \in asleep[p]
      PROVE  FALSE
  <2>1. t \in ProducersOf(p) /\ p # q
    BY <1>1 DEF SleepersWait
  <2> QED BY <2>1, Kinds
<1> QED BY <1>1 DEF Awakened, Enqueuing, Awake

\* When as many are awake as before, or more, and the rest is the same.
LEMMA WakefulStays ==
  ASSUME NEW q \in Queues, Wakeful(q), TypeOK, TypeOK',
         asleep'[q] = asleep[q], length'[q] = length[q], Awakened(q) \subseteq Awakened(q)'
  PROVE  Wakeful(q)'
<1>1. IsFiniteSet(Awakened(q)') /\ Cardinality(Awakened(q)') \in Nat
  <2>1. Awakened(q)' \subseteq ProducersOf(q)
    BY DEF Awakened, ProducersOf, Deliverers
  <2> QED BY <2>1, Sizes, FS_Subset, FS_CardinalityType
<1>2. Cardinality(Awakened(q)) <= Cardinality(Awakened(q)')
  BY <1>1, FS_Subset
<1>3. length[q] \in Nat /\ Size(q) \in Nat /\ Cardinality(Awakened(q)) \in Nat
  BY AwakenedFinite, Sizes DEF TypeOK
<1> QED BY <1>1, <1>2, <1>3 DEF Wakeful

LEMMA WakefulKept ==
  ASSUME TypeOK, Control, TypeOK', Control', [Next]_vars, NEW q \in Queues, Wakeful(q)
  PROVE  Wakeful(q)'
<1> USE DEF Control
<1>t. /\ pc \in [Threads -> {"idle", "enqueue", "rx", "take", "handle", "deliver", "release"}]
      /\ asleep \in [Queues -> SUBSET Threads]
      /\ DOMAIN length = Queues
      /\ length[q] \in 0 .. Size(q) /\ Size(q) \in Nat \ {0}
      /\ ConsumerOf(q) \notin ProducersOf(q) /\ ConsumerOf(q) \in Threads
      /\ ProducersOf(q) \subseteq Threads
  BY Sizes, Kinds DEF TypeOK
<1>e. /\ Awakened(q) = {t \in ProducersOf(q) : pc[t] = "enqueue" /\ t \notin asleep[q]}
      /\ Awakened(q)' = {t \in ProducersOf(q) : pc'[t] = "enqueue" /\ t \notin asleep'[q]}
  <2>1. Awakened(q) = {t \in ProducersOf(q) : pc[t] = "enqueue" /\ t \notin asleep[q]}
    BY AwakenedIs
  <2>2. ASSUME NEW t \in ProducersOf(q), pc'[t] = "enqueue", t \notin asleep'[q],
               NEW p \in Queues, t \in asleep'[p]
        PROVE  FALSE
    <3>1. t \in ProducersOf(p) /\ p # q
      BY <2>2 DEF SleepersWait
    <3> QED BY <3>1, Kinds
  <2> QED BY <2>1, <2>2 DEF Awakened, Enqueuing, Awake
<1>f. /\ IsFiniteSet(Awakened(q)) /\ Cardinality(Awakened(q)) \in Nat
      /\ \A T \in SUBSET ProducersOf(q) : IsFiniteSet(T) /\ Cardinality(T) \in Nat
  BY AwakenedFinite, Sizes, FS_Subset, FS_CardinalityType
<1>1. ASSUME asleep'[q] = asleep[q], length'[q] = length[q],
             \A t \in ProducersOf(q) : pc[t] = "enqueue" => pc'[t] = "enqueue"
      PROVE  Wakeful(q)'
  BY <1>1, <1>e, WakefulStays
<1>2. ASSUME NEW t \in Senders, SendSdu(t) PROVE Wakeful(q)'
  BY <1>2, <1>1, <1>t DEF SendSdu, AssignCount, Goto, rings
<1>3. ASSUME NEW t \in Macs, MacRx(t) \/ DeliverSdu(t) \/ MacRxEnd(t) PROVE Wakeful(q)'
  BY <1>3, <1>1, <1>t DEF MacRx, DeliverSdu, MacRxEnd, Goto, rings
<1>4. ASSUME NEW t \in Deliverers, SubmitControlPdu(t) PROVE Wakeful(q)'
  BY <1>4, <1>1, <1>t DEF SubmitControlPdu, AssignCount, Goto, rings
<1>5. CASE RlcDataReq \/ PdcpDataInd \/ PdcpDataIndEnd \/ TimerTick \/ TimerTickEnd
  BY <1>5, <1>1, <1>t, Kinds
     DEF RlcDataReq, PdcpDataInd, PdcpDataIndEnd, TimerTick, TimerTickEnd, Goto, rings
<1>6. ASSUME NEW p \in Queues, Take(p) PROVE Wakeful(q)'
  BY <1>6, <1>1, <1>t DEF Take, Goto, rings
<1>7. CASE UNCHANGED vars
  BY <1>7, <1>1 DEF vars, rings
\* The steps of the other queue.
<1>8. ASSUME NEW p \in Queues \ {q}, NEW t \in ProducersOf(p), Enqueue(p, t) PROVE Wakeful(q)'
  <2>1. t \notin ProducersOf(q) /\ pc' = [pc EXCEPT ![t] = Back(t)]
    BY <1>8, Kinds DEF Enqueue, Goto
  <2>2. asleep'[q] = asleep[q] /\ length'[q] = length[q]
    BY <1>8, <1>t, SignalWakes DEF Enqueue
  <2> QED BY <2>1, <2>2, <1>1, <1>t
<1>9. ASSUME NEW p \in Queues \ {q}, Release(p) PROVE Wakeful(q)'
  <2>1. pc[ConsumerOf(p)] = "release" /\ pc' = [pc EXCEPT ![ConsumerOf(p)] = "take"]
    BY <1>9 DEF Release, Goto
  <2>2. asleep'[q] = asleep[q] /\ length'[q] = length[q]
    BY <1>9, <1>t, SignalWakes DEF Release
  <2> QED BY <2>1, <2>2, <1>1, <1>t
<1>10. ASSUME NEW p \in Queues \ {q}, NEW t,
              WaitNotFull(p, t) \/ WaitNotEmpty(p) \/ SpuriousWakeup(p, t)
       PROVE  Wakeful(q)'
  <2>1. asleep'[q] = asleep[q] /\ length' = length /\ pc' = pc
    BY <1>10, <1>t DEF WaitNotFull, WaitNotEmpty, SpuriousWakeup, Sleep, rings
  <2> QED BY <2>1, <1>1
\* A thread goes to sleep: the queue is full, or it is empty and nobody else sleeps.
<1>11. ASSUME NEW t \in ProducersOf(q), WaitNotFull(q, t) PROVE Wakeful(q)'
  <2>1. /\ asleep'[q] = asleep[q] \cup {t} /\ length'[q] = Size(q) /\ length[q] = Size(q)
    BY <1>11, <1>t DEF WaitNotFull, Sleep, rings
  <2>2. ConsumerOf(q) \notin asleep'[q]
    BY <2>1, <1>t DEF Wakeful
  <2>3. Cardinality(Awakened(q)') \in Nat
    BY <1>e, <1>f
  <2> QED BY <2>1, <2>2, <2>3, <1>t DEF Wakeful
<1>12. CASE WaitNotEmpty(q)
  <2>1. /\ asleep'[q] = asleep[q] \cup {ConsumerOf(q)} /\ length[q] = 0 /\ length'[q] = 0
    BY <1>12, <1>t DEF WaitNotEmpty, Sleep, rings
  <2>2. asleep[q] \cap ProducersOf(q) = {}
    <3> SUFFICES ASSUME NEW u \in asleep[q] \cap ProducersOf(q) PROVE FALSE
      OBVIOUS
    <3>1. Cardinality(Awakened(q)) >= Size(q)
      BY <2>1, <1>f DEF Wakeful
    <3>2. Awakened(q) \subseteq ProducersOf(q) /\ u \notin Awakened(q)
      BY <1>e
    <3>3. /\ Cardinality(Awakened(q)) <= Cardinality(ProducersOf(q))
          /\ Cardinality(ProducersOf(q)) = Cardinality(Awakened(q)) => Awakened(q) = ProducersOf(q)
      BY <3>2, Sizes, FS_Subset
    <3>4. Cardinality(ProducersOf(q)) <= Size(q) /\ Cardinality(ProducersOf(q)) \in Nat
      BY <1>f, Sizes
    <3> QED BY <3>1, <3>2, <3>3, <3>4, <1>f, <1>t
  <2>3. asleep'[q] = {ConsumerOf(q)}
    BY <2>1, <2>2, <1>t DEF SleepersWait
  <2> QED BY <2>1, <2>3, <1>t DEF Wakeful
\* A thread wakes up. If producers go on sleeping, it is one of them.
<1>13. CASE Release(q)
  <2>1. /\ length[q] \in Nat \ {0} /\ length'[q] = length[q] - 1
        /\ pc[ConsumerOf(q)] = "release" /\ pc' = [pc EXCEPT ![ConsumerOf(q)] = "take"]
        /\ \/ asleep[q] = {} /\ asleep'[q] = {}
           \/ \E u \in asleep[q] : asleep'[q] = asleep[q] \ {u}
    BY <1>13, <1>t, SignalWakes DEF Release, Goto, SleepersWait
  <2>2. ConsumerOf(q) \notin asleep[q]
    BY <2>1, <1>t DEF SleepersWait
  <2>3. CASE asleep'[q] = {}
    BY <2>3 DEF Wakeful
  <2>4. ASSUME NEW u \in asleep[q], asleep'[q] = asleep[q] \ {u} PROVE Wakeful(q)'
    <3>1. u \in ProducersOf(q) /\ pc[u] = "enqueue" /\ u # ConsumerOf(q)
      BY <2>2, <1>t DEF SleepersWait
    <3>2. Awakened(q)' = Awakened(q) \cup {u} /\ u \notin Awakened(q)
      BY <3>1, <2>4, <2>1, <1>e, <1>t
    <3>3. Cardinality(Awakened(q)') = Cardinality(Awakened(q)) + 1
      BY <3>2, <1>f, FS_AddElement
    <3>4. length[q] + Cardinality(Awakened(q)) >= Size(q)
      BY <3>1 DEF Wakeful
    <3>5. ConsumerOf(q) \notin asleep'[q]
      BY <2>2, <2>4
    <3> QED BY <3>3, <3>4, <3>5, <2>1, <1>f, <1>t DEF Wakeful
  <2> QED BY <2>1, <2>3, <2>4
<1>14. ASSUME NEW u \in asleep[q], SpuriousWakeup(q, u) PROVE Wakeful(q)'
  <2>1. asleep'[q] = asleep[q] \ {u} /\ length' = length /\ pc' = pc
    BY <1>14, <1>t DEF SpuriousWakeup, rings
  <2>2. CASE u = ConsumerOf(q)
    BY <2>1, <2>2 DEF Wakeful
  <2>3. CASE u # ConsumerOf(q)
    <3>1. ConsumerOf(q) \notin asleep[q]
      BY <2>3 DEF Wakeful
    <3>2. u \in ProducersOf(q) /\ pc[u] = "enqueue"
      BY <2>3 DEF SleepersWait
    <3>3. Awakened(q) \subseteq Awakened(q)'
      BY <2>1, <1>e
    <3>4. Cardinality(Awakened(q)) <= Cardinality(Awakened(q)')
      BY <3>3, <1>e, <1>f, FS_Subset
    <3>5. length[q] + Cardinality(Awakened(q)) >= Size(q)
      BY <3>2 DEF Wakeful
    <3>6. Cardinality(Awakened(q)') \in Nat
      BY <1>e, <1>f
    <3> QED BY <3>1, <3>4, <3>5, <3>6, <2>1, <1>f, <1>t DEF Wakeful
  <2> QED BY <2>2, <2>3
\* An item more, and a thread fewer that is about to put one.
<1>15. ASSUME NEW t \in ProducersOf(q), Enqueue(q, t) PROVE Wakeful(q)'
  <2>1. /\ length'[q] = length[q] + 1 /\ t \in Awakened(q) /\ pc' = [pc EXCEPT ![t] = Back(t)]
        /\ \/ asleep[q] = {} /\ asleep'[q] = {}
           \/ \E u \in asleep[q] : asleep'[q] = asleep[q] \ {u}
    BY <1>15, <1>t, SignalWakes DEF Enqueue, Goto, Awakened
  <2>2. CASE ConsumerOf(q) \in asleep[q]
    BY <2>1, <2>2 DEF Wakeful
  <2>3. CASE ConsumerOf(q) \notin asleep[q]
    <3>1. ConsumerOf(q) \notin asleep'[q] /\ asleep'[q] \subseteq asleep[q]
      BY <2>1, <2>3
    <3>2. Awakened(q) \ {t} \subseteq Awakened(q)'
      BY <2>1, <3>1, <1>e, <1>t
    <3>3. Cardinality(Awakened(q) \ {t}) = Cardinality(Awakened(q)) - 1
      BY <2>1, <1>f, FS_RemoveElement
    <3>4. /\ IsFiniteSet(Awakened(q)') /\ Cardinality(Awakened(q)') \in Nat
      BY <1>e, <1>f
    <3>5. Cardinality(Awakened(q) \ {t}) <= Cardinality(Awakened(q)')
      BY <3>2, <3>4, FS_Subset
    <3> QED BY <3>1, <3>3, <3>4, <3>5, <2>1, <1>f, <1>t DEF Wakeful
  <2> QED BY <2>2, <2>3
<1> QED BY <1>2, <1>3, <1>4, <1>5, <1>6, <1>7, <1>8, <1>9, <1>10, <1>11, <1>12, <1>13,
           <1>14, <1>15, Steps

-----------------------------------------------------------------------------
(***************************************************************************)
(* Who waits for whom                                                      *)
(***************************************************************************)

\* A thread that is at work and makes no step, is asleep where it may be, or one of
\* the two queue threads before a lock.
LEMMA BlockedHow ==
  ASSUME Control, NEW t \in Threads, Blocked(t), pc[t] # "handle"
  PROVE  \E q \in Queues : /\ t \in asleep[q]
                           /\ \/ t = ConsumerOf(q) /\ pc[t] = "take"
                              \/ t \in ProducersOf(q) /\ pc[t] = "enqueue"
BY DEF Control, SleepersWait, Blocked

\* When everybody waits, nobody is about to put an item: a producer sleeps only
\* because the queue is full.
LEMMA FullWhenStuck ==
  ASSUME TypeOK, Control, Deadlocked, NEW q \in Queues, Wakeful(q),
         asleep[q] \cap ProducersOf(q) # {}
  PROVE  length[q] = Size(q)
<1>1. Awakened(q) = {}
  <2> SUFFICES ASSUME NEW t \in ProducersOf(q), pc[t] = "enqueue", Awake(t) PROVE FALSE
    BY DEF Awakened, Enqueuing
  <2>1. t \in Threads /\ Blocked(t)
    BY Sizes DEF Deadlocked
  <2> QED BY <2>1, BlockedHow DEF Awake
<1>2. Cardinality(Awakened(q)) = 0
  BY <1>1, FS_EmptySet
<1>3. length[q] \in 0 .. Size(q) /\ Size(q) \in Nat
  BY Sizes DEF TypeOK
<1> QED BY <1>2, <1>3 DEF Wakeful

LEMMA StuckHow ==
  ASSUME TypeOK, Control, \A q \in Queues : Wakeful(q)
  PROVE  DeadlockOnlyByControlPdu
<1> SUFFICES ASSUME Deadlocked
             PROVE  /\ role = "ue"
                    /\ \A q \in Queues : length[q] = Size(q)
                    /\ pdcp_lock \in asleep["rlc"]
                    /\ rlc_lock \in asleep["pdcp"]
                    /\ pc[RlcThread] = "handle"
  BY DEF DeadlockOnlyByControlPdu
<1>k. /\ "rlc" \in Queues /\ "pdcp" \in Queues
      /\ Wakeful("rlc") /\ Wakeful("pdcp")
      /\ Size("rlc") \in Nat \ {0} /\ Size("pdcp") \in Nat \ {0}
  BY Sizes, Kinds
<1>r. /\ pc[RlcThread] \in {"take", "handle", "release"} /\ Blocked(RlcThread)
      /\ pc[PdcpThread] \in {"take", "handle", "deliver", "enqueue", "release"} /\ Blocked(PdcpThread)
  BY Kinds DEF Control, LocksHeld, Places, Deadlocked
\* Whoever delivers SDUs under the PDCP lock sleeps for room in the queue of RLC.
<1>1. ASSUME pdcp_lock # Nobody PROVE pdcp_lock \in asleep["rlc"] /\ role = "ue"
  <2>1. /\ pdcp_lock \in Deliverers /\ pdcp_lock \in Threads
        /\ pc[pdcp_lock] \in {"deliver", "enqueue"}
    BY <1>1, Kinds DEF TypeOK, Control, LocksHeld
  <2>2. Blocked(pdcp_lock)
    BY <2>1 DEF Deadlocked
  <2>3. pdcp_lock \in asleep["rlc"] /\ pc[pdcp_lock] = "enqueue"
    BY <2>1, <2>2, BlockedHow, Kinds
  <2> QED BY <2>1, <2>3 DEF Control, LocksHeld
\* Whoever receives under the RLC lock sleeps for room in the queue of PDCP.
<1>2. ASSUME rlc_lock # Nobody PROVE rlc_lock \in asleep["pdcp"] /\ length["pdcp"] = Size("pdcp")
  <2>1. rlc_lock \in Macs /\ rlc_lock \in Threads /\ pc[rlc_lock] \in {"rx", "enqueue"}
    BY <1>2, Kinds DEF TypeOK, Control, LocksHeld, Places
  <2>2. Blocked(rlc_lock)
    BY <2>1 DEF Deadlocked
  <2>3. rlc_lock \in asleep["pdcp"]
    BY <2>1, <2>2, BlockedHow, Kinds
  <2> QED BY <2>1, <2>3, <1>k, Kinds, FullWhenStuck
\* The thread of a queue with something in it is awake.
<1>3. PdcpThread \notin asleep["pdcp"] \/ length["pdcp"] = 0
  BY <1>k, Kinds DEF Wakeful
<1>4. pc[RlcThread] = "handle" /\ rlc_lock # Nobody
  <2>0. RlcThread \notin asleep["pdcp"]
    BY Kinds DEF Control, SleepersWait
  <2> SUFFICES ASSUME RlcThread \in asleep["rlc"] PROVE FALSE
    BY <2>0, <1>r, Kinds DEF Blocked
  <2>1. length["rlc"] = 0 /\ asleep["rlc"] = {RlcThread}
    BY <1>k, Kinds DEF Wakeful
  <2>2. length["pdcp"] # 0
    BY <2>1, <1>k, Kinds DEF Deadlocked
  <2>3. pc[PdcpThread] = "handle" /\ pdcp_lock # Nobody
    <3>1. \A q \in Queues : PdcpThread \notin asleep[q]
      BY <2>1, <2>2, <1>3, Kinds
    <3> QED BY <3>1, <1>r, Kinds DEF Blocked
  <2>4. pdcp_lock \in asleep["rlc"] /\ pdcp_lock # RlcThread
    BY <2>3, <1>1, Kinds DEF TypeOK
  <2> QED BY <2>1, <2>4
<1>5. rlc_lock \in asleep["pdcp"] /\ length["pdcp"] = Size("pdcp") /\ length["pdcp"] # 0
  BY <1>2, <1>4, <1>k
<1>6. pdcp_lock # Nobody
  <2>1. CASE pc[PdcpThread] = "handle"
    BY <2>1, <1>r, <1>3, <1>5, Kinds DEF Blocked, Control, SleepersWait
  <2>2. CASE pc[PdcpThread] # "handle"
    <3>1. pc[PdcpThread] = "enqueue"
      BY <2>2, <1>r, <1>3, <1>5, Kinds, BlockedHow
    <3>2. pdcp_lock = PdcpThread
      BY <3>1, Kinds DEF Control, LocksHeld
    <3> QED BY <3>2, Kinds
  <2> QED BY <2>1, <2>2
<1>7. pdcp_lock \in asleep["rlc"] /\ role = "ue" /\ pdcp_lock \in ProducersOf("rlc")
  BY <1>1, <1>6, Kinds DEF TypeOK
<1>8. length["rlc"] = Size("rlc")
  BY <1>7, <1>k, FullWhenStuck
<1> QED BY <1>4, <1>5, <1>7, <1>8, Kinds

-----------------------------------------------------------------------------
(***************************************************************************)
(* The theorems                                                            *)
(***************************************************************************)

LEMMA WakefulEach == NoLostWakeup <=> \A q \in Queues : Wakeful(q)
BY DEF NoLostWakeup, Wakeful, Awakened

QueuesInv == TypeOK /\ Control /\ RingOk /\ NoLostWakeup

LEMMA QueuesInvInit ==
  ASSUME Init PROVE QueuesInv
<1>1. ASSUME NEW q \in Queues PROVE Wakeful(q)
  BY DEF Init, Wakeful
<1> QED BY <1>1, InitTypes, InitControl, InitRing, WakefulEach DEF QueuesInv

LEMMA QueuesInvKept ==
  ASSUME QueuesInv, [Next]_vars PROVE QueuesInv'
<1>1. TypeOK' /\ Control' /\ RingOk'
  BY TypesKept, ControlKept, RingKept DEF QueuesInv
<1>2. \A q \in Queues : Wakeful(q)
  BY WakefulEach DEF QueuesInv
<1>3. \A q \in Queues : Wakeful(q)'
  BY <1>1, <1>2, WakefulKept DEF QueuesInv
<1>4. NoLostWakeup' <=> \A q \in Queues : Wakeful(q)'
  BY DEF NoLostWakeup, Wakeful, Awakened
<1> QED BY <1>1, <1>3, <1>4 DEF QueuesInv

LEMMA QueuesInvariant == Spec => []QueuesInv
<1>1. Init => QueuesInv
  BY QueuesInvInit
<1>2. QueuesInv /\ [Next]_vars => QueuesInv'
  BY QueuesInvKept
<1> QED BY <1>1, <1>2, PTL DEF Spec

\* The rings, their start and length, the wait sets, the owners of the locks and the
\* places of the threads stay within their types.
THEOREM QueuesTypes == Spec => []TypeOK
<1>1. QueuesInv => TypeOK
  BY DEF QueuesInv
<1> QED BY <1>1, QueuesInvariant, PTL

\* Neither ring ever loses, repeats or overwrites an item, although its thread reads the
\* slot outside of the mutex: what was taken care of is what entered first, in order.
THEOREM QueuesRing == Spec => []RingHoldsTheRest
<1>1. QueuesInv => RingHoldsTheRest
  BY DEF QueuesInv, RingOk
<1> QED BY <1>1, QueuesInvariant, PTL

\* One condition variable, signalled once per change, is enough for both sides of a
\* queue, as long as the queue has a slot for each thread that fills it.
THEOREM QueuesWakeups == Spec => []NoLostWakeup
<1>1. QueuesInv => NoLostWakeup
  BY DEF QueuesInv
<1> QED BY <1>1, QueuesInvariant, PTL

\* Threads, locks and queues wait for each other in a circle in one way only: at a UE,
\* with both queues full, when an SDAP control PDU is sent from inside a delivery.
THEOREM QueuesDeadlock == Spec => []DeadlockOnlyByControlPdu
<1>1. QueuesInv => DeadlockOnlyByControlPdu
  BY StuckHow, WakefulEach DEF QueuesInv
<1> QED BY <1>1, QueuesInvariant, PTL

-----------------------------------------------------------------------------
(***************************************************************************)
(* Each ring is a bounded FIFO queue                                       *)
(***************************************************************************)

\* What entered and was not taken care of.
Waiting(e, h) == [k \in 1 .. Len(e) - Len(h) |-> e[Len(h) + k]]

LEMMA WaitingType ==
  ASSUME NEW e \in Seq(Items), NEW h \in Seq(Items), Len(h) <= Len(e)
  PROVE  /\ Waiting(e, h) \in Seq(Items) /\ Len(Waiting(e, h)) = Len(e) - Len(h)
         /\ \A k \in 1 .. Len(e) - Len(h) : Waiting(e, h)[k] = e[Len(h) + k]
<1>1. Len(e) \in Nat /\ Len(h) \in Nat /\ Len(e) - Len(h) \in Nat
  OBVIOUS
<1>2. \A k \in 1 .. Len(e) - Len(h) : e[Len(h) + k] \in Items
  BY <1>1
<1>3. Waiting(e, h) \in [1 .. Len(e) - Len(h) -> Items]
  BY <1>2 DEF Waiting
<1> QED BY <1>1, <1>3 DEF Waiting

LEMMA WaitingPut ==
  ASSUME NEW e \in Seq(Items), NEW h \in Seq(Items), Len(h) <= Len(e), NEW i \in Items
  PROVE  Waiting(Append(e, i), h) = Append(Waiting(e, h), i)
<1> DEFINE a == Append(e, i)
           w == Waiting(e, h)
           v == Waiting(a, h)
           n == Len(e) - Len(h)
<1>1. /\ a \in Seq(Items) /\ Len(a) = Len(e) + 1 /\ a[Len(e) + 1] = i
      /\ \A k \in 1 .. Len(e) : a[k] = e[k]
  BY AppendProperties
<1>2. /\ w \in Seq(Items) /\ Len(w) = n
      /\ \A k \in 1 .. n : w[k] = e[Len(h) + k]
  BY WaitingType
<1> HIDE DEF a
<1>3. Len(e) \in Nat /\ Len(h) \in Nat /\ n \in Nat /\ Len(h) <= Len(a) /\ Len(a) - Len(h) = n + 1
  BY <1>1
<1>4. /\ v \in Seq(Items) /\ Len(v) = n + 1
      /\ \A k \in 1 .. n + 1 : v[k] = a[Len(h) + k]
  <2>1. /\ v \in Seq(Items) /\ Len(v) = Len(a) - Len(h)
        /\ \A k \in 1 .. Len(a) - Len(h) : v[k] = a[Len(h) + k]
    BY <1>1, <1>3, WaitingType
  <2> QED BY <2>1, <1>3
<1> HIDE DEF w, v
<1>5. /\ Append(w, i) \in Seq(Items) /\ Len(Append(w, i)) = n + 1 /\ Append(w, i)[n + 1] = i
      /\ \A k \in 1 .. n : Append(w, i)[k] = w[k]
  BY <1>2, AppendProperties
<1>6. ASSUME NEW k \in 1 .. n + 1 PROVE v[k] = Append(w, i)[k]
  <2>1. CASE k = n + 1
    <3>1. v[k] = a[Len(e) + 1]
      BY <2>1, <1>3, <1>4
    <3> QED BY <3>1, <2>1, <1>1, <1>5
  <2>2. CASE k # n + 1
    <3>1. k \in 1 .. n /\ Len(h) + k \in 1 .. Len(e)
      BY <2>2, <1>3
    <3>2. v[k] = e[Len(h) + k]
      BY <3>1, <1>1, <1>4
    <3> QED BY <3>1, <3>2, <1>2, <1>5
  <2> QED BY <2>1, <2>2
<1>7. v = Append(w, i)
  BY <1>4, <1>5, <1>6, SeqEqual
<1> QED BY <1>7 DEF v, w, a

LEMMA WaitingGet ==
  ASSUME NEW e \in Seq(Items), NEW h \in Seq(Items), Len(h) < Len(e), NEW x \in Items
  PROVE  /\ Waiting(e, h) # <<>> /\ Head(Waiting(e, h)) = e[Len(h) + 1]
         /\ Waiting(e, Append(h, x)) = Tail(Waiting(e, h))
<1> DEFINE g == Append(h, x)
           w == Waiting(e, h)
           v == Waiting(e, g)
           n == Len(e) - Len(h)
<1>1. g \in Seq(Items) /\ Len(g) = Len(h) + 1
  BY AppendProperties
<1>2. /\ w \in Seq(Items) /\ Len(w) = n
      /\ \A k \in 1 .. n : w[k] = e[Len(h) + k]
  BY WaitingType
<1> HIDE DEF g
<1>3. /\ Len(e) \in Nat /\ Len(h) \in Nat /\ n \in Nat \ {0}
      /\ Len(g) <= Len(e) /\ Len(e) - Len(g) = n - 1
  BY <1>1
<1>4. /\ v \in Seq(Items) /\ Len(v) = n - 1
      /\ \A k \in 1 .. n - 1 : v[k] = e[Len(h) + 1 + k]
  <2>1. /\ v \in Seq(Items) /\ Len(v) = Len(e) - Len(g)
        /\ \A k \in 1 .. Len(e) - Len(g) : v[k] = e[Len(g) + k]
    BY <1>1, <1>3, WaitingType
  <2> QED BY <2>1, <1>1, <1>3
<1> HIDE DEF w, v
<1>5. w # <<>> /\ Head(w) = e[Len(h) + 1]
  BY <1>2, <1>3
<1>6. /\ Tail(w) \in Seq(Items) /\ Len(Tail(w)) = n - 1
      /\ \A k \in 1 .. n - 1 : Tail(w)[k] = w[k + 1]
  BY <1>2, <1>5, HeadTailProperties
<1>7. ASSUME NEW k \in 1 .. n - 1 PROVE v[k] = Tail(w)[k]
  <2>1. k + 1 \in 1 .. n /\ Len(h) + (k + 1) = Len(h) + 1 + k
    BY <1>3
  <2> QED BY <2>1, <1>2, <1>4, <1>6
<1>8. v = Tail(w)
  BY <1>4, <1>6, <1>7, SeqEqual
<1> QED BY <1>5, <1>8 DEF v, w, g

LEMMA PendingIs ==
  ASSUME TypeOK, Control, NEW q \in Queues, RestHeld(q)
  PROVE  /\ Pending(q) = Waiting(entered[q], handed[q])
         /\ Len(handed[q]) <= Len(entered[q])
         /\ Len(entered[q]) - Len(handed[q]) = length[q] - HeadDone(q)
<1>1. /\ length[q] \in 0 .. Size(q) /\ Len(entered[q]) \in Nat /\ Len(handed[q]) \in Nat
  BY Sizes DEF TypeOK
<1>2. HeadDone(q) \in {0, 1} /\ HeadDone(q) <= length[q]
  <2>1. HeadDone(q) = 1 => pc[ConsumerOf(q)] # "take"
    BY Kinds DEF HeadDone
  <2> QED BY <2>1, <1>1 DEF HeadDone, Control, SleepersWait
<1>3. Len(handed[q]) = Len(entered[q]) - length[q] + HeadDone(q)
  BY DEF RestHeld, Removed
<1>4. ASSUME NEW k \in 1 .. length[q] - HeadDone(q)
      PROVE  ring[q][Slot(q, k - 1 + HeadDone(q))] = entered[q][Len(handed[q]) + k]
  <2>1. k - 1 + HeadDone(q) \in 0 .. length[q] - 1
    BY <1>1, <1>2
  <2>2. ring[q][Slot(q, k - 1 + HeadDone(q))] = entered[q][Removed(q) + (k - 1 + HeadDone(q)) + 1]
    BY <2>1 DEF RestHeld
  <2>3. Removed(q) + (k - 1 + HeadDone(q)) + 1 = Len(handed[q]) + k
    BY <1>1, <1>2, <1>3 DEF Removed
  <2> QED BY <2>2, <2>3
<1>5. Len(entered[q]) - Len(handed[q]) = length[q] - HeadDone(q)
  BY <1>1, <1>2, <1>3
<1> QED BY <1>1, <1>2, <1>3, <1>4, <1>5 DEF Pending, Waiting

LEMMA PendingAfter ==
  ASSUME NEW q \in Queues
  PROVE  (TypeOK /\ Control /\ RestHeld(q) => Pending(q) = Waiting(entered[q], handed[q]))'
<1>1. TypeOK /\ Control /\ RestHeld(q) => Pending(q) = Waiting(entered[q], handed[q])
  BY PendingIs
<1> QED BY <1>1, PTL

\* The promise, for one queue.
FifoStep(q) ==
  \/ /\ Len(Pending(q)) < Size(q)
     /\ handed'[q] = handed[q]
     /\ Len(Pending(q)') = Len(Pending(q)) + 1
     /\ \E i \in Items : Pending(q)' = Append(Pending(q), i)
  \/ /\ Pending(q) # <<>>
     /\ handed'[q] = Append(handed[q], Head(Pending(q)))
     /\ Pending(q)' = Tail(Pending(q))
  \/ Pending(q)' = Pending(q) /\ handed'[q] = handed[q]

LEMMA FifoInit ==
  ASSUME Init, NEW q \in Queues PROVE Pending(q) = <<>> /\ handed[q] = <<>>
<1>1. length[q] = 0 /\ HeadDone(q) = 0 /\ handed[q] = <<>>
  BY Kinds DEF Init, HeadDone
<1>2. Pending(q) = [k \in 1 .. 0 |-> ring[q][Slot(q, k - 1 + HeadDone(q))]]
  BY <1>1 DEF Pending
<1> QED BY <1>1, <1>2

LEMMA FifoSteps ==
  ASSUME QueuesInv, [Next]_vars, NEW q \in Queues PROVE FifoStep(q)
<1> USE DEF QueuesInv
<1>1. TypeOK /\ Control /\ RestHeld(q) /\ TypeOK' /\ Control' /\ RestHeld(q)'
  BY RestOfEach, RestKept, TypesKept, ControlKept
<1>2. /\ Size(q) \in Nat \ {0} /\ length[q] \in 0 .. Size(q)
      /\ entered[q] \in Seq(Items) /\ handed[q] \in Seq(Items)
      /\ DOMAIN handed = Queues /\ DOMAIN entered = Queues
  BY <1>1, Sizes DEF TypeOK
<1>3. /\ Pending(q) = Waiting(entered[q], handed[q])
      /\ Len(handed[q]) <= Len(entered[q])
      /\ Len(entered[q]) - Len(handed[q]) = length[q] - HeadDone(q)
  BY <1>1, PendingIs
<1>4. Pending(q)' = Waiting(entered'[q], handed'[q])
  BY <1>1, PendingAfter DEF Waiting
<1>5. CASE Untouched(q) \/ Removing(q)
  <2>1. entered'[q] = entered[q] /\ handed'[q] = handed[q]
    BY <1>5 DEF Untouched, Removing, Release, hist
  <2> QED BY <2>1, <1>3, <1>4 DEF FifoStep
<1>6. CASE Entering(q)
  <2> PICK t \in ProducersOf(q) : Enqueue(q, t)
    BY <1>6 DEF Entering
  <2>1. item[t] \in Items /\ length[q] < Size(q)
    BY <1>1, <1>2, Sizes DEF Enqueue, Enqueuing, Control, ItemsReady
  <2>2. entered'[q] = Append(entered[q], item[t]) /\ handed'[q] = handed[q]
    BY <1>2 DEF Enqueue
  <2>3. Pending(q)' = Append(Pending(q), item[t])
    BY <2>1, <2>2, <1>2, <1>3, <1>4, WaitingPut
  <2>4. Pending(q) \in Seq(Items) /\ Len(Pending(q)) = length[q] - HeadDone(q)
    BY <1>2, <1>3, WaitingType
  <2>5. Len(Pending(q)') = Len(Pending(q)) + 1
    BY <2>1, <2>3, <2>4, AppendProperties
  <2>6. Len(Pending(q)) < Size(q)
    BY <2>1, <2>4, <1>2 DEF HeadDone
  <2> QED BY <2>1, <2>2, <2>3, <2>5, <2>6 DEF FifoStep
<1>7. CASE Handling(q)
  <2> DEFINE x == ring[q][start[q]]
  <2>1. /\ entered'[q] = entered[q] /\ handed'[q] = Append(handed[q], x)
        /\ HeadDone(q) = 0 /\ length[q] # 0
    BY <1>7, <1>2 DEF Handling, HandOver
  <2>2. x = entered[q][Len(entered[q]) - length[q] + 1] /\ x \in Items
    BY <1>1, <2>1, HeadOfRing
  <2>3. Len(handed[q]) < Len(entered[q]) /\ Len(entered[q]) - length[q] = Len(handed[q])
    BY <2>1, <1>2, <1>3
  <2> HIDE DEF x
  <2>4. /\ Pending(q) # <<>> /\ Head(Pending(q)) = entered[q][Len(handed[q]) + 1]
        /\ Pending(q)' = Tail(Pending(q))
    BY <2>1, <2>2, <2>3, <1>2, <1>3, <1>4, WaitingGet
  <2> QED BY <2>1, <2>2, <2>3, <2>4 DEF FifoStep
<1> QED BY <1>1, <1>5, <1>6, <1>7, QueueStep

\* Each ring, with its mutex, its condition variable and the read outside of the mutex,
\* behaves like a FIFO queue of bounded capacity.
THEOREM QueuesFifo == Spec => QueuesAreFifo
<1>1. Init => RlcFifo!Init /\ PdcpFifo!Init
  BY FifoInit, Kinds DEF RlcFifo!Init, PdcpFifo!Init
<1>2. QueuesInv /\ [Next]_vars => [RlcFifo!Next]_(RlcFifo!vars)
  <2> SUFFICES ASSUME QueuesInv, [Next]_vars PROVE [RlcFifo!Next]_(RlcFifo!vars)
    OBVIOUS
  <2>1. FifoStep("rlc")
    BY FifoSteps, Kinds
  <2> QED BY <2>1 DEF FifoStep, RlcFifo!Next, RlcFifo!Put, RlcFifo!Get, RlcFifo!vars
<1>3. QueuesInv /\ [Next]_vars => [PdcpFifo!Next]_(PdcpFifo!vars)
  <2> SUFFICES ASSUME QueuesInv, [Next]_vars PROVE [PdcpFifo!Next]_(PdcpFifo!vars)
    OBVIOUS
  <2>1. FifoStep("pdcp")
    BY FifoSteps, Kinds
  <2> QED BY <2>1 DEF FifoStep, PdcpFifo!Next, PdcpFifo!Put, PdcpFifo!Get, PdcpFifo!vars
<1> QED BY <1>1, <1>2, <1>3, QueuesInvariant, PTL DEF Spec, QueuesAreFifo, RlcFifo!Spec, PdcpFifo!Spec

-----------------------------------------------------------------------------
(***************************************************************************)
(* Every COUNT enters the queue of RLC once                                *)
(***************************************************************************)

\* A thread queues its PDUs in the order in which it numbers them.
OwnCountIsLast ==
  \A t \in OnTheWay : \A k \in DOMAIN entered["rlc"] :
    entered["rlc"][k].from = t => entered["rlc"][k].n < item[t].n

CountsInv == CountsEnterOnce /\ OwnCountIsLast

LEMMA CountsInit ==
  ASSUME Init PROVE CountsInv
<1>1. OnTheWay = {}
  <2> SUFFICES ASSUME NEW t \in ProducersOf("rlc") PROVE pc[t] # "enqueue"
    BY DEF OnTheWay
  <2>1. t \in Threads
    BY Kinds
  <2> QED BY <2>1 DEF Init
<1>2. entered["rlc"] = <<>> /\ tx_next = 0
  BY Kinds DEF Init
<1>3. Cardinality(OnTheWay) = 0
  BY <1>1, FS_EmptySet
<1>4. /\ {entered["rlc"][k].n : k \in DOMAIN entered["rlc"]} = {}
      /\ {item[t].n : t \in OnTheWay} = {} /\ 0 .. tx_next - 1 = {}
  BY <1>1, <1>2
<1> QED BY <1>1, <1>2, <1>3, <1>4 DEF CountsInv, CountsEnterOnce, OwnCountIsLast

LEMMA CountsKept ==
  ASSUME TypeOK, Control, CountsInv, [Next]_vars PROVE CountsInv'
<1> DEFINE e == entered["rlc"]
<1>t. /\ pc \in [Threads -> {"idle", "enqueue", "rx", "take", "handle", "deliver", "release"}]
      /\ item \in [Threads -> Items \cup {Zeroed}]
      /\ DOMAIN entered = Queues /\ e \in Seq(Items)
      /\ Len(e) \in Nat /\ DOMAIN e = 1 .. Len(e)
      /\ tx_next \in Nat
  BY Kinds DEF TypeOK
<1>p. /\ ProducersOf("rlc") = Senders \cup Deliverers /\ ProducersOf("rlc") \subseteq Threads
      /\ Macs \cap ProducersOf("rlc") = {} /\ RlcThread \notin ProducersOf("rlc")
  BY Kinds
<1>o. OnTheWay \subseteq ProducersOf("rlc") /\ IsFiniteSet(OnTheWay) /\ Cardinality(OnTheWay) \in Nat
  <2>1. OnTheWay \subseteq ProducersOf("rlc")
    BY DEF OnTheWay
  <2> QED BY <2>1, Sizes, Kinds, FS_Subset, FS_CardinalityType
<1>n. /\ \A k \in DOMAIN e : e[k].n \in 0 .. tx_next - 1
      /\ \A t \in OnTheWay : item[t].n \in 0 .. tx_next - 1
  BY DEF CountsInv, CountsEnterOnce
<1>0. ASSUME entered'["rlc"] = e, tx_next' = tx_next, OnTheWay' = OnTheWay,
             \A t \in OnTheWay : item'[t] = item[t]
      PROVE  CountsInv'
  BY <1>0 DEF CountsInv, CountsEnterOnce, OwnCountIsLast
<1>1. ASSUME NEW t \in ProducersOf("rlc"), pc[t] # "enqueue", AssignCount(t), entered' = entered
      PROVE  CountsInv'
  <2>1. /\ tx_next' = tx_next + 1 /\ item' = [item EXCEPT ![t] = [from |-> t, n |-> tx_next]]
        /\ pc' = [pc EXCEPT ![t] = "enqueue"]
    BY <1>1 DEF AssignCount, Goto
  <2>2. OnTheWay' = OnTheWay \cup {t} /\ t \notin OnTheWay
    BY <2>1, <1>1, <1>t, <1>p DEF OnTheWay, ProducersOf, Deliverers
  <2>3. item'[t].n = tx_next /\ \A u \in OnTheWay : item'[u] = item[u]
    BY <2>1, <2>2, <1>t, <1>p, <1>o
  <2>4. {item'[u].n : u \in OnTheWay'} = {item[u].n : u \in OnTheWay} \cup {tx_next}
    BY <2>2, <2>3
  <2>5. 0 .. tx_next' - 1 = (0 .. tx_next - 1) \cup {tx_next}
    BY <2>1, <1>t
  <2>6. Cardinality(OnTheWay') = Cardinality(OnTheWay) + 1
    BY <2>2, <1>o, FS_AddElement
  <2>7. CountsEnterOnce'
    <3>1. {e[k].n : k \in DOMAIN e} \cup {item'[u].n : u \in OnTheWay'} = 0 .. tx_next' - 1
      BY <2>4, <2>5 DEF CountsInv, CountsEnterOnce
    <3>2. Len(e) + Cardinality(OnTheWay') = tx_next'
      BY <2>1, <2>6, <1>o, <1>t DEF CountsInv, CountsEnterOnce
    <3> QED BY <3>1, <3>2, <1>1 DEF CountsInv, CountsEnterOnce
  <2>8. OwnCountIsLast'
    BY <2>2, <2>3, <1>1, <1>n, <1>t DEF CountsInv, OwnCountIsLast
  <2> QED BY <2>7, <2>8 DEF CountsInv
<1>2. ASSUME NEW t \in ProducersOf("rlc"), Enqueue("rlc", t) PROVE CountsInv'
  <2> DEFINE f == entered'["rlc"]
  <2>1. /\ tx_next' = tx_next /\ item' = [item EXCEPT ![t] = Zeroed] /\ f = Append(e, item[t])
        /\ pc' = [pc EXCEPT ![t] = Back(t)] /\ pc[t] = "enqueue" /\ Back(t) # "enqueue"
        /\ item[t] \in Items /\ item[t].from = t
    BY <1>2, <1>t, <1>p, Kinds DEF Enqueue, Enqueuing, Goto, nums, Back, Control, ItemsReady
  <2>2. OnTheWay' = OnTheWay \ {t} /\ t \in OnTheWay
    BY <2>1, <1>t, <1>p DEF OnTheWay, ProducersOf, Deliverers
  <2>3. /\ Len(f) = Len(e) + 1 /\ DOMAIN f = 1 .. Len(e) + 1
        /\ f[Len(e) + 1] = item[t] /\ \A k \in 1 .. Len(e) : f[k] = e[k]
    BY <2>1, <1>t, AppendProperties
  <2> HIDE DEF f
  <2>4. \A u \in OnTheWay' : item'[u] = item[u]
    BY <2>1, <2>2, <1>o, <1>p, <1>t
  <2>5. {f[k].n : k \in DOMAIN f} = {e[k].n : k \in DOMAIN e} \cup {item[t].n}
    <3>1. DOMAIN f = DOMAIN e \cup {Len(e) + 1}
      BY <2>3, <1>t
    <3>2. \A k \in DOMAIN e : f[k].n = e[k].n
      BY <2>3, <1>t
    <3> QED BY <3>1, <3>2, <2>3
  <2>6. {item[u].n : u \in OnTheWay} = {item'[u].n : u \in OnTheWay'} \cup {item[t].n}
    BY <2>2, <2>4
  <2>7. {f[k].n : k \in DOMAIN f} \cup {item'[u].n : u \in OnTheWay'} = 0 .. tx_next' - 1
    BY <2>1, <2>5, <2>6 DEF CountsInv, CountsEnterOnce
  <2>8. Len(f) + Cardinality(OnTheWay') = tx_next'
    <3>1. Cardinality(OnTheWay') = Cardinality(OnTheWay) - 1
      BY <2>2, <1>o, FS_RemoveElement
    <3> QED BY <3>1, <2>1, <2>3, <1>o, <1>t DEF CountsInv, CountsEnterOnce
  <2>9. ASSUME NEW j \in DOMAIN f, NEW k \in DOMAIN f, j < k, f[j].from = f[k].from
        PROVE  f[j].n < f[k].n
    <3>1. CASE k = Len(e) + 1
      <4>1. j \in DOMAIN e /\ f[j] = e[j] /\ f[k] = item[t]
        BY <3>1, <2>3, <2>9, <1>t
      <4> QED BY <4>1, <2>1, <2>2, <2>9 DEF CountsInv, OwnCountIsLast
    <3>2. CASE k # Len(e) + 1
      <4>1. j \in DOMAIN e /\ k \in DOMAIN e /\ f[j] = e[j] /\ f[k] = e[k]
        <5>1. /\ j \in 1 .. Len(e) + 1 /\ k \in 1 .. Len(e) + 1
              /\ DOMAIN e = 1 .. Len(e) /\ Len(e) \in Nat
          BY <2>3, <1>t
        <5>2. j \in 1 .. Len(e) /\ k \in 1 .. Len(e)
          BY <3>2, <2>9, <5>1
        <5> QED BY <2>3, <5>1, <5>2
      <4> QED BY <4>1, <2>9 DEF CountsInv, CountsEnterOnce
    <3> QED BY <3>1, <3>2
  <2>10. ASSUME NEW u \in OnTheWay', NEW k \in DOMAIN f, f[k].from = u PROVE f[k].n < item'[u].n
    <3>1. k # Len(e) + 1
      BY <2>1, <2>2, <2>3, <2>10
    <3>2. k \in DOMAIN e /\ f[k] = e[k]
      BY <3>1, <2>3, <1>t
    <3> QED BY <3>2, <2>2, <2>4, <2>10 DEF CountsInv, OwnCountIsLast
  <2> QED BY <2>7, <2>8, <2>9, <2>10 DEF CountsInv, CountsEnterOnce, OwnCountIsLast, f
<1>3. ASSUME NEW t \in Threads, NEW l, pc' = [pc EXCEPT ![t] = l],
             t \in ProducersOf("rlc") => pc[t] # "enqueue" /\ l # "enqueue",
             entered'["rlc"] = e, tx_next' = tx_next,
             \A u \in ProducersOf("rlc") : item'[u] = item[u]
      PROVE  CountsInv'
  <2>1. OnTheWay' = OnTheWay
    BY <1>3, <1>t, <1>p DEF OnTheWay, ProducersOf, Deliverers
  <2> QED BY <2>1, <1>0, <1>3, <1>o
<1>4. ASSUME NEW t \in Senders, SendSdu(t) PROVE CountsInv'
  BY <1>4, <1>1, <1>p DEF SendSdu, hist
<1>5. ASSUME NEW t \in Deliverers, SubmitControlPdu(t) PROVE CountsInv'
  BY <1>5, <1>1, <1>p DEF SubmitControlPdu, hist
<1>6. ASSUME NEW t \in Macs, MacRx(t) \/ DeliverSdu(t) \/ MacRxEnd(t) PROVE CountsInv'
  BY <1>6, <1>3, <1>p, <1>t, Kinds DEF MacRx, DeliverSdu, MacRxEnd, Goto, hist, nums
<1>7. CASE RlcDataReq \/ PdcpDataInd \/ PdcpDataIndEnd \/ TimerTick \/ TimerTickEnd
  BY <1>7, <1>3, <1>p, <1>t, Kinds
     DEF RlcDataReq, PdcpDataInd, PdcpDataIndEnd, TimerTick, TimerTickEnd, Goto, hist, nums
<1>8. ASSUME NEW q \in Queues, Take(q) \/ Release(q) PROVE CountsInv'
  BY <1>8, <1>3, <1>p, Kinds DEF Take, Release, Goto, hist, nums
<1>9. ASSUME NEW t \in ProducersOf("pdcp"), Enqueue("pdcp", t) PROVE CountsInv'
  <2>1. /\ t \in Threads /\ t \notin ProducersOf("rlc") /\ pc' = [pc EXCEPT ![t] = Back(t)]
        /\ entered'["rlc"] = e /\ tx_next' = tx_next /\ item' = [item EXCEPT ![t] = Zeroed]
    BY <1>9, <1>t, Kinds DEF Enqueue, Goto, nums
  <2> QED BY <2>1, <1>3, <1>p, <1>t
<1>10. ASSUME UNCHANGED <<pc, item, tx_next, entered>> PROVE CountsInv'
  BY <1>10, <1>0 DEF OnTheWay
<1>11. ASSUME NEW q \in Queues, NEW t, WaitNotFull(q, t) \/ WaitNotEmpty(q) \/ SpuriousWakeup(q, t)
       PROVE  CountsInv'
  BY <1>11, <1>10 DEF WaitNotFull, WaitNotEmpty, SpuriousWakeup, Sleep, nums, hist
<1>12. CASE UNCHANGED vars
  BY <1>12, <1>10 DEF vars, nums, hist
<1> QED BY <1>2, <1>4, <1>5, <1>6, <1>7, <1>8, <1>9, <1>11, <1>12, Steps, Kinds

\* A COUNT is given under the lock and its PDU queued after it: two threads may swap their
\* PDUs, but no COUNT is skipped or used twice, and each thread stays in order.
THEOREM QueuesCounts == Spec => []CountsEnterOnce
<1>1. Init => CountsInv
  BY CountsInit
<1>2. QueuesInv /\ CountsInv /\ [Next]_vars => CountsInv'
  BY CountsKept DEF QueuesInv
<1>3. CountsInv => CountsEnterOnce
  BY DEF CountsInv
<1> QED BY <1>1, <1>2, <1>3, QueuesInvariant, PTL DEF Spec
=============================================================================
