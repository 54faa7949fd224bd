----------------------------- MODULE PdcpQueues ------------------------------
(***************************************************************************)
(* The two queues that decouple PDCP from RLC (nr_pdcp_oai_api.c), the two *)
(* threads that empty them, the threads that fill them, and the two big    *)
(* locks these threads take on their way. A critical section of the mutex  *)
(* of a queue is one action: nothing waits inside it but in the condition  *)
(* variable, whose wait set is kept. The manager locks are held across     *)
(* actions, and are variables.                                             *)
(***************************************************************************)
EXTENDS Integers, Sequences, FiniteSets

CONSTANTS
  Senders,       \* threads that call nr_pdcp_data_req_drb without a lock (GTP-U, TUN, RRC)
  Macs,          \* threads in which MAC calls nr_mac_rlc_data_ind
  RlcThread,     \* rlc_data_req_thread
  PdcpThread,    \* pdcp_data_ind_thread
  TimerThread,   \* nr_pdcp_timer_thread
  Nobody,        \* a lock that is free
  Zeroed,        \* a slot of a static array nobody wrote yet
  Roles,         \* the roles to consider: "gnb", "ue"
  RLC_DATA_REQ_QUEUE_SIZE, PDCP_DATA_IND_QUEUE_SIZE,
  MaxSent,       \* bound: PDUs PDCP gives to RLC
  MaxReceived    \* bound: SDUs RLC gives to PDCP

Queues    == {"rlc", "pdcp"}
Consumers == {RlcThread, PdcpThread}
Threads   == Senders \cup Macs \cup Consumers \cup {TimerThread}

\* Threads that run upper layers with the PDCP lock held.
Deliverers == {PdcpThread, TimerThread}

Size(q)        == IF q = "rlc" THEN RLC_DATA_REQ_QUEUE_SIZE ELSE PDCP_DATA_IND_QUEUE_SIZE
ConsumerOf(q)  == IF q = "rlc" THEN RlcThread ELSE PdcpThread
ProducersOf(q) == IF q = "rlc" THEN Senders \cup Deliverers ELSE Macs

\* There are a dozen threads, and 10000 slots in a queue.
ASSUME QueuesAssumption ==
  /\ IsFiniteSet(Senders) /\ IsFiniteSet(Macs)
  /\ Senders \cap Macs = {}
  /\ RlcThread # PdcpThread /\ RlcThread # TimerThread /\ PdcpThread # TimerThread
  /\ (Consumers \cup {TimerThread}) \cap (Senders \cup Macs) = {}
  /\ Nobody \notin Threads
  /\ Roles \subseteq {"gnb", "ue"}
  /\ \A q \in Queues : Size(q) \in Nat \ {0} /\ Cardinality(ProducersOf(q)) <= Size(q)
  /\ MaxSent \in Nat /\ MaxReceived \in Nat

\* A PDU with its COUNT, or an SDU with its place in the order of RLC; the thread
\* that queues it tells the properties where it comes from.
Items == [from : Threads, n : 0 .. MaxSent + MaxReceived]

ASSUME ZeroedAssumption == Zeroed \notin Items

VARIABLES
  role,                   \* "gnb" or "ue"
  ring, start, length,    \* q and pq
  asleep,                 \* threads in pthread_cond_wait, for each queue
  pc, item,               \* where a thread is, and what it is about to queue
  rlc_lock, pdcp_lock,    \* owners of the manager locks
  tx_next, rx_next,       \* the next COUNT; SDUs RLC has delivered
  entered, handed         \* what was put in each queue, and what was taken care of

rings == <<ring, start, length>>
locks == <<rlc_lock, pdcp_lock>>
hist  == <<entered, handed>>
nums  == <<tx_next, rx_next>>
vars  == <<role, rings, asleep, pc, item, locks, nums, hist>>

-----------------------------------------------------------------------------
Init ==
  /\ role \in Roles
  /\ ring = [q \in Queues |-> [i \in 0 .. Size(q) - 1 |-> Zeroed]]
  /\ start = [q \in Queues |-> 0]
  /\ length = [q \in Queues |-> 0]
  /\ asleep = [q \in Queues |-> {}]
  /\ pc = [t \in Threads |-> IF t \in Consumers THEN "take" ELSE "idle"]
  /\ item = [t \in Threads |-> Zeroed]
  /\ rlc_lock = Nobody /\ pdcp_lock = Nobody
  /\ tx_next = 0 /\ rx_next = 0
  /\ entered = [q \in Queues |-> <<>>]
  /\ handed = [q \in Queues |-> <<>>]

Awake(t) == \A q \in Queues : t \notin asleep[q]

Goto(t, l) == pc' = [pc EXCEPT ![t] = l]

\* pthread_cond_wait
Sleep(q, t) ==
  /\ asleep' = [asleep EXCEPT ![q] = @ \cup {t}]
  /\ UNCHANGED <<role, rings, pc, item, locks, nums, hist>>

\* pthread_cond_signal: one thread wakes up, whichever it is.
Signal(q) ==
  \/ asleep[q] = {} /\ asleep' = asleep
  \/ \E t \in asleep[q] : asleep' = [asleep EXCEPT ![q] = @ \ {t}]

\* pthread_cond_wait may return by itself.
SpuriousWakeup(q, t) ==
  /\ t \in asleep[q]
  /\ asleep' = [asleep EXCEPT ![q] = @ \ {t}]
  /\ UNCHANGED <<role, rings, pc, item, locks, nums, hist>>

-----------------------------------------------------------------------------
(* enqueue_rlc_data_req, enqueue_pdcp_data_ind *)

\* What the thread does once the item is in the queue.
Back(t) == CASE t \in Senders -> "idle"
             [] t \in Macs -> "rx"
             [] OTHER -> "deliver"

Enqueuing(q, t) == t \in ProducersOf(q) /\ pc[t] = "enqueue" /\ Awake(t)

WaitNotFull(q, t) ==
  /\ Enqueuing(q, t)
  /\ length[q] = Size(q)
  /\ Sleep(q, t)

Slot(q, k) == (start[q] + k) % Size(q)

\* mutant: the length is not tested
EnqueueUnchecked(q, t) ==
  /\ Enqueuing(q, t)
  /\ ring' = [ring EXCEPT ![q][Slot(q, length[q])] = item[t]]
  /\ length' = [length EXCEPT ![q] = @ + 1]
  /\ entered' = [entered EXCEPT ![q] = Append(@, item[t])]
  /\ item' = [item EXCEPT ![t] = Zeroed]
  /\ Goto(t, Back(t))
  /\ Signal(q)
  /\ UNCHANGED <<role, start, locks, nums, handed>>

\* mutant: a second thread that finds the queue full drops its item
EnqueueOrDrop(q, t) ==
  /\ Enqueuing(q, t)
  /\ length[q] # Size(q) \/ asleep[q] # {}
  /\ IF length[q] = Size(q)
     THEN UNCHANGED <<ring, length, entered>>
     ELSE /\ ring' = [ring EXCEPT ![q][Slot(q, length[q])] = item[t]]
          /\ length' = [length EXCEPT ![q] = @ + 1]
          /\ entered' = [entered EXCEPT ![q] = Append(@, item[t])]
  /\ item' = [item EXCEPT ![t] = Zeroed]
  /\ Goto(t, Back(t))
  /\ Signal(q)
  /\ UNCHANGED <<role, start, locks, nums, handed>>

Enqueue(q, t) ==
  /\ Enqueuing(q, t)
  /\ length[q] # Size(q)
  /\ ring' = [ring EXCEPT ![q][Slot(q, length[q])] = item[t]]
  /\ length' = [length EXCEPT ![q] = @ + 1]
  /\ entered' = [entered EXCEPT ![q] = Append(@, item[t])]
  /\ item' = [item EXCEPT ![t] = Zeroed]
  /\ Goto(t, Back(t))
  /\ Signal(q)
  /\ UNCHANGED <<role, start, locks, nums, handed>>

-----------------------------------------------------------------------------
(* rlc_data_req_thread, pdcp_data_ind_thread *)

WaitNotEmpty(q) ==
  /\ pc[ConsumerOf(q)] = "take" /\ Awake(ConsumerOf(q))
  /\ length[q] = 0
  /\ Sleep(q, ConsumerOf(q))

Take(q) ==
  /\ pc[ConsumerOf(q)] = "take" /\ Awake(ConsumerOf(q))
  /\ length[q] # 0
  /\ Goto(ConsumerOf(q), "handle")
  /\ UNCHANGED <<role, rings, asleep, item, locks, nums, hist>>

\* mutant: the newest item is taken first
HandOverNewest(q) ==
  handed' = [handed EXCEPT ![q] = Append(@, ring[q][Slot(q, length[q] - 1)])]

\* The slot is read after the mutex is released.
HandOver(q) == handed' = [handed EXCEPT ![q] = Append(@, ring[q][start[q]])]

\* nr_rlc_data_req
RlcDataReq ==
  /\ pc[RlcThread] = "handle"
  /\ rlc_lock = Nobody
  /\ HandOver("rlc")
  /\ Goto(RlcThread, "release")
  /\ UNCHANGED <<role, rings, asleep, item, locks, nums, entered>>

\* do_pdcp_data_ind, up to the delivery of SDUs
PdcpDataInd ==
  /\ pc[PdcpThread] = "handle"
  /\ pdcp_lock = Nobody
  /\ pdcp_lock' = PdcpThread
  /\ HandOver("pdcp")
  /\ Goto(PdcpThread, "deliver")
  /\ UNCHANGED <<role, rings, asleep, item, rlc_lock, nums, entered>>

PdcpDataIndEnd ==
  /\ pc[PdcpThread] = "deliver"
  /\ pdcp_lock' = Nobody
  /\ Goto(PdcpThread, "release")
  /\ UNCHANGED <<role, rings, asleep, item, rlc_lock, nums, hist>>

\* mutant: start does not wrap
ReleaseNoWrap(q) ==
  /\ pc[ConsumerOf(q)] = "release"
  /\ length' = [length EXCEPT ![q] = @ - 1]
  /\ start' = [start EXCEPT ![q] = @ + 1]
  /\ Goto(ConsumerOf(q), "take")
  /\ Signal(q)
  /\ UNCHANGED <<role, ring, item, locks, nums, hist>>

\* mutant: the producers are woken up only when the queue was full
ReleaseSignalsWhenFull(q) ==
  /\ pc[ConsumerOf(q)] = "release"
  /\ length' = [length EXCEPT ![q] = @ - 1]
  /\ start' = [start EXCEPT ![q] = (@ + 1) % Size(q)]
  /\ Goto(ConsumerOf(q), "take")
  /\ IF length[q] = Size(q) THEN Signal(q) ELSE asleep' = asleep
  /\ UNCHANGED <<role, ring, item, locks, nums, hist>>

\* mutant: the producers are not woken up
ReleaseSilently(q) ==
  /\ pc[ConsumerOf(q)] = "release"
  /\ length' = [length EXCEPT ![q] = @ - 1]
  /\ start' = [start EXCEPT ![q] = (@ + 1) % Size(q)]
  /\ Goto(ConsumerOf(q), "take")
  /\ asleep' = asleep
  /\ UNCHANGED <<role, ring, item, locks, nums, hist>>

Release(q) ==
  /\ pc[ConsumerOf(q)] = "release"
  /\ length' = [length EXCEPT ![q] = @ - 1]
  /\ start' = [start EXCEPT ![q] = (@ + 1) % Size(q)]
  /\ Goto(ConsumerOf(q), "take")
  /\ Signal(q)
  /\ UNCHANGED <<role, ring, item, locks, nums, hist>>

-----------------------------------------------------------------------------
(* nr_pdcp_data_req_drb *)

\* process_sdu gives the PDU its COUNT; the lock is released before deliver_pdu.
AssignCount(t) ==
  /\ tx_next < MaxSent
  /\ tx_next' = tx_next + 1
  /\ item' = [item EXCEPT ![t] = [from |-> t, n |-> tx_next]]
  /\ Goto(t, "enqueue")

SendSdu(t) ==
  /\ pc[t] = "idle" /\ pdcp_lock = Nobody
  /\ AssignCount(t)
  /\ UNCHANGED <<role, rings, asleep, locks, rx_next, hist>>

\* mutant: a gNB sends control PDUs too
SubmitControlPduAnywhere(t) ==
  /\ pc[t] = "deliver"
  /\ AssignCount(t)
  /\ UNCHANGED <<role, rings, asleep, locks, rx_next, hist>>

\* nr_sdap_rx_entity of a UE sends control PDUs from inside the delivery of an SDU.
\* The lock is recursive: the thread still holds it when it queues the PDU.
SubmitControlPdu(t) ==
  /\ role = "ue"
  /\ pc[t] = "deliver"
  /\ AssignCount(t)
  /\ UNCHANGED <<role, rings, asleep, locks, rx_next, hist>>

\* A tick of the timer thread: t_reordering of an entity may expire, and SDUs go up.
TimerTick ==
  /\ pc[TimerThread] = "idle" /\ pdcp_lock = Nobody
  /\ pdcp_lock' = TimerThread
  /\ Goto(TimerThread, "deliver")
  /\ UNCHANGED <<role, rings, asleep, item, rlc_lock, nums, hist>>

TimerTickEnd ==
  /\ pc[TimerThread] = "deliver"
  /\ pdcp_lock' = Nobody
  /\ Goto(TimerThread, "idle")
  /\ UNCHANGED <<role, rings, asleep, item, rlc_lock, nums, hist>>

-----------------------------------------------------------------------------
(* nr_mac_rlc_data_ind: the RLC lock is held until every PDU is received *)

MacRx(m) ==
  /\ pc[m] = "idle" /\ rlc_lock = Nobody
  /\ rlc_lock' = m
  /\ Goto(m, "rx")
  /\ UNCHANGED <<role, rings, asleep, item, pdcp_lock, nums, hist>>

DeliverSdu(m) ==
  /\ pc[m] = "rx"
  /\ rx_next < MaxReceived
  /\ rx_next' = rx_next + 1
  /\ item' = [item EXCEPT ![m] = [from |-> m, n |-> rx_next]]
  /\ Goto(m, "enqueue")
  /\ UNCHANGED <<role, rings, asleep, locks, tx_next, hist>>

MacRxEnd(m) ==
  /\ pc[m] = "rx"
  /\ rlc_lock' = Nobody
  /\ Goto(m, "idle")
  /\ UNCHANGED <<role, rings, asleep, item, pdcp_lock, nums, hist>>

-----------------------------------------------------------------------------
SenderStep(t) == SendSdu(t) \/ WaitNotFull("rlc", t) \/ Enqueue("rlc", t)

DelivererStep(t) == SubmitControlPdu(t) \/ WaitNotFull("rlc", t) \/ Enqueue("rlc", t)

MacStep(m) == \/ MacRx(m) \/ DeliverSdu(m) \/ MacRxEnd(m)
              \/ WaitNotFull("pdcp", m) \/ Enqueue("pdcp", m)

Next ==
  \/ \E t \in Senders : SenderStep(t)
  \/ \E m \in Macs : MacStep(m)
  \/ \E t \in Deliverers : DelivererStep(t)
  \/ RlcDataReq \/ PdcpDataInd \/ PdcpDataIndEnd
  \/ TimerTick \/ TimerTickEnd
  \/ \E q \in Queues :
       \/ WaitNotEmpty(q) \/ Take(q) \/ Release(q)
       \/ \E t \in asleep[q] : SpuriousWakeup(q, t)

Spec == Init /\ [][Next]_vars

\* A thread that can run does, and a thread that waits for a lock gets it some day.
\* No thread has to submit anything.
Fairness ==
  /\ \A q \in Queues : WF_vars(Take(q) \/ Release(q))
  /\ SF_vars(RlcDataReq) /\ SF_vars(PdcpDataInd)
  /\ WF_vars(PdcpDataIndEnd) /\ WF_vars(TimerTickEnd)
  /\ \A m \in Macs : WF_vars(MacRxEnd(m) \/ Enqueue("pdcp", m))

FairSpec == Spec /\ Fairness

-----------------------------------------------------------------------------
TypeOK ==
  /\ role \in Roles
  /\ DOMAIN ring = Queues /\ DOMAIN start = Queues /\ DOMAIN length = Queues
  /\ \A q \in Queues : /\ ring[q] \in [0 .. Size(q) - 1 -> Items \cup {Zeroed}]
                       /\ start[q] \in 0 .. Size(q) - 1
                       /\ length[q] \in 0 .. Size(q)
  /\ asleep \in [Queues -> SUBSET Threads]
  /\ pc \in [Threads -> {"idle", "enqueue", "rx", "take", "handle", "deliver", "release"}]
  /\ item \in [Threads -> Items \cup {Zeroed}]
  /\ rlc_lock \in Macs \cup {Nobody}
  /\ pdcp_lock \in Deliverers \cup {Nobody}
  /\ tx_next \in 0 .. MaxSent /\ rx_next \in 0 .. MaxReceived
  /\ entered \in [Queues -> Seq(Items)]
  /\ handed \in [Queues -> Seq(Items)]

\* Is the item at the head of the queue already taken care of, but not yet removed?
HeadDone(q) == IF \/ pc[ConsumerOf(q)] = "release"
                  \/ q = "pdcp" /\ pc[PdcpThread] \in {"deliver", "enqueue"}
               THEN 1 ELSE 0

\* The ring holds what entered and was not removed, in order: a slot is not written
\* again while the thread that empties the queue still works from it, outside the
\* mutex. What was taken care of is what entered first.
RingHoldsTheRest ==
  \A q \in Queues :
    LET removed == Len(entered[q]) - length[q]
    IN  /\ \A k \in 0 .. length[q] - 1 : ring[q][Slot(q, k)] = entered[q][removed + k + 1]
        /\ Len(handed[q]) = removed + HeadDone(q)
        /\ \A k \in 1 .. Len(handed[q]) : handed[q][k] = entered[q][k]

\* One condition variable serves both sides of a queue, and each change wakes up one
\* thread only. Yet no wakeup is lost: the thread that empties the queue sleeps alone
\* and only on an empty queue, and while a producer sleeps, the queue is full or enough
\* producers are awake to fill it and to wake it up.
NoLostWakeup ==
  \A q \in Queues :
    /\ ConsumerOf(q) \in asleep[q] => length[q] = 0 /\ asleep[q] = {ConsumerOf(q)}
    /\ asleep[q] \cap ProducersOf(q) # {} =>
         length[q] + Cardinality({t \in ProducersOf(q) : Enqueuing(q, t)}) >= Size(q)

Blocked(t) ==
  \/ \E q \in Queues : t \in asleep[q]
  \/ t = RlcThread /\ pc[t] = "handle" /\ rlc_lock # Nobody
  \/ t = PdcpThread /\ pc[t] = "handle" /\ pdcp_lock # Nobody

\* There is work, and every thread that is in the middle of something waits.
Deadlocked ==
  /\ \E q \in Queues : length[q] > 0
  /\ \A t \in Threads : pc[t] # "idle" => Blocked(t)

\* The design note at the head of the file says that it is enough never to take the
\* RLC lock under the PDCP lock. A gNB never deadlocks; but a UE does in one way: with
\* both queues full, a thread that delivers SDUs waits, under the PDCP lock, for room
\* for an SDAP control PDU, the RLC queue thread for the RLC lock, and the thread that
\* holds it for room in the other queue.
DeadlockOnlyByControlPdu ==
  Deadlocked =>
    /\ role = "ue"
    /\ \A q \in Queues : length[q] = Size(q)
    /\ pdcp_lock \in asleep["rlc"]
    /\ rlc_lock \in asleep["pdcp"]
    /\ pc[RlcThread] = "handle"

\* The counts a queue of PDUs holds or has held, and those that are on their way in.
OnTheWay == {t \in ProducersOf("rlc") : pc[t] = "enqueue"}

\* A COUNT is assigned under the lock, and the PDU is queued after it: PDUs of two
\* threads may swap. But every COUNT enters once, or is on its way in, and the PDUs of
\* one thread stay in order.
CountsEnterOnce ==
  LET e == entered["rlc"]
  IN  /\ {e[k].n : k \in DOMAIN e} \cup {item[t].n : t \in OnTheWay} = 0 .. tx_next - 1
      /\ Len(e) + Cardinality(OnTheWay) = tx_next
      /\ \A j, k \in DOMAIN e : j < k /\ e[j].from = e[k].from => e[j].n < e[k].n

\* Towards the promise: the item at the head leaves the queue when it is taken care of.
Pending(q) ==
  [k \in 1 .. length[q] - HeadDone(q) |-> ring[q][Slot(q, k - 1 + HeadDone(q))]]

RlcFifo == INSTANCE BoundedFifo
             WITH Capacity <- Size("rlc"), fifo <- Pending("rlc"), out <- handed["rlc"]

PdcpFifo == INSTANCE BoundedFifo
              WITH Capacity <- Size("pdcp"), fifo <- Pending("pdcp"), out <- handed["pdcp"]

\* Each ring, with its mutex and its condition variable, is a bounded FIFO queue.
QueuesAreFifo == RlcFifo!Spec /\ PdcpFifo!Spec

Serves(q) == []<>(Pending(q) = <<>>) \/ []<><<handed'[q] # handed[q]>>_vars

\* On a gNB, each queue goes on being served until it is empty, whatever the threads
\* that fill it do: the head of the queue is always taken care of in the end.
QueuesAreServed == role = "gnb" => Serves("rlc") /\ Serves("pdcp")
=============================================================================
