# TLA+ models of the 5G split gNB (VNF / PNF / UE) and its traffic analyser

The repository holds an OpenAirInterface 5G stack built four times (`src/gnb`,
`src/vnf`, `src/pnf`, `src/ue`), an nFAPI split between a VNF and a PNF over UDP
with a proxy between them, and a traffic analyser (`src/u-tokyo`) that watches the
FAPI messages on NATS and asks the proxy for early buffer status reports.  The four
stacks are near copies: `nr_rlc_entity_am.c` is the same file in all of them.  The
models are mapped to the `src/vnf` copy.

## 1. Inventory

| Component | State | Operations | Talks to | Hard behaviours | What makes it correct |
|---|---|---|---|---|---|
| RLC AM entity (`nr_rlc_entity_am.c`, `nr_rlc_rx_manager.c`, `nr_rlc_sdu.c`) | tx/wait/retransmit lists, SDU reference counts, receive window and buffer, three timers | `recv_sdu`, `generate_pdu`, `recv_pdu`, `set_time`, `discard_sdu`, `reestablishment` | PDCP above, MAC below, all under `nr_rlc_manager_lock` | loss, reordering, segmentation, stale STATUS PDUs, SN wrap, timers racing answers | at-most-once delivery of whole SDUs, no false confirmation, exact accounts, eventual confirmation |
| RLC interface and UE manager (`nr_rlc_oai_api.c`, `nr_rlc_entity.c`) | table of UEs and bearers, millisecond clock | data requests and indications, add/release/reconfigure/re-establish bearer | RRC, MAC, PDCP | reconfiguration of a live entity, the two ends re-establish at different times | a bearer is never used after release; both ends agree on the SN space |
| RLC UM / TM | reassembly window and timer; FIFO | as AM without STATUS | as AM | late segments, wrap | an SDU is never built from two SDUs |
| PDCP entity | `tx_next`, `rx_next`, `rx_deliv`, `rx_reord`, ordered list, t_reordering | `recv_pdu`, `process_sdu`, `set_time`, suspend, re-establish | RLC, SDAP, RRC | COUNT inference at the HFN border, timer against late PDUs, integrity failure | in-order, at-most-once delivery; no COUNT used twice |
| PDCP interface, timer thread, UE manager | UE table, tick thread | as above plus lock and unlock around RLC calls | RLC manager | lock order, release while a PDU is under way | no deadlock, no use after release |
| SDAP entity | QFI to DRB map, end marker flags | map, reflective mapping | PDCP, GTP-U | a QFI that moves to another DRB | no packet on a removed DRB |
| gNB MAC scheduler | HARQ process lists (available, feedback, retransmission), rounds, NDI | schedule, feedback, CRC indication | RLC, PHY/nFAPI | feedback late or lost, two UEs, process reuse | a process is in one list at a time; every TB is confirmed or given up |
| gNB MAC random access, UE contexts | RA state, UE list | Msg1..Msg4, F1 context handlers | RRC over F1 | contention, timers, release during RA | one C-RNTI per UE |
| RRC gNB / DU / CU-UP | UE contexts, transaction ids, handover contexts | RRC procedures, F1/E1 handlers | F1AP, E1AP, NGAP | crossing procedures, lost peers | no procedure applied to another transaction |
| RRC UE | bearers, timers T300..T311 | reconfiguration, re-establishment | lower layers | as above | bearer state agrees with the gNB |
| F1AP, E1AP, NGAP, NAS, GTP-U | encoders, association and tunnel tables | one per message | SCTP, UDP | peer restart | - |
| nFAPI P5 | PNF state (idle, configured, running) | PARAM/CONFIG/START | VNF, PNF | requests out of state | - |
| nFAPI P7 | reassembly queues, slot buffers, timing | segment, reassemble, dispatch per slot | proxy, PHY, MAC | UDP loss, duplicates, reorder; slot buffer reuse | a message handed up is one that was sent |
| SPSC queue, actor, notified FIFO, thread pool, ITTI | ring indices, mailboxes, mutex and condition | put, get, stop | every thread | concurrent producer and consumer, stop against push | nothing lost, repeated or reordered |
| Traffic analyser `sample_nats.c` | hash of UEs with a ring of 128 samples, control socket | NATS callback, prediction, START_BSR | proxy over UDP | callback thread against start-up, ring overwrites, RNTI reuse | a prediction uses samples of one UE, in order |
| Agent `sample_agent.c` | control socket | list RNTIs, send command | proxy | lost answer blocks for ever | - |
| Proxy `nfapi_proxy.c` | queues of eight threads | start-up only (bodies in `libnp.a`) | VNF, PNF, NATS | - | - |
| PHY, radio simulator, plotting scripts | signal processing, offline | - | - | - | not modelled |

`PROJECT.json` lists the same components with their files and status, and under
`hazards` the lines where they bite.

Interaction on the paths that are modelled.  In RLC: PDCP calls `nr_rlc_data_req`, the MAC
scheduler calls `nr_mac_rlc_data_req` each slot and `nr_mac_rlc_data_ind` for each
transport block received, and a thread ticks `nr_rlc_ms_tick`.  Each call takes the
manager's lock, brings the entity's timers up to date (`set_time`) and runs one
operation to its end.  An operation is therefore atomic, and what interleaves are the
operations of the two ends, the timers and the radio link.

In PDCP: SDAP and RRC call `nr_pdcp_data_req_*`, which numbers and protects an SDU under the
PDCP manager's lock and hands it to RLC after the unlock; RLC puts what it delivers in a queue whose
thread calls `do_pdcp_data_ind`; the tick thread gives the time to every entity each millisecond; RRC calls
`nr_pdcp_reestablishment`, at the two ends by different messages.

Between PDCP and RLC there are two bounded queues with a thread each.  Whoever submits an SDU puts the PDU in the
first, from which `rlc_data_req_thread` gives it to RLC under the RLC manager's lock; the MAC thread, which holds that lock while
RLC receives a transport block, puts each SDU in the second, from which `pdcp_data_ind_thread` gives it to PDCP
under the PDCP lock.  The queues exist so that no thread ever holds one lock and takes the other.

In nFAPI P7: for each slot the VNF's scheduler and the PNF's PHY send each other messages over UDP.  A
message longer than a datagram is cut in segments; the receiver keeps a linked list of messages under reassembly, which
only its receiving thread touches.

In the traffic analyser: the thread of the NATS library calls `handle_message` for each FAPI message, which finds the MQTT
publications in it, adds a sample to the UE's ring, analyses the ring under `ue_table_mutex`, logs and sends a command to the
proxy; `main` subscribes, opens the command socket and the logs, and sleeps.

## 2. Modules

| Module | Models | Code |
|---|---|---|
| `RlcAmSn` | sequence number arithmetic, segments, PDUs | `modulus_rx/tx`, `nr_rlc_sdu.h`, header sizes |
| `RlcAmTx` | transmitting side: segmentation, polling, STATUS processing, poll timer, discard, re-establishment | `nr_rlc_entity_am.c` |
| `RlcAmRx` | receiving side: window, reception buffer, reassembly, t_reassembly, status generation, t_status_prohibit; also as a specification of its own (`RxSpec`) against any peer | `nr_rlc_entity_am.c`, `nr_rlc_rx_manager.c` |
| `RlcAmLink` | the two sides and a MAC that loses and reorders; fairness; properties of the bearer | the above and `nr_rlc_oai_api.c` |
| `RlcService` | what the bearer promises: submit, deliver once, confirm only what was delivered, drop | abstract specification |
| `MCRlcAmLink` | values a `.cfg` cannot write (-1 for infinity) | |
| `RlcAmRxProofs` | theorems on `RxSpec` | |
| `SetSums` | sums over finite sets: what `MapThenSumSet` computes and how a sum changes with its set; least elements (lemmas) | |
| `RlcAmTxProofs` | the transmitting side's inductive invariant, operation by operation (lemmas) | |
| `RlcAmLinkProofs` | theorems on the `Spec` of `RlcAmLink` | |
| `NrPdcp` | a PDCP bearer in one direction: numbering at one end, COUNT inference, reordering and delivery at the other, re-establishment of each end, over an abstract RLC bearer | `nr_pdcp_entity.c`, `nr_pdcp_sdu.c`, callers in `nr_pdcp_oai_api.c` |
| `NrPdcpProofs` | theorems on the `Spec` of `NrPdcp` | |
| `PdcpQueues` | the two queues between PDCP and RLC, the threads that fill and empty them, the two manager locks; fairness; a gNB and a UE | `nr_pdcp_oai_api.c`, the locks of `nr_rlc_oai_api.c`, the control PDUs of `nr_sdap_entity.c` |
| `BoundedFifo` | what a queue between two threads promises | abstract specification |
| `PdcpQueuesProofs` | theorems on `PdcpQueues` | |
| `NfapiP7` | P7 messages from sender to receiver: segments, UDP, reassembly, removal of old messages, at the PNF and at the VNF | `pnf_p7.c`, `vnf_p7.c`, `socket_pnf.c`, `socket_vnf.c`, `pnf_p7.h` |
| `NfapiP7Proofs` | theorems on `NfapiP7` | |
| `SampleNats` | the analyser: ring, two analyses, logs, commands, start-up | `sample_nats.c` |
| `SampleNatsProofs` | theorems on `SampleNats` | |

How the state of RLC AM corresponds:

* `wait_list` and `retransmit_list` are linked lists kept sorted by (SN, offset) and
  consumed from their head or filtered; they are sets of segments here, and `HeadSeg`
  is the head.  This is exact as long as an SN names one live SDU.  `tx_list` is a
  FIFO and a sequence here.
* An SDU is a record per identifier with its `sn`, `ref_count`, `free_count` and
  `retx_count`; `fate` says whether the entity holds it, confirmed it
  (`sdu_successful_delivery`) or gave it up.
* The reception buffer is a function of slots. The code's `start` and `sn_start` move
  together, so that SN `s` is in slot `s % W`: `get_pos` uses that. A slot that is delivered keeps its PDUs
  without data in the code (the head of the list has none, which is what `delivered` says; `freed` is their bytes).  Their byte
  ranges still count in `segment_already_received`, and a PDU that goes past them joins the slot with its data.
* A timer is running or not; `t_*_start # 0` in the code.  It may expire at any time
  while it runs: the configured delays are not compared with one another.
* `crashed` is a NULL dereference, `hung` a loop that does not end: the entity (and, as it holds
  the manager's lock, the whole of RLC) takes no step after that.
* `air` and `ctl` are what the MAC was given and has neither delivered nor given up.
  They are sets: the MAC does not preserve order, since HARQ processes finish
  independently.  `losses` bounds what is lost.

What is abstracted in the data:

* Bytes become units. A header is one unit, a segment offset one more, so that the
  header still grows when an SDU is segmented, on which all the accounts depend.
* A STATUS PDU is the set of units it NACKs and its `ack_sn`.  A transport block too
  small cuts it before any NACK (`StatusUpTo`); the byte count at which this happens is
  left to choice, as is the limit of 255 SNs per NACK range.  A cut inside the NACKs of one SDU makes the
  last one run to the end of that SDU (`LastNack`; `so_end` is 0xffff, lines 1408-1424).  `RangeWraps` keeps the
  one irregular result of `next_missing`: at the top of the window it meets the slot
  of `rx_next` again and makes a range that the sender throws away as invalid.
* The payload of a PDU is the identity of the SDU it comes from (`id`), which the
  protocol never reads: it is how the model notices that bytes of two SDUs are mixed.
* `Young`: a PDU does not stay in the HARQ processes while a whole window of newer ones
  goes by.  Without this no window protocol can tell an old PDU from a new one; HARQ holds a PDU for tens of milliseconds
  and the window has 2048 or 131072 SNs.  The same holds of STATUS PDUs (`SendPdu` of `RlcAmLink`).
* A re-establishment resets both ends and the MAC in one step.  In the code the two ends are reset by
  different messages; the non-simultaneous version is in the plan.
* One direction of the bearer.  The other one is the same code with its own state; the
  two share the transmission opportunities, with priority to STATUS PDUs.

How the state of PDCP corresponds:

* `tx_next`, `rx_next`, `rx_deliv`, `rx_reord` are the code's, and `t_reordering` is
  `t_reordering_start # 0`; it may expire whenever it runs.  COUNTs have `Hfns` cycles of `2 * W` SNs and wrap as
  `uint32_t` does.  `rx_list` is sorted by COUNT and consumed from its head: a set here.
* A PDU carries the SN only.  The whole COUNT and the key it was protected with stand for its payload: the code learns of them
  through the integrity check (`IntegrityOk`), the properties through the SDU itself.  Keys are numbered by
  re-establishment, which is when RRC gives new ones.
* `air` is the RLC bearer with everything below: a set, since threads hand PDUs to RLC outside the
  lock, an UM bearer reorders and an AM bearer delivers when an SDU is whole.  `L` says how far ahead of a PDU that is still owed it may
  deliver, which is what RLC's window does; `LosePdu` is a discard, an UM loss or an exhausted retransmission.
* The re-establishments of the two ends are separate steps.  When the transmitting end re-establishes, RLC drops all it
  holds.  A DRB hands nothing to a receiver whose peer has already changed the key (RRC resumes it after both); an SRB does,
  and the PDU fails the integrity check and counts as a loss.  The SRB is modelled from the moment its integrity is on.
* `Burst`: at most so many PDUs arrive while t_reordering runs, that is the timer is short compared with the
  time a window takes.  It is never infinite.
* History variables: `last`, the last SDU delivered, and `misordered` are what the order of delivery is stated with; `inStep`
  says that every PDU so far arrived below `rx_deliv + W`.  `since` and `losses` count for the bounds.

`TimerGuardsGap`, `CountAgrees` and `InOrder` are stated while `inStep`: beyond a window the SN is
ambiguous and no receiver could do better.  `KeepsInStep` says that the receiver never gets there, provided
`L + MaxLoss + 2 * Burst - 1 <= W` (without the terms in `Burst` when it is 0; `ShortBursts` in `NrPdcpProofs`): what is between
`rx_deliv` and the newest PDU is what was lost, what is kept, and the reordering.  `Burst` counts twice, because t_reordering
starts again when it expires with a newer hole, and then what came during the first run is still kept.
`L + MaxLoss + Burst <= W` is not enough: with `W` = 6, `L` = 1, two losses and `Burst` = 3 TLC finds the receiver out
of step.  For `Burst` = 1, the run's, the two are the same, and with one more of any term the run finds the violation.

How the state of the queues corresponds (`PdcpQueues`):

* `ring`, `start`, `length` are `q`, `q.start`, `q.length` and their twins of `pq`.  A critical section of a queue's mutex
  is one action, since nothing inside it waits but `pthread_cond_wait`; `asleep` is the wait set of the condition variable, from
  which a signal removes one thread, whichever it is, and which a thread may leave by itself.
* A consumer's round is `Take` (under the mutex: the queue is not empty), the call (outside it: the slot is read there, and the
  manager lock is taken) and `Release` (under the mutex again: the slot is free, signal).  `pc` is where a thread is between these.
* The manager locks are held across actions and are variables.  The PDCP lock is recursive: a thread that delivers an SDU and
  sends a control PDU from there goes through `nr_pdcp_data_req_drb` without waiting for it.
* An item is the COUNT it carries (or, upwards, its place in RLC's order) and the thread it comes from.
* `role` chooses between a gNB, which sends nothing from inside a delivery, and a UE, which answers a reflective mapping
  with an SDAP control PDU.
* `entered` and `handed` are history: what was put in each queue, and what was taken care of.

How the state of P7 corresponds (`NfapiP7`):

* `net` holds the datagrams on their way, each for `MaxDelay` ticks at most; it is a set, so they arrive in any order, and one
  that is duplicated stays.  A sender sends one message a tick.  This pace is what a sequence number of eight bits rests on.
* `queue` is `reassembly_queue`, with at most one entry for each sequence number; `expected`, `received`, `t0` and `segs` are the entry's
  fields, 255 for a number of segments not known.  The code's decision to hand up is `received = expected`, and what goes up is
  whatever is in the first `expected` slots: a `Hole`, a slot never written, is a read of memory not initialised.
* A time stamp holds seconds and microseconds in two fields of one word, and an age is a difference of two words (`TimeHr`, `Elapsed`).
  `Field` is what the second field can hold (2^20 in the code) and `Sec` what it does hold (10^6): a difference over the border of a second is
  `Field - Sec` too large.  The seconds do not wrap in the model (68 minutes in the code).
* `heard`, `tracks` and `due` are history: when the receiver last had an occasion to look for old messages, what arrived of each
  message, and the segment that completed one in time.
* Lengths are abstracted.  (The VNF keeps that of a message in 16 bits, `socket_vnf.c:622`, where the PNF takes 32.)

How the state of the analyser corresponds (`SampleNats`):

* One RNTI: the table has a ring for each, and `ue_table_mutex` is held from the sample to the rows of the logs.  Only the thread of the
  NATS library takes it, so the sample with its analyses is one action, and the two rows (1030-1031, still under the mutex, which `main` does not take) and the
  command (after the unlock) are actions of their own, between which `main` may run.
* The steps of `main` are an action each.  The socket and each of the two logs may fail to open (749-752, 823-827); `main` goes on, with the warning
  "CSV logging disabled" (850) even if one log is open and used.  Connecting to NATS and subscribing succeed: otherwise `main` returns.
* The model ends at `sendto` and `fprintf`, whose results the code ignores.  `commands` is what was sent with the address of the proxy, not what arrived:
  the commands go by UDP to another host, and which of them get lost, overtaken or doubled there is not modelled.  `raw_rows` and `analysis_rows` are the rows handed to `fprintf`.
* The time is read once per message: a gap of 0 is the next PDU of the same message.
* The two analyses are folds over the window, branch by branch the loops of the code; their statistics (deviation, median, window sizes) are left
  out, and `bsr_size` stays because it is sent.  The topic is left out, and with it the prediction from topic switches.
* `seen` is history: all samples, that the ring has forgotten too.

## 3. Runs

Bounds of the RLC runs: `W` = 2, that is a window of two and an SN space of four, the
smallest with distinct SNs in one window and two SNs per slot.  Every wrap and every full window
is a few steps away.  `rlcam_receiver` was also explored with `W` = 3.

| Run | Bounds | Shows |
|---|---|---|
| `rlcam_receiver` | SDUs of two units, any decodable PDU at any time | window, slots and reassembly timer are consistent with *any* peer, and how the buffer account may drift: `RxTypeOK`, `PointersOrdered`, `TriggerInWindow`, `OneSnPerSlot`, `RxSizeAccounts` |
| `rlcam_segmented` | two SDUs of up to two units, transport blocks of 2 and 3 units (a segment, or a whole SDU), poll thresholds 2, retransmission limit 1, receive buffer of 3 units, one loss, one re-establishment, discards | `SegmentsPartition` (no double free, no leak), `AccountsExact` (what the MAC is told is what there is to send), `AtMostOnce`, `RxSizeExact` (with this transmitter the account of the receive buffer does not drift), and the refinement `ImplementsService` |
| `rlcam_wrap` | six SDUs of one unit, three PDUs in the air, two losses | all SNs wrap: `NewSduInWindow`, `PollPending`, `TxNextAckIsOldest` (true without segmentation), `AtMostOnce`, `ImplementsService` |
| `rlcam_liveness` | three SDUs, one loss, fair | `EventuallyConfirmed` |
| `rlcam_tx_next_ack` | two SDUs of two units | `TxNextAckIsOldest` is violated |
| `rlcam_wait_list` | three SDUs of two units | `WaitListNotEmpty` is violated |
| `rlcam_full_window` | as `rlcam_wrap` | `HeadNotDelivered` is violated |
| `rlcam_last_pdu_lost` | two SDUs, one loss, fair | `LostPduIsRepaired` is violated |
| `pdcp_bearer` | window of four, two cycles of eight SNs, eleven SDUs, three in RLC, one loss, reordering by two, one re-establishment at each end, all three types of bearers, DRBs with and without integrity | `PdcpTypeOK`, `TimerGuardsGap`, `CountAgrees`, `InOrder`, `KeepsInStep`, `KeptIsDelivered` |

| `pdcp_queues` | RLC queue of three slots, PDCP queue of one, a sender, a MAC thread, the timer thread and both queue threads, five PDUs down and two SDUs up, gNB and UE, fair | `TypeOK`, `RingHoldsTheRest`, `NoLostWakeup`, `DeadlockOnlyByControlPdu`, `CountsEnterOnce`, the refinement `QueuesAreFifo` and `QueuesAreServed` |
| `nfapi_p7` | sequence numbers modulo 3, four messages of one to three segments, one tick of delay, one of age, four ticks in a second and six values of its field, one duplicate, PNF and VNF | `P7TypeOK`, `NoStaleMessageSurvives`, `WholeMessages`, `InTimeIsHanded` |
| `sample_nats` | ring of three, two lengths, gaps 0 and 2, five samples of which one may come during the start-up, a socket and two logs that open or fail | `NatsTypeOK`, `WindowIsSuffix`, `AnalysisOfHistory` (`NormalIntervalsOfHistory` and `LastBurstOfHistory`), `JitterMisjudgesFirstOnly`, `CommandsFollowSamples`, `LogsFollowCommands` |

In `pdcp_queues` (786 thousand states) the RLC ring has as many slots as it has producers, the least the assumption
allows; five PDUs take it round, fill it and leave two threads asleep on it, and the PDCP queue of one slot is full with every SDU.
In `nfapi_p7` (3.6 million states) the fourth message has the number of the first, `Delta + MaxDelay` is one less than a round of the numbers, and the clock passes a second.
In `sample_nats` (3.3 million states) the ring goes round with two samples forgotten, at each of the two QoS, and the one early sample meets `main` between any two of its steps.
It was also explored with two early samples (6.4 million states).

In `pdcp_bearer` the SN wraps once (eleven SDUs of eight SNs), in the middle of losses and reordering, and the bounds meet
the condition of `KeepsInStep` with equality.  It was also explored with two re-establishments, and with `W` = 6, `L` = 3, two losses
and fourteen SDUs.

Deadlock checking is off in all of them: the upper layer submits finitely many SDUs (messages, samples),
after which the system rightly stops, and a hung or crashed entity stops too.  That the threads around the queues do not
stop on each other is `DeadlockOnlyByControlPdu`.

Fairness (`FairSpec`): the MAC scheduler asks for PDUs and for STATUS PDUs in every slot
in which something is announced, the tick thread makes running timers expire, and a
PDU that is not lost leaves its HARQ process; each is weak fairness.  The upper layer owes nothing, so `Submit`, `Discard` and
`Reestablish` are not fair, nor are the losses, which are finite by `losses`.

In `NrPdcp` only `ReorderingExpires` is fair: the tick thread calls `set_time` of every entity each millisecond,
and a timer that runs and is not stopped expires.  Nothing obliges a PDU to arrive.

In `PdcpQueues` (`FairSpec`) a thread that can go on does: weak fairness of the queue threads, of the end of a delivery and of a tick, and of the
MAC thread once it holds the lock (a transport block has finitely many PDUs).  A thread that waits for a manager lock gets it some day, which is
strong fairness, as others take it again and again.  Nobody owes a submission.  `QueuesAreServed` is then weak fairness of the
abstract `Get`, for a gNB: each queue is empty again and again, or its head is taken care of again and again.

### What the violation runs found

1. **`tx_next_ack` passes a live SDU** (line 725).  An SDU of which one segment was sent and
   acknowledged and the rest waits in `tx_list` is not seen when the oldest SN not
   acknowledged is looked for.
2. **NULL head of the wait list** (line 1910).  A STATUS PDU that does not cover `poll_sn`
   empties the wait list and leaves t_poll_retransmit running; it expires while the window is stalled.
3. **Endless search** (line 233).  In a full window whose SDUs are all delivered but the one at
   `rx_next`, the arrival of that one leaves no slot that is not delivered, and the
   search for one goes round the buffer.
4. **A lost last PDU waits for new traffic** (line 1873).  The poll timer stops at its expiry, the
   retransmission it scheduled is cancelled by a late STATUS PDU, and the poll it owes
   is only sent with a PDU that nobody submits.

`EventuallyConfirmed` therefore excludes `OwesPoll` (4), `crashed` (2) and `hung` (3), and only these.
`PollPending` and `TxNextAckIsOldest` hold without segmentation and are checked in `rlcam_wrap`; with three
segmented SDUs, finding 1 breaks both.

Finding 1 goes further than its run shows.  Two SDUs (`rlcam_segmented`) are too few for `AtMostOnce` to fail: a simulation of the same
specification with `W` = 2, six SDUs of up to two units and three losses finds `garbled`.  Once `tx_next_ack` has passed a live SDU, the
window holds more SNs than it may, and a segment of that SDU joins one of the SDU with the same SN a window later.  `AtMostOnce`,
`NewSduInWindow` and `ImplementsService` are therefore to be read as: true without segmentation, and with it in every behaviour in which
`TxNextAckIsOldest` has not failed.  Both are proved (section 4).

`PollPending` needs one more condition, that the upper layer discards nothing: when the last SDU of `tx_list` is discarded after the
others were sent without a poll, nothing polls any more (Submit, Submit, SendPdu, Discard).  In the repository only tests call `discard_sdu`.

### What the passing runs say that a reader may not expect

* **The account of the receive buffer drifts with a peer that breaks the protocol.**  A PDU that goes past the end of a delivered SDU is not "already received"
  (`nr_rlc_entity_am.c:94-113`); it is kept and charged (833), never reassembled (125), and freed with the slot when the window moves (247-254), where nothing
  is taken off `rx_size`.  `RxSizeAccounts` says that this is the only drift, and that it is upwards: it ends in a buffer that takes nothing more, until a re-establishment.  The transmitter
  of this code sends no such PDU, and `RxSizeExact` holds of the bearer.
* **Two locks are not the whole lock order.**  The note at the head of `nr_pdcp_oai_api.c` (87-98) excludes a deadlock by never
  taking the RLC lock under the PDCP lock.  A full queue is a wait too: at a UE, a thread that delivers SDUs under the PDCP
  lock waits for room in the RLC queue, whose thread waits for the RLC lock, whose owner waits for room in the PDCP queue, whose thread waits for the PDCP
  lock or is the first one.  It takes 10000 items in each queue.  `DeadlockOnlyByControlPdu` says that this is the only way.
* **One condition variable for both sides of a queue, and one signal per change, lose no wakeup** (`NoLostWakeup`),
  but only while there are no more producers than slots: the assumption on `Cardinality(ProducersOf(q))`.
* **PDUs of two threads may enter the RLC queue in the other order than their COUNTs** (`CountsEnterOnce` states only what holds).
* **At each new second, P7 forgets.**  `pnf_p7.h:14` puts microseconds in a field of 20 bits, so that over the border of a second an age is
  48576 microseconds too large and every message under reassembly is removed as older than 10 ms.  `InTimeIsHanded` excludes exactly this, a duplicate
  and an older message with the same number.  The error only goes one way: `NoStaleMessageSurvives`.
* **After silence two messages can be mixed**: old segments are removed only when a datagram arrives, and the datagram that
  arrives joins its entry first.  `WholeMessages` is therefore stated for what is put together within `Delta`.
* **The second analysis misjudges the first interval** of a window that begins with QoS 2 (`sample_nats.c:526`): a normal interval becomes part
  of a burst when an older sample is forgotten.  `JitterMisjudgesFirstOnly` says exactly which and no other.
* **The two logs may begin with different samples**: `csv_log_init` does not take the mutex that, by the comment at `sample_nats.c:813-816`, protects
  them, so that a sample may find one open and the other not; and each may fail to open alone, or the socket with both open (`LogsFollowCommands` compares what is open).

## 4. Proofs

### The receiving side of RLC AM

`RlcAmRxProofs` proves, for every window size `W` > 1, every number and size of SDUs and every
buffer size, that the receiving side keeps

    RxInv == RxTypeOK /\ PointersOrdered /\ TriggerInWindow /\ OneSnPerSlot

in `RxSpec`, that is against any sequence of data PDUs, timer expiries, status reports
and re-establishments (`RxInvariant`), and the four conjuncts as theorems of their own.

The argument.  Everything is expressed in distances from `rx_next`, where a step that
moves the window by `c` shifts every distance by `c` (`DistFromPlus`, `PlusOfPlus`).
The four conjuncts need one another: `OneSnPerSlot` is kept by the move of the window
only because the slots above `rx_next_highest` are empty (a part of `PointersOrdered`): the slot that `rx_next` leaves becomes
the slot of the SN one window above.  That `rx_highest_status` stays at most `rx_next_highest` needs the
search over delivered slots to stop there (`RunStaysBelow`), which holds because a slot
there is empty or is the slot of `rx_next`, which is not delivered.  On expiry of t_reassembly the search
starts at the trigger, which `TriggerInWindow` keeps inside the window
(`ExpiryKeepsWindow`).  `RunEndsAtFirst` says what the search finds (`DeliveredRun` is a
`CHOOSE`, whose witness comes from the least element of a set of naturals, `LeastNat`).  `KeepPdu` is the step
for a PDU that is kept, with one case for each kind of move; `StatusType` shows that a
STATUS PDU reports SNs of the space.

`RxSizeIsAccounted` proves `RxSizeAccounts` on top of it: a PDU that arrives is in no slot yet (`NewInSlot`), so its size is added
once; what a delivery takes off is the sum over one slot, the only one of its SN; and what the moving window empties is `Forgotten`.  `RxBufferIsBounded` follows: what is held is at most
`rx_size`, and `rx_size` at most `RxMax`.

The proof uses the assumptions `SizesAssumption` and `RxAssumption` only.  In a hung state
(finding 3) `PointersOrdered` and `TriggerInWindow` say nothing, and no step leaves it but the MAC's collecting a
STATUS PDU.

### The transmitting side of RLC AM, and sums

`RlcAmTxProofs` shows that each operation of the transmitting side keeps

    TxInv == TxTypeOK /\ SegmentsPartition /\ Structure /\ WindowKept /\ Accounts

one lemma per operation (`RecvSduInv`, `GenerateTxPduInv`, `GenerateRetxPduInv`, `ProcessControlPduInv`, `PollRetransmitExpiresInv`,
`DiscardSduInv`, `TxReestablishInv`).  `SegmentsPartition` is not inductive alone.  A discard frees an SDU by its one segment in
`tx_list`, which is right only if a segment without SN is a whole SDU (`QueuedFresh`); cutting a segment keeps bytes apart only if
segments lie inside their SDUs (`SegmentsFit`); and a freed identifier has to start from zero counts (`GoneIsReset`).
`WindowKept` is what `tx_next_ack` guards: at most `W` SNs are above it.

The reference counts and the accounts are sums over sets of segments.  The provers cannot instantiate an induction rule, so `SetSums` proves what
is needed about sums by least counterexample: among the finite sets for which a fact fails one has least cardinality (`SmallestSet`), and
removing an element of it gives a contradiction.  `TotalRemove` says that the order of summation is irrelevant (the definition removes `CHOOSE`n
elements), `TotalUnion`, `TotalSubset` and `TotalReindex` are what the operations need, and `SizeSumIsTotal` identifies these sums with the
`MapThenSumSet` of the model.

### The RLC AM bearer

`RlcAmLinkProofs` is about both sides and the MAC, for every window, number and size of SDUs, buffer, thresholds, losses and re-establishments.
Unconditionally, the two invariants hold together,

    BothInv == TxInv /\ RxInv /\ Bounds

which gives `TypeOK`, `SegmentsPartition` and `AccountsExact` (`LinkTypes`, `LinkSegmentsPartition`, `LinkAccountsExact`), with segmentation, discards
and stale STATUS PDUs.

Delivery is different: because of finding 1 it is false without a hypothesis.  `LinkInvHolds` proves

    Spec /\ []TxNextAckIsOldest => []LinkInv

that is, in every behaviour in which finding 1 does not bite, segmentation or not, the following hold and with them `AtMostOnce`, `NewSduInWindow` and the refinement
`ImplementsService`.  Everything is said in *ages*, how far an SN is below `tx_next`:

* `DistinctSns`, `Nested`: the SDUs held have different SNs, and `rx_next` is not older than `tx_next_ack` nor younger than
  `rx_next_highest`: the two windows are nested.
* `AirGenuine`, `BufferGenuine`: what is in the air or in the reception buffer has the number, the place and the end that its SDU has at the transmitter,
  unless the SDU was delivered, and then the receiver knows it (`Done`: below its window, or marked).  No byte of another SDU can join (`~garbled`).
* `DoneIsDelivered`, `FatesOk`: the receiver is done with a held SDU just when it went up; what was confirmed went up, once.
* `NothingLost`: each byte of a held SDU is in one of the three lists or has arrived (in the buffer or delivered).
* `StatusTrue`: each STATUS PDU under way, however old, is true of every held SDU below its `ack_sn`: each byte is NACKed or has arrived.  This
  is why a late STATUS PDU never confirms what is missing.  `StatusIsTrue` proves it of `generate_status`, cut or not.
* `MissingIsHeld`: an SN missing at the receiver belongs to an SDU the transmitter still holds.
* `HungAtHead`: also in the endless loop of finding 3 the SDU at `rx_next`, which went up but is not freed, is never confirmed or replaced.

The invariant has to be proved for each action with all conjuncts: arrival (`KeptStep`), STATUS generation and processing
(`SendStatusStep`, `ReceiveStatusStep`) and transmission (`SendPduStep`) each need most of them.  `FreedIsGot` is the centre: when a STATUS PDU frees an SDU, every byte of it was acknowledged,
so it has arrived.  `TxNextAckIsOldest` is used where a new SN is given out: it is then a window above the oldest SDU that is held, hence different from all.

`LinkRxSizeExact` adds that nothing is ever kept in a delivered slot (`DeliveredWhole`: the slot of a delivered
SDU knows every byte of it, and every byte that is in the air for it), so that nothing is forgotten and `rx_size` is what is held.

The hypothesis is discharged where the code keeps it.  With

    WholeSdus == \A n \in TbSizes : n > HDR_SIZE => n >= HDR_SIZE + MaxLen

(a transport block that fits anything fits a whole SDU) an SDU that has an SN is in `wait_list` or `retransmit_list`, where the code of finding 1 does look, and
`WholeTxNextAckIsOldest`, `WholeAtMostOnce`, `WholeRxSizeExact`, `WholeNewSduInWindow` and `WholeImplementsService` follow with no hypothesis on the states.  `rlcam_wrap` is an instance.

The refinement: `StepEffect` lists what a step may do to the SDUs (one is submitted; one goes up; some are confirmed that went up; some are dropped) and `StepIsService` maps each to a step
of `RlcService` or a stutter.

`WholePollPending` proves `PollPending` for `WholeSdus /\ ~Discards`.  The argument: once everything was sent, the timer runs for the last SN
(`PollAtTop`), so a STATUS PDU that stops it answers for everything below (`AnswersAll`) and leaves nothing in `wait_list` that is younger than what it moved to
`retransmit_list` (`WaitersBehind`); the PDU that empties that list polls.

### The PDCP bearer

`NrPdcpProofs` proves, for every window and number of cycles, every `L` up to the window, every type of bearer and
every bound on losses, PDUs and re-establishments,

    PdcpInv == PdcpTypeOK /\ AirOk /\ TimerGuardsGap /\ (inStep => Steady)

and from it `PdcpTypeOK`, `TimerGuardsGap`, `CountAgrees` and `InOrder`.  It uses `PdcpAssumption` only.

The argument.  `CountInferred` is the heart: a COUNT in `rx_deliv - W .. rx_deliv + W - 1` is the
one inferred from its SN, because two COUNTs with the same SN that differ by less than two windows are equal (`NearMultiple`).  That a PDU of the
right key is not *below* that window is an invariant: `rx_next <= q.count + L` for every PDU in the air (`LinkOk`), which RLC's reordering bound
keeps, and `rx_deliv <= rx_next`.  That it is not above is `inStep`.  Hence what is kept is genuine (`ListOk`).
The order of delivery needs three more facts: what was delivered has a COUNT below `rx_deliv`, or an older key (`LastOk`); keys do not go down when
COUNTs go up (`ListOk`, and `LinkOk` for what is still to come), which the re-establishment of an AM bearer needs, as it keeps the numbers; and a
PDU with a wrong key never gets into the list, which is integrity on an SRB and the suspension on a DRB (`AirOk`: the two ends are at most
one re-establishment apart).  `RunOfCounts` says what the delivery loops find; `StoreKeeps` and `ExpiryStep` are the steps for a PDU
that is kept and for the expiry.

`PdcpKeepsInStep` proves `KeepsInStep` under `ShortBursts`, a condition on the constants that says how short t_reordering
is for the traffic.  It needs numbers of PDUs, hence the inductive invariant

    InStepInv == PdcpInv /\ inStep /\ LostOk /\ KeptOk

`LostOk`: of the COUNTs sent that the receiver still waits for, those that neither the air nor `rx_list` has (`Gone`) are no
more than the losses; `KeptOk`: while t_reordering runs at most `First + since` PDUs are kept, at most `since` of them at or above `rx_reord`, where `since`
counts arrivals since the start and `First` is what an earlier run can leave.  A PDU that arrives is then less than
`W` above `rx_deliv`, because each COUNT from `rx_deliv` to the newest is kept, gone, or among the last `L` (`ArrivalInStep`).  `PdcpKeepsOrder`
combines it with `InOrder` and `CountAgrees`, which are stated while in step: under `ShortBursts` they hold always.

### The queues between PDCP and RLC

`PdcpQueuesProofs` proves, for any sets of senders and MAC threads, any capacities that are not below the number of producers, and both roles,

    QueuesInv == TypeOK /\ Control /\ RingOk /\ NoLostWakeup

and from it `RingHoldsTheRest`, `NoLostWakeup`, `DeadlockOnlyByControlPdu` and the refinement `QueuesAreFifo`; with two more
conjuncts, `CountsEnterOnce`.  It uses `QueuesAssumption` and `ZeroedAssumption`.

The argument.  `Control` ties the program counters to the locks and the wait sets: who holds a lock is in the section it protects
(`LocksHeld`), who sleeps is where it waits (`SleepersWait`), who queues has an item (`ItemsReady`).  `RingOk` is `RingHoldsTheRest` in a form that
steps keep; the slots of a ring in use are distinct because two numbers below the size that differ have different remainders, so an `Enqueue` does not
touch the slot the consumer still reads.  `NoLostWakeup` is a counting argument: while a producer sleeps, the items in the queue and the
producers awake in `Enqueuing` are at least the size, a signal that wakes a producer adds one to the second, and an `Enqueue` moves one from the second to the
first.  Its weak point is a consumer that sleeps with producers; that cannot be, because producers sleep on a full queue only and
there are not more of them than slots.  The deadlock theorem needs no further induction: in a state of `QueuesInv`, if all wait, the waits can only form the one
circle.  The refinement hides the slot that is taken care of but not removed (`HeadDone`): `RlcDataReq` and `PdcpDataInd` are `Get`, `Enqueue` is `Put`, all
other steps stutter.

### The P7 messages

`NfapiP7Proofs` proves all four properties of the run `nfapi_p7` for any range of the numbers, any length of messages, seconds and fields, any delay and both
receivers, from `P7Assumption`, of which `Delta + MaxDelay < SeqMod` is the one that matters.

The argument.  `ElapsedAtLeast`: while the seconds do not wrap, the difference of two time stamps is no less than the time between them, and equal to it within
one second.  The first half gives `NoStaleMessageSurvives`, the second `InTimeIsHanded`.  `WholeInv` says of each segment in the queue that it was
sent at most `MaxDelay` before its entry began (`SlotsOk`), hence within an entry that is younger than `Delta` two messages differ by less than
`SeqMod`, and with the same number are one (`SameRemainder`, `OneMessageInEntry`).  Then the counters of that entry mean what they should (`NumbersOk`):
a second datagram in a slot is a duplicate, so without one `received` is the number of slots filled, and equal to `expected` just when all are
(`CountComplete`).  `TracksInv` follows a message from its first datagram: an entry holds exactly what arrived of it, no other message has
joined or displaced it, no look for old messages has removed it; so its last datagram completes it.

### The analyser

`SampleNatsProofs` proves all six properties of the run `sample_nats` for every capacity of the ring, any lengths, gaps and numbers of
samples, from `NatsAssumption` only:

    RingInv /\ LogsInv /\ CommandsInv /\ StartUpTypes

`RingInv`: until the ring is full the slots are filled from the first on and `head` is `count`; then the slot that is overwritten is the
oldest.  `LogsInv`: the socket, the address and the two logs are opened in this order, as far as they open, and a sample has its raw row first, then the other, then its
command; the rows are compared with the commands when there is a socket, and with one another when the raw log is open.  `CommandsInv`: while a sample is in hand `bsr` is the size for the window, which `BsrSizeIs` bounds by its largest PDU.

What the analyses compute is a fold over the window.  `FoldTableExists` and `FoldTableSteps` turn the community modules' `FoldLeft` into
a function `A` with `A[m]` = the state of the analysis after sample `m` and a step from each to the next (`AnalysisOf`, `JitterOf`); the analysis has then an
invariant of its own, which `UpFrom` carries from the oldest sample to the newest.  `AnalysisOk` says that `in_burst` is the newest sample's QoS,
that the list has the intervals that end so far (`ListsMore`), that the burst is the last run of QoS 2, and that `max_len` bounds every length.  In
`JitterOk` the code's peculiarity is one conjunct, `StateOk`: a publication of QoS 0 ends a burst unless it is the first, so that
`in_burst` is stale until the second when the window begins with QoS 2.
The properties state lists by rank (`Lists`: the element of number `k` in a set stands at the place that many members are not above it) since the
provers know no `SelectSeq`.

### What is not proved

Every invariant and action property of a passing run is stated by a theorem, some under a condition that section 4 names
with them. Only model-checked:

* All liveness (`EventuallyConfirmed`, `KeptIsDelivered`, `QueuesAreServed`): fairness and `ENABLED` are out of the prover's reach.
* The four properties that the code violates, whose runs show the behaviour.

## 5. Plan

Next, in this order:

1. Proofs: a weaker hypothesis than `[]TxNextAckIsOldest` for the delivery of `RlcAmLink` with segmentation (how many new SNs the code may give out
   after finding 1 has bitten once), and `PollPending` with discards.
2. The PDCP status transfer at handover, which writes the entity's counters from outside, and suspend.
3. The non-simultaneous re-establishment of an RLC bearer and the life of bearers in `nr_rlc_oai_api.c`; a PDU of the old key that
   waits in the RLC queue meanwhile.
4. `SpscQueue` and the actor's mailbox, with a proof that nothing is lost or repeated.
5. HARQ process lists of the MAC scheduler.
6. The prediction from topic switches in the analyser; P5; the slot buffers and the synchronisation of P7.

Runs are kept for distinct questions; each new component gets one or two.

## 6. Not modelled

See `PROJECT.json`: encoders, the core network interfaces, the physical layer, the
numeric policies of the scheduler, the thread bodies of the proxy (in a binary
library), and the plotting scripts.  In RLC AM itself: reconfiguration, the byte layout of
PDUs, malformed PDUs, statistics, and foreign peers that send NACKs with `nack_sn = ack_sn`.  In PDCP: suspend
(no caller in this stack), the COUNT status transfer, release, reconfiguration, an infinite t_reordering, an SRB before its
integrity is activated, header layout, malformed PDUs and statistics.
Around the queues: adding and releasing bearers, the forms of delivery (TUN, F1-U), security and statistics.  In P7: packing, checksums, lengths, slot
buffers and synchronisation.  In the analyser: decoding of FAPI, IP and MQTT, the statistics over the intervals, the prediction from
topics, and START_SR and STOP_SR, which nothing calls.  The agent sends one datagram and blocks for one answer: there is no state to explore.
