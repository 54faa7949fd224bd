SPECIFICATION FairSpec
CONSTANTS
  Senders = {s1}
  Macs = {m1}
  RlcThread = rlcq
  PdcpThread = pdcpq
  TimerThread = timer
  Nobody = nobody
  Zeroed = zeroed
  Roles = {"gnb", "ue"}
  RLC_DATA_REQ_QUEUE_SIZE = 3
  PDCP_DATA_IND_QUEUE_SIZE = 1
  MaxSent = 5
  MaxReceived = 2
INVARIANTS TypeOK RingHoldsTheRest NoLostWakeup DeadlockOnlyByControlPdu CountsEnterOnce
PROPERTIES QueuesAreFifo QueuesAreServed
CHECK_DEADLOCK FALSE
