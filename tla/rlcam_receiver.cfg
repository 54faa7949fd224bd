SPECIFICATION RxSpec
CONSTANTS
  W = 2
  MaxSdu = 1
  MaxLen = 2
  RxMax = 3
  MaxStatus = 1
INVARIANTS RxTypeOK PointersOrdered TriggerInWindow OneSnPerSlot
PROPERTY RxSizeAccounts
CHECK_DEADLOCK FALSE
