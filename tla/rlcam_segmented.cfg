SPECIFICATION Spec
CONSTANTS
  W = 2
  MaxSdu = 2
  MaxLen = 2
  TxMax = 3
  PollPdu = 2
  PollByte = 2
  MaxRetx = 1
  RetxCap = 1
  TbSizes = {2, 3}
  MaxAir = 2
  RxMax = 3
  MaxStatus = 1
  MaxLoss = 1
  MaxReest = 1
  Discards = TRUE
INVARIANTS TypeOK SegmentsPartition AccountsExact AtMostOnce RxSizeExact
PROPERTY ImplementsService
CHECK_DEADLOCK FALSE
