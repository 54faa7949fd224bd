SPECIFICATION Spec
CONSTANTS
  W = 2
  MaxSdu = 3
  MaxLen = 2
  TxMax = 6
  PollPdu <- Infinity
  PollByte <- Infinity
  MaxRetx = 1
  RetxCap <- NotCounted
  TbSizes = {2, 3}
  MaxAir = 2
  RxMax = 10
  MaxStatus = 1
  MaxLoss = 1
  MaxReest = 0
  Discards = FALSE
INVARIANT WaitListNotEmpty
CHECK_DEADLOCK FALSE
