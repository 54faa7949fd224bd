SPECIFICATION Spec
CONSTANTS
  W = 2
  MaxSdu = 6
  MaxLen = 1
  TxMax = 3
  PollPdu <- Infinity
  PollByte <- Infinity
  MaxRetx = 1
  RetxCap <- NotCounted
  TbSizes = {2}
  MaxAir = 3
  RxMax = 10
  MaxStatus = 1
  MaxLoss = 2
  MaxReest = 0
  Discards = FALSE
INVARIANT HeadNotDelivered
CHECK_DEADLOCK FALSE
