SPECIFICATION FairSpec
CONSTANTS
  W = 2
  MaxSdu = 2
  MaxLen = 1
  TxMax = 3
  PollPdu <- Infinity
  PollByte <- Infinity
  MaxRetx = 1
  RetxCap <- NotCounted
  TbSizes = {2}
  MaxAir = 2
  RxMax = 10
  MaxStatus = 1
  MaxLoss = 1
  MaxReest = 0
  Discards = FALSE
PROPERTY LostPduIsRepaired
CHECK_DEADLOCK FALSE
