SPECIFICATION FairSpec
CONSTANTS
  W = 4
  Hfns = 2
  L = 2
  Burst = 1
  Types = {"DRB_AM", "DRB_UM", "SRB"}
  MaxSend = 11
  MaxAir = 3
  MaxLoss = 1
  MaxReest = 1
INVARIANTS PdcpTypeOK TimerGuardsGap CountAgrees InOrder KeepsInStep
PROPERTY KeptIsDelivered
CHECK_DEADLOCK FALSE
