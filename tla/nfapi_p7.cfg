SPECIFICATION Spec
CONSTANTS
  Sides = {"pnf", "vnf"}
  SeqMod = 3
  MaxSeg = 3
  Lengths = {1, 2, 3}
  Delta = 1
  Sec = 4
  Field = 6
  Secs = 4
  MaxDelay = 1
  MaxMsgs = 4
  MaxTime = 7
  MaxDup = 1
INVARIANTS P7TypeOK NoStaleMessageSurvives WholeMessages InTimeIsHanded
CHECK_DEADLOCK FALSE
