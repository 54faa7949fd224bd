SPECIFICATION Spec
CONSTANTS
  UE_HISTORY_CAPACITY = 3
  FrameLens = {3, 4}
  Gaps = {0, 2}
  MaxSamples = 5
  MaxEarly = 1
INVARIANTS NatsTypeOK WindowIsSuffix AnalysisOfHistory JitterMisjudgesFirstOnly CommandsFollowSamples LogsFollowCommands
CHECK_DEADLOCK FALSE
