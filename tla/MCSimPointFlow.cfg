SPECIFICATION FlowSpec
CONSTANTS
  PC = {p1}
  p1 = p1
  IntervalSize = 2
  MaxSimTime = 9
  BbvSize = 1
  BbvSlack = 1
  Configs <- OneBbvRun
INVARIANT CkptsAreAligned LatePointsServed
CHECK_DEADLOCK FALSE
