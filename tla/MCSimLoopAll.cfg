SPECIFICATION FairSpec
CONSTANTS
  PC = {p1, p2}
  p1 = p1
  p2 = p2
  IntervalSize = 2
  MaxSimTime = 9
  BbvSize = 1
  BbvSlack = 1
  Configs <- AllConfigs
INVARIANT InstructionsConserved LimitIsExact
INVARIANT BbvMassConserved BbIdsAreDense
INVARIANT SpecialTargetsExact WarmupsOnTime WarmupLengthInFile
PROPERTY EarlyExitDropsNothing ImplementsSchedule RunsEnd
CHECK_DEADLOCK FALSE
