SPECIFICATION DifftestSpec
CONSTANT MaxBugs = 1
INVARIANT NoFalseAlarm HiddenStateAgrees
PROPERTY BugsAreCaught
CHECK_DEADLOCK FALSE
