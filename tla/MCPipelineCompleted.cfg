SPECIFICATION Spec
CONSTANTS
  Images = {i1, i2, i3}
  BbvMaxJobs = 2
  CkptMaxJobs = 2
  MaxStarts = 3
  MaxFaults = 1
INVARIANT
  CompletedMeansDone
CHECK_DEADLOCK FALSE
