SPECIFICATION Spec
CONSTANTS
  Images = {i1, i2}
  BbvMaxJobs = 1
  CkptMaxJobs = 2
  MaxStarts = 3
  MaxFaults = 1
INVARIANT
  JobLimit
  NothingHalfDone
  CkptsHaveWeights
PROPERTY
  GoodCkptsAreKept
  ScriptsEnd
CHECK_DEADLOCK FALSE
