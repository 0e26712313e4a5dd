SPECIFICATION Spec
CONSTANTS
  Half = 2
  MaxGen = 2
  MaxTime = 2
  OtherBuilds <- Builds
INVARIANT RestoredAsSaved
CHECK_DEADLOCK FALSE
