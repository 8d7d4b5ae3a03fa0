SPECIFICATION FairSpec
CONSTANTS
  N = 3
  Specs <- AllSpecs
  MaxParallel = 3
  MaxStarts = 2
INVARIANTS
  TypeOK
  DependenciesHonoured
  SingleWriter
  RestoredNotReexecuted
  DeadlockOnlyAfterError
  DoneMeansComplete
PROPERTIES
  ResultsAreFinal
  RunEnds
CHECK_DEADLOCK FALSE
