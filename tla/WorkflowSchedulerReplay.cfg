SPECIFICATION Spec
CONSTANTS
  N = 3
  Specs <- SharedReadOnly
  MaxParallel = 3
  MaxStarts = 0
INVARIANT
  DependenciesHonoured
CHECK_DEADLOCK FALSE
