SPECIFICATION Spec
CONSTANTS
  MaxRounds = 4
  MaxPhysical = 4
  TransportLimit = 1
  StallRounds = 3
  LadderLimit = 3
  DebtCap = 1
  KeepRecent = 2
INVARIANTS
  TypeOK
  ClosedChains
  StallIsCaught
PROPERTY
  LoopEnds
CHECK_DEADLOCK FALSE
