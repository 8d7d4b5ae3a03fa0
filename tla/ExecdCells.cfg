SPECIFICATION Spec
CONSTANTS
  k1 = k1
  k2 = k2
  r1 = r1
  None = None
  MaxCells = 2
  Keys = {k1, k2}
  Runs = {r1}
  RunOf <- OneRun
  Delegated = TRUE
  MaxCrash = 1
INVARIANTS
  TypeOK
  OneCellPerKey
  VerdictIsTrue
  RunningCellIsAnchored
  OneWriterUntilCrash
PROPERTY
  VerdictsAreFinal
SYMMETRY KeySymmetry
CHECK_DEADLOCK FALSE
