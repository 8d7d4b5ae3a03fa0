SPECIFICATION Spec
CONSTANTS
  r1 = r1
  Peer = Peer
  f1 = f1
  f2 = f2
  NoOne = NoOne
  Runs = {r1}
  Files = {f1, f2}
  MaxVersion = 4
INVARIANTS
  TypeOK
  CommitsFromWhatItRead
  NoCommitIsOverwritten
  ConflictKeepsOthers
SYMMETRY FileSymmetry
CHECK_DEADLOCK FALSE
