SPECIFICATION Spec
CONSTANTS
  Calls = {c1, c2, c3}
  First = c1
  NoOne = NoOne
  MaxInterrupts = 2
INVARIANTS TypeOK AnswerRunsOnce CancelReachesLoop SavedAnswerIsFinal FinishedCallIsReleased
PROPERTIES StartedCallEnds
CHECK_DEADLOCK FALSE
