SPECIFICATION Spec
CONSTANTS
  Files = {f1, f2}
  MaxGen = 4
  MaxResume = 1
INVARIANTS
  TypeOK
  DoneIsVerified
  FreshVerificationSuffices
CHECK_DEADLOCK FALSE
