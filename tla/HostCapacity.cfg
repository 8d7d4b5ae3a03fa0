SPECIFICATION FairSpec
CONSTANTS
  b1 = b1
  b2 = b2
  b3 = b3
  s1 = s1
  x = x
  y = y
  z = z
  None = None
  Brokers = {b1, b2, b3}
  Local = {b1}
  Delegated = {b1, b3}
  Schedulers = {s1}
  Keys = {x, y, z}
  Key <- SharedKey
  Capacity = 2
  MaxClaims = 2
  MaxToken = 2
  MayOrphan = TRUE
  MayDegrade = TRUE
INVARIANTS
  TypeOK
  OneActiveClaimPerCell
  ExecOnlyWithIdentity
  ChargedUnlessOverlooked
PROPERTY
  AbandonedClaimFreed
CHECK_DEADLOCK FALSE
