SPECIFICATION Spec
CONSTANTS
  b1 = b1
  b2 = b2
  b3 = b3
  s1 = s1
  x = x
  y = y
  z = z
  None = None
  Brokers = {b1, b2}
  Local = {b1}
  Delegated = {b1}
  Schedulers = {s1}
  Keys = {x, y, z}
  Key <- OwnKey
  Capacity = 1
  MaxClaims = 2
  MaxToken = 2
  MayOrphan = FALSE
  MayDegrade = FALSE
INVARIANT
  ChargedWithinCapacity
CHECK_DEADLOCK FALSE
