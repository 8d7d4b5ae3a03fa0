CONSTANTS
  c1 = c1
  c2 = c2
  c3 = c3
  Callers = {c1, c2, c3}
  MaxToken = 6
SPECIFICATION Spec
INVARIANT OldestWaiterIsServed
CHECK_DEADLOCK FALSE
