SPECIFICATION Spec
CONSTANTS
  o1 = o1
  o2 = o2
  k1 = k1
  k2 = k2
  Offers = {o1, o2}
  Sweepers = {k1, k2}
  Unload = Unload
  None = None
  SlowClose = FALSE
  MaxAttempts = 2
  Budgets <- LeaseStranded
INVARIANT LeaseHeld
\* A session that was closed asks for nothing more.
CHECK_DEADLOCK FALSE
