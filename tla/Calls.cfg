SPECIFICATION FairSpec
CONSTANTS
  x1 = x1
  Stations = {x1}
  Elsewhere = Elsewhere
  Timer = Timer
  o1 = o1
  Others = {o1}
  c1 = c1
  c2 = c2
  Controls = {c1, c2}
  u1 = u1
  u2 = u2
  Unlocks = {u1, u2}
  None = None
  Budgets <- Calls
INVARIANTS FrameOfCall ReleaseOwner
PROPERTIES RecordForward OperationForward AppliedIsCurrent CallConverges
