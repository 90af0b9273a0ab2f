\* An event that the preview publishes, applied after its stop (expected violation).
SPECIFICATION Spec
CONSTANTS
  c1 = c1
  c2 = c2
  s1 = s1
  g1 = g1
  NoTask = NoTask
  Sync = Sync
  Clients = {c1, c2}
  Stoppers = {s1}
  Graces = {g1}
  Budgets <- LateProgress
PROPERTIES NoReadopt
\* A behaviour ends when its budget of calls is spent.
CHECK_DEADLOCK FALSE
