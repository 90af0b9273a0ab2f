\* Stops, grace periods and cancelled acquires, under fairness.
SPECIFICATION FairSpec
CONSTANTS
  c1 = c1
  c2 = c2
  s1 = s1
  g1 = g1
  NoTask = NoTask
  Sync = Sync
  Clients = {c1, c2}
  Stoppers = {s1}
  Graces = {g1}
  Budgets <- Uses
INVARIANTS NoOrphan EdgeLowered
PROPERTIES AcquireReturns UnusedStops
\* A behaviour ends when its budget of calls is spent.
CHECK_DEADLOCK FALSE
