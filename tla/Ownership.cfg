\* An unload with a cancelled acquire, what the bridge does by itself, and one failure.
SPECIFICATION Spec
CONSTANTS
  c1 = c1
  c2 = c2
  s1 = s1
  g1 = g1
  NoTask = NoTask
  Sync = Sync
  Clients = {c1, c2}
  Stoppers = {s1}
  Graces = {g1}
  Budgets <- Ownership
SYMMETRY Symmetry
INVARIANTS TypeOK GenerationBinding HttpExclusive LeasesLive UnloadStops
PROPERTIES RevisionForward TerminalFence OnlyEventsReadopt
\* A behaviour ends when its budget of calls is spent.
CHECK_DEADLOCK FALSE
