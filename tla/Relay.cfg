SPECIFICATION FairSpec
CONSTANTS
  x1 = x1
  x2 = x2
  Names = {x1, x2}
  Timer = Timer
  h1 = h1
  h2 = h2
  Handlers = {h1, h2}
  Refreshers = {Timer, h1, h2}
  None = None
  CallEvents = {"incoming_call", "hangup"}
  Capacity = 2
  MaxRuntimes = 2
  Budgets <- Relaying
INVARIANTS CallsInOrder
PROPERTIES RegistryFollows
\* An unloaded entry does nothing more.
CHECK_DEADLOCK FALSE
