\* The deployment the repository ships: one process at a time, boot sweep on,
\* two tasks of one lane that compete for one slot, processes that crash or shut down.
SPECIFICATION Spec
CONSTANTS
  Tasks = {1, 2}
  Handles = {1, 2}
  Runners = {r1, r2}
  NoRunner = NoRunner
  Clients = {c1}
  Requests = {"cancel", "retry"}
  Concurrency = 1
  MaxAttempts = 1
  BootSweep = TRUE
  SingleProcess = TRUE
  Unserved = {2}
  Mishaps = {"crash", "stop"}
  MaxMishaps = 0
  MaxClaims = 2
SYMMETRY Symmetry
INVARIANTS
  TypeOK
  UniqueActiveHandle
  SlotsNotOversold
PROPERTIES
  ImplementsLifecycle
CHECK_DEADLOCK FALSE
