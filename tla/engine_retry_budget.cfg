\* A retry acts on what it read before another client retried, too.
SPECIFICATION Spec
CONSTANTS
  Tasks = {1}
  Handles = {1}
  Runners = {r1}
  NoRunner = NoRunner
  Clients = {c1, c2}
  Requests = {"retry"}
  Concurrency = 1
  MaxAttempts = 1
  BootSweep = TRUE
  SingleProcess = TRUE
  Unserved = {}
  Mishaps = {}
  MaxMishaps = 0
  MaxClaims = 4
SYMMETRY Symmetry
PROPERTIES
  RetryGrantsFreshBudget
CHECK_DEADLOCK FALSE
