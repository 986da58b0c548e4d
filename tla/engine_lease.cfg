\* The finally block of one attempt comes after the next attempt was claimed.
SPECIFICATION Spec
CONSTANTS
  Tasks = {1}
  Handles = {1}
  Runners = {r1}
  NoRunner = NoRunner
  Clients = {c1}
  Requests = {}
  Concurrency = 2
  MaxAttempts = 2
  BootSweep = TRUE
  SingleProcess = TRUE
  Unserved = {}
  Mishaps = {}
  MaxMishaps = 0
  MaxClaims = 2
SYMMETRY Symmetry
INVARIANTS
  LeaseRefreshedWhileRunning
CHECK_DEADLOCK FALSE
