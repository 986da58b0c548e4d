\* One task between two processes that share the table, with one stall or
\* database fault on top of crashes.
SPECIFICATION Spec
CONSTANTS
  Tasks = {1}
  Handles = {1}
  Runners = {r1, r2}
  NoRunner = NoRunner
  Clients = {c1}
  Requests = {"cancel"}
  Concurrency = 2
  MaxAttempts = 2
  BootSweep = FALSE
  SingleProcess = FALSE
  Unserved = {}
  Mishaps = {"crash", "stall", "dbfault"}
  MaxMishaps = 1
  MaxClaims = 3
SYMMETRY Symmetry
INVARIANTS
  OwnershipMatchesStatus
  ErrorMatchesStatus
  NoGhostEntry
  BudgetRespected
  RivalsAreRecovered
PROPERTIES
  SweepsSpareTheLiving
  RetiredForever
CHECK_DEADLOCK FALSE
