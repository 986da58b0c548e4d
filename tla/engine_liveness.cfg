\* Everything comes to an end while some process stays up.
SPECIFICATION FairSpec
CONSTANTS
  Tasks = {1}
  Handles = {1}
  Runners = {r1, r2}
  NoRunner = NoRunner
  Clients = {c1}
  Requests = {"cancel"}
  Concurrency = 1
  MaxAttempts = 2
  BootSweep = FALSE
  SingleProcess = FALSE
  Unserved = {}
  Mishaps = {"crash", "stall", "dbfault"}
  MaxMishaps = 1
  MaxClaims = 4
PROPERTIES
  EveryTaskSettles
  SlotsComeBack
CHECK_DEADLOCK FALSE
