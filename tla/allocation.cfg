\* Three submissions at once, with the advisory lock and without it.
SPECIFICATION FairSpec
CONSTANTS
  Submissions = {s1, s2, s3}
  Handles = {1, 2, 3}
  MaxAllocationAttempts = 3
  Nobody = Nobody
INVARIANTS
  TypeOK
  UniqueAmongActive
  LockSparesRetries
  AttemptsSuffice
  NumbersAreConsecutive
PROPERTIES
  ImplementsLifecycle
  EveryCallReturns
CHECK_DEADLOCK FALSE
