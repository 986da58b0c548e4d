\* One attempt of either lane, with the times in the order of the shipped ones.
SPECIFICATION Spec
CONSTANTS
  Lease = 8
  Heartbeat = 3
  Delay = 2
  JobTimeout = 6
  MinTimeout = 1
  MaxTimeout = 3
  MaxLookup = 2
  MaxSleep = 7
  MaxBytes = 3
INVARIANTS
  TypeOK
  LeaseHeld
  BackstopIsLastResort
  NothingLeftBehind
  RequestsAreWanted
PROPERTIES
  TimingSpec
  SlotComesFree
CHECK_DEADLOCK FALSE
