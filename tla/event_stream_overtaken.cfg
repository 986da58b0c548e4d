\* Two events written side by side, to a client that reconnects.
SPECIFICATION Spec
CONSTANTS
  MaxEvent = 2
  FirstCursors = {0}
  ReplayLimit = 2
  MaxDrops = 1
INVARIANTS
  ReceivesWhatItMissed
CHECK_DEADLOCK FALSE
