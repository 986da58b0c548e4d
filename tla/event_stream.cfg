\* A client that asks for everything or for what comes, through two lost
\* connections, with a replay that may be cut.
SPECIFICATION FairSpec
CONSTANTS
  MaxEvent = 3
  FirstCursors = {0, 4}
  ReplayLimit = 2
  MaxDrops = 2
INVARIANTS
  TypeOK
  NothingLeftOut
PROPERTIES
  HandoverSendsOnce
  EventsArrive
CHECK_DEADLOCK FALSE
