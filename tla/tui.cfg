SPECIFICATION FairSpec
CONSTANTS
  Pids = {1, 2}
  ArchiveMax = 2
  MaxEvents = 4
PROPERTIES
  Consented
  CursorFollows
  WaitingEnds
CHECK_DEADLOCK FALSE
