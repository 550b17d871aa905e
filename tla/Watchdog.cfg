SPECIFICATION FairSpec
CONSTANTS
  None = None
  Poll = 20
  WatchdogInterval = 2
  MinStallLimit = 60
  MaxTick = 20
  MaxPost = 1
  Cap = 64
  MayWedge = TRUE
  MayStop = TRUE
  MaxMissed = 2
INVARIANTS
  StallIsBounded
PROPERTIES
  NoFalseAlarm
  WedgeEnds
