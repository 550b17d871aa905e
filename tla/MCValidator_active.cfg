SPECIFICATION Spec
CONSTANTS
  None = None
  Burn = Burn
  o = o
  m1 = m1
  m2 = m2
  IntervalBlocks = 5
  BlockS = 1
  PregateNum = 4
  PregateDen = 5
  Hotkeys <- MCHotkeys
  Owner = o
  Rows <- MCRows
  Uid <- MCUid
  U16 = 7
  MaxEpoch = 2
  RateLimit = 4
  ActivityCutoff = 8
  Permanent = {o}
  Pace <- SteadyPace
  MaxBlock = 20
  MaxClock = 20
  Faults = {"outage", "noblock"}
  Budget = 0
  Timed = TRUE
  TickSteps = 1
  SleepSteps = 2
INVARIANTS
  StaysActive
PROPERTIES ImplementsLedger
