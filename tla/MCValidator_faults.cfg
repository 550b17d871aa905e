SPECIFICATION Spec
CONSTANTS
  None = None
  Burn = Burn
  o = o
  m1 = m1
  m2 = m2
  IntervalBlocks = 2
  BlockS = 1
  PregateNum = 4
  PregateDen = 5
  Hotkeys <- MCHotkeys
  Owner = o
  Rows <- MCRows
  Uid <- MCUid
  U16 = 7
  MaxEpoch = 2
  RateLimit = 1
  ActivityCutoff = 9
  Permanent = {}
  Pace <- SteadyPace
  MaxBlock = 3
  MaxClock = 3
  Faults = {"outage", "replay", "open", "noblock", "refuse", "unseen", "write", "crash", "lose"}
  Budget = 1
  Timed = FALSE
  TickSteps = 0
  SleepSteps = 0
INVARIANTS
  RecordMatchesChain
  KeptAndClaimedLanded
  ResubmitClearsRateLimit
PROPERTIES
  NeverOlder
  SubmitsWhole
  ImplementsCrashLedger
