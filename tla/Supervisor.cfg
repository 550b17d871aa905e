SPECIFICATION FairSpec
CONSTANTS
    None = None
    Serves = {s1, s2}
    OkStreak = 2
    FailStreak = 2
    StallMax = 2
    MaxWorkers = 2
    MetaTries = 2
    Tracked = {1}
    Capacity = 3
INVARIANTS AdvertisesEnough
PROPERTIES DownOnProof BackOnStreak LiveLegsAreKept LegsFollowWorkers UnhealthyIsWithdrawn
