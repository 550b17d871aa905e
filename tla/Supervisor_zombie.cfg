SPECIFICATION Spec
CONSTANTS
    None = None
    Serves = {s1}
    OkStreak = 2
    FailStreak = 2
    StallMax = 2
    MaxWorkers = 1
    MetaTries = 2
    Tracked = {0}
    Capacity = 4
INVARIANT WithdrawnIsDisconnected
