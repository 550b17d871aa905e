SPECIFICATION FairSpec
CONSTANTS
    NServes = 2
    Requests = {r1, r2, r3}
    MaxLeaks = 1
INVARIANTS CountIsExact
PROPERTIES DeadIsAvoided DeadIsLeft
