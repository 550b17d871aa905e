SPECIFICATION Spec
CONSTANTS
    NServes = 2
    Requests = {r1, r2}
    MaxLeaks = 1
PROPERTY LeastInFlight
