SPECIFICATION FairSpec
CONSTANTS
    None = None
    Sockets = {s1, s2}
    Requests = {r1, r2}
    MaxBuffer = 2
INVARIANTS DrainLosesNothing TasksEndWithTheirSocket
PROPERTIES AcceptedIsNotCut RotationTakesPlace DrainIsOver CancelIsObeyed
