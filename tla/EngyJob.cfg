SPECIFICATION FairSpec
CONSTANTS
    None = None
    r1 = r1
    r2 = r2
    Requests = {r1, r2}
    NServes = 2
    Loads <- MCLoads
    MaxTokens = 4
    GenChunk = 2
    Threads = 2
    Aborters = 1
    PerEvent = 1
INVARIANTS SlotsAreExact QuietAfterCancel CancelStopsCalls ChunksMakeOneCall TruncatedIsTrue
PROPERTIES ImplementsBuyer AbortFrees RequestsAreSettled
