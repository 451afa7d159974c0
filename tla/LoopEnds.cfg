CONSTANTS
    w1 = w1
    w2 = w2
    LoopRuns = {r1}
    StartKeys = {k1}
    Workers = {w1}
    MaxAttempts = 3
    MaxCycles = 2
    MaxLatch = 1
    MaxRequests = 1
    MaxStamp = 0
    Sources = {"cost", "gates", "latch"}
    Interference = TRUE
SPECIFICATION FairSpec
CHECK_DEADLOCK FALSE
PROPERTIES
    CallsEnd
