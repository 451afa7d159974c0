CONSTANTS
    w1 = w1
    w2 = w2
    LoopRuns = {r1}
    StartKeys = {k1}
    Workers = {w1, w2}
    MaxAttempts = 2
    MaxCycles = 3
    MaxLatch = 1
    MaxRequests = 1
    MaxStamp = 0
    Sources = {"preapproval", "cost"}
    Interference = TRUE
SPECIFICATION Spec
CHECK_DEADLOCK FALSE
SYMMETRY Symmetry
INVARIANTS
    RunMatchesCycles
    CyclesInOrder
