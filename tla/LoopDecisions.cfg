CONSTANTS
    w1 = w1
    w2 = w2
    LoopRuns = {r1, r2}
    StartKeys = {k1, k2}
    Workers = {w1, w2}
    MaxAttempts = 1
    MaxCycles = 2
    MaxLatch = 1
    MaxRequests = 1
    MaxStamp = 1
    Sources = {"latch", "policy", "preapproval"}
    Interference = FALSE
SPECIFICATION Spec
CHECK_DEADLOCK FALSE
SYMMETRY Symmetry
INVARIANTS
    TypeOK
    DecisionChainLinear
    CurrentDecisionHolds
PROPERTIES
    DecisionUnderCurrentPolicy
