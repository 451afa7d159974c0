CONSTANTS
    w1 = w1
    w2 = w2
    w3 = w3
    Sessions <- Writers
    MaxSeq = 4
SPECIFICATION MCSpec
INVARIANTS
    ChainVerifies
