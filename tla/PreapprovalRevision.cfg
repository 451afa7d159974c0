CONSTANTS
    s1 = s1
    s2 = s2
    Humans = {"ann", "bob"}
    Services = {"svc"}
    ApproverLists <- Lists
    Releases = {"r1"}
    Keys = {"k1"}
    Sessions <- Clients
    Validity = 1
    MaxRequests = 1
    MaxTime = 1
SPECIFICATION Spec
CHECK_DEADLOCK FALSE
INVARIANTS
    StandingIsRevocable
