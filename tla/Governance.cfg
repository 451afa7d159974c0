CONSTANTS
    ann = ann
    ben = ben
    dev = dev
    qa = qa
    ci = ci
    s1 = s1
    s2 = s2
    w1 = w1
    w2 = w2
    w3 = w3
    Sessions <- Writers
    MaxSeq = 4
    Clients <- TwoClients
    Subjects <- SomeSubjects
    Mandatory <- SomeMandatory
    People <- TwoPeople
    Requesters <- SomeRequesters
    Deciders <- SomeDeciders
    Tiers <- TwoTiers
    Window = 1
    MaxClock = 1
    MaxApprovals = 2
    Instances <- TwoInstances
    Runs <- TwoRuns
    CaseSets <- SomeCaseSets
    Eval <- OneEval
    MaxStamp = 2
    MaxQualificationRuns = 2
    Agents <- OneAgent
    Services <- OneService
    Tools <- TwoTools
    ToolAction <- ActionOfTool
    ToolApproval <- OneToolApproval
    MandatoryActions <- OneMandatoryAction
    MaxAllowlist = 2
SPECIFICATION GovernanceSpec
CHECK_DEADLOCK FALSE
CONSTRAINT Interesting
SYMMETRY Symmetry
INVARIANTS
    TypeOK
    ChainVerifies
    GovernanceTypeOK
    OnlyPeopleOpenGates
    InstancesEarned
    CallsPassOpenGates
PROPERTIES
    HistoryHolds
