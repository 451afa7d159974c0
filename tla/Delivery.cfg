CONSTANTS
    s1 = s1
    s2 = s2
    t1 = t1
    t2 = t2
    w1 = w1
    j1 = j1
    j2 = j2
    c1 = c1
    c2 = c2
    Clients <- TwoClients
    Callers <- TwoCallers
    Reviewers <- ReviewerIds
    Blueprint <- Blueprints
    BuilderBlueprint = "dev"
    MaxReviewers = 3
    MaxReports = 3
    Oracles <- OracleIds
    OracleType <- OracleTypes
    Cases <- CaseRefs
    Fine = 10
    MinPassRate <- PassRates
    MinReliability = 5000000
    HumanReview <- Reviewed
    Judges <- Panelists
    Repos <- Origins
    Commits <- Heads
    CallCost = 1
    Bills <- SomeBills
    MaxBill = 12
    OracleBudget = 8
    SpentBefore <- Spendings
    MaxRuns = 2
    Humans <- People
    Services <- Bots
    ApproverLists <- Lists
    Releases <- ReleaseIds
    RequestKeys <- TwoRequestKeys
    Validity = 1
    MaxRequests = 2
    MaxTime = 1
    Candidates <- CandidateIds
    Issues <- IssueIds
    Findings <- FindingIds
    Records <- RecordIds
    FindingShapes <- SomeFindings
    IssueShapes <- SomeIssues
    Expiries <- SomeExpiries
    LastDay = 1
    RequiredSections <- OneSection
    Workers <- OneWorker
    MaxPackStamp = 3
    Refs <- OneRef
    Charges <- SomeCharges
    Budgets <- SomeBudgets
    CostPolicies <- SomeCostPolicies
    Plans <- SomePlans
    MaxCore = 1
    UnsoundCores <- NoCores
    CostDay = 1
    MaxCostTime = 1
    MaxForecastStamp = 3
    SignalKeys <- OneKey
    SampleLists <- SomeSampleLists
    LedgerCharges <- SomeLedgerCharges
    LedgerBudgets <- SomeLedgerBudgets
    FailedRuns <- OneFailedRun
    SignalDay = 2
    MaxTick = 3
    Incidents <- IncidentIds
    Payloads <- OnePayload
    Policies <- SomePolicies
    Contexts <- SomeContexts
    HotfixKeys <- OneHotfixKey
    MaxIncidentStamp = 3
    MaxEvents = 4
    Actors <- SomeActors
    WindowKeys <- TwoWindowKeys
    Targets <- TwoTargets
    Long <- Overlong
    Untrimmed <- Spaced
    Declarations <- SomeDeclarations
    Evidence <- SomeEvidence
    Coverages <- SomeCoverages
    Inventories <- SomeInventories
    MaxWindowStamp = 3
    MAX_IDEMPOTENCY_RACE_RETRIES = 5
SPECIFICATION Spec
CHECK_DEADLOCK FALSE
CONSTRAINT Interesting
SYMMETRY Symmetry
INVARIANTS
    TypeOK
    ContractsAreReviewed
    OracleGateSound
    PreapprovalStands
    VerdictSeesEveryIssue
    CostsHold
    DerivedRowsPassGuards
    IncidentRecordsAgree
    OperationsHeedTheLatch
    SecondAttemptSettles
PROPERTIES
    HistoryHolds
