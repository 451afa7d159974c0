------------------------------ MODULE Delivery ------------------------------
(***************************************************************************)
(* What leads to a release and follows it: task contracts, test oracles,   *)
(* preapproval, issues and evidence of a candidate, cost control, and the  *)
(* operations after launch.  A behavior steps one of them; what holds of   *)
(* the sum holds of each.                                                  *)
(***************************************************************************)
EXTENDS Integers, Sequences, FiniteSets

CONSTANTS
    Clients, Callers,                               \* sessions
    Reviewers, Blueprint, BuilderBlueprint, MaxReviewers, MaxReports,  \* TaskContracts
    Oracles, OracleType, Cases, Fine, MinPassRate, MinReliability, HumanReview, Judges, Repos,
    Commits, CallCost, Bills, MaxBill, OracleBudget, SpentBefore, MaxRuns,  \* TestOracles
    Humans, Services, ApproverLists, Releases, RequestKeys, Validity, MaxRequests,
    MaxTime,                                        \* Preapprovals
    Candidates, Issues, Findings, Records, FindingShapes, IssueShapes, Expiries, LastDay,
    RequiredSections, Workers, MaxPackStamp,        \* ReleaseEvidence
    Refs, Charges, Budgets, CostPolicies, Plans, MaxCore, UnsoundCores, CostDay, MaxCostTime,
    MaxForecastStamp,                               \* CostControl
    SignalKeys, SampleLists, LedgerCharges, LedgerBudgets, FailedRuns, SignalDay,
    MaxTick,                                        \* OpsSignals
    Incidents, Payloads, Policies, Contexts, HotfixKeys, MaxIncidentStamp,
    MaxEvents,                                      \* OpsIncidents
    Actors, WindowKeys, Targets, Long, Untrimmed, Declarations, Evidence, Coverages, Inventories,
    MaxWindowStamp,                                 \* OpsStabilization
    MAX_IDEMPOTENCY_RACE_RETRIES

VARIABLES
    component,      \* the one a behavior steps; the others stay as they began
    contract, links, registry, reports, trail, reportStamp, contracting,  \* TaskContracts
    scoped, repo, active, oracleRuns, spent, oracleClock, testing,        \* TestOracles
    release, approvers, eligible, requests, attestations, now, deciding,  \* Preapprovals
    status, frozenAt, bindings, finding, issue, terms, accepted, today, settling,
    sections, packRuns, verdictRuns, packStamp, worker,                   \* ReleaseEvidence
    clock, ledger, budget, policies, coreStatus, forecasts, forecastStamp, spending,  \* CostControl
    tick, charged, failed, caps, observations, collecting,                \* OpsSignals
    policy, context, incidents, events, tickets, evaluations, hotfixes, stops, projectRow,
    incidentStamp, responding,                                            \* OpsIncidents
    declaration, monitoring, coverage, inventory, handovers, windows, attempts, latch,
    latchRow, windowStamp, assessing                                      \* OpsStabilization

contractVars == <<contract, links, registry, reports, trail, reportStamp, contracting>>
oracleVars == <<scoped, repo, active, oracleRuns, spent, oracleClock, testing>>
preapprovalVars == <<release, approvers, eligible, requests, attestations, now, deciding>>
releaseVars == <<status, frozenAt, bindings, finding, issue, terms, accepted, today, settling,
                 sections, packRuns, verdictRuns, packStamp, worker>>
costVars == <<clock, ledger, budget, policies, coreStatus, forecasts, forecastStamp, spending>>
signalVars == <<tick, charged, failed, caps, observations, collecting>>
incidentVars == <<policy, context, incidents, events, tickets, evaluations, hotfixes, stops,
                  projectRow, incidentStamp, responding>>
windowVars == <<declaration, monitoring, coverage, inventory, handovers, windows, attempts, latch,
                latchRow, windowStamp, assessing>>
vars == <<component, contractVars, oracleVars, preapprovalVars, releaseVars, costVars, signalVars,
          incidentVars, windowVars>>

T == INSTANCE TaskContracts WITH
        Sessions <- Clients, stamp <- reportStamp, session <- contracting
O == INSTANCE TestOracles WITH
        Budget <- OracleBudget, Sessions <- Callers, runs <- oracleRuns, clock <- oracleClock,
        session <- testing
P == INSTANCE Preapprovals WITH
        Keys <- RequestKeys, Sessions <- Clients, session <- deciding
R == INSTANCE ReleaseEvidence WITH
        MaxStamp <- MaxPackStamp, Sessions <- Clients, session <- settling, stamp <- packStamp
C == INSTANCE CostControl WITH
        Policies <- CostPolicies, DayLength <- CostDay, MaxTime <- MaxCostTime,
        MaxStamp <- MaxForecastStamp, Sessions <- Callers, runs <- forecasts,
        stamp <- forecastStamp, session <- spending
S == INSTANCE OpsSignals WITH
        Keys <- SignalKeys, Charges <- LedgerCharges, Budgets <- LedgerBudgets,
        DayLength <- SignalDay, MaxTime <- MaxTick, Sessions <- Callers, clock <- tick,
        ledger <- charged, budget <- caps, runs <- observations, session <- collecting
I == INSTANCE OpsIncidents WITH
        MaxStamp <- MaxIncidentStamp, Sessions <- Callers, stamp <- incidentStamp,
        session <- responding
W == INSTANCE OpsStabilization WITH
        Keys <- WindowKeys, MaxStamp <- MaxWindowStamp, Sessions <- Callers, stops <- latch,
        projectRow <- latchRow, stamp <- windowStamp, session <- assessing

-----------------------------------------------------------------------------
\* The variables of a component that is not stepped hold Absent.
Absent == "absent"

\* The parameters are ones the components make sense for.
ASSUME DeliveryParameters ==
    /\ T!Parameters /\ O!Parameters /\ P!Parameters /\ R!Parameters
    /\ C!Parameters /\ S!Parameters /\ I!Parameters /\ W!Parameters

Init ==
    /\ component \in {"contracts", "oracles", "preapprovals", "issues", "release", "cost",
                      "signals", "incidents", "stabilization"}
    /\ IF component = "contracts" THEN T!Init
       ELSE /\ contract = Absent /\ links = Absent /\ registry = Absent
            /\ reports = Absent /\ trail = Absent /\ reportStamp = Absent
            /\ contracting = Absent
    /\ IF component = "oracles" THEN O!Init
       ELSE /\ scoped = Absent /\ repo = Absent /\ active = Absent
            /\ oracleRuns = Absent /\ spent = Absent /\ oracleClock = Absent
            /\ testing = Absent
    /\ IF component = "preapprovals" THEN P!Init
       ELSE /\ release = Absent /\ approvers = Absent /\ eligible = Absent
            /\ requests = Absent /\ attestations = Absent /\ now = Absent
            /\ deciding = Absent
    /\ IF component \in {"issues", "release"} 
       THEN R!Init /\ (component = "issues" => sections = {"review_reports"})
       ELSE /\ status = Absent /\ frozenAt = Absent /\ bindings = Absent
            /\ finding = Absent /\ issue = Absent /\ terms = Absent /\ accepted = Absent
            /\ today = Absent /\ settling = Absent /\ sections = Absent
            /\ packRuns = Absent /\ verdictRuns = Absent /\ packStamp = Absent
            /\ worker = Absent
    /\ IF component = "cost" THEN C!Init
       ELSE /\ clock = Absent /\ ledger = Absent /\ budget = Absent /\ policies = Absent
            /\ coreStatus = Absent /\ forecasts = Absent /\ forecastStamp = Absent
            /\ spending = Absent
    /\ IF component = "signals" THEN S!Init
       ELSE /\ tick = Absent /\ charged = Absent /\ failed = Absent /\ caps = Absent
            /\ observations = Absent /\ collecting = Absent
    /\ IF component = "incidents" THEN I!Init
       ELSE /\ policy = Absent /\ context = Absent /\ incidents = Absent
            /\ events = Absent /\ tickets = Absent /\ evaluations = Absent
            /\ hotfixes = Absent /\ stops = Absent /\ projectRow = Absent
            /\ incidentStamp = Absent /\ responding = Absent
    /\ IF component = "stabilization" THEN W!Init
       ELSE /\ declaration = Absent /\ monitoring = Absent /\ coverage = Absent
            /\ inventory = Absent /\ handovers = Absent /\ windows = Absent
            /\ attempts = Absent /\ latch = Absent /\ latchRow = Absent
            /\ windowStamp = Absent /\ assessing = Absent

Next ==
    /\ UNCHANGED component
    /\ \/ /\ component = "contracts" /\ T!Next
          /\ UNCHANGED <<oracleVars, preapprovalVars, releaseVars, costVars, signalVars, incidentVars, windowVars>>
       \/ /\ component = "oracles" /\ O!Next
          /\ UNCHANGED <<contractVars, preapprovalVars, releaseVars, costVars, signalVars, incidentVars, windowVars>>
       \/ /\ component = "preapprovals" /\ P!Next
          /\ UNCHANGED <<contractVars, oracleVars, releaseVars, costVars, signalVars, incidentVars, windowVars>>
       \/ /\ component \in {"issues", "release"} /\ R!Next
          /\ UNCHANGED <<contractVars, oracleVars, preapprovalVars, costVars, signalVars, incidentVars, windowVars>>
       \/ /\ component = "cost" /\ C!Next
          /\ UNCHANGED <<contractVars, oracleVars, preapprovalVars, releaseVars, signalVars, incidentVars, windowVars>>
       \/ /\ component = "signals" /\ S!Next
          /\ UNCHANGED <<contractVars, oracleVars, preapprovalVars, releaseVars, costVars, incidentVars, windowVars>>
       \/ /\ component = "incidents" /\ I!Next
          /\ UNCHANGED <<contractVars, oracleVars, preapprovalVars, releaseVars, costVars, signalVars, windowVars>>
       \/ /\ component = "stabilization" /\ W!Next
          /\ UNCHANGED <<contractVars, oracleVars, preapprovalVars, releaseVars, costVars, signalVars, incidentVars>>

Spec == Init /\ [][Next]_vars

-----------------------------------------------------------------------------
\* Every variable of the components has its type.
TypeOK ==
    CASE component = "contracts" -> T!TypeOK
      [] component = "oracles" -> O!TypeOK
      [] component = "preapprovals" -> P!TypeOK
      [] component \in {"issues", "release"} -> R!TypeOK /\ R!TypeOKEvidence
      [] component = "cost" -> C!TypeOK
      [] component = "signals" -> S!TypeOK
      [] component = "incidents" -> I!TypeOK
      [] component = "stabilization" -> W!TypeOK

\* A contract is done only on the reviews it asks for, and its events tell its
\* way through the matrix (TaskContracts).
ContractsAreReviewed == component = "contracts" => T!DoneIsReviewed /\ T!TrailFollowsMatrix

\* The oracle gate rests on runs of one commit, the verdict of a judgment is what
\* Python decided but for rounding at the floor, and concurrent panels pass the
\* budget by a bounded amount (TestOracles).
OracleGateSound ==
    component = "oracles" =>
        O!GateNamesOneCommit /\ O!VerdictIsTheDecision /\ O!OvershootBounded

\* At most one attestation of a project is live, and gate 12 rests on the
\* newest request (Preapprovals).
PreapprovalStands ==
    component = "preapprovals" => P!PreapprovalStands

\* A finding is bridged to one issue and an acceptance names a record about
\* exactly its row (ReleaseIssues); so a passing verdict is borne out by its own
\* core, and gate 7 is open only with every bound issue settled
\* (ReleaseEvidence).
VerdictSeesEveryIssue ==
    component \in {"issues", "release"} =>
        /\ R!OneIssuePerFinding /\ R!AcceptanceIsExact
        /\ R!PassedCoreIsClean /\ R!GateSeesEveryIssue

\* A charge enters the ledger once, and a passed cost gate was affordable when
\* it was counted (CostControl).
CostsHold == component = "cost" => C!ChargeCountsOnce /\ C!PassedGateIsAffordable

\* What Python derives for a collection, the database derives again and accepts
\* (OpsSignals); an assessment is refused exactly when its caller brought what no
\* column takes (OpsStabilization).
DerivedRowsPassGuards ==
    /\ component = "signals" => S!CollectionFitsChecks
    /\ component = "stabilization" => W!AssessmentFitsGuards

\* The results of an evaluation follow from one policy, an incident has one
\* ticket, which its evaluations cite, and its events tell its status
\* (OpsIncidents).
IncidentRecordsAgree ==
    component = "incidents" =>
        I!PrescribedUnderOnePolicy /\ I!OneTicketCited /\ I!TrailTellsStatus

\* No hotfix run is recorded under an active stop (OpsIncidents), and a closure
\* attempt names the latch as it was (OpsStabilization).
OperationsHeedTheLatch ==
    /\ component = "incidents" => I!NoHotfixUnderStop
    /\ component = "stabilization" => W!ClosureNamesLatch

\* A call that lost a race for its key is settled by its second attempt
\* (OpsSignals, OpsIncidents, OpsStabilization).
SecondAttemptSettles ==
    /\ component = "signals" => S!SecondCollectionSettles
    /\ component = "incidents" => I!SecondAttemptSettles
    /\ component = "stabilization" => W!SecondAssessmentSettles

\* The judges of a committed run are qualified when it commits (TestOracles), a
\* decided request stays as it was decided (Preapprovals), a candidate never
\* returns to an earlier status (ReleaseIssues), and a forecast attempt that
\* leaves no row had a cause (CostControl).
HistoryHolds ==
    [][/\ component = "oracles" => O!PanelStep
       /\ component = "preapprovals" => P!DecisionStep
       /\ component \in {"issues", "release"} => R!CandidateStep
       /\ component = "cost" => C!AttemptStep]_vars
=============================================================================
