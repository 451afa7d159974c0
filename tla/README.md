# UAID OS: a TLA+ verification project

UAID OS is a governance back end: a FastAPI service over PostgreSQL that records
evidence about software projects, decides what an autonomous agent may do, and
runs a bounded "control loop" that ends in a recorded (never executed) go-live
decision.  Almost all of its state is rows in PostgreSQL; almost all of its
difficulty is what concurrent transactions, with different isolation levels and
lock orders, may see of each other.  The project models that part.

## 1. Inventory

| Component | State | Operations | How it interacts | What is hard | What makes it correct |
|---|---|---|---|---|---|
| Audit chain (`migrations/0003`, `app/audit.py`) | `audit_logs` (one chain for all tenants), `audit_chain_verifications` | `audit_append`, `audit_verify`, recorded verification | every service appends inside its own transaction | global order under an advisory lock, rollbacks, snapshots | each row links to the one committed before it |
| Project runs (`app/repositories/runs.py`) | `project_runs.status`, `run_steps` | guarded transitions | moved by the engine, the control loop and the latch | several movers | terminal statuses are final |
| Emergency control (`app/release/emergency_control_service.py`, `app/repositories/emergency_controls.py`, `migrations/0053`) | bindings, members, stop events, run effects, rollback authorizations | bind, activate, clear, authorize rollback | locks the project row; pauses runs; read by every engine boundary | reads before the lock and between statements, duplicate requests, sources that change under both | active means stopped; two custodians; one key, one event |
| Workflow runtime (`app/runtime/engine.py`) | runs, checkpoints, approvals | start / resume of demo, approval, cost-guarded and retry runs | boundary check under the project lock | any order of start, resume, decision, stop | protected work only after approval |
| Control loop (`app/runtime/control_loop.py`, `app/repositories/go_live_decisions.py`, `migrations/0054`) | cycles, events, evaluations, decisions | owned start and resume, retry, failure recording | reads latch, cost, A5 gates, preapproval, policy | SERIALIZABLE snapshots against READ COMMITTED services; retries; crashes | stages in order; one decision chain; status agrees with events |
| Autonomy policy and its administration (`app/policy`, `app/admin/policy_admin.py`, `migrations/0062`) | `autonomy_policies`, `admin_role_grants`, `admin_actions`, `admin_policy_changes` | set, tighten, grant, revoke | read by broker, loop, latch | decisions from grants that change under them; first-write race; stale tightening | tightening never relaxes; a mandatory action stays gated; the ledger accounts for the policy |
| Tenant administration (`app/admin/tenant_admin.py`) | `tenants.status`, `organizations.status`, `tenant_admin_events` | suspend, reinstate, of a tenant or an organization | the bearer-key resolver joins both statuses | sessions that read before another commits | keys resolve as the events tell |
| Approvals (`app/approvals`, `app/repositories/approvals.py`) | `approvals`, events, notifications | request, approve, reject, cancel, lapse | gates runs, tools, sign-offs and preapprovals | a human decision against a lapse | decided once; silence opens nothing |
| Agents and qualification (`app/agents`, `app/repositories/agent_realizations.py`, `qualification.py`) | instances, realizations, qualification runs, sign-offs | realize, bind, suspend, retire, record a run, request and decide sign-offs, qualify | the broker and the panels ask whether an instance is qualified | sign-offs requested twice; rows loaded by two sessions | one live instance of a key; qualified means passed and signed off |
| Tool broker (`app/tools`, `app/repositories/tools.py`) | allowlist ledger, `tool_calls` | grant, revoke, broker call | policy, approvals, agents | each gate reads at another time | deny by default; every gate was open |
| Task contracts and review (`app/review`, `migrations/0041`) | contract, links, reviewers, reports, events | create, link, register, report, move | agents review agents' work | statuses and reports that change after they were read | done means reviewed by an independent blueprint |
| Test oracles (`app/verify`, `app/repositories/test_oracles.py`, `migrations/0042`) | runs, results, judges, cost | promote, execute, judge | connector, models, budget, gate 4 | awaits between reads and writes | the gate rests on one commit and on the decided verdicts |
| Cost ledger and forecasts (`app/cost.py`, `app/cost_forecast.py`, `migrations/0008`, `0050`) | `cost_events`, `budgets`, policy versions, forecast runs | record, upsert, forecast, gate 9 | stops runs, loops and panels | duplicate submissions, equality, days, stale budgets | counted once; a passed gate is affordable |
| Production preapproval (`app/release/production_approval_service.py`, `migrations/0052`) | policy versions, requests, attestations, lifecycle | request, approve, reject, cancel, revoke | gate 12 of the control loop | currentness read before the lock; deferred triggers | one live attestation, for the current release |
| Release lifecycle (`app/repositories/release_*.py`, `risk_acceptance.py`, `migrations/0021`-`0024`, `0046`) | candidates, issues, findings, acceptances, bindings | open, bridge, bind, freeze, resolve, accept, expire | feeds evidence packs and verdicts | triggers that read other tables without locking them | one issue of a finding; an acceptance is about its row |
| Evidence and verdicts (`app/release/evidence_pack.py`, `release_manager.py`, `migrations/0048`, `0049`) | generation runs, packs, verdict runs | generate, decide, gate 7 | reads the release lifecycle | the issues change between core, verdict and gate | no unsettled issue behind an open gate |
| Operations (`app/ops`, `migrations/0055`-`0058`) | observation runs, incidents, events, tickets, evaluations, hotfix runs, windows, closure attempts | collect, open, transition, evaluate, plan a hotfix, hand over, assess, try to close | read policy, latch, cost and release | REPEATABLE READ snapshots, keys that race, triggers that derive again | what Python derives the database accepts; a retry settles |
| Intake, ecosystem, connectors, exports | append-only records | record, classify, promote | mostly feed the release lifecycle | few state machines | see `PROJECT.json` |

## 2. Modules

| Module | Models | Variables against the code |
|---|---|---|
| `AuditChain` | the audit chain under any mix of isolation levels | `logs` = committed `audit_logs`; `nextSeq` = the identity sequence; `lock421` = the advisory lock; `txn` = open transactions; `isolation` = the level each session was opened with; `checkpoints` = `audit_chain_verifications` |
| `ProjectRuns` | the transition table shared by everyone who moves a run | none (operators) |
| `EmergencyControl` | the latch: bindings, events, rollback authorizations | `policy`, `checklist`, `autonomy`, `release` = authority sources; `bindings`, `events`, `auths` = the tables; `request` = each open request, how far it is and what it has read; `runs` = `project_runs.status`; `seen` = a history variable, the sources there were since the project row was locked |
| `RunEngine` | extends `EmergencyControl` with the engine's entry points | `approval` = the `workflow.resume` request of each run; `costStop` = the result of `cost.evaluate` |
| `StopSpec` | what an emergency stop promises, abstractly | `latch`, `running` |
| `ControlLoop` | owned start / resume of the control loop | `db` = the committed rows of one project; `txn` = the call, attempt and snapshot of each worker |
| `AuthorityMatrix` | what a stored policy row lets an action do, and which overrides are accepted | none (operators; `PolicyRow` is the `autonomy_policies` row) |
| `AdminGrants` | role grants and the operator sessions that make and revoke them | `grants` = `admin_role_grants`; `session` = open operator transactions; `events` = `tenant_admin_events` of each grant |
| `AdminPolicy` | extends both with `apply_policy_change`, its trigger and its writer | `policy`, `ledger` = `autonomy_policies`, `admin_policy_changes`; `change` = each call with what it decided from the grants it read |
| `TenantStatus` | suspension and reinstatement, and the key resolver | `status`, `events` = the committed rows; `session` = open operator transactions with the status their ORM row was loaded with |
| `Approvals` | requests, human decisions, the lapse, routed notifications | `approvals`, `events`, `notifications` = the tables; `session` = a decision that has checked and not yet written, or written and not committed; `clock` = the application clock |
| `AgentRegistry` | realization, lifecycle, qualification | `instance`, `realization`, `viaRun`, `qruns`, `signoffs` = rows; `session` = what each session loaded; `stamp` = request times |
| `ToolBroker` | the gates of one call, read one after the other, while the tables change | `agent`, `allowlist`, `policy`, `approval`, `toolCalls` = rows; `seq` = the identity sequence, drawn before the commit; `opened` = a history variable, the gates open at some instant of a call |
| `TaskContracts` | one contract with its registry, reports and events | `contract`, `links`, `registry`, `reports`, `trail`; `stamp` = `created_at` |
| `TestOracles` | executions with their awaits, panels, agreement, gate 4 | `scoped`, `repo`, `active`, `runs`, `spent`, `clock`; `session` = the transaction at each await |
| `Preapprovals` | requests, decisions, attestations, the deferred graph guard, gate 12 | `release`, `approvers`, `eligible` = current sources; `requests`, `attestations`, `now` |
| `ReleaseIssues` | candidates, findings, issues, risk records and bindings, each status machine with its guard | `status` of every row, `frozenAt`, `bindings`, `finding`, `issue`, `terms`, `accepted`, `today` |
| `ReleaseEvidence` | extends `ReleaseIssues` with evidence cores, verdicts and gate 7 | `sections`, `packRuns`, `verdictRuns`, `stamp`, `worker` |
| `CostControl` | ledger, budget, policy versions, forecasts, gate 9 | `ledger`, `budget`, `policies`, `coreStatus`, `runs`; `session` = a charge or a forecast at each statement |
| `OpsSignals` | collection of the eleven signal classes | `ledger`, `failed`, `budget` = sources; `runs` = `ops_observation_runs`; `session` = snapshot and attempt |
| `OpsIncidents` | incidents, transitions, evaluations, tickets, hotfix runs, the stop | one variable per table; `projectRow` = the row lock; `session` = snapshot and attempt |
| `OpsStabilization` | handovers, windows, closure attempts | one variable per table or declared source; `projectRow`, `session` as above |
| `Governance` | the sum of `AuditChain`, `Approvals`, `AgentRegistry` and `ToolBroker` | theirs, and `component` |
| `Delivery` | the sum of the eight components from `TaskContracts` to `OpsStabilization` | theirs, and `component` |
| `Administration` | the sum of `AdminPolicy` and `TenantStatus` | theirs, and `component` |
| `MC*` | the values of the constants and the constraints of the runs | |
| `RunEngineProof`, `AdminPolicyProof`, `ControlLoopProof`, `ApprovalsProof`, `ToolBrokerProof`, `PreapprovalsProof`, `GovernanceProof`, `DeliveryProof` | the theorems about each, with their lemmas (section 5) | |

**Sums of components.**  Components that share no row need no product.
`Governance`, `Delivery` and `Administration` hold the variables of several
components and a variable `component` that says which one a behaviour steps; the
others keep their initial value (`Absent` in `Delivery`).
The reachable states are the union of the components', so a property of the sum is
the property of each component; the theorems about a sum are proved from its
components' (`GovernanceProof`, `DeliveryProof`).  Components that do share rows are composed by
`EXTENDS` (`EmergencyControl` in `RunEngine`, `ReleaseIssues` in
`ReleaseEvidence`, `AuthorityMatrix` and `AdminGrants` in `AdminPolicy`) and by a
variable or action for what the other writes: `TestOracles` spends the ledger that
`CostControl` keeps, `OpsIncidents` and `OpsStabilization` meet the stop of
`EmergencyControl`, `ToolBroker` reads what `AgentRegistry`, `AdminPolicy` and
`Approvals` write.

**Transactions.**  A request under READ COMMITTED is split where it reads before
it holds a lock it relies on, and between statements that read what the lock does not
protect: `EmergencyControl.Submit` is the part before the project lock, `Lock` takes
it, `ReadPolicy`, `ReadChecklist`, `ReadAutonomy` and `ReadRelease` are the statements
under it, and `Bind`, `Activate`, `Clear`, `AuthorizeRollback` write and commit.  The
writers of policy, checklist, autonomy policy and release evidence take no project
lock and step between any two of these; runs and latch move only under it.  A SERIALIZABLE
transaction is split at its snapshot: `ControlLoop.Start` / `Resume` / `Retry`
take it and `Execute` / `Persist` commit.  A REPEATABLE READ operation of `app/ops`
takes its snapshot in its `...Begin` action and decides on it; its writes meet the
committed rows in the action that ends it, which records, replays, or collides and
begins again.  A service that awaits a connector or a model (`TestOracles`) is split
at every await.  `created_at` and sequence numbers are drawn at the insert, rows
become visible at the commit, and "the latest" row is by the former.  PostgreSQL itself is external; what is
assumed of it is in the definitions `Visible`, `SerializationConflict` and
`Conflict`: snapshot reads, first-updater-wins on locked rows, and conflict
detection between SERIALIZABLE transactions only.

**Abstractions.**  Hashes name rows, so a link is the position of the row it
names, and a digest is the value it covers.  In `ControlLoop` the thirteen A5 gates
are one Boolean, the cost comparison another, and the release binding digest is the
stamp of the policy it froze; in `EmergencyControl` the value of
`release` stands for what candidate, core, coverage and newest drill give; gates 4, 7, 9 and 12 are evaluated in `TestOracles`,
`ReleaseEvidence`, `CostControl` and `Preapprovals`.  Stage outcomes that differ
only in what they report are one outcome, `completed`.  Money is a small integer,
ratios are integers in millionths (a floor, which Python keeps as it is written, in
fractions of one), time is a few ticks.  Quotients are exact where Python and PostgreSQL
keep 28 and at least 16 digits, which no floor of fewer digits tells apart.  A mutable source that
another module keeps (policy, budget, latch, release) changes by an action of its
own, at any moment.

## 3. Runs

| Run | Question | Bounds and why they suffice |
|---|---|---|
| `AuditMixed` (violation) | does the chain verify when the control loop and ordinary services share it? | one SERIALIZABLE writer among READ COMMITTED ones |
| `RunEngine` | what does the latch do to runs, who may operate it, how often does a request count, do rollback authorizations match the evidence? | a run of each of four kinds, any two at once, 3 principals in 2 policies, 2 checklists, 2 autonomy policies, 2 clients sharing 2 keys, 4 events, 2 bindings, 2 releases; `OneSide` explores four sides in different behaviours: two runs under the latch, two requests racing for it, rollback authorizations with release changes, and one request at a time with every source changing at any statement |
| `LoopRaces` | two workers on one run | 3 cycles (a start, a resume and a duplicate), 2 attempts, one preapproval, cost stops toggle freely |
| `LoopDecisions` | decisions of two runs, and when one counts as current | 2 runs, one policy change, one activation, one preapproval |
| `LoopEnds` | does every call end? | one worker, 3 attempts; latch, cost and gates change |
| `LoopLatch` (violation) | can a decision be recorded under an active latch? | two workers |
| `LoopFailure` (violation) | is every failure recorded? | one worker, 3 cycles |
| `AdminPolicy` | what can policy changes and grant changes do to each other; does a suspended organization bind its tenants' keys? | 2 levels, 2 actions (one mandatory), 3 acceptable and 2 refused override maps, 2 calls, 2 operator sessions, which race each other before the first call and one at a time with the calls (`OneSessionBesideChanges`); 2 sessions and 3 events of each subject for tenants |
| `TenantSuspend` (violation) | does a committed suspend set the status? | 2 sessions, one tenant |
| `Governance` | the audit chain with writers of one level (READ COMMITTED or SERIALIZABLE), approvals, agents, the broker | 3 writers and 4 seqs; 2 requests of 2 subjects and a window of one tick; 2 instances of one key with 2 runs, 2 qualification runs and 3 outcomes of the cases; 2 callers, 2 tools, 2 allowlist events |
| `Delivery` | contracts, oracles, preapprovals, issues and evidence, costs, signals, incidents, stabilization | two sessions of each component, enough rows for a duplicate, a supersession and a stale read (below) |
| `PreapprovalRevision` (violation) | can a standing attestation always be revoked? | 2 approver lists, one release, 2 sessions |

Deadlock checking is off in the passing runs because the bounded sequences (events, cycles, stamps)
run out by design.

**What the properties of the sums are made of.**  Each applies or combines
definitions of the components, where they are explained:

| Property | Parts |
|---|---|
| `GovernanceTypeOK`, `TypeOK` (`Delivery`) | the type invariant of each component |
| `OrganizationBinds` | `TenantStatus`: `TypeOK`, `OrganizationBinds` |
| `OnlyPeopleOpenGates` | `Approvals`: `DecidedOnce`, `SilenceNeverOpens` |
| `InstancesEarned` | `AgentRegistry`: `OneLiveInstance`, `QualifiedIsEarned` |
| `CallsPassOpenGates` | `ToolBroker`: `ProtectedNeverAllowed`, `GatesOpenDuringCall` |
| `HistoryHolds` (`Governance`) | `AuditChain`: `CheckpointStep`; `AgentRegistry`: `RunBoundStep` |
| `ContractsAreReviewed` | `TaskContracts`: `DoneIsReviewed`, `TrailFollowsMatrix` |
| `OracleGateSound` | `TestOracles`: `GateNamesOneCommit`, `VerdictIsTheDecision`, `OvershootBounded` |
| `PreapprovalStands` | `Preapprovals`: `OneLiveAttestation`, `GateRestsOnNewest` |
| `VerdictSeesEveryIssue` | `ReleaseIssues`: `OneIssuePerFinding`, `AcceptanceIsExact`; `ReleaseEvidence`: `PassedCoreIsClean`, `GateSeesEveryIssue` |
| `CostsHold` | `CostControl`: `ChargeCountsOnce`, `PassedGateIsAffordable` |
| `DerivedRowsPassGuards` | `OpsSignals`: `CollectionFitsChecks`; `OpsStabilization`: `AssessmentFitsGuards` |
| `IncidentRecordsAgree` | `OpsIncidents`: `PrescribedUnderOnePolicy`, `OneTicketCited`, `TrailTellsStatus` |
| `OperationsHeedTheLatch` | `OpsIncidents`: `NoHotfixUnderStop`; `OpsStabilization`: `ClosureNamesLatch` |
| `SecondAttemptSettles` | the bound on retries of `OpsSignals`, `OpsIncidents` and `OpsStabilization` |
| `HistoryHolds` (`Delivery`) | `TestOracles`: `PanelStep`; `Preapprovals`: `DecisionStep`; `ReleaseIssues`: `CandidateStep`; `CostControl`: `AttemptStep` |

Every part that is not a type invariant has a mutant of its own among the project's mutants.

**Constraints.**  `Interesting` cuts what repeats: sessions that only differ in name
are symmetric, or one of them (`t2`, in operations and oracles) is confined to the
calls that race with the first one's.  The cuts are stated per component.  They keep
the steps of an environment (policy, budget, latch, release) between a read and the
write that relies on it; where several sources may move under one operation, one
moves in each behaviour, and duplicates meet while the tables are still small.  In `Delivery` the release lifecycle is explored
twice: `"issues"` without packs, `"release"` with packs and verdicts over one
trusted finding.

**Fairness.**  Only `LoopEnds` assumes any: weak fairness of each worker's own
steps.  A call is a coroutine that awaits the database and a backoff of a few
milliseconds; nothing in it waits for another call except PostgreSQL locks, which
the lock holder's commit or rollback releases.  Nothing is assumed of clients,
custodians or approvers.

## 4. Findings

* **Forked audit chain** (`AuditMixed`).  `audit_append` serializes writers with
  an advisory lock but reads the tip through the caller's snapshot.  The control
  loop (SERIALIZABLE) and the operations services (REPEATABLE READ) take their
  snapshot before the lock, so a row committed in between is not linked to and
  `audit_verify` fails from then on.
* **Decision under an active latch** (`LoopLatch`).  All rechecks of the latch in
  a control-loop cycle read one snapshot.  Locking the project row does not help:
  nobody updates it.  `current_decision` does compare the latch event, so such a
  decision is never reported as current (`CurrentDecisionHolds`).
* **Unrecorded failure** (`LoopFailure`).  A repeated resume of a blocked cycle
  fails because its derived key names a cycle that has ended, and the record of
  the failure fails for the same reason.

* **Suspension that sets nothing** (`TenantSuspend`).  `_set_tenant_status` leaves
  the UPDATE to the ORM, which sends none when the row was loaded with the target
  status.  A suspend that read `suspended` while a reinstate was uncommitted takes
  no row lock, passes the event's guard, and commits its event after the reinstate:
  the operator sees `suspended`, the tenant is active.  Organizations are written
  with an explicit UPDATE and do not have this (`OrganizationBinds`).

* **Attestation that cannot be revoked** (`PreapprovalRevision`).  The deferred graph
  guard compares the approvers recorded with a request with those the project
  declares now, on every row that a revocation or a supersession adds.  After the
  list is revised, a standing attestation can be neither revoked nor superseded.
  Gate 12 compares the policy too, so the attestation does not open it meanwhile.

Facts met on the way, that contradict no document:

* Emergency control.  A source may be revised between the statement that read it and the
  insert that rests on it, and two sources may never have been recorded together: an
  event rests on sources each of which was the recorded one at some moment since the
  lock (`RecordedUnderSourcesSinceLock`), not on those at its insert.
* Contracts.  The trigger returns before the matrix and the gates when the status is
  stored already, so two sessions that read `draft` both move to
  `ready_for_development` and both append that event; neither can make a move the
  matrix does not have (`TrailFollowsMatrix`).
* Oracles.  Python decides on a rate quantized to six digits (half even) and the floor
  as it is written, the generated column on the exact rate and the floor in six digits
  (half away from zero).  At 2/3 against 0.666667 Python passes and the database fails,
  at 1/3 against 0.3333334 it is the other way round (`VerdictIsTheDecision` says how
  far apart they can be).  The gate reads the column; Python's reason is not stored.
  What a panel costs is not bounded by what it was expected to cost.
* Stabilization.  `assess` does not look at `extends_window_id`, passes a principal's
  subject on (up to 255 bytes, untrimmed) where the column takes 200 trimmed characters,
  and takes a declared URL with an outer space, which `urlsplit` strips, where the column
  wants it trimmed.  Checks and BEFORE triggers fire before the idempotency key is
  compared, so such a call is refused also where its key would replay.

And in brief: inside an owned transaction
the guards see one snapshot, so a pause can only happen before the first stage it
executes and `paused_emergency_stop` is unreachable from the owned wrappers;
`current_decision` does not look at a revocation of the attestation; a demo run
that an activation paused cannot be resumed by `resume_demo_run`; an
authorization is current when its `admin_actions` row is inserted
(`RecordedDecisionIsCurrent`), but a revocation may still commit between that and
the write it authorizes; two callers can request the sign-offs of one qualification
run twice, and the newer pending request hides an approved one until it is decided
too (it closes a gate and never opens one), and the same holds for the approval of a
promotion (`extraction_promotion.py:67`); an event of a task contract keeps the status its session read; a
contract may become done while a rejection is uncommitted; a binding may commit
after the freeze of its candidate, which gate 7 notices (`GateSeesEveryIssue`);
the refusal of a forecast under a budget with a zero cap violates a check of its own
row and leaves no trace, and so does a forecast whose utilization is too large for
its column (`AttemptStep` allows exactly that); a hotfix run may be
recorded for an incident that was resolved after it was read; `approve` and `revoke`
of a preapproval take the audit lock and the project row in opposite orders, a
deadlock that PostgreSQL resolves by aborting one; the replay of a hotfix key while
the project is stopped is refused rather than answered.

## 5. Proofs

Every theorem holds for every value of the constants that satisfies the stated
assumptions, with any number of processes.  Every invariant that a passing run
checks is stated by a theorem, and so are its action properties and the
refinement; liveness is not.

* `RunEngineProof`: `EngineTypeCorrect`, `ActiveLatchStopsRuns` and
  `EngineImplementsStop`.  The invariant `StopInv` pairs the types with the stop
  itself; each action is shown to be a step or a stutter of `StopSpec`.
  `TwoCustodians` and `OneEventOfAKey` rest on `ChainInv`: alternation and
  uniqueness are closed under append because `Activate` and `Clear` re-read the
  newest event and the key under the project lock, whatever the request read
  before.  `ProtectedWorkIsApproved` and `InventoryDescribesRuns` are inductive
  beside the types.  `RecordsRestOnSourcesSinceLock` rests on `LockInv`: at most one
  request holds the row, and what it has read is among the sources seen since it took
  it, names its actor, and is what its binding froze.  Assumed: policies are sets of
  principals, the bounds are numbers, and the anchor's key, the absent release and the
  absent checklist are no key, no release and no checklist.
* `AdminPolicyProof`: `AdminTypeCorrect`, `LedgerAccountsForPolicy`,
  `MandatoryIsGated`, `DecisionIsCurrent` and `OperatorsTighten`.  The inductive
  invariant `IInv` adds to the types that stored overrides were validated, that the
  decision a call carries is the one its role implies (so an allowed call that is
  not an administrator's is a tighten), and that the ledger explains the policy; the
  tighten clauses of the writer then give monotonicity action by action through
  `decision_for`.  `GrantLedgerReplays` rests on `GrantInv`, which adds what the row
  lock buys (`WritesHold`): a row that a session has written is still in the status
  its write was accepted in, and nobody else has written it.
  `OrganizationBindsItsTenants` rests on `TenantInv`: a session that passes without an
  UPDATE is never one on the organization, so its status is what its last event tells.
  `AdministrationKeepsPolicy` carries the theorems over to the sum.  Assumed:
  `MatrixAssumption` (finitely many actions, base levels within the levels,
  mandatory actions are actions) and `RequestAssumption` (requests are well-formed
  maps and integer levels, valid or not).
* `ControlLoopProof`: `LoopTypeCorrect`, `OneChainOfDecisions`,
  `CurrentDecisionIsSound`, `DecisionsHeedThePolicy`, `StatusTellsTheCycles` and
  `CyclesWalkInOrder`, with failures, collisions and crashes at any point.  None is
  inductive, since a call writes what it derived from its snapshot.  `LoopInv` adds:
  a snapshot differs from the committed rows only in what it is marked stale in
  (`Snapshots`), so a commit that is not refused writes over the rows it read; a
  resuming call drives the run of the cycle it names (`CallsNamed`); the shape of a
  cycle's log (`CyclesFit`); which cycles a run of each status has (`RunsFit`); that
  a decision was taken with the latch armed, completed its run, and is permitted as
  long as the policy is the same (`DecisionsFit`); and that the newest request is
  never superseded (`NewestStands`).
* `ApprovalsProof`: `PeopleOpenGates`, from `ApprovalInv`.  A decision is checked in
  one statement and written in another, so the invariant says of each open session
  what its check established (`JobSound`), that a session which has updated a row
  still finds it pending and is alone in that (`LocksHold`), and of each row that a
  mandatory one is explicit, a lapsed one is not, and an approved one names somebody
  other than its verified requester (`RowSound`).  Assumed (`Parameters`): finitely
  many sessions, numeric bounds, and that no person who decides carries the NULL
  label that a lapse leaves in `resolved_by`.
* `ToolBrokerProof`: `ExecutedCallsPassedGates`, from `BrokerInv`: a call that is
  not refused has, among the gates that were open at some time of it, every gate it
  has read (`ReadBy`), no policy allows a mandatory action outright, and a call
  settled as allowed is of an unprotected tool.  The history variable only grows
  during a call, so other actors' steps keep what a call has seen.  Assumed: the
  bound on sequence numbers is a number.
* `PreapprovalsProof`: `GateTwelveIsSound` and the action property
  `DecisionsAreFinal`, from `PreapprovalInv`: only the newest attestation may stand
  (which is why `_supersede_prior` need look at one only), every attestation is
  about an approved request and by a listed human other than its requester, a
  request is attested once, and the one approval that holds the audit lock still
  finds its request pending.  That there are no more attestations than requests
  follows by counting.  Assumed: the bounds and the validity are numbers.
* `GovernanceProof`, the audit log: `OneLevelChainVerifies`, for writers that are all
  READ COMMITTED or all SERIALIZABLE.  `LogInv` holds at any mix of levels: only the
  holder of the lock has uncommitted rows, all seqs are below `nextSeq`, and the
  holder's rows are newer than every committed row and every tip a checkpoint names.
  `CheckpointsHold` follows from it alone.  `ChainInv` adds what one level buys: the log
  with the uncommitted rows of a transaction that has missed no commit verifies, and
  a SERIALIZABLE one that has appended and missed a commit is refused.
* `GovernanceProof`, agents: `AgentsEarnTheirPlace` and `RunBoundStep` in
  `HistoryStands`, from `RegistryInv`: a session about to qualify an instance has found
  a passed run of it with both sign-offs, which no later step takes back (`Earned`).
  The unique index on live keys and the rebind trigger close what stale loads leave open.
  The rest of the sum applies the theorems of `ApprovalsProof` and `ToolBrokerProof`
  to its instances.
* `DeliveryProof`: one invariant for each component, joined in `SumInv`.
  - Contracts (`ContractInv`): what a status a contract has, or is about to have, rests
    on (`Earns`), that one session at a time has updated the row, and that the last event
    tells the stored status, from which an accepted update moves along the matrix or not
    at all.  That the newest
    report exists is proved from the bound on `created_at` (`NewestReport`).
  - Oracles (`OracleInv`): each session that has been let in and is not yet booked may
    add the most a panel can cost to what is spent, and was let in with its expected cost
    below the budget; counting the sessions bounds the overshoot.  `VerdictIsTheDecision`
    follows from lemmas about both roundings (within half a unit of the quotient, and
    exact on whole numbers) and about every vote: without disagreement the agreement is
    1, whatever the shares are.
  - Release (`ReleaseInv`): every open call on an issue, a finding, a record or a
    binding fits the rows it will meet (`CallsFit`), an accepted row names a record
    that a frozen release covers, and a verdict held or stored is borne out by its core
    (`JudgedWell`).
  - Costs (`CostInv`): an idempotency key is drawn once by committed and uncommitted
    charges together (`KeysDrawn`), and a gate that passed was below every cap it had
    read (`Affordable`).  Sums over a ledger are typed and bounded by a least
    counterexample over its finite subsets.
  - Signals and windows (`SignalsInv`, `WindowInv`): an operation's snapshot is made of
    committed rows, a second attempt sees the winner of its key, and a row about to be
    written passes the checks the database derives again; what is refused was brought by
    the caller or the declaration (`BroughtMisfit`), since everything derived passes.  A
    closure holds the project
    row from the latch it read to its commit, so its code tells the latch before its
    stamp (`ClosuresAgree`).
  - Incidents (`IncidentInv`): types, uniqueness of the keys in tables and snapshots,
    the attempts, the trail against the status, the policy under which an evaluation's
    results were prescribed, the ticket it cites, and the latch under the row lock.
  - Preapprovals through an instance of `PreapprovalsProof`, which `SamePreapprovals`
    identifies with the component of the sum.

**Assumptions.**  The components of `Governance` and `Delivery` state theirs as a
definition, `Parameters`; the sums assert them (`GovernanceParameters`,
`DeliveryParameters`) and TLC evaluates them for the runs.  Most say that bounds are
numbers and inputs are rows of their tables.  The others: a panel has two judges or
more, a floor of agreement of at most 1 and one of the rate between 0 and 1
(`validate_definition`), sets of sessions, judges and cases are finite, what a
panel turns out to cost has some bound, the budget of oracles is not spent before
the first panel, a label that stands in for a principal was stripped and bounded
(`validate_actor_label`), the kinds of rows of a release have different names, and "no run" is no run.

**What the proofs changed in the model.**  A forecast's utilization is rounded half up,
so for limits of 2 000 000 and more "the ratio exceeds its column" was not what
`AttemptStep` first said; it now compares `Utilization` with `MaxUtilization`.
`JudgmentReason` was a CASE with overlapping guards, which TLA+ leaves underspecified;
it is an IF chain in the order of the code.  A derived severity in `ReleaseIssues` is
one of the findings' shapes, not any value.

Only model-checked:

* liveness (`CallsEnd`): fairness and `ENABLED` are out of the prover's reach, and
  `CallsEnd` holds only under them;
* what a recursive definition computes.  The theorems about sums and votes say what
  every sum or every vote satisfies (types, bounds, no disagreement gives full
  agreement), not the value of a particular one, which TLC evaluates;
* that the expected violations of section 4 occur.

## 6. Plan

1. (done) audit chain, latch, runtime, control loop, policy and tenant administration.
2. (done) approvals, agents, broker; contracts, oracles, preapprovals, releases with
   their evidence, costs; operations.
3. (done) proofs of every invariant and every action property that a passing run
   checks, and of the refinement.
4. Left to model: approval of promotions in intake, adoption in the ecosystem
   catalog, reviewer sampling, and the fold over all thirteen A5 gates.

## 7. Not modelled

Row-level security and grants of database roles (configuration of PostgreSQL);
HTTP connectors, LLM clients and text processing (I/O; their answers are arbitrary
where a model awaits one); canonical serialization, hashing and export formats; text
rules of shortcut detectors and scanners; the graph library behind the checkpointer;
writes by the database's owner that bypass the services (so
`admin_action_already_spent`, which the service never reaches, is left out).
`PROJECT.json` lists every component with its status.
