---------------------------- MODULE CostControl ----------------------------
(***************************************************************************)
(* The cost ledger, the budget, and the cost forecast of one project       *)
(* (app/repositories/cost, app/cost, app/repositories/cost_forecasts with  *)
(* its two mixins, app/cost_forecast, migrations 0008 and 0050), up to     *)
(* gate 9 of the production ladder.                                        *)
(*                                                                         *)
(* Every operation is one READ COMMITTED transaction whose statements are  *)
(* separate steps.  A forecast derives its six dimensions in Python from   *)
(* what it read; the database recomputes them at commit from the rows the  *)
(* forecast stored and from the ledger as it is then.  Money is an integer *)
(* number of units, digests are compared as the values they cover.         *)
(***************************************************************************)
EXTENDS Integers, Sequences, FiniteSetsExt

CONSTANTS
    Sessions,
    Refs,           \* the external_refs of one source system
    Charges,        \* [component, amount] a caller may record
    Budgets,        \* [total, daily] a caller may set; a daily cap may be NoCap
    Policies,       \* structured cost policies a caller may record
    Plans,          \* what callers report as remaining work
    MaxCore,        \* bound: candidates with a complete evidence core
    UnsoundCores,   \* the cores whose re-audit fails
    DayLength,      \* ticks per UTC day
    MaxTime, MaxStamp   \* bounds

VARIABLES
    clock,
    ledger,      \* cost_events, committed
    budget,      \* the budgets row of the project, or NoBudget
    policies,    \* cost_forecast_policy_versions, oldest first
    coreStatus,  \* the candidate of each evidence core
    runs,        \* cost_forecast_runs with their children, committed
    stamp,       \* created_at and ids, drawn at insert
    session

vars == <<clock, ledger, budget, policies, coreStatus, runs, stamp, session>>

NoRef == "no_ref"
NoBudget == [absent |-> "budget"]
NoCap == -1                    \* a NULL daily cap
NoPolicy == [absent |-> "policy"]
NoRun == [absent |-> "run"]
Day(t) == t \div DayLength

COST_COMPONENTS == {"model_inference", "cloud_runtime", "other"}
Cores == 1..MaxCore
CostEvent == [id : 1..MaxStamp, ref : Refs \cup {NoRef}, component : COST_COMPONENTS,
              amount : Nat, at : 0..MaxTime]
BudgetRow == [total : Nat, daily : Nat \cup {NoCap}]
\* 100 % in ten-thousandths of a percent, the scale of utilization_percent.
Whole == 1000 * 1000
StructuredCostPolicy ==
    [model_total : Nat \ {0}, model_daily : Nat \ {0}, cloud_total : Nat \ {0},
     ci_daily : Nat \ {0}, approval_above : 0..Whole]
\* ReportedModelPlan and ComponentAssumption lines; priced: every route has a price.
InputLines == [remaining : [COST_COMPONENTS -> Nat], today : [COST_COMPONENTS -> Nat],
               ci : Nat, priced : BOOLEAN]
ForecastDimensionResult ==
    [code : {"all_cost_total_usd", "all_cost_daily_usd", "model_cost_total_usd",
             "model_cost_daily_usd", "cloud_spend_total_usd", "ci_minutes_daily"},
     value : Nat, limit : Nat \ {0}]
\* utilization_percent is NUMERIC(9,4).
MaxUtilization == 1000 * Whole - 1
Idle == [pc |-> "idle"]

\* What the proofs assume of the constants: the bounds are numbers, and what
\* callers record, set and report has the columns of its tables.
Parameters ==
    /\ MaxTime \in Nat /\ MaxStamp \in Nat /\ MaxCore \in Nat
    /\ Charges \subseteq [component : COST_COMPONENTS, amount : Nat]
    /\ Budgets \subseteq BudgetRow
    /\ Plans \subseteq InputLines

Free(s) == session[s].pc \in {"idle", "passed", "aborted"}

TypeOK ==
    /\ clock \in 0..MaxTime
    /\ ledger \subseteq CostEvent
    /\ budget \in BudgetRow \cup {NoBudget}
    /\ \A i \in DOMAIN policies : policies[i] \in StructuredCostPolicy
    /\ coreStatus \in [Cores -> {"none", "frozen", "retired"}]
    /\ \A r \in runs : r.outcome \in {"succeeded", "refused"} /\ r.created_at \in 1..stamp
    /\ stamp \in 0..MaxStamp
    /\ \A s \in Sessions : session[s].pc \in
           {"idle", "recording", "scoped", "budgeted", "derived", "inserted", "aborted",
            "gate_scoped", "gate_budgeted", "gate_counted", "passed"}

Init ==
    /\ clock = 0 /\ ledger = {} /\ budget = NoBudget /\ policies = <<>>
    /\ coreStatus = [c \in Cores |-> "none"]
    /\ runs = {} /\ stamp = 0
    /\ session = [s \in Sessions |-> Idle]

-----------------------------------------------------------------------------
(* The ledger and the budget.                                              *)

Amount(e) == e.amount
Spent(events) == MapThenSumSet(Amount, events)
SpentOn(events, day) == Spent({e \in events : Day(e.at) = day})
SpentFor(events, component) == Spent({e \in events : e.component = component})

\* The rows of transactions that have not committed.
Recording == {session[s].event : s \in {t \in Sessions : session[t].pc = "recording"}}

\* The key read from committed rows only.
KeyFreeAsRead(ref) == \A e \in ledger : e.ref # ref

\* uq_cost_events_idempotency: an insert waits for an uncommitted row of its
\* key and then finds it committed, or gone.
KeyFree(ref) == ref = NoRef \/ \A e \in ledger \cup Recording : e.ref # ref

\* record: an insert.  A retry that collides changes nothing: it returns the
\* row, or raises IdempotencyConflict when its material fields differ.  The
\* cost is recorded whatever the budget says.
RecordInsert(s, ref, charge, at) ==
    /\ Free(s) /\ KeyFree(ref) /\ stamp < MaxStamp
    /\ stamp' = stamp + 1
    /\ session' = [session EXCEPT ![s] = [pc |-> "recording", event |->
                       [id |-> stamp + 1, ref |-> ref, component |-> charge.component,
                        amount |-> charge.amount, at |-> at]]]
    /\ UNCHANGED <<clock, ledger, budget, policies, coreStatus, runs>>

RecordCommit(s) ==
    /\ session[s].pc = "recording"
    /\ ledger' = ledger \cup {session[s].event}
    /\ session' = [session EXCEPT ![s] = Idle]
    /\ UNCHANGED <<clock, budget, policies, coreStatus, runs, stamp>>

\* BudgetRepository.upsert; zero caps are allowed.
Upsert(b) ==
    /\ budget' = b
    /\ UNCHANGED <<clock, ledger, policies, coreStatus, runs, stamp, session>>

\* evaluate_stop: fail-closed, reached is exceeded.
evaluate_stop(total, daily, b) ==
    IF b = NoBudget THEN "no_budget"
    ELSE IF total >= b.total THEN "budget_exceeded"
    ELSE IF b.daily # NoCap /\ daily >= b.daily THEN "daily_budget_exceeded"
    ELSE "ok"

\* parse_structured_policy: the template's zero caps are refused.
parse_structured_policy(p) == p \in StructuredCostPolicy

\* record_policy_version: a recorded digest is returned, not recorded again,
\* and keeps its place in the order.
RecordPolicy(p) ==
    /\ parse_structured_policy(p)
    /\ \A i \in DOMAIN policies : policies[i] # p
    /\ policies' = Append(policies, p)
    /\ UNCHANGED <<clock, ledger, budget, coreStatus, runs, stamp, session>>

LatestPolicy == IF policies = <<>> THEN NoPolicy ELSE policies[Len(policies)]

\* Freezing, superseding and assembling are ReleaseEvidence's.
FreezeCore(c) ==
    /\ coreStatus[c] = "none" /\ \A d \in 1..(c - 1) : coreStatus[d] # "none"
    /\ coreStatus' = [coreStatus EXCEPT ![c] = "frozen"]
    /\ UNCHANGED <<clock, ledger, budget, policies, runs, stamp, session>>

RetireCore(c) ==
    /\ coreStatus[c] = "frozen"
    /\ coreStatus' = [coreStatus EXCEPT ![c] = "retired"]
    /\ UNCHANGED <<clock, ledger, budget, policies, runs, stamp, session>>

\* 0: no frozen candidate, or none with a complete core.
LatestCore == Max({0} \cup {c \in Cores : coreStatus[c] = "frozen"})

-----------------------------------------------------------------------------
(* The forecast.                                                           *)

\* _validate_assumptions, _model_remaining: model dollars come from priced
\* tokens only; what remains today is part of what remains.
ValidPlan(plan) ==
    /\ plan.priced
    /\ \A k \in COST_COMPONENTS : plan.today[k] <= plan.remaining[k]

Positive(b) == b # NoBudget /\ b.total > 0 /\ b.daily # NoCap /\ b.daily > 0

\* What derive_forecast refuses to work on.
ValidInput(v) ==
    /\ Positive(v.budget) /\ ValidPlan(v.plan)
    /\ \A e \in v.events : e.at <= v.asOf

\* The six values and limits.
Dimensions(v) ==
    LET Plan(f) == f["model_inference"] + f["cloud_runtime"] + f["other"]
        today == {e \in v.events : Day(e.at) = Day(v.asOf)}
    IN {[code |-> "all_cost_total_usd", limit |-> v.budget.total,
             value |-> Spent(v.events) + Plan(v.plan.remaining)],
        [code |-> "all_cost_daily_usd", limit |-> v.budget.daily,
             value |-> Spent(today) + Plan(v.plan.today)],
        [code |-> "model_cost_total_usd", limit |-> v.policy.model_total,
             value |-> SpentFor(v.events, "model_inference") + v.plan.remaining["model_inference"]],
        [code |-> "model_cost_daily_usd", limit |-> v.policy.model_daily,
             value |-> SpentFor(today, "model_inference") + v.plan.today["model_inference"]],
        [code |-> "cloud_spend_total_usd", limit |-> v.policy.cloud_total,
             value |-> SpentFor(v.events, "cloud_runtime") + v.plan.remaining["cloud_runtime"]],
        [code |-> "ci_minutes_daily", limit |-> v.policy.ci_daily, value |-> v.plan.ci]}

\* (value / limit) * 100 at four places, half up.
Utilization(d) == (2 * Whole * d.value + d.limit) \div (2 * d.limit)

Reason(stop, within, approval) ==
    IF stop # "ok" THEN "cost_stop_active"
    ELSE IF ~within THEN "limit_reached_or_exceeded"
    ELSE IF approval THEN "approval_required"
    ELSE "within_recorded_policy"

\* A cap met exactly taken for a cap kept.
DeriveInclusive(v) ==
    LET dims == Dimensions(v)
        stop == evaluate_stop(Spent(v.events), SpentOn(v.events, Day(v.asOf)), v.budget)
        within == \A d \in dims : d.value <= d.limit
        approval == \E d \in dims : Utilization(d) > v.policy.approval_above
    IN [stop |-> stop, within |-> within, approval |-> approval,
        reason |-> Reason(stop, within, approval)]

\* derive_forecast, with the stop generate_forecast hands it.
derive_forecast(v) ==
    LET dims == Dimensions(v)
        stop == evaluate_stop(Spent(v.events), SpentOn(v.events, Day(v.asOf)), v.budget)
        within == \A d \in dims : d.value < d.limit
        approval == \E d \in dims : Utilization(d) > v.policy.approval_above
    IN [stop |-> stop, within |-> within, approval |-> approval,
        reason |-> Reason(stop, within, approval)]

\* The row of a success and of a refusal.
Success(v) == [outcome |-> "succeeded", created_at |-> stamp + 1, inputs |-> v,
               summary |-> derive_forecast(v)]
Refusal(b, reason) == [outcome |-> "refused", created_at |-> stamp + 1, budget |-> b,
                       reason |-> reason]

\* ck_cost_forecast_runs_bounds: a budget a row names has positive caps.
BoundsCheck(run) == run.outcome = "refused" /\ run.budget # NoBudget => Positive(run.budget)

\* The insert of a refusal, with the audit entry, up to the commit.
Refuse(s, b, reason) ==
    LET run == Refusal(b, reason)
    IN /\ session' = [session EXCEPT ![s] =
                         IF BoundsCheck(run) THEN [pc |-> "inserted", run |-> run]
                         ELSE [pc |-> "aborted", budget |-> b, events |-> ledger, dims |-> {}]]
       /\ stamp' = stamp + 1

\* generate_forecast reads the scope, re-audits the core and reads the policy.
GenerateBegin(s, plan) ==
    /\ Free(s)
    /\ stamp < MaxStamp
    /\ LET core == LatestCore
           v == [pc |-> "scoped", asOf |-> clock, plan |-> plan, core |-> core,
                 policy |-> LatestPolicy, budget |-> NoBudget, events |-> {}]
       IN CASE core = 0 -> Refuse(s, NoBudget, "no_current_release_scope")
            [] core \in UnsoundCores -> Refuse(s, NoBudget, "evidence_core_reaudit_failed")
            [] core \in Cores \ UnsoundCores /\ LatestPolicy = NoPolicy ->
                   Refuse(s, NoBudget, "no_current_structured_cost_policy")
            [] OTHER -> session' = [session EXCEPT ![s] = v] /\ UNCHANGED stamp
    /\ UNCHANGED <<clock, ledger, budget, policies, coreStatus, runs>>

GenerateReadBudget(s) ==
    /\ session[s].pc = "scoped" /\ stamp < MaxStamp
    /\ IF budget = NoBudget \/ (budget # NoBudget /\ budget.daily = NoCap)
       THEN Refuse(s, NoBudget, "no_current_cost_budget")
       ELSE /\ session' = [session EXCEPT ![s].pc = "budgeted", ![s].budget = budget]
            /\ UNCHANGED stamp
    /\ UNCHANGED <<clock, ledger, budget, policies, coreStatus, runs>>

GenerateReadEvents(s) ==
    /\ session[s].pc = "budgeted" /\ stamp < MaxStamp
    /\ LET v == [session[s] EXCEPT !.pc = "derived", !.events = ledger]
       IN IF ledger = {} THEN Refuse(s, v.budget, "no_cost_history")
          ELSE IF ~ValidInput(v) THEN Refuse(s, v.budget, "cost_forecast_input_or_price_invalid")
          ELSE session' = [session EXCEPT ![s] = v] /\ UNCHANGED stamp
    /\ UNCHANGED <<clock, ledger, budget, policies, coreStatus, runs>>

\* cost_forecast_run_guard: the row binds the scope and the budget as they are.
RunGuard(v) == coreStatus[v.core] = "frozen" /\ v.budget = budget

Aborted(v) == [pc |-> "aborted", budget |-> v.budget, events |-> v.events, dims |-> Dimensions(v)]

\* _persist_success up to the commit.
GenerateInsert(s) ==
    /\ session[s].pc = "derived" /\ stamp < MaxStamp
    /\ LET v == session[s]
       IN IF RunGuard(v) /\ \A d \in Dimensions(v) : Utilization(d) <= MaxUtilization
          THEN session' = [session EXCEPT ![s] = [pc |-> "inserted", run |-> Success(v)]]
          ELSE session' = [session EXCEPT ![s] = Aborted(v)]
    /\ stamp' = stamp + 1
    /\ UNCHANGED <<clock, ledger, budget, policies, coreStatus, runs>>

\* The generated columns and the arithmetic of verify_cost_forecast_run over
\* the stored children.
WithinLimit(d) == ~(d.value >= d.limit)
Verified(run) ==
    LET v == run.inputs
        dims == Dimensions(v)
        stop == evaluate_stop(Spent(v.events), SpentOn(v.events, Day(v.asOf)), v.budget)
        within == \A d \in dims : WithinLimit(d)
        approval == \E d \in dims : Utilization(d) > v.policy.approval_above
    IN run.summary = [stop |-> stop, within |-> within, approval |-> approval,
                      reason |-> Reason(stop, within, approval)]

\* The children are the whole ledger of the project at commit.
SourceInventory(run) == Cardinality(run.inputs.events) = Cardinality(ledger)

GenerateCommit(s) ==
    /\ session[s].pc = "inserted"
    /\ LET run == session[s].run
       IN IF run.outcome = "succeeded" => SourceInventory(run) /\ Verified(run)
          THEN /\ runs' = runs \cup {run}
               /\ session' = [session EXCEPT ![s] = Idle]
          ELSE /\ session' = [session EXCEPT ![s] = Aborted(run.inputs)]
               /\ UNCHANGED runs
    /\ UNCHANGED <<clock, ledger, budget, policies, coreStatus, stamp>>

-----------------------------------------------------------------------------
(* Gate 9.                                                                 *)

\* coverage_for_project reads the candidate and the policy, the budget, the
\* ledger, and last the core of that candidate and the newest attempt.
GateBegin(s) ==
    /\ Free(s)
    /\ session' = [session EXCEPT ![s] =
           [pc |-> "gate_scoped", asOf |-> clock, core |-> LatestCore, policy |-> LatestPolicy,
            budget |-> NoBudget, events |-> {}, run |-> NoRun]]
    /\ UNCHANGED <<clock, ledger, budget, policies, coreStatus, runs, stamp>>

GateReadBudget(s) ==
    /\ session[s].pc = "gate_scoped"
    /\ session' = [session EXCEPT ![s].pc = "gate_budgeted", ![s].budget = budget]
    /\ UNCHANGED <<clock, ledger, budget, policies, coreStatus, runs, stamp>>

GateReadEvents(s) ==
    /\ session[s].pc = "gate_budgeted"
    /\ session' = [session EXCEPT ![s].pc = "gate_counted", ![s].events = ledger]
    /\ UNCHANGED <<clock, ledger, budget, policies, coreStatus, runs, stamp>>

\* A forecast kept while its ledger digest is not compared.
BindingIgnoresLedger(run, v) ==
    /\ run.outcome = "succeeded"
    /\ run.inputs.core = v.core /\ run.inputs.policy = v.policy
    /\ run.inputs.budget = v.budget
    /\ Day(run.inputs.asOf) = Day(v.asOf)

\* binding_current
BindingCurrent(run, v) ==
    /\ run.outcome = "succeeded"
    /\ run.inputs.core = v.core /\ run.inputs.policy = v.policy
    /\ run.inputs.budget = v.budget /\ run.inputs.events = v.events
    /\ Day(run.inputs.asOf) = Day(v.asOf)

LatestRun == CHOOSE r \in runs : \A q \in runs : q.created_at <= r.created_at

\* The ladder of gate 9 over that coverage.
Gate9(v) ==
    /\ v.core \in Cores \ UnsoundCores
    /\ v.policy # NoPolicy /\ Positive(v.budget) /\ v.events # {}
    /\ runs # {} /\ BindingCurrent(LatestRun, v)
    /\ evaluate_stop(Spent(v.events), SpentOn(v.events, Day(v.asOf)), v.budget) = "ok"
    /\ LatestRun.summary.within /\ ~LatestRun.summary.approval
    /\ LatestRun.summary.reason = "within_recorded_policy"

GateVerdict(s) ==
    /\ session[s].pc = "gate_counted"
    /\ session' = [session EXCEPT ![s] =
           IF Gate9(session[s]) THEN [session[s] EXCEPT !.pc = "passed", !.run = LatestRun] ELSE Idle]
    /\ UNCHANGED <<clock, ledger, budget, policies, coreStatus, runs, stamp>>

\* A transaction with uncommitted rows is rolled back: its caller failed, or
\* the connection was lost.
Rollback(s) ==
    /\ session[s].pc \in {"recording", "inserted"}
    /\ session' = [session EXCEPT ![s] = Idle]
    /\ UNCHANGED <<clock, ledger, budget, policies, coreStatus, runs, stamp>>

Tick ==
    /\ clock < MaxTime
    /\ clock' = clock + 1
    /\ UNCHANGED <<ledger, budget, policies, coreStatus, runs, stamp, session>>

Next ==
    \/ \E s \in Sessions :
        \/ \E ref \in Refs \cup {NoRef}, charge \in Charges, at \in 0..MaxTime :
               RecordInsert(s, ref, charge, at)
        \/ RecordCommit(s) \/ Rollback(s)
        \/ \E plan \in Plans : GenerateBegin(s, plan)
        \/ GenerateReadBudget(s) \/ GenerateReadEvents(s)
        \/ GenerateInsert(s) \/ GenerateCommit(s)
        \/ GateBegin(s) \/ GateReadBudget(s) \/ GateReadEvents(s) \/ GateVerdict(s)
    \/ \E b \in Budgets : Upsert(b)
    \/ \E p \in Policies : RecordPolicy(p)
    \/ \E c \in Cores : FreezeCore(c) \/ RetireCore(c)
    \/ Tick

Spec == Init /\ [][Next]_vars

-----------------------------------------------------------------------------
\* A charge is on the ledger once, however its report is retried and however
\* the retries overlap (record, cost_events' idempotency key).
ChargeCountsOnce ==
    \A e, f \in ledger : e.ref = f.ref /\ e.ref # NoRef => e = f

\* Where gate 9 passed, the money it had read was below every cap it had
\* read, with the remaining work of the forecast added: no cost recorded, cap
\* lowered, policy replaced or day turned between the forecast and the gate
\* slips through (coverage_for_project, verify_cost_forecast_run).
PassedGateIsAffordable ==
    \A s \in Sessions : session[s].pc = "passed" =>
        LET v == session[s]
            plan == v.run.inputs.plan
            Today(events) == {e \in events : Day(e.at) = Day(v.asOf)}
            Planned(f) == f["model_inference"] + f["cloud_runtime"] + f["other"]
        IN /\ Spent(v.events) + Planned(plan.remaining) < v.budget.total
           /\ Spent(Today(v.events)) + Planned(plan.today) < v.budget.daily
           /\ SpentFor(v.events, "model_inference") + plan.remaining["model_inference"]
                  < v.policy.model_total
           /\ SpentFor(Today(v.events), "model_inference") + plan.today["model_inference"]
                  < v.policy.model_daily
           /\ SpentFor(v.events, "cloud_runtime") + plan.remaining["cloud_runtime"]
                  < v.policy.cloud_total
           /\ plan.ci < v.policy.ci_daily

\* An attempt to forecast leaves a row, succeeded or refused.  One that
\* leaves none met a budget with a zero cap (the refusal names that budget
\* and the table's check rejects it), a dimension whose utilization does not
\* fit its column, or a scope, budget or ledger that changed under it: the
\* derivation in Python and the one in the database never disagree
\* (generate_forecast, _record_refusal, verify_cost_forecast_run).
AttemptStep ==
    \A s \in Sessions :
        session'[s].pc = "aborted" /\ session[s].pc # "aborted" =>
            LET v == session'[s]
            IN \/ ~Positive(v.budget)
               \/ \E d \in v.dims : Utilization(d) > MaxUtilization
               \/ v.budget # budget \/ v.events # ledger
               \/ \E c \in Cores : coreStatus[c] = "retired"
=============================================================================
