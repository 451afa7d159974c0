----------------------------- MODULE OpsSignals -----------------------------
(***************************************************************************)
(* Post-launch signal collection (slice 56): collect_ops_signals assesses  *)
(* the eleven signal classes of one project inside a REPEATABLE READ       *)
(* transaction, records the run once per idempotency key, and retries the  *)
(* whole operation in a fresh transaction when another writer of the same  *)
(* key commits first and cannot be seen yet.                               *)
(*                                                                         *)
(* Python computes the rows and migration 0055 states the same matrix as   *)
(* CHECK constraints and triggers; a row that the two judge differently    *)
(* fails the whole collection with an error that is not retried.           *)
(*                                                                         *)
(* Amounts are small integers, time is counted in ticks, a request digest  *)
(* is the set of samples it was computed from.                             *)
(***************************************************************************)
EXTENDS Integers, FiniteSets, FiniteSetsExt

CONSTANTS Keys,        \* idempotency keys
          SampleLists, \* sets of caller samples a caller may send
          Charges,     \* cost events that may be recorded: [id, at, amount]
          Budgets,     \* recorded budgets: [present, total, daily], daily -1 for NULL
          FailedRuns,  \* runs that may fail
          Sessions,
          DayLength,   \* ticks of a UTC day
          MaxTime,     \* bound on the clock
          MAX_IDEMPOTENCY_RACE_RETRIES

SIGNAL_CLASSES ==
    {"uptime", "error_rates", "latency", "job_failures", "security_alerts",
     "user_journey_failures", "data_quality_issues", "cost_anomalies",
     "model_output_drift", "support_tickets", "incident_reports"}

ALLOWED_SAMPLE_CLASSES ==
    {"error_rates", "latency", "user_journey_failures", "data_quality_issues",
     "model_output_drift"}

STRUCTURALLY_UNOBSERVED ==
    {"uptime", "security_alerts", "support_tickets", "incident_reports"}

LEDGER_CLASSES == {"job_failures", "cost_anomalies"}

\* No budget recorded for the project.
NoBudget == [present |-> FALSE, total |-> 0, daily |-> -1]

\* What the proofs assume of the constants: amounts, ceilings, metrics and times
\* are numbers.
Parameters ==
    /\ MaxTime \in Nat
    /\ \A e \in Charges : e.amount \in Int
    /\ Budgets \subseteq [present : BOOLEAN, total : Int, daily : Int]
    /\ \A samples \in SampleLists : \A x \in samples : x.metric \in Int /\ x.threshold \in Int

VARIABLES clock,    \* ticks
          ledger,   \* committed cost events
          failed,   \* committed run_failed steps: [run, at]
          budget,   \* the project's budget row, or NoBudget
          runs,     \* committed ops_observation_runs with their children
          session   \* the collections in flight

vars == <<clock, ledger, failed, budget, runs, session>>

SignalRow == [status : {"observed", "caller_supplied_unverified", "not_observed"},
              reason : STRING,
              state  : {"not_evaluable", "ok", "breached"},
              metric : Int, daily : Int,          \* metric and metric_money_daily
              threshold : Int, cap : Int,         \* threshold and daily threshold
              start : Int, end : Int]             \* the window, -1 for NULL

OpsObservationRun ==
    [key : Keys, request : SampleLists, as_of : 0..MaxTime,
     rows : [SIGNAL_CLASSES -> SignalRow], counters : [observed : Nat,
     caller : Nat, missing : Nat, breached : Nat]]

Idle == [stage |-> "idle", key |-> "", request |-> {}, as_of |-> 0, attempt |-> 0,
         seen |-> [ledger |-> {}, failed |-> {}, budget |-> NoBudget, runs |-> {}]]

Init ==
    /\ clock = 0
    /\ ledger = {}
    /\ failed = {}
    /\ budget = NoBudget
    /\ runs = {}
    /\ session = [s \in Sessions |-> Idle]

-----------------------------------------------------------------------------
\* The samples that parse: sampleable classes only, each at most once.
parse_samples(samples) ==
    /\ \A x \in samples : x.class \in ALLOWED_SAMPLE_CLASSES
    /\ \A x, y \in samples : x.class = y.class => x = y

cost_event_in_total(e, as_of) == e.at < as_of

cost_event_in_daily(e, as_of) ==
    /\ e.at < as_of
    /\ e.at >= (as_of \div DayLength) * DayLength

\* One aggregate query over the events the snapshot holds.
cost_spend_as_of(events, as_of) ==
    [total |-> MapThenSumSet(LAMBDA e : e.amount,
                             {e \in events : cost_event_in_total(e, as_of)}),
     daily |-> MapThenSumSet(LAMBDA e : e.amount,
                             {e \in events : cost_event_in_daily(e, as_of)})]

failed_run_ids_as_of(steps, as_of) == {f.run : f \in {x \in steps : x.at < as_of}}

\* A variant that stops only above the ceiling.
StopAboveCeiling(spend, b) ==
    IF ~b.present THEN "no_budget"
    ELSE IF spend.total > b.total THEN "budget_exceeded"
    ELSE IF b.daily # -1 /\ spend.daily > b.daily THEN "daily_budget_exceeded"
    ELSE "none"

\* evaluate_stop over the collected totals: reaching a ceiling already stops.
stop_decision_for_snapshot(spend, b) ==
    IF ~b.present THEN "no_budget"
    ELSE IF spend.total >= b.total THEN "budget_exceeded"
    ELSE IF b.daily # -1 /\ spend.daily >= b.daily THEN "daily_budget_exceeded"
    ELSE "none"

not_observed_row(class) ==
    [status |-> "not_observed", reason |-> class, state |-> "not_evaluable",
     metric |-> 0, daily |-> 0, threshold |-> 0, cap |-> 0, start |-> -1, end |-> -1]

job_failures_row(ids, as_of) ==
    [status |-> "observed", reason |-> "uaid_runtime_failed_run_count",
     state |-> "not_evaluable", metric |-> Cardinality(ids), daily |-> 0,
     threshold |-> 0, cap |-> 0, start |-> -1, end |-> as_of]

\* A missing budget is observed and not evaluable, never a breach.
cost_anomalies_row(spend, b, as_of) ==
    LET stop == stop_decision_for_snapshot(spend, b)
    IN  [status |-> "observed",
         reason |-> CASE stop = "no_budget" -> "cost_no_budget"
                      [] stop = "budget_exceeded" -> "cost_budget_exceeded"
                      [] stop = "daily_budget_exceeded" -> "cost_daily_budget_exceeded"
                      [] OTHER -> "cost_within_budget",
         state |-> CASE stop = "no_budget" -> "not_evaluable"
                     [] stop = "none" -> "ok"
                     [] OTHER -> "breached",
         metric |-> spend.total, daily |-> spend.daily,
         threshold |-> b.total, cap |-> b.daily, start |-> -1, end |-> as_of]

SampleWindowValid(x, as_of) == x.start < x.end /\ x.end <= as_of

evaluate_caller_threshold(x) ==
    [status |-> "caller_supplied_unverified",
     reason |-> IF x.metric > x.threshold THEN "caller_threshold_breached"
                ELSE "caller_threshold_ok",
     state |-> IF x.metric > x.threshold THEN "breached" ELSE "ok",
     metric |-> x.metric, daily |-> 0, threshold |-> x.threshold, cap |-> 0,
     start |-> x.start, end |-> x.end]

\* Samples are laid over the classes nothing observed.
merge_samples(rows, samples) ==
    [c \in SIGNAL_CLASSES |->
        IF \E x \in samples : x.class = c
          THEN evaluate_caller_threshold(CHOOSE x \in samples : x.class = c)
          ELSE rows[c]]

build_assessment(seen, as_of, samples) ==
    merge_samples(
        [c \in SIGNAL_CLASSES |->
            CASE c = "job_failures" ->
                   job_failures_row(failed_run_ids_as_of(seen.failed, as_of), as_of)
              [] c = "cost_anomalies" ->
                   cost_anomalies_row(cost_spend_as_of(seen.ledger, as_of),
                                      seen.budget, as_of)
              [] OTHER -> not_observed_row(c)],
        samples)

CountOf(rows, P(_)) == Cardinality({c \in SIGNAL_CLASSES : P(rows[c])})

compute_counters(rows) ==
    [observed |-> CountOf(rows, LAMBDA r : r.status = "observed"),
     caller   |-> CountOf(rows, LAMBDA r : r.status = "caller_supplied_unverified"),
     missing  |-> CountOf(rows, LAMBDA r : r.status = "not_observed"),
     breached |-> CountOf(rows, LAMBDA r : r.state = "breached")]

-----------------------------------------------------------------------------
\* cost_anomalies_shape: the database's own reading of the ceilings.
CostShape(r) ==
    CASE r.reason = "cost_no_budget" -> r.state = "not_evaluable"
      [] r.reason = "cost_budget_exceeded" ->
           r.state = "breached" /\ r.metric >= r.threshold
      [] r.reason = "cost_daily_budget_exceeded" ->
           /\ r.state = "breached" /\ r.cap # -1
           /\ r.metric < r.threshold /\ r.daily >= r.cap
      [] r.reason = "cost_within_budget" ->
           /\ r.state = "ok" /\ r.metric < r.threshold
           /\ r.cap # -1 => r.daily < r.cap
      [] OTHER -> FALSE

\* caller_ratio_shape, caller_ms_shape and caller_count_shape.
CallerShape(r) ==
    r.status = "caller_supplied_unverified" =>
        /\ r.state = "ok" => r.metric <= r.threshold /\ r.reason = "caller_threshold_ok"
        /\ r.state = "breached" =>
             r.metric > r.threshold /\ r.reason = "caller_threshold_breached"
        /\ r.state # "not_evaluable"

\* locked_not_observed, locked_observed and the shapes of the other classes.
ClassShape(c, r) ==
    /\ c \in STRUCTURALLY_UNOBSERVED => r.status = "not_observed"
    /\ c \in LEDGER_CLASSES => r.status = "observed"
    /\ c \in ALLOWED_SAMPLE_CLASSES => r.status # "observed"
    /\ r.status = "not_observed" => r.state = "not_evaluable" /\ r.end = -1

\* ops_signal_results_window_guard.
WindowGuard(r, as_of) ==
    CASE r.status = "not_observed" -> r.start = -1 /\ r.end = -1
      [] r.status = "observed" -> r.start = -1 /\ r.end # -1 /\ r.end <= as_of
      [] OTHER -> r.start < r.end /\ r.end <= as_of

\* ops_observation_runs_count_match, deferred to the commit.
CountMatch(run) ==
    /\ DOMAIN run.rows = SIGNAL_CLASSES
    /\ run.counters = compute_counters(run.rows)

\* What the database accepts of a run with its eleven children.
Insertable(run) ==
    /\ CostShape(run.rows["cost_anomalies"])
    /\ \A c \in SIGNAL_CLASSES :
         /\ CallerShape(run.rows[c])
         /\ ClassShape(c, run.rows[c])
         /\ WindowGuard(run.rows[c], run.as_of)
    /\ CountMatch(run)

\* uq_ops_observation_runs_idempotency.
KeyFree(k) == ~ \E r \in runs : r.key = k

-----------------------------------------------------------------------------
Settle(s) == session' = [session EXCEPT ![s] = Idle]

Committed == [ledger |-> ledger, failed |-> failed, budget |-> budget, runs |-> runs]

\* The first statement of a REPEATABLE READ transaction fixes what it sees.
Begin(s, k, samples) ==
    /\ session[s].stage = "idle"
    /\ parse_samples(samples)
    /\ session' = [session EXCEPT ![s] =
         [stage |-> "reading", key |-> k, request |-> samples, as_of |-> clock,
          attempt |-> 1, seen |-> Committed]]
    /\ UNCHANGED <<clock, ledger, failed, budget, runs>>

\* The run recorded under the key is visible: it is returned, or the reuse of
\* the key for another request is refused.  Nothing is written either way.
Replay(s) ==
    /\ session[s].stage = "reading"
    /\ \E r \in session[s].seen.runs : r.key = session[s].key
    /\ Settle(s)
    /\ UNCHANGED <<clock, ledger, failed, budget, runs>>

NotReplayed(s) ==
    /\ session[s].stage = "reading"
    /\ ~ \E r \in session[s].seen.runs : r.key = session[s].key

\* A sample whose window has not ended refuses the whole collection.
RefuseWindow(s) ==
    /\ NotReplayed(s)
    /\ \E x \in session[s].request : ~SampleWindowValid(x, session[s].as_of)
    /\ Settle(s)
    /\ UNCHANGED <<clock, ledger, failed, budget, runs>>

\* The run this collection is about to insert.
Assessed(s) ==
    LET rows == build_assessment(session[s].seen, session[s].as_of, session[s].request)
    IN  [key |-> session[s].key, request |-> session[s].request,
         as_of |-> session[s].as_of, rows |-> rows, counters |-> compute_counters(rows)]

Ready(s) ==
    /\ NotReplayed(s)
    /\ \A x \in session[s].request : SampleWindowValid(x, session[s].as_of)

\* record_run wins the key: parent, children and audit row commit together.
\* A row that a CHECK refuses would end the call with an IntegrityError, which
\* is not retried; CollectionFitsChecks says there is none.
Record(s) ==
    /\ Ready(s)
    /\ KeyFree(session[s].key)
    /\ Insertable(Assessed(s))
    /\ runs' = runs \cup {Assessed(s)}
    /\ Settle(s)
    /\ UNCHANGED <<clock, ledger, failed, budget>>

\* A variant that tries again in the transaction that lost.
RetryInSameSnapshot(s) ==
    [session[s] EXCEPT !.attempt = @ + 1]

\* The next attempt of the loop: a fresh transaction, with a new snapshot and
\* a new transaction_timestamp().
Retried(s) ==
    [session[s] EXCEPT !.attempt = @ + 1, !.as_of = clock, !.seen = Committed]

\* The key was taken by a run this snapshot does not hold.
Collide(s) ==
    /\ Ready(s)
    /\ ~KeyFree(session[s].key)
    /\ session[s].attempt < MAX_IDEMPOTENCY_RACE_RETRIES
    /\ session' = [session EXCEPT ![s] = Retried(s)]
    /\ UNCHANGED <<clock, ledger, failed, budget, runs>>

\* External: what the collector reads is written by the cost ledger, the
\* budget repository and the workflow runtime.
RecordCharge(e) ==
    /\ e \notin ledger /\ e.at <= clock
    /\ ledger' = ledger \cup {e}
    /\ UNCHANGED <<clock, failed, budget, runs, session>>

RecordFailure(r) ==
    /\ ~ \E f \in failed : f.run = r
    /\ failed' = failed \cup {[run |-> r, at |-> clock]}
    /\ UNCHANGED <<clock, ledger, budget, runs, session>>

SetBudget(b) ==
    /\ b # budget
    /\ budget' = b
    /\ UNCHANGED <<clock, ledger, failed, runs, session>>

Tick ==
    /\ clock < MaxTime
    /\ clock' = clock + 1
    /\ UNCHANGED <<ledger, failed, budget, runs, session>>

Next ==
    \/ \E s \in Sessions :
         \/ \E k \in Keys, samples \in SampleLists : Begin(s, k, samples)
         \/ Replay(s) \/ RefuseWindow(s) \/ Record(s) \/ Collide(s)
    \/ \E e \in Charges : RecordCharge(e)
    \/ \E r \in FailedRuns : RecordFailure(r)
    \/ \E b \in Budgets : SetBudget(b)
    \/ Tick

Spec == Init /\ [][Next]_vars

-----------------------------------------------------------------------------
\* Every variable has its type.
TypeOK ==
    /\ clock \in 0..MaxTime
    /\ ledger \subseteq Charges
    /\ \A f \in failed : f.run \in FailedRuns /\ f.at \in 0..MaxTime
    /\ budget \in Budgets \cup {NoBudget}
    /\ \A r \in runs : r.key \in Keys /\ r.request \in SampleLists
    /\ \A s \in Sessions : session[s].stage \in {"idle", "reading"}

\* The evaluator of app/ops and the CHECK constraints of migration 0055 read
\* every ceiling, threshold and window the same way: a collection that got as
\* far as inserting is never refused by the database, however the ledger, the
\* budget and the clock moved before its snapshot.
CollectionFitsChecks ==
    \A s \in Sessions : Ready(s) => Insertable(Assessed(s))

\* The retry loop of collect_ops_signals settles on its second attempt: the
\* snapshot taken after a lost key sees the winner, so the bounded loop never
\* ends in OpsSignalIdempotencyRace.
SecondCollectionSettles ==
    \A s \in Sessions : session[s].attempt <= 2
=============================================================================
